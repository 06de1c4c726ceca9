-------------------------- MODULE Keyboard4Proofs ---------------------------
(***************************************************************************)
(* What keyboard4 keeps for any table of keys and any number of them: its  *)
(* types, and that the LEDs show the locks whenever the LED loop is left.  *)
(* If the table is right (TableRight) it loses whole events only, behind   *)
(* the press of a lock key, its key state follows the keys that are down,  *)
(* and letters come out as the LEDs and the keys under the fingers say.    *)
(***************************************************************************)
EXTENDS Keyboard4, Ps2CodesProofs

-----------------------------------------------------------------------------
(* The LEDs. Outside of a command that is under way the keyboard has been   *)
(* told the locks, or holds them as the parameter it has yet to take. An    *)
(* ACK that was meant for SET_LEDS may end the loop before that.            *)
LedInv ==
  pc \in {"poll", "led_ack"} =>
    \/ cmd = <<>> /\ leds = locks
    \/ cmd = <<Param(locks)>>

LEMMA InitLedInv == Init => LedInv
  BY DEF Init, LedInv

LEMMA NextLedInv ==
  ASSUME LedInv, [Next]_vars
  PROVE  LedInv'
<1>1. CASE UNCHANGED <<cmd, leds, locks, pc>>
  BY <1>1 DEF LedInv
<1>2. CASE User
  <2>1. UNCHANGED <<cmd, leds, locks, pc>>
    BY <1>2 DEF User, Press, Release, PressPause, Type
  <2> QED
    BY <1>1, <2>1
<1>3. CASE Obey
  <2>1. /\ cmd # <<>> /\ cmd' = <<>> /\ UNCHANGED <<locks, pc>>
        /\ leds' = IF Head(cmd).param THEN Head(cmd).leds ELSE leds
    BY <1>3 DEF Obey
  <2>2. CASE cmd = <<Param(locks)>>
    <3>1. Head(cmd) = Param(locks)
      BY <2>2
    <3>2. Param(locks).param = TRUE /\ Param(locks).leds = locks
      BY Zenon DEF Param
    <3>3. leds' = locks
      BY <2>1, <3>1, <3>2
    <3> QED
      BY <2>1, <3>3 DEF LedInv
  <2>3. CASE cmd # <<Param(locks)>>
    BY <2>1, <2>3 DEF LedInv
  <2> QED
    BY <2>2, <2>3
<1>4. CASE PollEvent \/ PollEmpty
  <2>1. UNCHANGED <<cmd, leds, locks, pc>>
    BY <1>4 DEF PollEvent, PollEmpty
  <2> QED
    BY <1>1, <2>1
<1>5. CASE PollChar
  <2>1. /\ UNCHANGED <<cmd, leds>> /\ pc = "poll"
        /\ pc' = IF locks' # locks THEN "led_cmd" ELSE "poll"
    BY <1>5 DEF PollChar
  <2> QED
    BY <2>1 DEF LedInv
<1>6. CASE WriteSetLeds
  BY <1>6 DEF WriteSetLeds, LedInv
<1>7. CASE WriteParam
  BY <1>7 DEF WriteParam, Write, LedInv
<1>8. CASE ReadAnswer
  <2>1. UNCHANGED <<cmd, leds, locks>> /\ pc = "led_ack"
    BY <1>8 DEF ReadAnswer
  <2> QED
    BY <2>1 DEF LedInv
<1>9. CASE UNCHANGED vars
  BY <1>1, <1>9 DEF vars
<1> QED
  BY <1>2, <1>3, <1>4, <1>5, <1>6, <1>7, <1>8, <1>9 DEF Next, Driver

(* Whenever the driver polls and the keyboard has taken its commands, the   *)
(* LEDs show the locks of kc_state: the loop of                             *)
(* ps2_send_keyboard_cmd_param() may take an old ACK for its answer, but    *)
(* never before the parameter was written.                                  *)
THEOREM LedsShowLocks == Spec => []LedsMatch
<1>1. LedInv /\ [Next]_vars => LedInv'
  BY NextLedInv
<1>2. LedInv => LedsMatch
  <2>1. \A l : <<l>> # <<>>
    OBVIOUS
  <2> QED
    BY <2>1 DEF LedInv, LedsMatch, Settled
<1> QED
  BY <1>1, <1>2, InitLedInv, PTL DEF Spec

-----------------------------------------------------------------------------
(* The types.                                                                *)

(* What an event does to kc_state.                                          *)
LEMMA UpdateTypes ==
  ASSUME NEW ks \in [VKeys -> BOOLEAN], NEW ev \in Event, NEW ls \in SUBSET Locks
  PROVE  /\ UpdateKeys(ks, ev) \in [VKeys -> BOOLEAN]
         /\ Toggle(ls, ev) \in SUBSET Locks
<1>0. ev.vkey \in VKeys /\ ev.pressed \in BOOLEAN /\ Pause \in VKeys
  BY CodesAssumption DEF Event
<1>1. UpdateKeys(ks, ev) \in [VKeys -> BOOLEAN]
  <2> DEFINE single == [ks EXCEPT ![Pause] = FALSE, ![ev.vkey] = ev.pressed]
  <2>1. single \in [VKeys -> BOOLEAN]
    BY <1>0, Zenon
  <2>2. UpdateKeys(ks, ev) =
          [v \in VKeys |-> IF v \in DOMAIN Combined THEN \E w \in Combined[v] : single[w]
                           ELSE single[v]]
    BY Zenon DEF UpdateKeys
  <2> HIDE DEF single
  <2>3. \A v \in VKeys : (IF v \in DOMAIN Combined THEN \E w \in Combined[v] : single[w]
                          ELSE single[v]) \in BOOLEAN
    BY <2>1, Zenon
  <2> QED
    BY <2>2, <2>3, Zenon
<1>2. Toggle(ls, ev) \in SUBSET Locks
  BY DEF Toggle
<1> QED
  BY <1>1, <1>2

LEMMA CharTypes ==
  ASSUME NEW ks \in [VKeys -> BOOLEAN], NEW ev \in Event, NEW ls \in SUBSET Locks
  PROVE  CharOf(ev, ks, ls) \in Char \union {NoChar}
<1>1. ASSUME NEW s, NEW ct, NEW ca, ct \in BOOLEAN
      PROVE  Form(s, ct, ca) \in {"ch", "uppercase", "ctrlchar"}
  <2>1. CASE s # ca
    BY <2>1, Zenon DEF Form
  <2>2. CASE s = ca /\ ct = TRUE
    BY <2>2, Zenon DEF Form
  <2>3. CASE s = ca /\ ct = FALSE
    BY <2>3, Zenon DEF Form
  <2> QED
    BY <1>1, <2>1, <2>2, <2>3
<1>2. ks[Control] \in BOOLEAN
  BY Keyboard4Assumption
<1>3. Form(ks[Shift], ks[Control], Caps \in ls) \in {"ch", "uppercase", "ctrlchar"}
  <2> DEFINE sh == ks[Shift]
             ct == ks[Control]
             ca == Caps \in ls
  <2> HIDE DEF sh, ct, ca
  <2>1. ct \in BOOLEAN
    BY <1>2 DEF ct
  <2>2. Form(sh, ct, ca) \in {"ch", "uppercase", "ctrlchar"}
    BY <1>1, <2>1
  <2> QED
    BY <2>2, Zenon DEF sh, ct, ca
<1>4. CASE ev.pressed /\ ev.vkey \in Letters
  <2> DEFINE f == Form(ks[Shift], ks[Control], Caps \in ls)
  <2>1. CharOf(ev, ks, ls) = [vkey |-> ev.vkey, form |-> f]
    BY <1>4, Zenon DEF CharOf
  <2> HIDE DEF f
  <2>2. [vkey |-> ev.vkey, form |-> f] \in Char
    BY <1>3, <1>4, Zenon DEF Char, f
  <2> QED
    BY <2>1, <2>2
<1>5. CASE ~(ev.pressed /\ ev.vkey \in Letters)
  BY <1>5, Zenon DEF CharOf
<1> QED
  BY <1>4, <1>5

-----------------------------------------------------------------------------
(* What the driver reads.                                                   *)
LEMMA ReadTypes ==
  ASSUME wire \in Seq(Item), Read
  PROVE  Head(wire) \in Item /\ wire' \in Seq(Item)
  BY HeadTailProperties DEF Read

LEMMA DecodeTypes ==
  ASSUME wire \in Seq(Item), kb \in State, Decode
  PROVE  wire' \in Seq(Item) /\ kb' \in State /\ event' \in Told
<1>1. Head(wire) \in Item /\ wire' \in Seq(Item)
  BY ReadTypes DEF Decode
<1>2. Head(wire).byte \in Byte
  BY <1>1 DEF Item
<1> DEFINE r == Push(kb, Head(wire).byte)
<1>3. kb' = r.next /\ event' = r.ev
  BY DEF Decode
<1>4. r.next \in State /\ r.ev \in Told
  BY <1>2, PushTypes
<1> HIDE DEF r
<1> QED
  BY <1>1, <1>3, <1>4

LEMMA SawTypes == ASSUME NEW ev \in Told PROVE Saw(ev) \subseteq VKeys
  BY DEF Saw, Told, Event

(* TypeOK by parts, of what is sent, of the driver and of the rest.         *)
Sent  == /\ wire \in Seq(Item)
         /\ cmd \in {<<>>, <<SetLeds>>} \union {<<Param(l)>> : l \in SUBSET Locks}
         /\ held \subseteq Keys /\ leds \subseteq Locks /\ typed \in 0 .. Typing
Known == /\ kb \in State /\ event \in Told
         /\ keystate \in [VKeys -> BOOLEAN] /\ locks \subseteq Locks
         /\ char \in Char \union {NoChar}
Where == /\ mode \in {"event", "char"}
         /\ pc \in {"poll", "led_cmd", "led_param", "led_ack"}
         /\ missed \subseteq VKeys

TypeInv == Sent /\ Known /\ Where

LEMMA TypeParts == TypeOK <=> TypeInv
  BY DEF TypeOK, TypeInv, Sent, Known, Where, Item, Told

LEMMA InitTypeInv == Init => TypeInv
<1> SUFFICES ASSUME Init
             PROVE  TypeInv
  OBVIOUS
<1>1. Sent
  BY Keyboard4Assumption DEF Init, Sent
<1>2. Known
  <2>1. kb \in State
    BY DEF Init, Normal, Flags, State
  <2>2. event \in Told /\ char \in Char \union {NoChar} /\ locks \subseteq Locks
    BY Keyboard4Assumption DEF Init, Told
  <2>3. keystate \in [VKeys -> BOOLEAN]
    BY Zenon DEF Init
  <2> QED
    BY <2>1, <2>2, <2>3 DEF Known
<1>3. Where
  BY DEF Init, Where
<1> QED
  BY <1>1, <1>2, <1>3 DEF TypeInv

LEMMA NextTypeInv ==
  ASSUME TypeInv, [Next]_vars
  PROVE  TypeInv'
<1>0. \A p \in Seq(Item) : wire \o p \in Seq(Item)
  <2>1. wire \in Seq(Item)
    BY DEF TypeInv, Sent
  <2> QED
    BY <2>1, ConcatProperties
<1>1. CASE User
  <2>1. PICK p \in Seq(Item) : Type(p)
    BY <1>1, Packet DEF User, Press, Release, PressPause
  <2>2. held' \subseteq Keys
    BY <1>1 DEF User, Press, Release, PressPause, TypeInv, Sent
  <2>3. wire' \in Seq(Item)
    BY <1>0, <2>1 DEF Type, Send
  <2>4. typed' \in 0 .. Typing
    <3>1. typed \in 0 .. Typing /\ typed < Typing /\ typed' = typed + 1
      BY <2>1 DEF Type, TypeInv, Sent
    <3> QED
      BY <3>1, Keyboard4Assumption
  <2>5. UNCHANGED <<cmd, leds, kb, event, keystate, locks, char, mode, pc, missed>>
    BY <2>1 DEF Type
  <2> QED
    BY <2>2, <2>3, <2>4, <2>5 DEF TypeInv, Sent, Known, Where
<1>2. CASE Obey
  <2>1. wire' \in Seq(Item)
    BY <1>0, <1>2, Packet DEF Obey, Send
  <2>2. leds' \subseteq Locks
    <3>1. leds' = (IF Head(cmd).param THEN Head(cmd).leds ELSE leds) /\ cmd # <<>>
      BY <1>2 DEF Obey
    <3>2. leds \subseteq Locks
      BY DEF TypeInv, Sent
    <3>3. CASE cmd = <<SetLeds>>
      <4>1. Head(cmd).param = FALSE
        BY <3>3 DEF SetLeds
      <4> QED
        BY <3>1, <3>2, <4>1
    <3>4. CASE \E l \in SUBSET Locks : cmd = <<Param(l)>>
      <4>1. PICK l \in SUBSET Locks : cmd = <<Param(l)>>
        BY <3>4
      <4>2. Head(cmd) = Param(l)
        BY <4>1
      <4>3. Param(l).leds = l
        BY DEF Param
      <4> QED
        BY <3>1, <3>2, <4>2, <4>3
    <3> QED
      BY <3>1, <3>3, <3>4 DEF TypeInv, Sent
  <2>3. cmd' = <<>> /\ UNCHANGED <<held, kb, event, keystate, locks, char, mode, pc, missed, typed>>
    BY <1>2 DEF Obey
  <2> QED
    BY <2>1, <2>2, <2>3 DEF TypeInv, Sent, Known, Where
<1>3. CASE PollEvent
  <2>1. wire' \in Seq(Item) /\ kb' \in State /\ event' \in Told
    BY <1>3, DecodeTypes DEF PollEvent, TypeInv, Sent, Known
  <2>2. missed' \subseteq VKeys
    BY <1>3, <2>1, SawTypes DEF PollEvent, TypeInv, Where
  <2>3. mode' \in {"event", "char"}
    BY <1>3 DEF PollEvent
  <2>4. UNCHANGED <<cmd, held, leds, keystate, locks, char, pc, typed>>
    BY <1>3 DEF PollEvent
  <2> QED
    BY <2>1, <2>2, <2>3, <2>4 DEF TypeInv, Sent, Known, Where
<1>4. CASE PollChar
  <2>0. keystate \in [VKeys -> BOOLEAN] /\ locks \in SUBSET Locks
    BY DEF TypeInv, Known
  <2>1. wire' \in Seq(Item) /\ kb' \in State /\ event' \in Told
    BY <1>4, DecodeTypes DEF PollChar, TypeInv, Sent, Known
  <2>2. /\ keystate' = IF event' = NoEvent THEN keystate ELSE UpdateKeys(keystate, event')
        /\ locks' = IF event' = NoEvent THEN locks ELSE Toggle(locks, event')
        /\ char' = IF event' = NoEvent THEN NoChar ELSE CharOf(event', keystate', locks')
    BY <1>4 DEF PollChar
  <2>3. keystate' \in [VKeys -> BOOLEAN] /\ locks' \in SUBSET Locks
    <3>1. CASE event' = NoEvent
      BY <2>0, <2>2, <3>1, Zenon
    <3>2. CASE event' # NoEvent
      <4>1. event' \in Event
        BY <2>1, <3>2 DEF Told
      <4> QED
        BY <2>0, <2>2, <3>2, <4>1, UpdateTypes
    <3> QED
      BY <3>1, <3>2
  <2>4. char' \in Char \union {NoChar}
    <3>1. CASE event' = NoEvent
      BY <2>2, <3>1
    <3>2. CASE event' # NoEvent
      <4>1. event' \in Event
        BY <2>1, <3>2 DEF Told
      <4> QED
        BY <2>2, <2>3, <3>2, <4>1, CharTypes
    <3> QED
      BY <3>1, <3>2
  <2>5. missed' \subseteq VKeys
    BY <1>4 DEF PollChar, TypeInv, Where
  <2>6. mode' \in {"event", "char"} /\ pc' \in {"led_cmd", "poll"}
    BY <1>4 DEF PollChar
  <2>7. UNCHANGED <<cmd, held, leds, typed>>
    BY <1>4 DEF PollChar
  <2> QED
    BY <2>1, <2>3, <2>4, <2>5, <2>6, <2>7 DEF TypeInv, Sent, Known, Where
<1>5. CASE PollEmpty
  <2>1. event' \in Told /\ char' \in Char \union {NoChar}
    BY <1>5 DEF PollEmpty, Told, TypeInv, Known
  <2>2. UNCHANGED <<wire, cmd, held, leds, kb, keystate, locks, mode, pc, missed, typed>>
    BY <1>5 DEF PollEmpty
  <2> QED
    BY <2>1, <2>2 DEF TypeInv, Sent, Known, Where
<1>6. CASE WriteSetLeds \/ WriteParam
  <2>1. cmd' \in {<<SetLeds>>} \union {<<Param(l)>> : l \in SUBSET Locks}
    BY <1>6 DEF WriteSetLeds, WriteParam, Write, TypeInv, Known
  <2>2. /\ pc' \in {"led_param", "led_ack"}
        /\ UNCHANGED <<wire, held, leds, kb, event, keystate, locks, char, mode, missed, typed>>
    BY <1>6 DEF WriteSetLeds, WriteParam
  <2> QED
    BY <2>1, <2>2 DEF TypeInv, Sent, Known, Where
<1>7. CASE ReadAnswer
  <2>1. Head(wire) \in Item /\ wire' \in Seq(Item)
    BY <1>7, ReadTypes DEF ReadAnswer, TypeInv, Sent
  <2>2. Head(wire).says \in Told
    BY <2>1 DEF Item
  <2>3. missed' \subseteq VKeys
    BY <1>7, <2>2, SawTypes DEF ReadAnswer, TypeInv, Where
  <2>4. /\ pc' \in {"poll", "led_cmd"}
        /\ UNCHANGED <<cmd, held, leds, kb, event, keystate, locks, char, mode, typed>>
    BY <1>7 DEF ReadAnswer
  <2> QED
    BY <2>1, <2>3, <2>4 DEF TypeInv, Sent, Known, Where
<1>8. CASE UNCHANGED vars
  BY <1>8 DEF vars, TypeInv, Sent, Known, Where
<1> QED
  BY <1>1, <1>2, <1>3, <1>4, <1>5, <1>6, <1>7, <1>8 DEF Next, Driver

(* Whatever the tables say (a wrong virtual key among them) and whatever is *)
(* typed, the decoder's state, the events and the characters it makes and   *)
(* kc_state stay what they are declared to be: num_ignore never falls below *)
(* 0, and a lock or a state is only ever that of a virtual key.             *)
THEOREM TypeCorrect == Spec => []TypeOK
<1>1. TypeInv /\ [Next]_vars => TypeInv'
  BY NextTypeInv
<1>2. TypeInv => TypeOK
  BY TypeParts
<1> QED
  BY <1>1, <1>2, InitTypeInv, PTL DEF Spec

-----------------------------------------------------------------------------
(* The wire. While main() polls, the bytes on it lead the driver to its     *)
(* normal state. The LED loop begins behind the press of a lock key, which  *)
(* leaves the driver in its normal state, and stays there; it drops bytes   *)
(* in the middle of a code, but what is left can still be finished, and the *)
(* ACK that ends the loop is never a part of a key's code.                  *)
LockPress == [vkey : Locks, pressed : {TRUE}]

WireInv ==
  /\ pc = "poll" => Leads(kb, wire)
  /\ pc # "poll" => kb = Normal /\ event \in LockPress /\ \E s : Leads(s, wire)

IInv == TypeInv /\ WireInv

LEMMA InitIInv == Init => IInv
  BY InitTypeInv, PathEmpty DEF IInv, WireInv, Init

(* A poll that finds a byte reports what the byte means.                    *)
LEMMA PollReads ==
  ASSUME IInv, pc = "poll", Decode
  PROVE  /\ event' = Head(wire).says /\ wire' = Tail(wire) /\ wire # <<>>
         /\ Leads(kb', wire')
         /\ event' # NoEvent /\ event'.vkey # Pause => kb' = Normal
<1>1. /\ wire \in Seq(Item) /\ kb \in State /\ Leads(kb, wire)
  BY DEF IInv, TypeInv, WireInv, Sent, Known
<1> DEFINE r == Push(kb, Head(wire).byte)
<1>2. wire' = Tail(wire) /\ wire # <<>> /\ kb' = r.next /\ event' = r.ev
  BY DEF Decode, Read
<1>3. Leads(r.next, Tail(wire)) /\ r.ev = Head(wire).says
  BY <1>1, <1>2, PathShrinks
<1>4. Head(wire).byte \in Byte
  <2>1. Head(wire) \in Item
    BY <1>1, <1>2, HeadTailProperties
  <2> QED BY <2>1 DEF Item
<1>5. r.ev # NoEvent /\ r.ev.vkey # Pause => r.next = Normal
  BY <1>1, <1>4, EventEndsCode
<1> HIDE DEF r
<1>6. Leads(kb', wire')
  BY <1>2, <1>3
<1> QED BY <1>2, <1>3, <1>5, <1>6

(* What the LED loop drops: a code's byte, or the answer.                   *)
LEMMA AnswerReads ==
  ASSUME IInv, pc # "poll", Read
  PROVE  /\ \E s : Leads(s, wire')
         /\ Head(wire).byte = ACK => Leads(Normal, wire')
<1>1. wire \in Seq(Item) /\ wire' = Tail(wire) /\ wire # <<>>
  BY DEF IInv, TypeInv, Sent, Read
<1>2. PICK s : Leads(s, wire)
  BY DEF IInv, WireInv
<1> DEFINE t == Push(s, Head(wire).byte).next
<1>3. Leads(t, Tail(wire)) /\ (Head(wire).byte = ACK => t = Normal)
  BY <1>1, <1>2, PathShrinks
<1> HIDE DEF t
<1> QED BY <1>1, <1>3

(* Locks change only behind the press of a lock key.                        *)
LEMMA LockChanges ==
  ASSUME TypeInv, PollChar, pc' # "poll"
  PROVE  event' \in LockPress
<1>1. wire' \in Seq(Item) /\ kb' \in State /\ event' \in Told
  BY DecodeTypes DEF PollChar, TypeInv, Sent, Known
<1>2. /\ locks' = IF event' = NoEvent THEN locks ELSE Toggle(locks, event')
      /\ locks' # locks
  BY DEF PollChar
<1>3. event' \in Event /\ Toggle(locks, event') # locks
  BY <1>1, <1>2 DEF Told
<1>4. event'.pressed = TRUE /\ event'.vkey \in Locks
  BY <1>3 DEF Toggle, Event
<1> QED BY <1>3, <1>4 DEF LockPress, Event

(* What a step of the user or the keyboard puts on the wire.                *)
LEMMA PacketsSent ==
  ASSUME User \/ Obey
  PROVE  \E p \in Packets : wire' = wire \o p /\ UNCHANGED <<kb, event, pc>>
  BY DEF User, Press, Release, PressPause, Type, Obey, Send, Packets

LEMMA NextIInv ==
  ASSUME TableRight, IInv, [Next]_vars
  PROVE  IInv'
<1>0. TypeInv' /\ TypeInv /\ WireInv /\ wire \in Seq(Item)
  BY NextTypeInv DEF IInv, TypeInv, Sent
<1> SUFFICES WireInv'
  BY <1>0 DEF IInv
<1>1. CASE UNCHANGED <<wire, kb, event>> /\ (pc = "poll" <=> pc' = "poll")
  BY <1>0, <1>1 DEF WireInv
<1>2. CASE User \/ Obey
  <2>1. PICK p \in Packets : wire' = wire \o p /\ UNCHANGED <<kb, event, pc>>
    BY <1>2, PacketsSent
  <2>2. p \in Seq(Item) /\ Leads(Normal, p)
    BY PacketsAreClean DEF Clean
  <2>3. \A s : Leads(s, wire) => Leads(s, wire')
    BY <1>0, <2>1, <2>2, PathGrows
  <2> QED BY <1>0, <2>1, <2>3 DEF WireInv
<1>3. CASE PollEvent
  <2>1. pc = "poll" /\ Decode /\ pc' = "poll"
    BY <1>3 DEF PollEvent
  <2> QED BY <2>1, PollReads DEF WireInv
<1>4. CASE PollChar
  <2>1. pc = "poll" /\ Decode
    BY <1>4 DEF PollChar
  <2>2. Leads(kb', wire') /\ (event' # NoEvent /\ event'.vkey # Pause => kb' = Normal)
    BY <2>1, PollReads
  <2>3. CASE pc' = "poll"
    BY <2>2, <2>3 DEF WireInv
  <2>4. CASE pc' # "poll"
    <3>1. event' \in LockPress
      BY <1>0, <1>4, <2>4, LockChanges
    <3>2. event' # NoEvent /\ event'.vkey # Pause
      <4>1. event'.pressed = TRUE /\ event'.vkey \in Locks /\ NoEvent.pressed = FALSE
        BY <3>1 DEF LockPress, NoEvent
      <4> QED BY <4>1, Keyboard4Assumption
    <3> QED BY <2>2, <2>4, <3>1, <3>2 DEF WireInv
  <2> QED BY <2>3, <2>4
<1>5. CASE PollEmpty
  BY <1>0, <1>5 DEF PollEmpty, WireInv
<1>6. CASE WriteSetLeds \/ WriteParam
  BY <1>1, <1>6 DEF WriteSetLeds, WriteParam
<1>7. CASE ReadAnswer
  <2>1. /\ pc = "led_ack" /\ Read /\ UNCHANGED <<kb, event>>
        /\ pc' = IF Head(wire).byte = ACK THEN "poll" ELSE "led_cmd"
    BY <1>7 DEF ReadAnswer
  <2>2. /\ \E s : Leads(s, wire')
        /\ Head(wire).byte = ACK => Leads(Normal, wire')
    BY <2>1, AnswerReads
  <2> QED BY <1>0, <2>1, <2>2 DEF WireInv
<1>8. CASE UNCHANGED vars
  BY <1>1, <1>8 DEF vars
<1> QED BY <1>2, <1>3, <1>4, <1>5, <1>6, <1>7, <1>8 DEF Next, Driver

(* The first byte of the wire is taken off it.                              *)
LEMMA FirstTaken ==
  ASSUME wire \in Seq(Item), wire # <<>>, wire' = Tail(wire)
  PROVE  /\ Head(wire).says = NoEvent => Meant(wire') = Meant(wire)
         /\ Head(wire).says # NoEvent =>
              /\ Meant(wire) # <<>> /\ Head(Meant(wire)) = Head(wire).says
              /\ Tail(Meant(wire)) = Meant(wire')
<1>1. Meant(wire) = IF Head(wire).says = NoEvent THEN Meant(wire')
                    ELSE <<Head(wire).says>> \o Meant(wire')
  BY MeantTail
<1>2. CASE Head(wire).says = NoEvent
  BY <1>1, <1>2
<1>3. CASE Head(wire).says # NoEvent
  <2>1. Head(wire).says \in Event /\ Meant(wire') \in Seq(Event)
    <3>1. Head(wire) \in Item /\ wire' \in Seq(Item)
      BY HeadTailProperties
    <3> QED BY <1>3, <3>1, MeantType DEF Item, Told
  <2> QED BY <1>1, <1>3, <2>1, TakenFirst
<1> QED BY <1>2, <1>3

(* A step, seen as one of KeyEvents: what is typed or answered is added, a  *)
(* poll takes, the LED loop loses.                                          *)
LEMMA StepReports ==
  ASSUME TableRight, IInv, [Next]_vars
  PROVE  [KE!Next]_(KE!vars)
<1>0. wire \in Seq(Item)
  BY DEF IInv, TypeInv, Sent
<1>1. CASE User \/ Obey
  <2>1. PICK p \in Packets : wire' = wire \o p /\ event' = event
    BY <1>1, PacketsSent
  <2>2. /\ Meant(wire') = Meant(wire) \o Meant(p) /\ Meant(wire) \in Seq(Event)
    BY <1>0, <2>1, PacketsAreClean, MeantConcat, MeantType DEF Clean
  <2>3. CASE Meant(p) = <<>>
    BY <2>1, <2>2, <2>3, ConcatEmptySeq DEF KE!vars
  <2>4. CASE \E e \in Event : Meant(p) = <<e>>
    <3>1. PICK e \in Event : Meant(p) = <<e>>
      BY <2>4
    <3>2. Meant(wire') = Append(Meant(wire), e)
      BY <2>2, <3>1, AppendIsConcat
    <3> QED BY <2>1, <3>2 DEF KE!Type, KE!Next
  <2> QED BY <2>3, <2>4, PacketMeans
<1>2. CASE PollEvent \/ PollChar
  <2>1. pc = "poll" /\ Decode
    BY <1>2 DEF PollEvent, PollChar
  <2>2. event' = Head(wire).says /\ wire' = Tail(wire) /\ wire # <<>>
    BY <2>1, PollReads
  <2>3. CASE Head(wire).says = NoEvent
    BY <1>0, <2>2, <2>3, FirstTaken DEF KE!Nothing, KE!Next
  <2>4. CASE Head(wire).says # NoEvent
    BY <1>0, <2>2, <2>4, FirstTaken DEF KE!Take, KE!Next
  <2> QED BY <2>3, <2>4
<1>3. CASE PollEmpty
  BY <1>3 DEF PollEmpty, KE!Nothing, KE!Next
<1>4. CASE ReadAnswer
  <2>1. wire' = Tail(wire) /\ wire # <<>> /\ event' = event /\ event \in LockPress
    BY <1>4 DEF ReadAnswer, Read, IInv, WireInv
  <2>2. CASE Head(wire).says = NoEvent
    BY <1>0, <2>1, <2>2, FirstTaken DEF KE!vars
  <2>3. CASE Head(wire).says # NoEvent
    BY <1>0, <2>1, <2>3, FirstTaken DEF KE!Lose, KE!Next, LockPress
  <2> QED BY <2>2, <2>3
<1>5. CASE UNCHANGED <<wire, event>>
  BY <1>5 DEF KE!vars
<1>6. WriteSetLeds \/ WriteParam \/ UNCHANGED vars => UNCHANGED <<wire, event>>
  BY DEF WriteSetLeds, WriteParam, vars
<1> QED BY <1>1, <1>2, <1>3, <1>4, <1>5, <1>6 DEF Next, Driver

(* Key events come out in the order and with the meaning in which they were *)
(* typed, whatever is typed while the LED command polls for its answer on   *)
(* the same wire: ps2_send_keyboard_cmd_param() loses whole events, only    *)
(* behind the press of a lock key, and never leaves the decoder in the      *)
(* middle of a code.                                                        *)
THEOREM Implements == TableRight => (Spec => Reports)
<1> SUFFICES ASSUME TableRight PROVE Spec => Reports
  OBVIOUS
<1>1. Init => KE!Init
  BY MeantEmpty DEF Init, KE!Init
<1>2. IInv /\ [Next]_vars => IInv'
  BY NextIInv
<1>3. IInv /\ [Next]_vars => [KE!Next]_(KE!vars)
  BY StepReports
<1> QED BY <1>1, <1>2, <1>3, InitIInv, PTL DEF Spec, Reports, KE!Spec

-----------------------------------------------------------------------------
(* The keys. For every vkey that is not combined of others, what the wire   *)
(* still says about it last agrees with the keys that are down; if it says  *)
(* nothing any more, keystate agrees, unless kc_state missed the last event.*)
Plain == VKeys \ ({Pause} \union DOMAIN Combined)

LastSays(q, v, b) == \E i \in 1 .. Len(q) : /\ q[i].vkey = v /\ q[i].pressed = b
                                           /\ \A j \in i + 1 .. Len(q) : q[j].vkey # v
Unsaid(q, v)      == \A i \in 1 .. Len(q) : q[i].vkey # v

KeyInv(v) ==
  \/ \E b \in BOOLEAN : LastSays(Meant(wire), v, b) /\ Agrees(v, b)
  \/ Unsaid(Meant(wire), v) /\ (v \in missed \/ Agrees(v, keystate[v]))

CombinedInv == \A c \in DOMAIN Combined : keystate[c] = \E w \in Combined[c] : keystate[w]

TrackInv == CombinedInv /\ \A v \in Plain : KeyInv(v)

(* A later event is the last one.                                           *)
LEMMA AppendSays ==
  ASSUME NEW q \in Seq(Event), NEW e \in Event, NEW v
  PROVE  /\ e.vkey = v => LastSays(Append(q, e), v, e.pressed)
         /\ e.vkey # v => /\ \A b : LastSays(q, v, b) => LastSays(Append(q, e), v, b)
                          /\ Unsaid(q, v) => Unsaid(Append(q, e), v)
<1> DEFINE r == Append(q, e)
<1>1. /\ Len(q) \in Nat /\ Len(r) = Len(q) + 1 /\ r[Len(q) + 1] = e
      /\ \A i \in 1 .. Len(q) : r[i] = q[i]
  BY AppendProperties
<1> HIDE DEF r
<1>2. ASSUME e.vkey = v
      PROVE  LastSays(r, v, e.pressed)
  <2>1. Len(q) + 1 \in 1 .. Len(r) /\ (Len(q) + 1) + 1 .. Len(r) = {}
    BY <1>1
  <2> QED BY <1>1, <1>2, <2>1 DEF LastSays
<1>3. ASSUME e.vkey # v, NEW b, LastSays(q, v, b)
      PROVE  LastSays(r, v, b)
  <2>1. PICK i \in 1 .. Len(q) : /\ q[i].vkey = v /\ q[i].pressed = b
                                /\ \A j \in i + 1 .. Len(q) : q[j].vkey # v
    BY <1>3 DEF LastSays
  <2>2. i \in 1 .. Len(r) /\ r[i] = q[i]
    BY <1>1
  <2>3. ASSUME NEW j \in i + 1 .. Len(r) PROVE r[j].vkey # v
    <3>1. CASE j = Len(q) + 1
      BY <1>1, <1>3, <3>1
    <3>2. CASE j # Len(q) + 1
      <4>1. j \in i + 1 .. Len(q) /\ j \in 1 .. Len(q)
        BY <1>1, <3>2
      <4> QED BY <1>1, <2>1, <4>1
    <3> QED BY <3>1, <3>2
  <2> QED BY <2>1, <2>2, <2>3 DEF LastSays
<1>4. ASSUME e.vkey # v, Unsaid(q, v)
      PROVE  Unsaid(r, v)
  <2>1. ASSUME NEW j \in 1 .. Len(r) PROVE r[j].vkey # v
    <3>1. CASE j = Len(q) + 1
      BY <1>1, <1>4, <3>1
    <3>2. CASE j # Len(q) + 1
      <4>1. j \in 1 .. Len(q)
        BY <1>1, <3>2
      <4> QED BY <1>1, <1>4, <4>1 DEF Unsaid
    <3> QED BY <3>1, <3>2
  <2> QED BY <2>1 DEF Unsaid
<1> QED BY <1>2, <1>3, <1>4 DEF r

(* What is left when the first event is taken.                              *)
LEMMA TailSays ==
  ASSUME NEW q \in Seq(Event), q # <<>>, NEW v
  PROVE  /\ \A b : LastSays(q, v, b) =>
               \/ LastSays(Tail(q), v, b)
               \/ Head(q).vkey = v /\ Head(q).pressed = b /\ Unsaid(Tail(q), v)
         /\ Unsaid(q, v) => Unsaid(Tail(q), v) /\ Head(q).vkey # v
<1> DEFINE r == Tail(q)
<1>1. /\ Len(q) \in Nat /\ Len(q) > 0 /\ Head(q) = q[1] /\ Len(r) = Len(q) - 1
      /\ \A i \in 1 .. Len(r) : r[i] = q[i + 1]
  BY HeadTailProperties, EmptySeq
<1> HIDE DEF r
<1>2. ASSUME NEW b, LastSays(q, v, b)
      PROVE  \/ LastSays(r, v, b)
             \/ Head(q).vkey = v /\ Head(q).pressed = b /\ Unsaid(r, v)
  <2>1. PICK i \in 1 .. Len(q) : /\ q[i].vkey = v /\ q[i].pressed = b
                                /\ \A j \in i + 1 .. Len(q) : q[j].vkey # v
    BY <1>2 DEF LastSays
  <2>2. CASE i = 1
    <3>1. \A j \in 1 .. Len(r) : j + 1 \in i + 1 .. Len(q)
      BY <1>1, <2>2
    <3>2. Unsaid(r, v)
      BY <1>1, <2>1, <3>1 DEF Unsaid
    <3> QED BY <1>1, <2>1, <2>2, <3>2
  <2>3. CASE i # 1
    <3>1. i - 1 \in 1 .. Len(r) /\ (i - 1) + 1 = i /\ r[i - 1] = q[i]
      BY <1>1, <2>3
    <3>2. \A j \in i .. Len(r) : j \in 1 .. Len(r) /\ j + 1 \in i + 1 .. Len(q)
      BY <1>1, <3>1
    <3>3. \A j \in (i - 1) + 1 .. Len(r) : r[j].vkey # v
      BY <1>1, <2>1, <3>1, <3>2
    <3> QED BY <2>1, <3>1, <3>3 DEF LastSays
  <2> QED BY <2>2, <2>3
<1>3. ASSUME Unsaid(q, v)
      PROVE  Unsaid(r, v) /\ Head(q).vkey # v
  <2>1. \A j \in 1 .. Len(r) : j + 1 \in 1 .. Len(q)
    BY <1>1
  <2>2. 1 \in 1 .. Len(q)
    BY <1>1
  <2> QED BY <1>1, <1>3, <2>1, <2>2 DEF Unsaid
<1> QED BY <1>2, <1>3 DEF r

(* What an event makes of keystate: only its own key's state changes, and   *)
(* the combined vkeys follow.                                               *)
LEMMA UpdateIs ==
  ASSUME NEW ks \in [VKeys -> BOOLEAN], NEW ev \in Event
  PROVE  /\ \A v \in Plain : UpdateKeys(ks, ev)[v] = IF v = ev.vkey THEN ev.pressed ELSE ks[v]
         /\ \A c \in DOMAIN Combined :
              UpdateKeys(ks, ev)[c] = \E w \in Combined[c] : UpdateKeys(ks, ev)[w]
<1> DEFINE single == [ks EXCEPT ![Pause] = FALSE, ![ev.vkey] = ev.pressed]
           upd == UpdateKeys(ks, ev)
<1>1. \A v \in VKeys : upd[v] = IF v \in DOMAIN Combined THEN \E w \in Combined[v] : single[w]
                                ELSE single[v]
  BY Zenon DEF UpdateKeys
<1>2. \A v \in Plain : single[v] = IF v = ev.vkey THEN ev.pressed ELSE ks[v]
  BY DEF Plain
<1> HIDE DEF single, upd
<1>3. \A v \in Plain : upd[v] = single[v]
  BY <1>1 DEF Plain
<1>4. \A c \in DOMAIN Combined : c \in VKeys /\ Combined[c] \subseteq Plain
  BY Keyboard4Assumption DEF Plain
<1>5. \A c \in DOMAIN Combined : upd[c] = \E w \in Combined[c] : upd[w]
  <2> TAKE c \in DOMAIN Combined
  <2>1. upd[c] = \E w \in Combined[c] : single[w]
    BY <1>1, <1>4
  <2>2. \A w \in Combined[c] : upd[w] = single[w]
    BY <1>3, <1>4
  <2>3. (\E w \in Combined[c] : single[w]) = \E w \in Combined[c] : upd[w]
    BY <2>2, Zenon
  <2> QED BY <2>1, <2>3
<1> QED BY <1>2, <1>3, <1>5 DEF upd

(* In the beginning nothing is down.                                        *)
LEMMA InitTrackInv == Init => TrackInv
<1> SUFFICES ASSUME Init PROVE TrackInv
  OBVIOUS
<1>1. Meant(wire) = <<>> /\ held = {} /\ \A v \in VKeys : keystate[v] = FALSE
  BY MeantEmpty DEF Init
<1>2. CombinedInv
  <2>1. \A c \in DOMAIN Combined : c \in VKeys /\ Combined[c] \subseteq VKeys
    BY Keyboard4Assumption
  <2>2. ASSUME NEW c \in DOMAIN Combined
        PROVE  keystate[c] = \E w \in Combined[c] : keystate[w]
    <3>1. keystate[c] = FALSE /\ \A w \in Combined[c] : keystate[w] = FALSE
      BY <1>1, <2>1
    <3> QED BY <3>1, Zenon
  <2> QED BY <2>2 DEF CombinedInv
<1>3. ASSUME NEW v \in Plain PROVE KeyInv(v)
  <2>1. Unsaid(Meant(wire), v)
    BY <1>1 DEF Unsaid
  <2>2. keystate[v] = FALSE /\ ~IsDown({v})
    BY <1>1 DEF Plain, IsDown
  <2> QED BY <2>1, <2>2 DEF KeyInv, Agrees
<1> QED BY <1>2, <1>3 DEF TrackInv

(* A key goes down or up: its event is the last one on the wire.            *)
LEMMA KeySent ==
  ASSUME TypeInv, TrackInv, NEW k \in Keys, Press(k) \/ Release(k), NEW v \in Plain
  PROVE  KeyInv(v)'
<1>1. /\ wire \in Seq(Item) /\ held \subseteq Keys /\ KeyInv(v) /\ v # NoKey
      /\ k.means \in VKeys \union {NoKey}
  BY CodesAssumption DEF TypeInv, Sent, TrackInv, Plain
<1>2. ASSUME NEW dn \in BOOLEAN, NEW pk \in Seq(Item), Meant(pk) = Once(Says(k, dn)),
             Type(pk), held' = IF dn THEN held \union {k} ELSE held \ {k}
      PROVE  KeyInv(v)'
  <2>1. wire' = wire \o pk /\ keystate' = keystate /\ missed' = missed
    BY <1>2 DEF Type, Send
  <2>2. /\ Meant(wire') = Meant(wire) \o Once(Says(k, dn))
        /\ Meant(wire) \in Seq(Event)
    BY <1>1, <1>2, <2>1, MeantConcat, MeantType
  <2>3. CASE k.means = v
    <3> DEFINE e == [vkey |-> v, pressed |-> dn]
    <3>1. Says(k, dn) = e /\ e \in Event /\ e.vkey = v /\ e.pressed = dn /\ e # NoEvent
      <4>1. e \in Event /\ e.vkey = v /\ e.pressed = dn /\ NoEvent.vkey = NoKey
        BY DEF Event, Plain, NoEvent
      <4> QED BY <1>1, <2>3, <4>1 DEF Says
    <3> HIDE DEF e
    <3>2. Meant(wire') = Append(Meant(wire), e)
      BY <2>2, <3>1, AppendIsConcat DEF Once
    <3>3. LastSays(Meant(wire'), v, dn)
      BY <2>2, <3>1, <3>2, AppendSays
    <3>4. Agrees(v, dn)'
      <4>1. CASE dn = TRUE
        <5>1. k \in held' /\ k.means \in {v}
          BY <1>2, <2>3, <4>1
        <5> QED BY <4>1, <5>1 DEF Agrees, IsDown
      <4>2. CASE dn = FALSE
        <5>1. ASSUME NEW j \in held', j.means \in {v} PROVE Shared(v)
          <6>1. j \in Keys /\ j # k /\ j.means = v
            BY <1>1, <1>2, <4>2, <5>1
          <6> QED BY <2>3, <6>1 DEF Shared
        <5> QED BY <4>2, <5>1 DEF Agrees, IsDown
      <4> QED BY <4>1, <4>2
    <3> QED BY <3>3, <3>4 DEF KeyInv
  <2>4. CASE k.means # v
    <3>1. IsDown({v})' = IsDown({v})
      BY <1>2, <2>4 DEF IsDown
    <3>2. /\ \A x : LastSays(Meant(wire), v, x) => LastSays(Meant(wire'), v, x)
          /\ Unsaid(Meant(wire), v) => Unsaid(Meant(wire'), v)
      <4>1. CASE Says(k, dn) = NoEvent
        BY <2>2, <4>1, ConcatEmptySeq DEF Once
      <4>2. CASE Says(k, dn) # NoEvent
        <5> DEFINE e == Says(k, dn)
        <5>1. e \in Event /\ e.vkey # v
          <6>1. e = [vkey |-> k.means, pressed |-> dn] /\ k.means # NoKey
            BY <4>2 DEF Says
          <6> QED BY <1>1, <2>4, <6>1 DEF Event
        <5>2. Meant(wire') = Append(Meant(wire), e)
          BY <2>2, <4>2, <5>1, AppendIsConcat DEF Once
        <5> HIDE DEF e
        <5> QED BY <2>2, <5>1, <5>2, AppendSays
      <4> QED BY <4>1, <4>2
    <3> QED BY <1>1, <2>1, <3>1, <3>2 DEF KeyInv, Agrees
  <2> QED BY <2>3, <2>4
<1>3. CASE Press(k)
  BY <1>2, <1>3, Packet, MakeMeans DEF Press
<1>4. CASE Release(k)
  BY <1>2, <1>4, Packet, BreakMeans DEF Release
<1> QED BY <1>3, <1>4

(* The pause key is none of them, nor is an answer.                         *)
LEMMA OthersSent ==
  ASSUME TypeInv, TrackInv, PressPause \/ Obey, NEW v \in Plain
  PROVE  KeyInv(v)'
<1>1. wire \in Seq(Item) /\ KeyInv(v) /\ v # Pause
  BY DEF TypeInv, Sent, TrackInv, Plain
<1>2. PICK p \in {MakePause, Answer} : wire' = wire \o p /\ UNCHANGED <<held, keystate, missed>>
  BY DEF PressPause, Type, Obey, Send
<1>3. Meant(wire') = Meant(wire) \o Meant(p) /\ Meant(wire) \in Seq(Event)
  BY <1>1, <1>2, Packet, MeantConcat, MeantType
<1>4. CASE p = Answer
  <2>1. Meant(wire') = Meant(wire)
    BY <1>3, <1>4, AnswerMeans, ConcatEmptySeq
  <2> QED BY <1>1, <1>2, <2>1 DEF KeyInv, Agrees, IsDown
<1>5. CASE p = MakePause
  <2>1. PausePress \in Event /\ PausePress.vkey # v
    BY <1>1, CodesAssumption DEF PausePress, Event
  <2>2. Meant(wire') = Append(Meant(wire), PausePress)
    BY <1>3, <1>5, <2>1, PauseMeans, AppendIsConcat
  <2>3. /\ \A x : LastSays(Meant(wire), v, x) => LastSays(Meant(wire'), v, x)
        /\ Unsaid(Meant(wire), v) => Unsaid(Meant(wire'), v)
    BY <1>3, <2>1, <2>2, AppendSays
  <2> QED BY <1>1, <1>2, <2>3 DEF KeyInv, Agrees, IsDown
<1> QED BY <1>2, <1>4, <1>5

(* An event comes off the wire: kc_state has it, or misses it.              *)
LEMMA KeyTaken ==
  ASSUME TypeInv, TrackInv, NEW v \in Plain, UNCHANGED held,
         wire # <<>>, wire' = Tail(wire), NEW ev, ev = Head(wire).says,
         \/ UNCHANGED keystate /\ missed' = missed \union Saw(ev)
         \/ /\ keystate' = IF ev = NoEvent THEN keystate ELSE UpdateKeys(keystate, ev)
            /\ missed' = missed \ Saw(ev)
  PROVE  KeyInv(v)'
<1>1. wire \in Seq(Item) /\ KeyInv(v) /\ keystate \in [VKeys -> BOOLEAN]
  BY DEF TypeInv, Sent, Known, TrackInv
<1>2. Meant(wire) \in Seq(Event) /\ Head(wire) \in Item
  BY <1>1, MeantType, HeadTailProperties
<1>3. CASE ev = NoEvent
  <2>1. Meant(wire') = Meant(wire) /\ UNCHANGED <<keystate, missed>>
    BY <1>1, <1>3, FirstTaken DEF Saw
  <2> QED BY <1>1, <2>1 DEF KeyInv, Agrees, IsDown
<1>4. CASE ev # NoEvent
  <2>1. /\ Meant(wire) # <<>> /\ Head(Meant(wire)) = ev /\ Tail(Meant(wire)) = Meant(wire')
        /\ ev \in Event /\ Saw(ev) = {ev.vkey}
    BY <1>1, <1>2, <1>4, FirstTaken DEF Item, Told, Saw
  <2>2. /\ \A b : LastSays(Meant(wire), v, b) =>
             \/ LastSays(Meant(wire'), v, b)
             \/ ev.vkey = v /\ ev.pressed = b /\ Unsaid(Meant(wire'), v)
        /\ Unsaid(Meant(wire), v) => Unsaid(Meant(wire'), v) /\ ev.vkey # v
    <3> DEFINE q == Meant(wire)
               r == Meant(wire')
    <3>1. q \in Seq(Event) /\ q # <<>> /\ Head(q) = ev /\ Tail(q) = r
      BY <1>2, <2>1
    <3> HIDE DEF q, r
    <3>2. /\ \A b : LastSays(q, v, b) =>
               \/ LastSays(r, v, b)
               \/ Head(q).vkey = v /\ Head(q).pressed = b /\ Unsaid(r, v)
          /\ Unsaid(q, v) => Unsaid(r, v) /\ Head(q).vkey # v
      BY <3>1, TailSays, Zenon
    <3> QED BY <3>1, <3>2 DEF q, r
  <2>3. \A b : Agrees(v, b)' = Agrees(v, b)
    BY DEF Agrees, IsDown
  <2>4. CASE UNCHANGED keystate /\ missed' = missed \union {ev.vkey}
    BY <1>1, <2>2, <2>3, <2>4 DEF KeyInv, Agrees, IsDown
  <2>5. CASE keystate' = UpdateKeys(keystate, ev) /\ missed' = missed \ {ev.vkey}
    <3>1. keystate'[v] = IF v = ev.vkey THEN ev.pressed ELSE keystate[v]
      BY <1>1, <2>1, <2>5, UpdateIs
    <3> QED BY <1>1, <2>2, <2>3, <2>5, <3>1 DEF KeyInv, Agrees, IsDown
  <2> QED BY <1>4, <2>1, <2>4, <2>5
<1> QED BY <1>3, <1>4

(* No step loses track of a key.                                            *)
LEMMA NextTrackInv ==
  ASSUME IInv, TrackInv, [Next]_vars
  PROVE  TrackInv'
<1>0. TypeInv /\ keystate \in [VKeys -> BOOLEAN]
  BY DEF IInv, TypeInv, Known
<1>1. CASE UNCHANGED <<wire, held, keystate, missed>>
  BY <1>1 DEF TrackInv, CombinedInv, KeyInv, Agrees, IsDown
<1>2. CASE User \/ Obey
  <2>1. keystate' = keystate
    BY <1>2 DEF User, Press, Release, PressPause, Type, Obey
  <2>2. CombinedInv'
    BY <2>1 DEF TrackInv, CombinedInv
  <2>3. \A v \in Plain : KeyInv(v)'
    BY <1>0, <1>2, KeySent, OthersSent DEF User
  <2> QED BY <2>2, <2>3 DEF TrackInv
<1>3. CASE PollEvent
  <2>1. /\ event' = Head(wire).says /\ wire' = Tail(wire) /\ wire # <<>>
        /\ UNCHANGED <<held, keystate>> /\ missed' = missed \union Saw(event')
    BY <1>3, PollReads DEF PollEvent
  <2>2. \A v \in Plain : KeyInv(v)'
    BY <1>0, <2>1, KeyTaken
  <2> QED BY <2>1, <2>2 DEF TrackInv, CombinedInv
<1>4. CASE PollChar
  <2>1. /\ event' = Head(wire).says /\ wire' = Tail(wire) /\ wire # <<>> /\ UNCHANGED held
        /\ keystate' = IF event' = NoEvent THEN keystate ELSE UpdateKeys(keystate, event')
        /\ missed' = missed \ Saw(event')
    BY <1>4, PollReads DEF PollChar
  <2>2. \A v \in Plain : KeyInv(v)'
    BY <1>0, <2>1, KeyTaken
  <2>3. CombinedInv'
    <3>1. CASE event' = NoEvent
      BY <2>1, <3>1 DEF TrackInv, CombinedInv
    <3>2. CASE event' # NoEvent
      <4>1. event' \in Told
        BY <1>0, <1>4, DecodeTypes DEF PollChar, TypeInv, Sent, Known
      <4>2. event' \in Event
        BY <3>2, <4>1 DEF Told
      <4> QED BY <1>0, <2>1, <3>2, <4>2, UpdateIs DEF CombinedInv
    <3> QED BY <3>1, <3>2
  <2> QED BY <2>2, <2>3 DEF TrackInv
<1>5. CASE ReadAnswer
  <2>1. /\ wire' = Tail(wire) /\ wire # <<>>
        /\ UNCHANGED <<held, keystate>> /\ missed' = missed \union Saw(Head(wire).says)
    BY <1>5 DEF ReadAnswer, Read
  <2>2. \A v \in Plain : KeyInv(v)'
    BY <1>0, <2>1, KeyTaken
  <2> QED BY <2>1, <2>2 DEF TrackInv, CombinedInv
<1>6. PollEmpty \/ WriteSetLeds \/ WriteParam \/ UNCHANGED vars
        => UNCHANGED <<wire, held, keystate, missed>>
  BY DEF PollEmpty, WriteSetLeds, WriteParam, vars
<1> QED BY <1>1, <1>2, <1>3, <1>4, <1>5, <1>6 DEF Next, Driver

(* What the invariant says when the wire is empty.                          *)
LEMMA Tracked ==
  ASSUME TrackInv
  PROVE  wire = <<>> =>
           /\ \A v \in Plain : v \in missed \/ Agrees(v, keystate[v])
           /\ \A c \in DOMAIN Combined :
                Combined[c] \intersect missed = {} => keystate[c] = IsDown(Combined[c])
<1> SUFFICES ASSUME wire = <<>>
             PROVE  /\ \A v \in Plain : v \in missed \/ Agrees(v, keystate[v])
                    /\ \A c \in DOMAIN Combined :
                         Combined[c] \intersect missed = {} => keystate[c] = IsDown(Combined[c])
  OBVIOUS
<1>1. \A v, b : ~LastSays(Meant(wire), v, b)
  <2>1. Meant(wire) = <<>> /\ 1 .. Len(<<>>) = {}
    BY MeantEmpty, EmptySeq
  <2> QED BY <2>1 DEF LastSays
<1>2. \A v \in Plain : v \in missed \/ Agrees(v, keystate[v])
  BY <1>1 DEF TrackInv, KeyInv
<1>3. ASSUME NEW c \in DOMAIN Combined, Combined[c] \intersect missed = {}
      PROVE  keystate[c] = IsDown(Combined[c])
  <2>1. /\ Combined[c] \subseteq Plain /\ \A w \in Combined[c] : ~Shared(w)
        /\ keystate[c] = \E w \in Combined[c] : keystate[w]
    BY Keyboard4Assumption DEF TrackInv, CombinedInv, Plain
  <2>2. \A w \in Combined[c] : /\ keystate[w] => IsDown({w})
                               /\ IsDown({w}) => keystate[w]
    BY <1>2, <1>3, <2>1 DEF Agrees
  <2>3. IsDown(Combined[c]) = \E w \in Combined[c] : IsDown({w})
    BY DEF IsDown
  <2>4. (\E w \in Combined[c] : keystate[w]) = \E w \in Combined[c] : IsDown({w})
    BY <2>2
  <2> QED BY <2>1, <2>3, <2>4
<1> QED BY <1>2, <1>3

(* Once everything that was typed is read, keystate has the keys that are   *)
(* down and the shift and control vkeys whichever of their keys is: a key   *)
(* is stuck or forgotten only when the event loop or the LED loop took its  *)
(* last event, or another key has its vkey.                                 *)
THEOREM KeysAreTracked == TableRight => (Spec => []KeysTracked)
<1> SUFFICES ASSUME TableRight PROVE Spec => []KeysTracked
  OBVIOUS
<1>1. IInv /\ TrackInv /\ [Next]_vars => IInv' /\ TrackInv'
  BY NextIInv, NextTrackInv
<1>2. TrackInv => KeysTracked
  BY Tracked DEF KeysTracked, Plain
<1> QED BY <1>1, <1>2, InitIInv, InitTrackInv, PTL DEF Spec

(* What keycode_info_char() makes of three flags.                           *)
LEMMA FormIs ==
  ASSUME NEW s \in BOOLEAN, NEW t \in BOOLEAN, NEW c \in BOOLEAN
  PROVE  /\ (Form(s, t, c) = "uppercase") = (c # s)
         /\ (Form(s, t, c) = "ctrlchar") = (t /\ ~(c # s))
<1>1. CASE s # c
  <2>1. Form(s, t, c) = "uppercase"
    BY <1>1, Zenon DEF Form
  <2> QED BY <1>1, <2>1
<1>2. CASE s = c /\ t = TRUE
  <2>1. Form(s, t, c) = "ctrlchar"
    BY <1>2, Zenon DEF Form
  <2> QED BY <1>2, <2>1
<1>3. CASE s = c /\ t = FALSE
  <2>1. Form(s, t, c) = "ch"
    BY <1>3, Zenon DEF Form
  <2> QED BY <1>3, <2>1
<1> QED BY <1>1, <1>2, <1>3

(* The character that empties the wire.                                     *)
LEMMA CharTyped ==
  ASSUME IInv, LedInv, KeysTracked', PollChar, Settled, wire' = <<>>, char' # NoChar,
         (Combined[Shift] \union Combined[Control]) \intersect missed = {}
  PROVE  LET upper == (Caps \in leds) # IsDown(Combined[Shift])
         IN  /\ (char'.form = "uppercase") = upper
             /\ (char'.form = "ctrlchar") = (IsDown(Combined[Control]) /\ ~upper)
<1>0. TypeInv'
  BY NextTypeInv DEF IInv, Next, Driver
<1>1. event' \in Told
  BY DecodeTypes DEF PollChar, IInv, TypeInv, Sent, Known
<1>2. /\ event' # NoEvent /\ char' = CharOf(event', keystate', locks')
      /\ locks' = Toggle(locks, event') /\ UNCHANGED held /\ missed' = missed \ Saw(event')
  BY DEF PollChar
<1>3. /\ event'.pressed /\ event'.vkey \in Letters
      /\ char' = [vkey |-> event'.vkey,
                  form |-> Form(keystate'[Shift], keystate'[Control], Caps \in locks')]
  BY <1>2, Zenon DEF CharOf
<1>4. locks' = locks
  BY <1>2, <1>3, Keyboard4Assumption DEF Toggle
<1>5. leds = locks
  <2>1. \A l : <<l>> # <<>>
    OBVIOUS
  <2> QED BY <2>1 DEF LedInv, Settled
<1>6. ASSUME NEW c \in {Shift, Control}
      PROVE  keystate'[c] = IsDown(Combined[c]) /\ keystate'[c] \in BOOLEAN
  <2>1. c \in DOMAIN Combined /\ c \in VKeys
    BY Keyboard4Assumption
  <2>2. Combined[c] \intersect missed' = {}
    BY <1>2
  <2>3. keystate'[c] = IsDown(Combined[c])'
    BY <2>1, <2>2 DEF KeysTracked
  <2>4. IsDown(Combined[c])' = IsDown(Combined[c])
    BY <1>2 DEF IsDown
  <2>5. keystate' \in [VKeys -> BOOLEAN]
    BY <1>0 DEF TypeInv, Known
  <2> QED BY <2>1, <2>3, <2>4, <2>5
<1> DEFINE s == keystate'[Shift]
           t == keystate'[Control]
           c == Caps \in locks'
<1>7. s \in BOOLEAN /\ t \in BOOLEAN /\ c \in BOOLEAN
  BY <1>6
<1>8. s = IsDown(Combined[Shift]) /\ t = IsDown(Combined[Control]) /\ c = (Caps \in leds)
  BY <1>4, <1>5, <1>6
<1>9. char'.form = Form(s, t, c)
  BY <1>3
<1> HIDE DEF s, t, c
<1>10. /\ (char'.form = "uppercase") = (c # s)
       /\ (char'.form = "ctrlchar") = (t /\ ~(c # s))
  BY <1>7, <1>9, FormIs
<1> QED BY <1>8, <1>10

(* A letter typed when all is settled comes out as the caps LED and the     *)
(* shift keys that are down say: keyboard_getchar() decides by kc_state,    *)
(* the user by the LEDs and the keys under the fingers.                     *)
THEOREM LettersAsLedsSay == TableRight => (Spec => TypesWhatLedsSay)
<1> SUFFICES ASSUME TableRight PROVE Spec => TypesWhatLedsSay
  OBVIOUS
<1> DEFINE A == (/\ Settled /\ mode = "char" /\ wire # <<>> /\ wire' = <<>> /\ char' # NoChar
                 /\ (Combined[Shift] \union Combined[Control]) \intersect missed = {})
                => LET upper == (Caps \in leds) # IsDown(Combined[Shift])
                   IN  /\ (char'.form = "uppercase") = upper
                       /\ (char'.form = "ctrlchar") = (IsDown(Combined[Control]) /\ ~upper)
           Inv == IInv /\ TrackInv /\ LedInv
<1>1. Inv /\ [Next]_vars => Inv'
  BY NextIInv, NextTrackInv, NextLedInv
<1>2. Inv => KeysTracked
  BY Tracked DEF KeysTracked, Plain
<1>3. Inv /\ KeysTracked' /\ [Next]_vars => [A]_vars
  <2> SUFFICES ASSUME Inv, KeysTracked', Next, Settled, mode = "char", wire # <<>>, wire' = <<>>
               PROVE  A
    BY Zenon
  <2>1. CASE User \/ Obey
    <3>1. PICK p \in Packets : wire' = wire \o p
      BY <2>1, PacketsSent
    <3>2. p \in Seq(Item) /\ wire \in Seq(Item)
      BY <3>1, PacketsAreClean DEF Clean, IInv, TypeInv, Sent
    <3>3. Len(wire') = Len(wire) + Len(p) /\ Len(wire) > 0 /\ Len(p) >= 0 /\ Len(wire') = 0
      BY <3>1, <3>2, ConcatProperties, EmptySeq
    <3> QED BY <3>2, <3>3
  <2>2. CASE PollChar
    BY <2>2, CharTyped
  <2>3. ~(PollEvent \/ PollEmpty \/ WriteSetLeds \/ WriteParam \/ ReadAnswer)
    BY DEF PollEvent, PollEmpty, WriteSetLeds, WriteParam, ReadAnswer, Settled
  <2> QED BY <2>1, <2>2, <2>3 DEF Next, Driver
<1>4. Init => Inv
  BY InitIInv, InitTrackInv, InitLedInv
<1> QED BY <1>1, <1>2, <1>3, <1>4, PTL DEF Spec, TypesWhatLedsSay
=============================================================================
