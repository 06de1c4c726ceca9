----------------------------- MODULE Keyboard4 ------------------------------
(***************************************************************************)
(* apps/keyboard4 after its initialisation: main() alternates between a    *)
(* loop that prints key events (left with k) and one that prints           *)
(* characters (left with l). The characters come from keycode_state_t,     *)
(* which keyboard_vkey.c updates from the decoded key events; a lock key   *)
(* makes it send the LED command to the keyboard, in a loop that polls for *)
(* the answer on the wire the keys come in on.                             *)
(*                                                                         *)
(* External: the keyboard. It answers a command behind whatever it has     *)
(* sent, and never in the middle of a key's code.                          *)
(*                                                                         *)
(* led_state_changed is true only between the toggle of a lock and the LED *)
(* command in the same call, and is not modelled.                          *)
(***************************************************************************)
EXTENDS Ps2Codes, FiniteSets

CONSTANTS
  Locks,      (* vkeys of the lock keys                                        *)
  Caps,       (* VK_CAPITAL, one of them                                       *)
  LitAtStart, (* the locks that keycode_init() sets: num lock                  *)
  Combined,   (* Combined[c]: the vkeys that make up the combined vkey c       *)
  Shift,      (* VK_SHIFT                                                      *)
  Control,    (* VK_CONTROL                                                    *)
  Letters,    (* vkeys with a character                                        *)
  EventKey,   (* K, whose release leaves the event loop                        *)
  CharKey,    (* L, whose character leaves the character loop                  *)
  Typing      (* key presses and releases in all: a bound of the model         *)

(* Two keys have the vkey, as those of enter and of the keypad's enter.      *)
Shared(v) == \E j, k \in Keys : j # k /\ j.means = v /\ k.means = v

(* What the tables say: a lock key has no character, and the shift and       *)
(* control keys have vkeys of their own.                                     *)
ASSUME Keyboard4Assumption ==
  /\ Caps \in Locks /\ Locks \subseteq VKeys \ {Pause} /\ LitAtStart \subseteq Locks
  /\ DOMAIN Combined = {Shift, Control} /\ {Shift, Control} \subseteq VKeys \ {Pause}
  /\ \A c \in DOMAIN Combined : Combined[c] \subseteq VKeys \ (DOMAIN Combined \union {Pause})
  /\ \A c \in DOMAIN Combined : \A w \in Combined[c] : ~Shared(w)
  /\ Letters \subseteq VKeys \ Locks /\ EventKey \in VKeys /\ CharKey \in Letters
  /\ \A k \in Keys : k.means \notin DOMAIN Combined \union {Pause}
  /\ Typing \in Nat

(* A character: the ch, uppercase or ctrlchar of the vkey in keycodes[].     *)
Char   == [vkey : Letters, form : {"ch", "uppercase", "ctrlchar"}]
NoChar == [vkey |-> NoKey, form |-> "ch"]

(* Bytes to the keyboard: SET_LEDS, and its parameter.                       *)
SetLeds  == [param |-> FALSE, leds |-> {}]
Param(l) == [param |-> TRUE, leds |-> l]

VARIABLES
  wire,      (* bytes sent by the keyboard and not yet read, oldest first      *)
  cmd,       (* the byte the keyboard has not taken yet, if any                *)
  held,      (* keys that are down                                             *)
  leds,      (* locks whose LED is lit                                         *)
  kb,        (* kb_state, as in Ps2Codes                                       *)
  event,     (* what the last keyboard_poll_ps2_keyevent() returned            *)
  keystate,  (* kc_state.keystate                                              *)
  locks,     (* locks that are set in kc_state                                 *)
  char,      (* what the last keyboard_getchar() returned                      *)
  mode,      (* the loop main() is in                                          *)
  pc,        (* polling, or at a step of ps2_send_keyboard_cmd_param()         *)
  missed,    (* history: vkeys whose last event never came to kc_state         *)
  typed      (* key presses and releases so far                                *)

vars == <<wire, cmd, held, leds, kb, event, keystate, locks, char, mode, pc, missed, typed>>

Init ==
  /\ wire = <<>> /\ cmd = <<>>
  /\ held = {} /\ leds = LitAtStart
  /\ kb = Normal /\ event = NoEvent
  /\ keystate = [v \in VKeys |-> FALSE] /\ locks = LitAtStart /\ char = NoChar
  /\ mode = "event" /\ pc = "poll" /\ missed = {}
  /\ typed = 0

-----------------------------------------------------------------------------
(* The user and the keyboard. A key that is held repeats its press.          *)
Send(packet) == wire' = wire \o packet

Type(packet) ==
  /\ typed < Typing
  /\ Send(packet)
  /\ typed' = typed + 1
  /\ UNCHANGED <<cmd, leds, kb, event, keystate, locks, char, mode, pc, missed>>

Press(k)   == Type(Make(k)) /\ held' = held \union {k}
Release(k) == k \in held /\ Type(Break(k)) /\ held' = held \ {k}
PressPause == Type(MakePause) /\ UNCHANGED held

Obey ==
  /\ cmd # <<>>
  /\ cmd' = <<>>
  /\ leds' = IF Head(cmd).param THEN Head(cmd).leds ELSE leds
  /\ Send(Answer)
  /\ UNCHANGED <<held, kb, event, keystate, locks, char, mode, pc, missed, typed>>

-----------------------------------------------------------------------------
(* keycode_process_vkey_event()                                              *)

(* Faulty variant: a combined vkey is set on a press and never cleared.      *)
UpdateOnPress(ks, ev) ==
  [v \in VKeys |-> IF v \in DOMAIN Combined
                   THEN ks[v] \/ (ev.pressed /\ ev.vkey \in Combined[v])
                   ELSE CASE v = ev.vkey -> ev.pressed
                          [] v # ev.vkey -> v # Pause /\ ks[v]]

(* The key's own state, the pause key's reset and the combined vkeys.        *)
UpdateKeys(ks, ev) ==
  LET single == [ks EXCEPT ![Pause] = FALSE, ![ev.vkey] = ev.pressed]
  IN  [v \in VKeys |-> IF v \in DOMAIN Combined THEN \E w \in Combined[v] : single[w]
                       ELSE single[v]]

Toggle(ls, ev) ==
  IF ev.pressed /\ ev.vkey \in Locks
  THEN (ls \ {ev.vkey}) \union ({ev.vkey} \ ls)
  ELSE ls

(* Faulty variant: shift and caps lock together are upper case too.          *)
FormOr(shift, ctrl, caps) ==
  IF shift \/ caps THEN "uppercase" ELSE IF ctrl THEN "ctrlchar" ELSE "ch"

(* keycode_info_char() for the press of a key.                               *)
Form(shift, ctrl, caps) ==
  CASE shift # caps            -> "uppercase"
    [] shift = caps /\ ctrl    -> "ctrlchar"
    [] shift = caps /\ ~ctrl   -> "ch"

(* Faulty variant: keys without a character are not told apart.              *)
CharOfAny(ev, ks, ls) ==
  IF ev.pressed THEN [vkey |-> ev.vkey, form |-> Form(ks[Shift], ks[Control], Caps \in ls)]
  ELSE NoChar

CharOf(ev, ks, ls) ==
  IF ev.pressed /\ ev.vkey \in Letters
  THEN [vkey |-> ev.vkey, form |-> Form(ks[Shift], ks[Control], Caps \in ls)]
  ELSE NoChar

-----------------------------------------------------------------------------
(* The driver. *)
(* Faulty variant: a byte is read only when the next one is there.           *)
ReadBehind == Len(wire) > 1 /\ wire' = Tail(wire)

Read == wire # <<>> /\ wire' = Tail(wire)

Decode ==
  LET r == Push(kb, Head(wire).byte)
  IN  /\ Read
      /\ kb'    = r.next
      /\ event' = r.ev

Saw(ev) == IF ev = NoEvent THEN {} ELSE {ev.vkey}

(* keyboard_poll_keyevent() finds a byte; main() leaves on the release of k. *)
PollEvent ==
  /\ pc = "poll" /\ mode = "event"
  /\ Decode
  /\ missed' = missed \union Saw(event')
  /\ mode'   = IF event' = [vkey |-> EventKey, pressed |-> FALSE] THEN "char" ELSE "event"
  /\ UNCHANGED <<cmd, held, leds, keystate, locks, char, pc, typed>>

(* keyboard_getchar() finds a byte; main() leaves on the character l or L.   *)
PollChar ==
  /\ pc = "poll" /\ mode = "char"
  /\ Decode
  /\ keystate' = IF event' = NoEvent THEN keystate ELSE UpdateKeys(keystate, event')
  /\ locks'    = IF event' = NoEvent THEN locks ELSE Toggle(locks, event')
  /\ char'     = IF event' = NoEvent THEN NoChar ELSE CharOf(event', keystate', locks')
  /\ pc'       = IF locks' # locks THEN "led_cmd" ELSE "poll"
  /\ mode'     = IF char'.vkey = CharKey /\ char'.form # "ctrlchar" THEN "event" ELSE "char"
  /\ missed'   = missed \ Saw(event')
  /\ UNCHANGED <<cmd, held, leds, typed>>

(* Either poll finds no byte. *)
PollEmpty ==
  /\ pc = "poll"
  /\ event' = NoEvent
  /\ char'  = IF mode = "char" THEN NoChar ELSE char
  /\ UNCHANGED <<wire, cmd, held, leds, kb, keystate, locks, mode, pc, missed, typed>>

(* ps2_send_keyboard_cmd_param(): ps2_write_output() waits until the         *)
(* controller has passed the byte before on.                                 *)
Write(byte) == cmd = <<>> /\ cmd' = <<byte>>

WriteSetLeds ==
  /\ pc = "led_cmd"
  /\ Write(SetLeds)
  /\ pc' = "led_param"
  /\ UNCHANGED <<wire, held, leds, kb, event, keystate, locks, char, mode, missed, typed>>

(* Faulty variant: the answer to SET_LEDS is awaited and the parameter       *)
(* forgotten.                                                                *)
WriteNoParam ==
  /\ pc = "led_param"
  /\ cmd = <<>>
  /\ pc' = "led_ack"
  /\ UNCHANGED <<wire, cmd, held, leds, kb, event, keystate, locks, char, mode, missed, typed>>

WriteParam ==
  /\ pc = "led_param"
  /\ Write(Param(locks))
  /\ pc' = "led_ack"
  /\ UNCHANGED <<wire, held, leds, kb, event, keystate, locks, char, mode, missed, typed>>

(* Faulty variant: the buffer is flushed for the answer, and the command not *)
(* sent again when the answer went with it.                                  *)
ReadFlushing ==
  /\ pc = "led_ack" /\ wire # <<>>
  /\ wire'   = <<>>
  /\ pc'     = IF wire[Len(wire)].byte = ACK THEN "poll" ELSE "led_ack"
  /\ missed' = missed \union UNION {Saw(wire[i].says) : i \in 1 .. Len(wire)}
  /\ UNCHANGED <<cmd, held, leds, kb, event, keystate, locks, char, mode, typed>>

(* The byte read may be a key's: it is dropped, and the command sent again.  *)
ReadAnswer ==
  /\ pc = "led_ack"
  /\ Read
  /\ pc'     = IF Head(wire).byte = ACK THEN "poll" ELSE "led_cmd"
  /\ missed' = missed \union Saw(Head(wire).says)
  /\ UNCHANGED <<cmd, held, leds, kb, event, keystate, locks, char, mode, typed>>

Driver == PollEvent \/ PollChar \/ PollEmpty \/ WriteSetLeds \/ WriteParam \/ ReadAnswer

User == \/ \E k \in Keys : Press(k) \/ Release(k)
        \/ PressPause

Next == User \/ Obey \/ Driver

Spec == Init /\ [][Next]_vars

(* The program polls whenever it can, the keyboard answers; the user need    *)
(* not do anything.                                                          *)
Fairness == /\ WF_vars(PollEvent) /\ WF_vars(PollChar) /\ WF_vars(WriteSetLeds)
            /\ WF_vars(WriteParam) /\ WF_vars(ReadAnswer)
            /\ WF_vars(Obey)

FairSpec == Spec /\ Fairness

-----------------------------------------------------------------------------
TypeOK ==
  /\ wire     \in Seq([byte : Byte, says : Event \union {NoEvent}])
  /\ cmd      \in {<<>>, <<SetLeds>>} \union {<<Param(l)>> : l \in SUBSET Locks}
  /\ held     \subseteq Keys
  /\ leds     \subseteq Locks
  /\ kb       \in State
  /\ event    \in Event \union {NoEvent}
  /\ keystate \in [VKeys -> BOOLEAN]
  /\ locks    \subseteq Locks
  /\ char     \in Char \union {NoChar}
  /\ mode     \in {"event", "char"}
  /\ pc       \in {"poll", "led_cmd", "led_param", "led_ack"}
  /\ missed   \subseteq VKeys
  /\ typed    \in 0 .. Typing

Settled == pc = "poll" /\ cmd = <<>>

(* Whenever the driver is polling and the keyboard has taken its commands,   *)
(* the LEDs show the locks of kc_state: not even an ACK left over from the   *)
(* command before, which ends the loop early, makes them differ.             *)
LedsMatch == Settled => leds = locks

(* Once everything that was typed is read, keystate has the keys that are    *)
(* down, and the shift and control vkeys whichever of their keys is: a stuck *)
(* or forgotten key is one whose event the event loop or the LED loop took.  *)
(* Of two keys with one vkey the release of either clears it.                *)
IsDown(vs)     == \E k \in held : k.means \in vs
Agrees(v, set) == (set => IsDown({v})) /\ (IsDown({v}) => set \/ Shared(v))

KeysTracked ==
  wire = <<>> =>
    /\ \A v \in VKeys \ ({Pause} \union DOMAIN Combined \union missed) : Agrees(v, keystate[v])
    /\ \A c \in DOMAIN Combined :
         Combined[c] \intersect missed = {} => keystate[c] = IsDown(Combined[c])

(* A letter typed when all is settled comes out as the caps LED and the      *)
(* shift keys that are down say: they cancel each other, and a control       *)
(* character needs that neither is on, or both are.                          *)
TypesWhatLedsSay ==
  [][(/\ Settled /\ mode = "char" /\ wire # <<>> /\ wire' = <<>> /\ char' # NoChar
      /\ (Combined[Shift] \union Combined[Control]) \intersect missed = {})
     => LET upper == (Caps \in leds) # IsDown(Combined[Shift])
        IN  /\ (char'.form = "uppercase") = upper
            /\ (char'.form = "ctrlchar") = (IsDown(Combined[Control]) /\ ~upper)]_vars

(* The LED command always gets its answer, however many keys are ahead of it. *)
LedLoopEnds == pc # "poll" ~> pc = "poll"

(* Key events come out in the order and with the meaning they were typed:    *)
(* the LED loop loses whole codes, never a part of one, and only right after *)
(* the press of a lock key.                                                  *)
KE == INSTANCE KeyEvents WITH
        pending <- Meant(wire),
        MayLose <- [vkey : Locks, pressed : {TRUE}]
Reports == KE!Spec

(* No key waits on the wire for ever, neither in main()'s loops nor behind   *)
(* an LED command.                                                           *)
EveryKeyComesOut == KE!Live
=============================================================================
