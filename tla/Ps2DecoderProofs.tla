-------------------------- MODULE Ps2DecoderProofs --------------------------
(***************************************************************************)
(* The scancode decoder reports the right key event for every byte, for    *)
(* every scan set, every table that is right (TableRight) and every number *)
(* of keys. The inductive invariant is Aligned: the bytes in the buffer    *)
(* lead the driver from its present state, each with the event its byte    *)
(* means, back to its normal state. A packet preserves it because it       *)
(* starts and ends in the normal state, a poll because it takes one step   *)
(* of that path. Every step is then one of KeyEvents for what the bytes in *)
(* the buffer mean.                                                        *)
(***************************************************************************)
EXTENDS Ps2Decoder, Ps2CodesProofs

Aligned == Leads(kb, wire)

-----------------------------------------------------------------------------
(* The inductive invariant: types, and a path back to the normal state.     *)
IInv == /\ wire \in Seq(Item) /\ kb \in State
        /\ event \in Told /\ typed \in 0 .. Typing
        /\ Aligned

(* The driver starts in the normal state with nothing to read.              *)
LEMMA InitIInv == Init => IInv
<1> SUFFICES ASSUME Init PROVE IInv
  OBVIOUS
<1> QED BY PathEmpty, NormalIsState, TypingAssumption DEF Init, IInv, Aligned, Leads, Path

(* A packet or a poll keeps the invariant, given a right table; a poll      *)
(* reports what its byte means.                                             *)
LEMMA NextIInv ==
  ASSUME TableRight, IInv, [Next]_vars
  PROVE  IInv' /\ (Len(wire') < Len(wire) => event' = Head(wire).says)
<1> USE DEF IInv
<1>0. wire \in Seq(Item)
  OBVIOUS
<1>1. ASSUME NEW p \in Packets, Type(p)
      PROVE  IInv' /\ Len(wire') >= Len(wire)
  <2>1. Clean(p)
    BY PacketsAreClean
  <2>2. /\ wire' = wire \o p /\ wire \o p \in Seq(Item)
        /\ Len(wire \o p) = Len(wire) + Len(p) /\ Len(p) \in Nat /\ Len(wire) \in Nat
    BY <1>1, <2>1, ConcatProperties DEF Type, Clean
  <2>3. Leads(kb, wire \o p)
    BY <2>1, PathGrows DEF Aligned, Clean
  <2>4. Aligned'
    BY <1>1, <2>2, <2>3 DEF Type, Aligned, Leads, Path
  <2> QED BY <1>1, <2>2, <2>4, TypingAssumption DEF Type
<1>2. CASE PollEmpty
  BY <1>2, NormalIsState DEF PollEmpty, Aligned, Leads, Path
<1>3. ASSUME Poll
      PROVE  IInv' /\ event' = Head(wire).says
  <2> DEFINE r == Push(kb, Head(wire).byte)
  <2>1. /\ Leads(r.next, Tail(wire)) /\ r.ev = Head(wire).says /\ r.next \in State
    BY <1>3, PathShrinks DEF Poll, Aligned
  <2>2. /\ kb' = r.next /\ event' = r.ev /\ wire' = Tail(wire) /\ typed' = typed
        /\ wire # <<>>
    BY <1>3 DEF Poll
  <2> HIDE DEF r
  <2>3. Head(wire) \in Item /\ Tail(wire) \in Seq(Item)
    BY <1>0, <2>2, HeadTailProperties
  <2>4. Aligned'
    BY <2>1, <2>2 DEF Aligned, Leads, Path
  <2> QED BY <2>1, <2>2, <2>3, <2>4 DEF Item
<1>4. CASE UNCHANGED vars
  BY <1>4 DEF vars, Aligned, Leads, Path
<1>5. Len(wire) \in Nat
  BY <1>0
<1>6. CASE \E p \in Packets : Type(p)
  <2>1. PICK p \in Packets : Type(p)
    BY <1>6
  <2>2. IInv' /\ Len(wire') >= Len(wire)
    BY <1>1, <2>1
  <2>3. Len(wire') \in Nat
    BY <2>2
  <2> QED BY <1>5, <2>2, <2>3
<1>7. (PollEmpty \/ UNCHANGED vars) => wire' = wire
  BY DEF PollEmpty, vars
<1> QED BY <1>2, <1>3, <1>4, <1>5, <1>6, <1>7 DEF Next

(* The types are kept whatever the table says.                              *)
THEOREM TypeCorrect == Spec => []TypeOK
<1> DEFINE Types == /\ wire \in Seq(Item) /\ kb \in State
                    /\ event \in Told /\ typed \in 0 .. Typing
<1>1. Types <=> TypeOK
  BY DEF TypeOK, Item, Told
<1>2. Init => Types
  BY InitIInv DEF IInv
<1>3. Types /\ [Next]_vars => Types'
  <2> SUFFICES ASSUME Types, [Next]_vars PROVE Types'
    OBVIOUS
  <2>1. ASSUME NEW p \in Packets, Type(p)
        PROVE  Types'
    <3>1. p \in Seq(Item)
      BY Packet DEF Packets
    <3>2. wire' \in Seq(Item)
      BY <2>1, <3>1, ConcatProperties DEF Type
    <3> QED BY <2>1, <3>2, TypingAssumption DEF Type
  <2>2. CASE Poll
    <3> DEFINE r == Push(kb, Head(wire).byte)
    <3>1. Head(wire) \in Item /\ Tail(wire) \in Seq(Item)
      BY <2>2, HeadTailProperties DEF Poll
    <3>2. r.next \in State /\ r.ev \in Told
      BY <3>1, PushTypes DEF Item
    <3>3. kb' = r.next /\ event' = r.ev /\ wire' = Tail(wire) /\ typed' = typed
      BY <2>2 DEF Poll
    <3> QED BY <3>1, <3>2, <3>3
  <2>3. CASE PollEmpty \/ UNCHANGED vars
    BY <2>3, NormalIsState DEF PollEmpty, vars
  <2> QED BY <2>1, <2>2, <2>3 DEF Next
<1> HIDE DEF Types
<1> QED BY <1>1, <1>2, <1>3, PTL DEF Spec

(* When no byte is left in the buffer the driver is in its normal state:    *)
(* keyboard_state_push_ps2_keyevent() leaves no flag and no count behind    *)
(* after any sequence of keys, the pause key and answers among them.        *)
THEOREM IdleIsNormal == TableRight => (Spec => []NormalWhenIdle)
<1> SUFFICES ASSUME TableRight PROVE Spec => []NormalWhenIdle
  OBVIOUS
<1>1. IInv => NormalWhenIdle
  BY PathEnds DEF IInv, Aligned, NormalWhenIdle
<1>2. IInv /\ [Next]_vars => IInv'
  BY NextIInv
<1> QED BY <1>1, <1>2, InitIInv, PTL DEF Spec

(* Every byte is reported as the event its key meant by it, whatever was    *)
(* typed before it: no byte of a multi-byte code is taken for another key.  *)
THEOREM ReportsRight == TableRight => (Spec => DecodesRight)
<1> SUFFICES ASSUME TableRight PROVE Spec => DecodesRight
  OBVIOUS
<1>1. IInv /\ [Next]_vars => IInv'
  BY NextIInv
<1>2. IInv /\ [Next]_vars => [Len(wire') < Len(wire) => event' = Head(wire).says]_vars
  BY NextIInv
<1> QED BY <1>1, <1>2, InitIInv, PTL DEF Spec, DecodesRight

-----------------------------------------------------------------------------
(* A step of the decoder, seen as one of KeyEvents: a packet adds the event *)
(* it means, a poll takes the first or reports that there is none.          *)
LEMMA StepReports ==
  ASSUME TableRight, IInv, [Next]_vars
  PROVE  [KE!Next]_(KE!vars)
<1>0. wire \in Seq(Item)
  BY DEF IInv
<1>1. ASSUME NEW p \in Packets, Type(p)
      PROVE  KE!Type \/ UNCHANGED KE!vars
  <2>1. wire' = wire \o p /\ event' = event /\ p \in Seq(Item)
    BY <1>1, PacketsAreClean DEF Type, Clean
  <2>2. Meant(wire') = Meant(wire) \o Meant(p) /\ Meant(wire) \in Seq(Event)
    BY <1>0, <2>1, MeantConcat, MeantType
  <2>3. CASE Meant(p) = <<>>
    BY <2>1, <2>2, <2>3, ConcatEmptySeq DEF KE!vars
  <2>4. CASE \E e \in Event : Meant(p) = <<e>>
    <3>1. PICK e \in Event : Meant(p) = <<e>>
      BY <2>4
    <3>2. Meant(wire') = Append(Meant(wire), e)
      BY <2>2, <3>1, AppendIsConcat
    <3> QED BY <2>1, <3>2 DEF KE!Type
  <2> QED BY <2>3, <2>4, PacketMeans
<1>2. CASE PollEmpty
  BY <1>2 DEF PollEmpty, KE!Nothing, KE!Next
<1>3. CASE Poll
  <2>1. event' = Head(wire).says /\ wire' = Tail(wire) /\ wire # <<>>
    <3>1. Len(wire') < Len(wire)
      BY <1>0, <1>3, HeadTailProperties, EmptySeq DEF Poll
    <3> QED BY <1>3, <3>1, NextIInv DEF Poll
  <2>2. Meant(wire) = IF Head(wire).says = NoEvent THEN Meant(wire')
                      ELSE <<Head(wire).says>> \o Meant(wire')
    BY <1>0, <2>1, MeantTail
  <2>3. CASE Head(wire).says = NoEvent
    BY <2>1, <2>2, <2>3 DEF KE!Nothing, KE!Next
  <2>4. CASE Head(wire).says # NoEvent
    <3>1. Head(wire).says \in Event /\ Meant(wire') \in Seq(Event)
      <4>1. Head(wire) \in Item /\ wire' \in Seq(Item)
        BY <1>0, <2>1, HeadTailProperties
      <4> QED BY <2>4, <4>1, MeantType DEF Item, Told
    <3>2. /\ Meant(wire) # <<>> /\ Head(Meant(wire)) = event'
          /\ Tail(Meant(wire)) = Meant(wire')
      BY <2>1, <2>2, <2>4, <3>1, TakenFirst
    <3> QED BY <3>2 DEF KE!Take, KE!Next
  <2> QED BY <2>3, <2>4
<1>4. CASE UNCHANGED vars
  BY <1>4 DEF vars, KE!vars
<1>5. CASE \E p \in Packets : Type(p)
  BY <1>1, <1>5 DEF KE!Next
<1> QED BY <1>2, <1>3, <1>4, <1>5 DEF Next

(* The decoder keeps the promise of KeyEvents without any loss: whatever is *)
(* typed and however the polls interleave with the bytes, the events come   *)
(* out in the order in which they were typed, none twice and none made up.  *)
THEOREM Implements == TableRight => (Spec => Reports)
<1> SUFFICES ASSUME TableRight PROVE Spec => Reports
  OBVIOUS
<1>1. Init => KE!Init
  BY MeantEmpty DEF Init, KE!Init
<1>2. IInv /\ [Next]_vars => IInv'
  BY NextIInv
<1>3. IInv /\ [Next]_vars => [KE!Next]_(KE!vars)
  BY StepReports
<1> QED BY <1>1, <1>2, <1>3, InitIInv, PTL DEF Spec, Reports, KE!Spec
=============================================================================
