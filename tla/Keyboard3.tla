------------------------------ MODULE Keyboard3 -----------------------------
(***************************************************************************)
(* The polling configuration of apps/keyboard3: main() calls               *)
(* check_keyboard1() in a loop, which polls the keyboard up to three times *)
(* so as to print an extended key in one piece. A poll that comes before   *)
(* the keyboard has sent the next byte finds the buffer empty.             *)
(*                                                                         *)
(* External: the platform library's keyboard_poll_ps2_keyevent(), which is *)
(* modelled by the copy of it in apps/keyboard4 (Ps2Codes), and its        *)
(* keycode_process_vkey_event_to_char(), which only prints here.           *)
(***************************************************************************)
EXTENDS Boot, Ps2Codes

CONSTANTS
  Leftovers,  (* what initialisation may have left in the buffer             *)
  Typing      (* keys typed in all: a bound of the model                     *)

ASSUME Keyboard3Assumption ==
  /\ Typing \in Nat
  /\ Leftovers \subseteq Seq([byte : Byte, says : {NoEvent}])

VARIABLES
  k3Pc,     (* flush, then first, second, third poll or the report           *)
  wire,     (* bytes the keyboard has sent or is sending, oldest first       *)
  kb,       (* my_kb_state                                                   *)
  ev,       (* ev of check_keyboard1(): the last poll's event                *)
  extmode,  (* extmode: the first poll left the decoder behind a prefix      *)
  printed,  (* the event check_keyboard1() printed last, or none             *)
  typed     (* keys typed so far                                             *)

k3Vars == <<k3Pc, wire, kb, ev, extmode, printed, typed>>

K3Init ==
  /\ k3Pc = "flush"
  /\ wire \in Leftovers
  /\ kb = Normal
  /\ ev = NoEvent /\ extmode = FALSE /\ printed = NoEvent
  /\ typed = 0

InK3(pc) == Running({"keyboard3"}) /\ k3Pc = pc

(* The user is asked to press keys when main() comes to its loop.           *)
TypeKey(packet) ==
  /\ Running({"keyboard3"}) /\ k3Pc # "flush"
  /\ typed < Typing
  /\ wire' = wire \o packet
  /\ typed' = typed + 1
  /\ UNCHANGED <<k3Pc, kb, ev, extmode, printed>>

(* flush_keyboard(): check_keyboard3() reads a byte until there is none.    *)
FlushByte ==
  /\ InK3("flush")
  /\ \/ wire # <<>> /\ wire' = Tail(wire) /\ UNCHANGED k3Pc
     \/ wire = <<>> /\ k3Pc' = "first" /\ UNCHANGED wire
  /\ UNCHANGED <<kb, ev, extmode, printed, typed>>

(* Faulty variant: a byte is read only when the next one is there.          *)
PollBehind ==
  /\ Len(wire) > 1
  /\ LET r == Push(kb, Head(wire).byte)
     IN  kb' = r.next /\ ev' = r.ev
  /\ wire' = Tail(wire)

(* keyboard_poll_ps2_keyevent(): a byte, or nothing in the buffer yet.      *)
PollByte ==
  /\ wire # <<>>
  /\ LET r == Push(kb, Head(wire).byte)
     IN  kb' = r.next /\ ev' = r.ev
  /\ wire' = Tail(wire)

PollNothing == ev' = NoEvent /\ UNCHANGED <<wire, kb>>

FirstPoll ==
  /\ InK3("first")
  /\ PollByte \/ PollNothing
  /\ extmode' = kb'.extended
  /\ k3Pc' = IF extmode' THEN "second" ELSE "report"
  /\ UNCHANGED <<printed, typed>>

(* Faulty variant: the third poll is made whenever the key is extended.     *)
ThirdAlways == extmode

(* A release prefix came second: the key's code is still to be read.        *)
ThirdNeeded == extmode /\ kb'.release

SecondPoll ==
  /\ InK3("second")
  /\ PollByte \/ PollNothing
  /\ k3Pc' = IF ThirdNeeded THEN "third" ELSE "report"
  /\ UNCHANGED <<extmode, printed, typed>>

ThirdPoll ==
  /\ InK3("third")
  /\ PollByte \/ PollNothing
  /\ k3Pc' = "report"
  /\ UNCHANGED <<extmode, printed, typed>>

Report ==
  /\ InK3("report")
  /\ printed' = ev
  /\ ev' = NoEvent
  /\ k3Pc' = "first"
  /\ UNCHANGED <<wire, kb, extmode, typed>>

CheckKeyboard1 == FirstPoll \/ SecondPoll \/ ThirdPoll \/ Report

K3Next ==
  /\ FlushByte \/ CheckKeyboard1 \/ \E packet \in Packets : TypeKey(packet)
  /\ UNCHANGED bootVars

-----------------------------------------------------------------------------
K3TypeOK ==
  /\ k3Pc \in {"flush", "first", "second", "third", "report"}
  /\ wire \in Seq([byte : Byte, says : Event \union {NoEvent}])
  /\ kb \in State
  /\ ev \in Event \union {NoEvent}
  /\ extmode \in BOOLEAN
  /\ printed \in Event \union {NoEvent}
  /\ typed \in 0 .. Typing

(* Every key event is printed, once and in order, however many of the polls  *)
(* of a round find the buffer empty and wherever a round cuts a code: a     *)
(* second or third poll never discards the event of the one before.         *)
KE == INSTANCE KeyEvents WITH
        pending <- IF ev = NoEvent THEN Meant(wire) ELSE <<ev>> \o Meant(wire),
        event   <- printed,
        MayLose <- {}
ReportsKeys == KE!Spec

(* What was typed is printed in the end.                                    *)
EveryKeyPrinted == KE!Live

(* The loop runs, and a byte that is on its way arrives.                    *)
K3Fairness ==
  /\ WF_k3Vars(CheckKeyboard1 /\ UNCHANGED bootVars)
  /\ SF_k3Vars(CheckKeyboard1 /\ wire # wire' /\ UNCHANGED bootVars)
=============================================================================
