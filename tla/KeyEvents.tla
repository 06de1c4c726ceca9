----------------------------- MODULE KeyEvents ------------------------------
(* What a keyboard driver promises: key events come out in the order and    *)
(* with the meaning in which they were typed, none twice. Events typed       *)
(* behind the press of a lock key may be lost, and only those, only when     *)
(* MayLose.                                                                  *)
EXTENDS Sequences

CONSTANTS
  Event,    (* key events                                                    *)
  NoEvent,  (* nothing to report                                             *)
  MayLose   (* events after which events typed ahead may be lost             *)

VARIABLES
  pending,  (* typed and not reported, oldest first                          *)
  event     (* what the last poll reported                                   *)

vars == <<pending, event>>

Init == pending = <<>> /\ event = NoEvent

Type == /\ \E e \in Event : pending' = Append(pending, e)
        /\ UNCHANGED event

Take == /\ pending # <<>>
        /\ event'   = Head(pending)
        /\ pending' = Tail(pending)

Nothing == event' = NoEvent /\ UNCHANGED pending

Lose == /\ event \in MayLose
        /\ pending # <<>>
        /\ pending' = Tail(pending)
        /\ UNCHANGED event

Next == Type \/ Take \/ Nothing \/ Lose

Spec == Init /\ [][Next]_vars

(* What is typed comes out in the end.                                       *)
Live == WF_vars(Take)
=============================================================================
