----------------------------- MODULE Ps2Decoder -----------------------------
(***************************************************************************)
(* The scancode decoder at work: keyboard_poll_keyevent() of the keyboard4 *)
(* driver, polled in a loop by main() ("press some keys"), against a       *)
(* keyboard that sends its keys, one byte at a time, into the controller's *)
(* output buffer. A poll finds the buffer empty whenever the bytes are     *)
(* slower than the loop.                                                   *)
(***************************************************************************)
EXTENDS Ps2Codes

CONSTANT Typing  (* keys typed in all: a bound of the model *)

ASSUME TypingAssumption == Typing \in Nat

VARIABLES
  wire,   (* bytes the keyboard has sent or is sending, oldest first          *)
  kb,     (* kb_state                                                        *)
  event,  (* what the last keyboard_poll_ps2_keyevent() returned             *)
  typed   (* keys typed so far                                               *)

vars == <<wire, kb, event, typed>>

Init ==
  /\ wire  = <<>>
  /\ kb    = Normal
  /\ event = NoEvent
  /\ typed = 0

(* A key goes down (again, when it repeats) or up, or a command is answered. *)
Type(packet) ==
  /\ typed < Typing
  /\ wire'  = wire \o packet
  /\ typed' = typed + 1
  /\ UNCHANGED <<kb, event>>

PollEmpty ==
  /\ event' = NoEvent
  /\ UNCHANGED <<wire, kb, typed>>

(* Faulty variant: a code without vkey leaves the release flag behind.      *)
PollKeepsRelease ==
  /\ wire # <<>>
  /\ LET r == Push(kb, Head(wire).byte)
     IN  /\ kb'    = IF r.ev = NoEvent /\ kb.release THEN [r.next EXCEPT !.release = TRUE]
                     ELSE r.next
         /\ event' = r.ev
  /\ wire' = Tail(wire)
  /\ UNCHANGED typed

Poll ==
  /\ wire # <<>>
  /\ LET r == Push(kb, Head(wire).byte)
     IN  /\ kb'    = r.next
         /\ event' = r.ev
  /\ wire' = Tail(wire)
  /\ UNCHANGED typed

Next ==
  \/ \E packet \in Packets : Type(packet)
  \/ PollEmpty
  \/ Poll

Spec == Init /\ [][Next]_vars

-----------------------------------------------------------------------------
TypeOK ==
  /\ wire  \in Seq([byte : Byte, says : Event \union {NoEvent}])
  /\ kb    \in State
  /\ event \in Event \union {NoEvent}
  /\ typed \in 0 .. Typing

(* A byte read from the buffer is reported as the key event the keyboard    *)
(* meant by it: no byte of a multi-byte code is ever taken for another key, *)
(* whatever was typed before it.                                            *)
DecodesRight == [][Len(wire') < Len(wire) => event' = Head(wire).says]_vars

(* Between two codes the driver is back in its normal state: an unmapped    *)
(* key, a released key or the pause key leaves no flag and no count behind. *)
NormalWhenIdle == wire = <<>> => kb = Normal

(* The decoder implements the promise of KeyEvents without any loss, and so *)
(* DecodesRight; that keys come out in the end is checked in Keyboard4.     *)
KE == INSTANCE KeyEvents WITH
        pending <- Meant(wire),
        MayLose <- {}
Reports == KE!Spec
=============================================================================
