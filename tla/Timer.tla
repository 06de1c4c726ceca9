------------------------------- MODULE Timer --------------------------------
(***************************************************************************)
(* test_interrupt() of apps/timer: a periodic timer whose interrupt sets   *)
(* one bit of an asynchronous endpoint; the task waits for it, acks, and   *)
(* prints a dot, or the time on every PerSecond-th wake-up.                *)
(*                                                                         *)
(* External: the timer (PIT) and the 8259, which latches an interrupt as   *)
(* an edge, also while it is masked; the kernel, which masks an interrupt  *)
(* when it delivers it until it is acked, ORs it into the endpoint's word, *)
(* and takes a deliverable interrupt before the task goes on; the platform *)
(* library, which may have used the timer to calibrate the TSC and left    *)
(* anything of it behind.                                                  *)
(***************************************************************************)
EXTENDS Boot

CONSTANTS
  Wakeups,    (* wake-ups before the timer is stopped: 1000 in the code      *)
  PerSecond,  (* wake-ups between two times printed: 100 in the code         *)
  MaxTicks    (* ticks are counted up to here: a bound of the model          *)

ASSUME TimerAssumption ==
  /\ Wakeups \in Nat /\ PerSecond \in Nat \ {0}
  /\ MaxTicks \in Nat

VARIABLES
  tmPc,    (* where test_interrupt() is                                      *)
  on,      (* the timer runs                                                 *)
  latch,   (* an edge is latched in the interrupt controller                 *)
  unmask,  (* the kernel has the interrupt unmasked                          *)
  word,    (* the endpoint's word is not 0                                   *)
  turn,    (* i of the loop                                                  *)
  count,   (* count of do_something()                                        *)
  prints,  (* times printed                                                  *)
  ticks,   (* interrupts of the timer since it was started                   *)
  stale    (* interrupts the calibration had left behind: a history variable *)

tmVars == <<tmPc, on, latch, unmask, word, turn, count, prints, ticks, stale>>

One(b) == IF b THEN 1 ELSE 0

TmInit ==
  /\ tmPc = "start"
  /\ on = FALSE
  /\ latch \in BOOLEAN /\ unmask \in BOOLEAN /\ word \in BOOLEAN
  /\ turn = 0 /\ count = 0 /\ prints = 0
  /\ ticks = 0
  /\ stale = One(latch) + One(word)

InTimer == Running({"timer"})

-----------------------------------------------------------------------------
(* The timer and the kernel. Ticks are counted up to MaxTicks.              *)
Tick ==
  /\ InTimer /\ on
  /\ ~(latch /\ unmask)
  /\ latch' = TRUE
  /\ ticks' = IF ticks < MaxTicks THEN ticks + 1 ELSE ticks
  /\ UNCHANGED <<life, tmPc, on, unmask, word, turn, count, prints, stale>>

DeliverTick ==
  /\ InTimer /\ latch /\ unmask
  /\ latch' = FALSE /\ unmask' = FALSE /\ word' = TRUE
  /\ UNCHANGED <<life, tmPc, on, turn, count, prints, ticks, stale>>

-----------------------------------------------------------------------------
(* The task. timer_periodic() is asserted; then the timer is started.       *)
Start ==
  /\ InTimer /\ tmPc = "start"
  /\ \/ tmPc' = "firstAck" /\ on' = TRUE /\ UNCHANGED life
     \/ life' = "halted" /\ UNCHANGED <<tmPc, on>>
  /\ UNCHANGED <<latch, unmask, word, turn, count, prints, ticks, stale>>

(* Faulty variant: the first sel4_timer_handle_single_irq() is left out.    *)
FirstAckForgotten ==
  /\ InTimer /\ tmPc = "firstAck"
  /\ tmPc' = "loop"
  /\ UNCHANGED <<life, on, latch, unmask, word, turn, count, prints, ticks, stale>>

FirstAck ==
  /\ InTimer /\ tmPc = "firstAck"
  /\ unmask' = TRUE
  /\ tmPc' = "loop"
  /\ UNCHANGED <<life, on, latch, word, turn, count, prints, ticks, stale>>

(* wait_for_interrupt(): wait, and ack.                                     *)
WaitTick ==
  /\ InTimer /\ tmPc = "loop" /\ turn < Wakeups
  /\ word
  /\ word' = FALSE
  /\ tmPc' = "ack"
  /\ UNCHANGED <<life, on, latch, unmask, turn, count, prints, ticks, stale>>

AckTick ==
  /\ InTimer /\ tmPc = "ack"
  /\ unmask' = TRUE
  /\ tmPc' = "print"
  /\ UNCHANGED <<life, on, latch, word, turn, count, prints, ticks, stale>>

(* Faulty variant: the count is never reduced.                              *)
CountedOn == count

(* Faulty variant: the count starts again one too early.                    *)
CountedShort == count % (PerSecond - 1)

Counted == count % PerSecond

DoSomething ==
  /\ InTimer /\ tmPc = "print"
  /\ prints' = IF Counted = 0 THEN prints + 1 ELSE prints
  /\ count'  = Counted + 1
  /\ turn'   = turn + 1
  /\ tmPc'   = "loop"
  /\ UNCHANGED <<life, on, latch, unmask, word, ticks, stale>>

Stop ==
  /\ InTimer /\ tmPc = "loop" /\ turn = Wakeups
  /\ on' = FALSE
  /\ unmask' = TRUE
  /\ life' = "done"
  /\ UNCHANGED <<tmPc, latch, word, turn, count, prints, ticks, stale>>

TmTask == Start \/ FirstAck \/ WaitTick \/ AckTick \/ DoSomething \/ Stop

TmNext ==
  /\ Tick \/ DeliverTick \/ TmTask
  /\ UNCHANGED <<app, at, have, misused>>

-----------------------------------------------------------------------------
TmTypeOK ==
  /\ tmPc \in {"start", "firstAck", "loop", "ack", "print"}
  /\ on \in BOOLEAN /\ latch \in BOOLEAN /\ unmask \in BOOLEAN /\ word \in BOOLEAN
  /\ turn \in 0 .. Wakeups
  /\ count \in 0 .. PerSecond
  /\ prints \in 0 .. Wakeups
  /\ ticks \in 0 .. MaxTicks
  /\ stale \in 0 .. 2

(* The task prints once in PerSecond wake-ups. Ticks that come while it     *)
(* prints share one bit and are lost, so the prints come late, but they are *)
(* never early: between the first and the last, PerSecond ticks have passed *)
(* for each, except for the two that the calibration may have left behind.  *)
(* The time that is printed is read from the clock and not from the count.  *)
NeverFast == ticks < MaxTicks => (prints - 1) * PerSecond <= ticks + stale

(* The loop comes to its end, whatever the calibration left: the ack before *)
(* it makes sure that an interrupt can be delivered at all, and one that is *)
(* latched between the wait and the ack is delivered by the ack.            *)
TimerLoopEnds == InTimer ~> ~InTimer

(* The timer ticks, the kernel delivers, the task runs when it can.         *)
TmFairness ==
  /\ WF_tmVars(Tick /\ UNCHANGED bootVars)
  /\ WF_tmVars(DeliverTick /\ UNCHANGED bootVars)
  /\ WF_<<tmVars, life>>(TmTask /\ UNCHANGED <<app, at, have, misused>>)
=============================================================================
