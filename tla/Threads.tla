------------------------------ MODULE Threads -------------------------------
(***************************************************************************)
(* run_threads() of apps/threads: the root task makes two threads out of   *)
(* raw capabilities, gives each an entry point and a stack through one     *)
(* register structure that it uses for both, resumes them and spins. Each  *)
(* thread prints, yields, and spins when it is done.                       *)
(*                                                                         *)
(* The results of the system calls are printed and not looked at: when the *)
(* slots were not free there are no threads and every later call fails.    *)
(*                                                                         *)
(* External: the kernel's scheduler. All three run at priority 255, round  *)
(* robin; a tick of its timer moves the running thread to the end.         *)
(***************************************************************************)
EXTENDS Boot

CONSTANT Lines  (* lines a thread prints: 10 in the code                    *)

ASSUME ThreadsAssumption == Lines \in Nat \ {0}

Workers == {0, 1}
Root    == 2

Regs   == [eip : Workers \union {-1}, esp : Workers \union {-1}]
NoRegs == [eip |-> -1, esp |-> -1]

VARIABLES
  thPc,     (* where run_threads() is                                        *)
  tcbs,     (* the TCBs exist                                                *)
  regs,     (* the register structure on the root task's stack               *)
  context,  (* context[t]: thread whose code and whose stack t runs on       *)
  ready,    (* the scheduler's queue; its head runs                          *)
  lines     (* lines[t]: lines thread t has printed                          *)

thVars == <<thPc, tcbs, regs, context, ready, lines>>

ThInit ==
  /\ thPc = "retype"
  /\ tcbs = FALSE
  /\ regs = NoRegs
  /\ context = [t \in Workers |-> NoRegs]
  /\ ready = <<Root>>
  /\ lines = [t \in Workers |-> 0]

Runs(t) == Running({"threads"}) /\ ready # <<>> /\ Head(ready) = t

-----------------------------------------------------------------------------
(* run_threads(): one action for each of its system calls. *)

RetypeTcbs ==
  /\ Runs(Root) /\ thPc = "retype"
  /\ tcbs' \in BOOLEAN
  /\ thPc' = "configure0"
  /\ UNCHANGED <<regs, context, ready, lines>>

(* seL4_TCB_Configure() gives thread t the root task's address space and no *)
(* fault endpoint; nothing of it is visible here.                           *)
Configure(t) ==
  /\ Runs(Root) /\ thPc = (IF t = 0 THEN "configure0" ELSE "configure1")
  /\ thPc' = IF t = 0 THEN "read0" ELSE "read1"
  /\ UNCHANGED <<tcbs, regs, context, ready, lines>>

(* A failed read leaves the structure as it was.                            *)
ReadRegisters(t) ==
  /\ Runs(Root) /\ thPc = (IF t = 0 THEN "read0" ELSE "read1")
  /\ regs' = IF tcbs THEN context[t] ELSE regs
  /\ thPc' = IF t = 0 THEN "write0" ELSE "write1"
  /\ UNCHANGED <<tcbs, context, ready, lines>>

(* Faulty variant: the stack is only set for the first thread.              *)
SetRegsOnce(t) == IF t = 0 THEN [eip |-> t, esp |-> t] ELSE [regs EXCEPT !.eip = t]

SetRegs(t) == [regs EXCEPT !.eip = t, !.esp = t]

WriteRegisters(t) ==
  /\ Runs(Root) /\ thPc = (IF t = 0 THEN "write0" ELSE "write1")
  /\ regs' = SetRegs(t)
  /\ context' = IF tcbs THEN [context EXCEPT ![t] = regs'] ELSE context
  /\ thPc' = IF t = 0 THEN "configure1" ELSE "resume0"
  /\ UNCHANGED <<tcbs, ready, lines>>

(* The kernel may put the resumed thread at either end of the queue.        *)
Resume(t) ==
  /\ Runs(Root) /\ thPc = (IF t = 0 THEN "resume0" ELSE "resume1")
  /\ IF tcbs THEN ready' \in {Append(ready, t), <<t>> \o ready} ELSE UNCHANGED ready
  /\ thPc' = IF t = 0 THEN "resume1" ELSE "spin"
  /\ UNCHANGED <<tcbs, regs, context, lines>>

RunThreads ==
  \/ RetypeTcbs
  \/ \E t \in Workers : Configure(t) \/ ReadRegisters(t) \/ WriteRegisters(t) \/ Resume(t)

-----------------------------------------------------------------------------
Rotated == Append(Tail(ready), Head(ready))

(* Faulty variant: a thread that yields is not queued again.                *)
YieldedAway == Tail(ready)

(* seL4_Yield().                                                            *)
Yielded == Rotated

(* One turn of a thread's loop: it prints a line and yields. What it does   *)
(* is decided by its eip, and the stack it uses by its esp.                 *)
PrintLine(t) ==
  /\ Runs(t)
  /\ lines[t] < Lines
  /\ lines' = [lines EXCEPT ![t] = @ + 1]
  /\ ready' = Yielded
  /\ UNCHANGED <<thPc, tcbs, regs, context>>

(* The timer tick, in the loops for(;;); and anywhere else.                 *)
Preempt ==
  /\ Running({"threads"}) /\ Len(ready) > 1
  /\ ready' = Rotated
  /\ UNCHANGED <<thPc, tcbs, regs, context, lines>>

ThNext ==
  /\ RunThreads \/ Preempt \/ \E t \in Workers : PrintLine(t)
  /\ UNCHANGED bootVars

-----------------------------------------------------------------------------
ThTypeOK ==
  /\ tcbs \in BOOLEAN
  /\ regs \in Regs
  /\ context \in [Workers -> Regs]
  /\ ready \in Seq(Workers \union {Root})
  /\ lines \in [Workers -> 0 .. Lines]

(* Every thread that can be scheduled runs its own function on its own      *)
(* stack: regs holds the values of the other thread for a while, and what   *)
(* is not set again before the second write would be carried over.          *)
OwnStack ==
  \A i \in DOMAIN ready : ready[i] \in Workers =>
    context[ready[i]] = [eip |-> ready[i], esp |-> ready[i]]

(* Both threads print all their lines, though the root task and each thread *)
(* that is done spin at the same priority: once resumed, a thread is never  *)
(* lost from the queue, and the timer takes the processor from whoever      *)
(* spins.                                                                   *)
ThreadsFinish ==
  \A t \in Workers : (\E i \in DOMAIN ready : ready[i] = t) ~> lines[t] = Lines

(* The processor runs, and the timer ticks; a thread gets as far as its     *)
(* next step in one of its turns.                                           *)
ThFairness ==
  /\ WF_thVars(Preempt /\ UNCHANGED bootVars)
  /\ SF_thVars(RunThreads /\ UNCHANGED bootVars)
  /\ \A t \in Workers : SF_thVars(PrintLine(t) /\ UNCHANGED bootVars)
=============================================================================
