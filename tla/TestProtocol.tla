----------------------------- MODULE TestProtocol -----------------------------
(***************************************************************************)
(* How sel4test-driver runs a test (run_test()): the test is a process of  *)
(* its own, it may start helper threads and processes, and all of them     *)
(* share one endpoint with the driver.  The driver sends the address of    *)
(* the init data over it, and the test's result, an abort() and every      *)
(* fault of the test or of a helper come back over it; the first message   *)
(* decides.  The driver then takes back all the memory of the test.        *)
(*                                                                         *)
(* The kernel runs the runnable thread with the highest priority: the      *)
(* driver, then the test, which runs at the highest priority a helper can  *)
(* have (set_helper_priority()); threads of one priority take turns.  What *)
(* the helpers do among themselves is left open.  Senders wait in the      *)
(* endpoint in their order, the driver with its init data among them.      *)
(***************************************************************************)
EXTENDS Naturals, Sequences

CONSTANTS NumTests,         \* how many tests the suite has
          Helpers,          \* the helpers a test may create
          MayFault          \* where the test process may fault

ASSUME NumTestsAssumption == NumTests \in Nat \ {0}
ASSUME HelpersAssumption == Helpers \cap {"driver", "test"} = {}
ASSUME MayFaultAssumption == MayFault \subseteq {"start", "run"}

VARIABLES driver,           \* where run_test() is
          process,          \* where the test process is
          peer,             \* the helper it waits for or cleans up
          helper,           \* where each helper is
          kind,             \* is it a thread or a process?
          prio,             \* its priority, compared to the test's
          ep,               \* the senders that wait in the fault endpoint
          failed,           \* the tests in which something went wrong
          report            \* the results printed so far

vars == <<driver, process, peer, helper, kind, prio, ep, failed, report>>
helpers == <<helper, kind, prio>>

Suite == INSTANCE TestSuite

Messages == [from : Helpers \cup {"driver", "test"},
             label : {"NoFault", "Fault"}, mr0 : {"SUCCESS", "FAILURE", "address"}]
Says(t, result) == [from |-> t, label |-> "NoFault", mr0 |-> result]
\* The first word of a fault message is an address or a number: it may be
\* any value, that of SUCCESS included.
Faults(t) == [from : {t}, label : {"Fault"}, mr0 : {"SUCCESS", "FAILURE", "address"}]

Init ==
    /\ driver = "configure"
    /\ process = "none"
    /\ peer \in Helpers
    /\ helper = [h \in Helpers |-> "none"]
    /\ kind = [h \in Helpers |-> "thread"]
    /\ prio = [h \in Helpers |-> "below"]
    /\ ep = <<>>
    /\ failed = {}
    /\ report = <<>>

Current == Len(report) + 1
Wrong == failed' = failed \cup {Current}

(***************************************************************************)
(* The scheduler.                                                          *)
(***************************************************************************)
DriverRuns ==
    \/ driver \in {"configure", "send", "revoke", "destroy"}
    \/ driver = "wait" /\ ep # <<>>

TestRuns ==
    \/ process \in {"start", "run", "cleanup", "sent"}
    \/ process = "recv" /\ ep # <<>>
    \/ process = "waiting" /\ helper[peer] = "calling"

\* Faulty variant: the test has the priority of the driver.
TestMayRoundRobin == TestRuns

\* main_continued() gives the tests seL4_MaxPrio - 1, one below the driver.
TestMay == TestRuns /\ ~DriverRuns
HelperMay(h) == ~DriverRuns /\ (TestRuns => prio[h] = "same")

\* A thread that is deleted no longer waits in the endpoint.
Waiting == {ep[i].from : i \in DOMAIN ep}
Cancel(threads) ==
    ep' = IF Waiting \cap threads = {} THEN ep
          ELSE SelectSeq(ep, LAMBDA m : m.from \notin threads)

(***************************************************************************)
(* The driver: run_test().                                                 *)
(***************************************************************************)
Spawn ==
    /\ driver = "configure" /\ Current <= NumTests
    /\ driver' = "send"
    /\ process' = "start"
    /\ UNCHANGED <<peer, helpers, ep, failed, report>>

SendInitData ==
    /\ driver = "send"
    /\ driver' = "sending"
    /\ ep' = Append(ep, Says("driver", "address"))
    /\ UNCHANGED <<process, peer, helpers, failed, report>>

\* Faulty variant: the label is not looked at.
ResultOfMr0(m) == m.mr0

ResultOf(m) == IF m.label # "NoFault" THEN "FAILURE" ELSE m.mr0

\* The driver takes the first message; a process that waited for its plain
\* message to be taken could go on.
WaitForResult ==
    /\ driver = "wait" /\ ep # <<>>
    /\ report' = Append(report, ResultOf(Head(ep)))
    /\ ep' = Tail(ep)
    /\ process' = IF process = "sending" /\ Head(ep).from = "test" THEN "sent" ELSE process
    /\ driver' = "revoke"
    /\ UNCHANGED <<peer, helpers, failed>>

\* Faulty variant: the untypeds are not revoked.
RevokeNothing == UNCHANGED <<helper, ep>>

\* All objects of the helpers were made from the untypeds of the test.
RevokeUntypeds ==
    /\ helper' = [h \in Helpers |-> "none"]
    /\ Cancel(Helpers)

Revoke ==
    /\ driver = "revoke"
    /\ driver' = "destroy"
    /\ RevokeUntypeds
    /\ UNCHANGED <<process, peer, kind, prio, failed, report>>

\* The fault endpoint is the process's own and goes with it.
Destroy ==
    /\ driver = "destroy"
    /\ driver' = IF Current <= NumTests THEN "configure" ELSE "done"
    /\ process' = "none"
    /\ ep' = <<>>
    /\ UNCHANGED <<peer, helpers, failed, report>>

DriverNext == Spawn \/ SendInitData \/ WaitForResult \/ Revoke \/ Destroy

(***************************************************************************)
(* The test process: main() and the test function, which may do with its   *)
(* helpers what the functions of helpers.c allow.                          *)
(***************************************************************************)
Go(from, to) == process = from /\ process' = to /\ TestMay

Start ==
    /\ Go("start", "recv")
    /\ UNCHANGED <<driver, peer, helpers, ep, failed, report>>

ReceiveInitData ==
    /\ Go("recv", "run")
    /\ ep' = Tail(ep)
    /\ driver' = "wait"
    /\ UNCHANGED <<peer, helpers, failed, report>>

CreateHelper(h) ==
    /\ Go("run", "run")
    /\ helper[h] = "none"
    /\ helper' = [helper EXCEPT ![h] = "created"]
    /\ \E k \in {"thread", "process"} : kind' = [kind EXCEPT ![h] = k]
    /\ \E p \in {"below", "same"} : prio' = [prio EXCEPT ![h] = p]
    /\ UNCHANGED <<driver, peer, ep, failed, report>>

StartHelper(h) ==
    /\ Go("run", "run")
    /\ helper[h] = "created"
    /\ helper' = [helper EXCEPT ![h] = "run"]
    /\ UNCHANGED <<driver, peer, kind, prio, ep, failed, report>>

\* wait_for_helper() blocks, or finds the helper in its call already
WaitForHelper(h) ==
    /\ Go("run", "waiting")
    /\ helper[h] \in {"run", "calling", "failed"}
    /\ peer' = h
    /\ UNCHANGED <<driver, helpers, ep, failed, report>>

TakeHelperResult ==
    /\ Go("waiting", "run")
    /\ helper' = [helper EXCEPT ![peer] = "served"]
    /\ UNCHANGED <<driver, peer, kind, prio, ep, failed, report>>

\* cleanup_helper() frees the local endpoint first: a helper thread that
\* waits in it has its call restarted, without a capability.  A helper
\* process has a copy of the capability.  The tests that run a helper at
\* their own priority wait for it first.
FreeEndpoint(h) ==
    /\ Go("run", "cleanup")
    /\ helper[h] \notin {"none", "gone"}
    /\ prio[h] = "same" => helper[h] = "served"
    /\ peer' = h
    /\ helper' = [helper EXCEPT ![h] =
                     IF @ = "calling" /\ kind[h] = "thread" THEN "restarted" ELSE @]
    /\ UNCHANGED <<driver, kind, prio, ep, failed, report>>

DestroyHelper ==
    /\ Go("cleanup", "run")
    /\ helper' = [helper EXCEPT ![peer] = "gone"]
    /\ Cancel({peer})
    /\ UNCHANGED <<driver, peer, kind, prio, failed, report>>

SendResult ==
    /\ Go("run", "sending")
    /\ \E result \in {"SUCCESS", "FAILURE"} :
          /\ ep' = Append(ep, Says("test", result))
          /\ IF result = "SUCCESS" THEN UNCHANGED failed ELSE Wrong
    /\ UNCHANGED <<driver, peer, helpers, report>>

Abort ==
    /\ Go("run", "sending")
    /\ ep' = Append(ep, Says("test", "FAILURE"))
    /\ Wrong
    /\ UNCHANGED <<driver, peer, helpers, report>>

Fault ==
    /\ process \in MayFault /\ Go(process, "faulted")
    /\ \E m \in Faults("test") : ep' = Append(ep, m)
    /\ Wrong
    /\ UNCHANGED <<driver, peer, helpers, report>>

TestNext ==
    \/ Start \/ ReceiveInitData \/ TakeHelperResult \/ DestroyHelper
    \/ SendResult \/ Abort \/ Fault
    \/ \E h \in Helpers : CreateHelper(h) \/ StartHelper(h) \/ WaitForHelper(h)
                             \/ FreeEndpoint(h)

(***************************************************************************)
(* A helper.                                                               *)
(***************************************************************************)
\* Faulty variant: the helper is created without a fault endpoint.
DeliverNoFault(h) == UNCHANGED ep

\* The kernel sends a fault to the endpoint that create_helper_thread() or
\* create_helper_process() has given the helper: the test's own.
DeliverFault(h) == \E m \in Faults(h) : ep' = Append(ep, m)

FailHelper(h) ==
    /\ helper' = [helper EXCEPT ![h] = "failed"]
    /\ UNCHANGED <<driver, process, peer, kind, prio, report>>

\* the test has freed the endpoint, of which only a process has a copy
EndpointFreed(h) == process = "cleanup" /\ peer = h /\ kind[h] = "thread"

\* signal_helper_finished(): the call of a capability that is gone faults
Finish(h) ==
    /\ HelperMay(h)
    /\ helper[h] \in {"run", "restarted"}
    /\ IF EndpointFreed(h)
         THEN FailHelper(h) /\ DeliverFault(h)
         ELSE /\ helper' = [helper EXCEPT ![h] = "calling"]
              /\ UNCHANGED <<driver, process, peer, kind, prio, ep, report>>
    /\ UNCHANGED failed

FaultHelper(h) ==
    /\ HelperMay(h)
    /\ helper[h] = "run"
    /\ DeliverFault(h)
    /\ FailHelper(h)
    /\ Wrong

\* abort() names the endpoint of the test, which another process lacks:
\* there the send itself faults
AbortHelper(h) ==
    /\ HelperMay(h)
    /\ helper[h] = "run"
    /\ IF kind[h] = "thread" THEN ep' = Append(ep, Says(h, "FAILURE")) ELSE DeliverFault(h)
    /\ FailHelper(h)
    /\ Wrong

HelperNext(h) == Finish(h) \/ FaultHelper(h) \/ AbortHelper(h)

Next == DriverNext \/ TestNext \/ \E h \in Helpers : HelperNext(h)

Spec == Init /\ [][Next]_vars

(***************************************************************************)
(* Nobody with the processor stops for ever, and a helper comes to an end: *)
(* the tests give a helper that they wait for a finite job.                *)
(***************************************************************************)
FairSpec ==
    /\ Spec
    /\ WF_vars(DriverNext)
    /\ WF_vars(TestNext)
    /\ \A h \in Helpers : WF_vars(HelperNext(h))

(***************************************************************************)
(* Properties.                                                             *)
(***************************************************************************)
\* Every variable has its type.
TypeOK ==
    /\ driver \in {"configure", "send", "sending", "wait", "revoke", "destroy", "done"}
    /\ process \in {"none", "start", "recv", "run", "waiting", "cleanup", "sending",
                    "sent", "faulted"}
    /\ peer \in Helpers
    /\ helper \in [Helpers -> {"none", "created", "run", "calling", "restarted",
                               "served", "failed", "gone"}]
    /\ kind \in [Helpers -> {"thread", "process"}]
    /\ prio \in [Helpers -> {"below", "same"}]
    /\ ep \in Seq(Messages)
    /\ failed \subseteq 1..NumTests
    /\ report \in Seq({"SUCCESS", "FAILURE"})

\* The driver reports every test once, as FAILURE exactly if the test, or a
\* helper of it, failed, aborted or faulted: one message decides in
\* run_test(), a fault after it or one that cleanup_helper() provokes would
\* make the verdict wrong.
ReportsTruly == Suite!SuiteSpec

\* main() and abort() of the test process are never scheduled again once
\* their last message is taken: assert(!"unreachable").
NeverRunsOn == ~(process = "sent" /\ TestMay)

\* A test begins with an endpoint and with memory that nobody uses: no
\* helper of the test before it, nor a message of one, is left (run_test()
\* resets the untypeds and destroys the process).
StartsClean ==
    driver = "configure" =>
        /\ process = "none"
        /\ \A h \in Helpers : helper[h] = "none"
        /\ ep = <<>>

\* Every test finishes or faults, and is reported: the driver, the test and
\* its helpers never all wait for each other.
EveryTestReported == <>(driver = "done" /\ Len(report) = NumTests)
=============================================================================
