-------------------------- MODULE TestProtocolProofs --------------------------
(***************************************************************************)
(* What TestProtocol guarantees for every number of tests and helpers, and *)
(* wherever the test process may fault: type correctness, that the process *)
(* never runs on, that every test begins in a clean system, and that the   *)
(* protocol implements TestSuite.                                          *)
(***************************************************************************)
EXTENDS TestProtocol, SequenceTheorems, TLAPS

(* The numbers of the tests.                                                *)
Counted ==
    /\ Len(report) <= NumTests
    /\ driver \in {"configure", "send", "sending", "wait"} => Current <= NumTests
    /\ \A k \in failed : k <= Current
    /\ driver \notin {"sending", "wait"} => Current \notin failed

NoHelper == \A h \in Helpers : helper[h] = "none"

(* The driver has taken everything back between two tests.                  *)
Between ==
    /\ driver \in {"configure", "done"} => process = "none" /\ ep = <<>> /\ NoHelper
    /\ driver = "destroy" => NoHelper

(* Until the init data is received there is the test process and nobody     *)
(* else; if it faults the driver is not released.                           *)
Beginning ==
    /\ driver = "send" => process = "start" /\ ep = <<>> /\ NoHelper
    /\ driver = "sending" =>
          /\ process \in {"start", "recv", "faulted"}
          /\ NoHelper
          /\ process # "faulted" => Len(ep) = 1 /\ Current \notin failed

(* While the driver waits, a message in the endpoint is the first one, and  *)
(* it tells how the test went; until there is one nothing went wrong, and   *)
(* a helper without its endpoint cannot run before it is destroyed.         *)
Waits ==
    driver = "wait" =>
        /\ process \in {"run", "waiting", "cleanup", "sending", "faulted"}
        /\ Len(ep) <= 1
        /\ ep # <<>> => (ResultOf(Head(ep)) = IF Current \in failed THEN "FAILURE" ELSE "SUCCESS")
        /\ ep = <<>> =>
              /\ Current \notin failed
              /\ process \notin {"sending", "faulted"}
              /\ process = "cleanup" => (prio[peer] = "same" => helper[peer] = "served")
              /\ \A h \in Helpers :
                    helper[h] = "restarted" => process = "cleanup" /\ peer = h

Sound == driver = "revoke" => ep = <<>>

IInv == TypeOK /\ Counted /\ Between /\ Beginning /\ Waits /\ Sound

-----------------------------------------------------------------------------
(* Sequences: a first message, and the message after none.                  *)
LEMMA OneMore ==
  ASSUME NEW S, NEW s \in Seq(S), NEW e \in S
  PROVE  /\ Append(s, e) \in Seq(S)
         /\ Len(Append(s, e)) = Len(s) + 1
         /\ Append(s, e) # <<>>
         /\ s = <<>> => Head(Append(s, e)) = e
  OBVIOUS

LEMMA OneLess ==
  ASSUME NEW S, NEW s \in Seq(S), s # <<>>
  PROVE  /\ Head(s) \in S
         /\ Tail(s) \in Seq(S)
         /\ Len(s) = 1 => Tail(s) = <<>>
         /\ Len(s) >= 1
<1>1. Head(s) \in S /\ Tail(s) \in Seq(S) /\ Len(Tail(s)) = Len(s) - 1
  BY HeadTailProperties
<1>2. Len(s) \in Nat /\ Len(s) # 0
  BY EmptySeq, LenProperties
<1>3. Len(Tail(s)) = 0 => Tail(s) = <<>>
  BY <1>1, EmptySeq
<1> QED
  BY <1>1, <1>2, <1>3

(* Nobody waits in an empty endpoint.                                       *)
LEMMA NothingToCancel ==
  ASSUME NEW threads, ep = <<>>, Cancel(threads)
  PROVE  ep' = <<>>
  BY DEF Cancel, Waiting

(* The messages of the model are messages.                                  *)
LEMMA AllMessages ==
  /\ Says("driver", "address") \in Messages
  /\ \A r \in {"SUCCESS", "FAILURE"} : Says("test", r) \in Messages
  /\ \A h \in Helpers : Says(h, "FAILURE") \in Messages
  /\ \A t \in Helpers \cup {"test"} : \A m \in Faults(t) :
        m \in Messages /\ ResultOf(m) = "FAILURE"
  /\ \A t : \A r \in {"SUCCESS", "FAILURE"} : ResultOf(Says(t, r)) = r
  BY DEF Says, Faults, Messages, ResultOf

-----------------------------------------------------------------------------
(* The initial states.                                                      *)
LEMMA InitInv == Init => IInv
<1> SUFFICES ASSUME Init PROVE IInv
  OBVIOUS
<1>1. NumTests \in Nat /\ NumTests >= 1
  BY NumTestsAssumption
<1>2. Len(report) = 0 /\ <<>> \in Seq(Messages) /\ <<>> \in Seq({"SUCCESS", "FAILURE"})
  BY DEF Init
<1>3. TypeOK
  BY <1>2 DEF Init, TypeOK
<1>4. Counted
  BY <1>1, <1>2 DEF Init, Counted, Current
<1> QED
  BY <1>3, <1>4 DEF Init, IInv, Between, Beginning, Waits, Sound, NoHelper

(* The driver.                                                              *)
LEMMA DriverKeeps == IInv /\ DriverNext => IInv'
<1> SUFFICES ASSUME IInv, DriverNext PROVE IInv'
  OBVIOUS
<1> USE DEF IInv
<1>1. NumTests \in Nat /\ NumTests >= 1 /\ Len(report) \in Nat
  BY NumTestsAssumption DEF TypeOK
<1>2. CASE Spawn
  BY <1>1, <1>2 DEF Spawn, TypeOK, Counted, Current, Between, Beginning, Waits, Sound, NoHelper, helpers
<1>3. CASE SendInitData
  <2>1. ep = <<>> /\ ep' = Append(ep, Says("driver", "address")) /\ Len(ep') = 1
    BY <1>3, OneMore DEF SendInitData, Beginning
  <2>2. ep' \in Seq(Messages)
    BY <2>1, OneMore, AllMessages DEF TypeOK
  <2> QED
    BY <1>1, <1>3, <2>1, <2>2
    DEF SendInitData, TypeOK, Counted, Current, Between, Beginning, Waits, Sound, NoHelper, helpers
<1>4. CASE WaitForResult
  <2>1. driver = "wait" /\ ep # <<>> /\ Len(ep) <= 1 /\ ep \in Seq(Messages)
    BY <1>4 DEF WaitForResult, Waits, TypeOK
  <2>2. ep' = <<>> /\ ep' \in Seq(Messages)
    BY <1>4, <2>1, OneLess DEF WaitForResult
  <2>3. ResultOf(Head(ep)) \in {"SUCCESS", "FAILURE"}
    BY <2>1 DEF Waits
  <2>4. /\ report' \in Seq({"SUCCESS", "FAILURE"})
        /\ Len(report') = Len(report) + 1
    BY <1>4, <2>3, OneMore DEF WaitForResult, TypeOK
  <2>5. TypeOK'
    BY <1>4, <2>2, <2>4 DEF WaitForResult, TypeOK, helpers
  <2>6. Counted'
    <3>1. \A k \in failed : k \in Nat /\ k <= Len(report) + 1
      BY <1>1 DEF Counted, Current, TypeOK
    <3>2. Len(report) + 1 <= NumTests
      BY <2>1 DEF Counted, Current
    <3> QED
      BY <1>1, <1>4, <2>4, <3>1, <3>2 DEF WaitForResult, Counted, Current
  <2> QED
    BY <1>4, <2>2, <2>5, <2>6 DEF WaitForResult, Between, Beginning, Waits, Sound
<1>5. CASE Revoke
  <2>1. ep' = <<>>
    BY <1>5, NothingToCancel DEF Revoke, RevokeUntypeds, Sound
  <2>2. <<>> \in Seq(Messages)
    OBVIOUS
  <2>3. TypeOK'
    BY <1>5, <2>1, <2>2 DEF Revoke, RevokeUntypeds, TypeOK
  <2> QED
    BY <1>1, <1>5, <2>1, <2>3
    DEF Revoke, RevokeUntypeds, Counted, Current, Between, Beginning, Waits, Sound, NoHelper
<1>6. CASE Destroy
  <2>1. <<>> \in Seq(Messages)
    OBVIOUS
  <2>2. TypeOK'
    BY <1>6, <2>1 DEF Destroy, TypeOK, helpers
  <2>3. Counted'
    BY <1>1, <1>6 DEF Destroy, Counted, Current
  <2> QED
    BY <1>6, <2>2, <2>3 DEF Destroy, Between, Beginning, Waits, Sound, NoHelper, helpers
<1> QED
  BY <1>2, <1>3, <1>4, <1>5, <1>6 DEF DriverNext

(* The test process.                                                        *)
LEMMA TestKeeps == IInv /\ TestNext => IInv'
<1> SUFFICES ASSUME IInv, TestNext PROVE IInv'
  OBVIOUS
<1> USE DEF IInv
<1>1. NumTests \in Nat /\ NumTests >= 1 /\ Len(report) \in Nat
  BY NumTestsAssumption DEF TypeOK
<1>2. TestMay => driver \in {"sending", "wait"} /\ (driver = "wait" => ep = <<>>)
  BY DEF TestMay, TestRuns, DriverRuns, TypeOK, Between, NoHelper
<1>3. CASE Start
  BY <1>1, <1>2, <1>3
  DEF Start, Go, TypeOK, Counted, Current, Between, Beginning, Waits, Sound, NoHelper, helpers
<1>4. CASE ReceiveInitData
  <2>1. driver = "sending" /\ process = "recv" /\ NoHelper /\ Len(ep) = 1 /\ Current \notin failed
    BY <1>2, <1>4 DEF ReceiveInitData, Go, Beginning, Waits
  <2>2. ep \in Seq(Messages) /\ ep # <<>>
    <3>1. ep \in Seq(Messages)
      BY DEF TypeOK
    <3>2. ep = <<>> => Len(ep) = 0
      OBVIOUS
    <3> QED
      BY <2>1, <3>1, <3>2
  <2>3. ep' = <<>> /\ ep' \in Seq(Messages) /\ Len(ep') = 0
    BY <1>4, <2>1, <2>2, OneLess, EmptySeq DEF ReceiveInitData
  <2>4. TypeOK' /\ Counted'
    BY <1>1, <1>4, <2>1, <2>3
    DEF ReceiveInitData, Go, TypeOK, Counted, Current, helpers
  <2>5. Waits'
    <3>1. Current' = Current /\ failed' = failed /\ helper' = helper /\ process' = "run"
      BY <1>4 DEF ReceiveInitData, Go, Current, helpers
    <3> QED
      BY <2>1, <2>3, <3>1 DEF Waits, NoHelper
  <2> QED
    BY <1>4, <2>4, <2>5 DEF ReceiveInitData, Between, Beginning, Sound
<1>5. ASSUME NEW h \in Helpers, CreateHelper(h) \/ StartHelper(h) \/ WaitForHelper(h) \/ FreeEndpoint(h)
      PROVE  IInv'
  <2>1. driver = "wait" /\ ep = <<>> /\ process = "run" /\ Current \notin failed
    BY <1>2, <1>5 DEF CreateHelper, StartHelper, WaitForHelper, FreeEndpoint, Go, Beginning, Waits
  <2>2. CASE CreateHelper(h)
    BY <1>1, <2>1, <2>2
    DEF CreateHelper, Go, TypeOK, Counted, Current, Between, Beginning, Waits, Sound
  <2>3. CASE StartHelper(h)
    BY <1>1, <2>1, <2>3
    DEF StartHelper, Go, TypeOK, Counted, Current, Between, Beginning, Waits, Sound
  <2>4. CASE WaitForHelper(h)
    BY <1>1, <2>1, <2>4
    DEF WaitForHelper, Go, TypeOK, Counted, Current, Between, Beginning, Waits, Sound, helpers
  <2>5. CASE FreeEndpoint(h)
    BY <1>1, <2>1, <2>5
    DEF FreeEndpoint, Go, TypeOK, Counted, Current, Between, Beginning, Waits, Sound
  <2> QED
    BY <1>5, <2>2, <2>3, <2>4, <2>5
<1>6. CASE TakeHelperResult
  <2>1. driver = "wait" /\ ep = <<>> /\ process = "waiting" /\ Current \notin failed
    BY <1>2, <1>6 DEF TakeHelperResult, Go, Beginning, Waits
  <2> QED
    BY <1>1, <1>6, <2>1
    DEF TakeHelperResult, Go, TypeOK, Counted, Current, Between, Beginning, Waits, Sound
<1>7. CASE DestroyHelper
  <2>1. driver = "wait" /\ ep = <<>> /\ process = "cleanup"
    BY <1>2, <1>7 DEF DestroyHelper, Go, Beginning
  <2>2. ep' = <<>>
    BY <1>7, <2>1, NothingToCancel DEF DestroyHelper
  <2> QED
    BY <1>1, <1>7, <2>1, <2>2
    DEF DestroyHelper, Go, TypeOK, Counted, Current, Between, Beginning, Waits, Sound
<1>8. ASSUME NEW m \in Messages, NEW to \in {"sending", "faulted"},
             Go("run", to), ep' = Append(ep, m),
             IF ResultOf(m) = "SUCCESS" THEN UNCHANGED failed
                                        ELSE ResultOf(m) = "FAILURE" /\ Wrong,
             UNCHANGED <<driver, peer, helpers, report>>
      PROVE  IInv'
  <2>1. driver = "wait" /\ ep = <<>> /\ process = "run" /\ Current \notin failed
    BY <1>2, <1>8 DEF Go, Beginning, Waits
  <2>2. ep' \in Seq(Messages) /\ Len(ep') = 1 /\ ep' # <<>> /\ Head(ep') = m
    BY <1>8, <2>1, OneMore DEF TypeOK
  <2>3. Current \in 1 .. NumTests /\ Current' = Current
    BY <1>1, <1>8, <2>1 DEF Counted, Current
  <2>4. ResultOf(Head(ep')) = IF Current \in failed' THEN "FAILURE" ELSE "SUCCESS"
    BY <1>8, <2>1, <2>2 DEF Wrong
  <2>5. TypeOK'
    BY <1>8, <2>1, <2>2, <2>3 DEF Go, Wrong, TypeOK, helpers
  <2>6. Counted'
    BY <1>1, <1>8, <2>1, <2>3 DEF Go, Wrong, Counted, Current
  <2> QED
    BY <1>8, <2>1, <2>2, <2>3, <2>4, <2>5, <2>6
    DEF Go, Between, Beginning, Waits, Sound
<1>9. CASE SendResult
  <2>1. PICK r \in {"SUCCESS", "FAILURE"} :
           /\ ep' = Append(ep, Says("test", r))
           /\ IF r = "SUCCESS" THEN UNCHANGED failed ELSE Wrong
    BY <1>9 DEF SendResult
  <2> QED
    BY <1>8, <1>9, <2>1, AllMessages DEF SendResult
<1>10. CASE Abort
  BY <1>8, <1>10, AllMessages DEF Abort
<1>11. CASE Fault
  <2>1. PICK m \in Faults("test") : ep' = Append(ep, m)
    BY <1>11 DEF Fault
  <2>2. m \in Messages /\ ResultOf(m) = "FAILURE"
    BY AllMessages
  <2>3. CASE process = "run"
    BY <1>8, <1>11, <2>1, <2>2, <2>3 DEF Fault
  <2>4. CASE process # "run"
    <3>1. process = "start" /\ driver = "sending"
      BY <1>2, <1>11, <2>4, MayFaultAssumption DEF Fault, Go, Waits
    <3>2. ep' \in Seq(Messages)
      BY <2>1, <2>2, OneMore DEF TypeOK
    <3>3. Current \in 1 .. NumTests /\ Current' = Current
      BY <1>1, <1>11, <3>1 DEF Fault, Counted, Current
    <3>4. TypeOK'
      BY <1>11, <3>1, <3>2, <3>3 DEF Fault, Go, Wrong, TypeOK, helpers
    <3>5. Counted'
      BY <1>1, <1>11, <3>1, <3>3 DEF Fault, Wrong, Counted, Current
    <3> QED
      BY <1>11, <3>1, <3>3, <3>4, <3>5
      DEF Fault, Go, Between, Beginning, Waits, Sound, NoHelper, helpers
  <2> QED
    BY <2>3, <2>4
<1> QED
  BY <1>3, <1>4, <1>5, <1>6, <1>7, <1>9, <1>10, <1>11 DEF TestNext

(* The helpers.                                                             *)
LEMMA HelperKeeps == ASSUME NEW h \in Helpers PROVE IInv /\ HelperNext(h) => IInv'
<1> SUFFICES ASSUME IInv, HelperNext(h) PROVE IInv'
  OBVIOUS
<1> USE DEF IInv
<1>1. NumTests \in Nat /\ NumTests >= 1 /\ Len(report) \in Nat
  BY NumTestsAssumption DEF TypeOK
<1>2. HelperMay(h) /\ helper[h] \in {"run", "restarted"}
  BY DEF HelperNext, Finish, FaultHelper, AbortHelper
<1>3. driver = "wait" /\ ep = <<>> /\ Current \notin failed
  BY <1>2 DEF HelperMay, DriverRuns, Between, Beginning, Waits, NoHelper, TypeOK
\* while the test is cleaning up, only a helper of its priority may run,
\* and it has been waited for
<1>4. ~(process = "cleanup" /\ peer = h)
  BY <1>2, <1>3 DEF HelperMay, TestRuns, Waits
<1>5. helper[h] = "run"
  BY <1>2, <1>3, <1>4 DEF Waits
<1>6. ASSUME NEW m \in Messages, ep' = Append(ep, m), ResultOf(m) = "FAILURE",
             FailHelper(h), Wrong
      PROVE  IInv'
  <2>1. ep' \in Seq(Messages) /\ Len(ep') = 1 /\ ep' # <<>> /\ Head(ep') = m
    BY <1>3, <1>6, OneMore, EmptySeq DEF TypeOK
  <2>2. Current \in 1 .. NumTests /\ Current' = Current
    BY <1>1, <1>3, <1>6 DEF FailHelper, Counted, Current
  <2>3. TypeOK'
    BY <1>6, <2>1, <2>2 DEF FailHelper, Wrong, TypeOK
  <2>4. Counted'
    BY <1>1, <1>3, <1>6, <2>2 DEF FailHelper, Wrong, Counted, Current
  <2>5. Waits'
    BY <1>3, <1>6, <2>1, <2>2 DEF FailHelper, Wrong, Waits
  <2> QED
    BY <1>3, <1>6, <2>3, <2>4, <2>5 DEF FailHelper, Between, Beginning, Sound
<1>7. CASE Finish(h)
  <2>1. ~EndpointFreed(h)
    BY <1>4 DEF EndpointFreed
  <2> QED
    BY <1>1, <1>3, <1>4, <1>7, <2>1
    DEF Finish, TypeOK, Counted, Current, Between, Beginning, Waits, Sound
<1>8. CASE FaultHelper(h)
  BY <1>6, <1>8, AllMessages DEF FaultHelper, DeliverFault
<1>9. CASE AbortHelper(h)
  BY <1>6, <1>9, AllMessages DEF AbortHelper, DeliverFault
<1> QED
  BY <1>7, <1>8, <1>9 DEF HelperNext

-----------------------------------------------------------------------------
(* The invariant.                                                           *)
LEMMA Inductive == Spec => []IInv
<1>1. IInv /\ UNCHANGED vars => IInv'
  BY DEF vars, helpers, IInv, TypeOK, Counted, Current, Between, Beginning, Waits, Sound, NoHelper
<1>2. IInv /\ [Next]_vars => IInv'
  BY <1>1, DriverKeeps, TestKeeps, HelperKeeps DEF Next
<1> QED
  BY <1>2, InitInv, PTL DEF Spec

(* Every variable has its type, for any number of tests and helpers.        *)
THEOREM TypeCorrect == Spec => []TypeOK
<1>1. IInv => TypeOK
  BY DEF IInv
<1> QED
  BY <1>1, Inductive, PTL

(* The test process is never scheduled again once its last message is       *)
(* taken: main() and abort() do not reach the line after their send.        *)
THEOREM ProcessNeverRunsOn == Spec => []NeverRunsOn
<1>1. IInv => NeverRunsOn
  BY DEF IInv, TypeOK, Between, Beginning, Waits, NeverRunsOn, TestMay, DriverRuns
<1> QED
  BY <1>1, Inductive, PTL

(* run_test() begins with an unused endpoint and nobody of the test before. *)
THEOREM EveryTestStartsClean == Spec => []StartsClean
<1>1. IInv => StartsClean
  BY DEF IInv, Between, NoHelper, StartsClean
<1> QED
  BY <1>1, Inductive, PTL

(* The protocol implements the suite: the driver reports every test once,   *)
(* as FAILURE exactly if something went wrong in it.                        *)
THEOREM ReportsAreTrue == Spec => ReportsTruly
<1>1. Init => Suite!SuiteInit
  BY DEF Init, Suite!SuiteInit
<1>2. ASSUME IInv, Wrong, driver \in {"sending", "wait"}, UNCHANGED report
      PROVE  Suite!GoWrong
  BY <1>2 DEF IInv, Counted, Wrong, Current, Suite!GoWrong, Suite!Current
<1>3. ASSUME IInv, WaitForResult
      PROVE  Suite!Report
  BY <1>3 DEF IInv, Counted, Waits, WaitForResult, Current, Suite!Report, Suite!Current
<1>4. ASSUME IInv, DriverNext
      PROVE  [Suite!SuiteNext]_(Suite!suite)
  BY <1>3, <1>4 DEF DriverNext, Spawn, SendInitData, Revoke, Destroy, Suite!SuiteNext, Suite!suite
<1>5. IInv /\ TestMay => driver \in {"sending", "wait"}
  BY DEF IInv, TestMay, TestRuns, DriverRuns, TypeOK, Between, NoHelper
<1>6. ASSUME IInv, TestNext
      PROVE  [Suite!SuiteNext]_(Suite!suite)
  <2>1. CASE Fault \/ Abort \/ SendResult
    BY <1>2, <1>5, <1>6, <2>1
    DEF Fault, Abort, SendResult, Go, Suite!SuiteNext, Suite!suite
  <2>2. CASE ~(Fault \/ Abort \/ SendResult)
    BY <1>6, <2>2
    DEF TestNext, Start, ReceiveInitData, TakeHelperResult, DestroyHelper,
        CreateHelper, StartHelper, WaitForHelper, FreeEndpoint, Suite!suite
  <2> QED
    BY <2>1, <2>2
<1>7. ASSUME IInv, NEW h \in Helpers, HelperNext(h)
      PROVE  [Suite!SuiteNext]_(Suite!suite)
  <2>1. driver \in {"sending", "wait"}
    BY <1>7 DEF HelperNext, Finish, FaultHelper, AbortHelper, HelperMay, DriverRuns,
                IInv, TypeOK, Between, NoHelper
  <2>2. CASE Finish(h)
    BY <2>2 DEF Finish, FailHelper, Suite!suite
  <2>3. CASE FaultHelper(h) \/ AbortHelper(h)
    BY <1>2, <1>7, <2>1, <2>3
    DEF FaultHelper, AbortHelper, FailHelper, Suite!SuiteNext
  <2> QED
    BY <1>7, <2>2, <2>3 DEF HelperNext
<1>8. UNCHANGED vars => UNCHANGED Suite!suite
  BY DEF vars, Suite!suite
<1>9. IInv /\ [Next]_vars => [Suite!SuiteNext]_(Suite!suite)
  BY <1>4, <1>6, <1>7, <1>8 DEF Next
<1> QED
  BY <1>1, <1>9, Inductive, PTL DEF Spec, ReportsTruly, Suite!SuiteSpec
=============================================================================
