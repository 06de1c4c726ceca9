------------------------------ MODULE TestSuite ------------------------------
(***************************************************************************)
(* What sel4test promises, whatever processes and messages it takes: the   *)
(* tests run one after the other, anything may go wrong in the one that is *)
(* running, and each is reported once, as FAILURE exactly if something     *)
(* did.  TestProtocol implements this specification.                       *)
(***************************************************************************)
EXTENDS Naturals, Sequences

CONSTANT NumTests           \* how many tests the suite has

VARIABLES failed,           \* the tests in which something went wrong
          report            \* the results so far, in the order of the tests

suite == <<failed, report>>

SuiteInit ==
    /\ failed = {}
    /\ report = <<>>

\* the number of the test that runs: all before it are reported
Current == Len(report) + 1

GoWrong ==
    /\ Current <= NumTests
    /\ failed' = failed \cup {Current}
    /\ UNCHANGED report

Report ==
    /\ Current <= NumTests
    /\ report' = Append(report, IF Current \in failed THEN "FAILURE" ELSE "SUCCESS")
    /\ UNCHANGED failed

SuiteNext == GoWrong \/ Report

SuiteSpec == SuiteInit /\ [][SuiteNext]_suite
=============================================================================
