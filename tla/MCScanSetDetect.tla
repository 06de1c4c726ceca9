-------------------------- MODULE MCScanSetDetect ---------------------------
(* A letter, F7 (83 in set 2), cursor up and the keypad key with its code.   *)
EXTENDS ScanSetDetect, TLC

K(e, c) == [ext |-> e, code |-> c, means |-> "none"]

BothSets == <<{K(FALSE, \h1E), K(FALSE, \h41), K(TRUE, \h48), K(FALSE, \h48)},
              {K(FALSE, \h1C), K(FALSE, \h83), K(TRUE, \h75), K(FALSE, \h75)}>>

(* The 0 of the keypad.                                                      *)
Keypad0 == 2 :> {K(FALSE, \h70)}
=============================================================================
