---------------------------- MODULE MCKeyboard4 -----------------------------
(* A keyboard in set 2 with a key of every kind that keyboard4 tells apart:  *)
(* the letters that end the loops, a shift and a control key, a lock key and *)
(* two keys, one of them extended, with one vkey.                            *)
EXTENDS Keyboard4, KeyTables

Key(e, c, m) == [ext |-> e, code |-> c, means |-> m]

LockKeys     == {"CAPITAL", "NUMLOCK"}
NumLock      == {"NUMLOCK"}
Modifiers    == [c \in {"SHIFT", "CONTROL"} |-> IF c = "SHIFT" THEN {"LSHIFT", "RSHIFT"}
                                                ELSE {"LCONTROL", "RCONTROL"}]
LetterKeys   == {"A", "K", "L"}

SomeKeys == {Key(FALSE, \h42, "K"), Key(FALSE, \h4B, "L"), Key(FALSE, \h58, "CAPITAL"),
             Key(FALSE, \h12, "LSHIFT"), Key(FALSE, \h14, "LCONTROL"), Key(FALSE, \h5A, "RETURN"),
             Key(TRUE, \h5A, "RETURN")}

(* The hypothesis of the theorems of Keyboard4Proofs about what was typed.   *)
ASSUME KeysRight == TableRight
=============================================================================
