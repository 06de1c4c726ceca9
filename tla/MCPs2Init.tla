----------------------------- MODULE MCPs2Init ------------------------------
(* A letter and the key whose code is the answer to the self test; command   *)
(* bytes with translation, with the keyboard disabled or not.                *)
EXTENDS Ps2Init

LetterAndEquals == {28, 85}
AfterSelfTest   == {69, 85, 116}
=============================================================================
