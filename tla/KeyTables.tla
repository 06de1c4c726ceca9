----------------------------- MODULE KeyTables ------------------------------
(* The tables of keyboard_vkey.c, abridged to the keys that the state       *)
(* machines tell apart: plain keys, modifiers, locks, extended keys, keys    *)
(* that share a virtual key, and keys without one. Codes are hexadecimal,    *)
(* as in the source.                                                         *)
EXTENDS Integers, TLC

Vks == {"A", "K", "L", "LSHIFT", "RSHIFT", "LCONTROL", "RCONTROL", "CAPITAL", "NUMLOCK",
        "SHIFT", "CONTROL", "F5", "F7", "RETURN", "UP", "LEFT", "RIGHT", "SNAPSHOT", "LWIN", "RWIN",
        "PAUSE"}

Table(basic, extended) ==
  [ext \in BOOLEAN |-> [code \in 0 .. 255 |->
     LET t == IF ext THEN extended ELSE basic
     IN  IF code \in DOMAIN t THEN t[code] ELSE "none"]]

(* keycode_ps2_to_vkey_set1() *)
Set1 == Table(\h1E :> "A" @@ \h25 :> "K" @@ \h26 :> "L" @@ \h2A :> "LSHIFT" @@
              \h36 :> "RSHIFT" @@ \h1D :> "LCONTROL" @@ \h3A :> "CAPITAL" @@
              \h45 :> "NUMLOCK" @@ \h3F :> "F5" @@ \h41 :> "F7" @@ \h1C :> "RETURN",
              \h1C :> "RETURN" @@ \h1D :> "RCONTROL" @@ \h48 :> "UP" @@ \h4B :> "LEFT" @@
              \h5B :> "LWIN")

(* keycode_ps2_to_vkey_set2(). As in the code, the windows keys, E0 1F and   *)
(* E0 27, get the virtual keys of the arrows, and there is no case for the   *)
(* right control key, E0 14; MCPs2Decoder has what these keys mean.          *)
Set2 == Table(\h1C :> "A" @@ \h42 :> "K" @@ \h4B :> "L" @@ \h12 :> "LSHIFT" @@
              \h59 :> "RSHIFT" @@ \h14 :> "LCONTROL" @@ \h58 :> "CAPITAL" @@
              \h77 :> "NUMLOCK" @@ \h03 :> "F5" @@ \h83 :> "F7" @@ \h5A :> "RETURN",
              \h5A :> "RETURN" @@ \h75 :> "UP" @@ \h6B :> "LEFT" @@ \h74 :> "RIGHT" @@
              \h12 :> "SNAPSHOT" @@ \h1F :> "LEFT" @@ \h27 :> "RIGHT")
=============================================================================
