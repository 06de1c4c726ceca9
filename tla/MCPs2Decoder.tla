---------------------------- MODULE MCPs2Decoder ----------------------------
(* Keyboards for TLC: the keys of KeyTables with their codes in each set.   *)
(* Print screen sends two extended codes, one of them without a vkey, in    *)
(* set 2, and two without vkey in set 1.                                     *)
EXTENDS Ps2Decoder, KeyTables

Plain(code, means)    == [ext |-> FALSE, code |-> code, means |-> means]
Extended(code, means) == [ext |-> TRUE, code |-> code, means |-> means]

Keys1 == {Plain(\h1E, "A"), Plain(\h2A, "LSHIFT"), Plain(\h3A, "CAPITAL"), Plain(\h41, "F7"),
          Plain(\h5A, "none"), Extended(\h48, "UP"), Extended(\h1D, "RCONTROL"),
          Extended(\h5B, "LWIN"), Extended(\h2A, "none"), Extended(\h37, "none")}

Keys2 == {Plain(\h1C, "A"), Plain(\h12, "LSHIFT"), Plain(\h58, "CAPITAL"), Plain(\h83, "F7"),
          Plain(\h02, "none"), Extended(\h75, "UP"), Extended(\h6B, "LEFT"),
          Extended(\h12, "SNAPSHOT"), Extended(\h7C, "none")}

(* The keys of set 2 for which the table is wrong. What they mean is what    *)
(* keyboard_vkey.h calls them: PS2_KEY_WINDOWS_LEFT is the "Left Windows     *)
(* key" VK_LWIN, PS2_KEY_WINDOWS_RIGHT the right one, and PS2_KEY_CTRL_RIGHT *)
(* the "Right CONTROL key" VK_RCONTROL. The windows keys are reported as     *)
(* arrows, the control key not at all.                                       *)
WrongKeys == {Extended(\h1F, "LWIN"), Extended(\h27, "RWIN"), Extended(\h14, "RCONTROL")}

(* The hypothesis of the theorems of Ps2DecoderProofs, for the set that the *)
(* passing run decodes and for the other, and that every wrong key is wrong. *)
ASSUME Set2Right == Keys = Keys2 => TableRight
ASSUME Set2Wrong == \A k \in WrongKeys : Set2[k.ext][k.code] # k.means
ASSUME Set1Right == \A k \in Keys1 : Set1[k.ext][k.code] = k.means
=============================================================================
