--------------------------- MODULE ScanSetDetect ----------------------------
(***************************************************************************)
(* keyboard_detect_scanset() of apps/keyboard4 and the loop of main()      *)
(* around it: the user is asked to press a key, and its press and release  *)
(* tell scan code set 1 (c, 80+c) from set 2 (c, F0, c). A pair of bytes   *)
(* that is neither makes main() flush the buffer and try again; the flush  *)
(* can end, and the next attempt begin, in the middle of a key's code.     *)
(***************************************************************************)
EXTENDS Integers, Sequences

CONSTANTS
  KeysOf,  (* the keys of a keyboard, for each scan code set it may use         *)
  Typing   (* presses and releases in all: a bound of the model                *)

(* The codes of a keyboard that uses set s; what they mean is not told apart. *)
InSet(s) == INSTANCE Ps2Codes WITH
              ScanSet <- s, Keys <- KeysOf[s],
              VKeys <- {}, NoKey <- "none", Pause <- "none", VKey <- <<>>

Keys == UNION {KeysOf[s] : s \in DOMAIN KeysOf}

RESEND == 254
RESET  == 255
ACK    == 250
E0     == 224
F0     == 240
Special == {ACK, RESEND, RESET, 0}

ASSUME ScanSetDetectAssumption ==
  /\ DOMAIN KeysOf \subseteq {1, 2}
  /\ Keys \subseteq [ext : BOOLEAN, code : 0 .. 255, means : {"none"}]
  /\ 1 \in DOMAIN KeysOf => \A k \in KeysOf[1] : k.code < 96
  /\ 2 \in DOMAIN KeysOf => \A k \in KeysOf[2] : k.code \notin {E0, 225, F0, ACK}
  /\ Typing \in Nat

VARIABLES
  set,    (* the scan code set that the keyboard uses                          *)
  wire,   (* bytes sent and not read, oldest first; last ends a key's code     *)
  held,   (* keys that are down                                                *)
  typed,  (* presses and releases so far                                       *)
  pc,     (* where keyboard_detect_scanset() is, or the flush, or done         *)
  c1, c2, (* its first two bytes                                               *)
  found,  (* what it returned                                                  *)
  whole   (* history: the last byte read ended a key's code                    *)

vars == <<set, wire, held, typed, pc, c1, c2, found, whole>>

Init ==
  /\ set \in DOMAIN KeysOf
  /\ \E acks \in 0 .. 2 : wire = [i \in 1 .. acks |-> [byte |-> ACK, last |-> TRUE]]
  /\ held = {} /\ typed = 0
  /\ pc = "c1" /\ c1 = 0 /\ c2 = 0 /\ found = 0 /\ whole = TRUE

-----------------------------------------------------------------------------
(* The user. A key that is held repeats its press.                           *)
Coded(packet) == [i \in 1 .. Len(packet) |-> [byte |-> packet[i].byte, last |-> i = Len(packet)]]

Type(packet) ==
  /\ typed < Typing
  /\ typed' = typed + 1
  /\ wire' = wire \o Coded(packet)
  /\ UNCHANGED <<set, pc, c1, c2, found, whole>>

Press(k)   == Type(InSet(set)!Make(k)) /\ held' = held \union {k}
Release(k) == k \in held /\ Type(InSet(set)!Break(k)) /\ held' = held \ {k}

-----------------------------------------------------------------------------
(* The driver. *)
Read ==
  /\ wire # <<>>
  /\ wire'  = Tail(wire)
  /\ whole' = Head(wire).last

(* The attempt ends with set s, or -1. *)
Return(s) ==
  /\ found' = s
  /\ pc' = IF s = -1 THEN "flush" ELSE "done"

ReadC1 ==
  /\ pc = "c1"
  /\ Read
  /\ c1' = Head(wire).byte
  /\ pc' = IF c1' \in Special THEN "c1" ELSE "c2"
  /\ UNCHANGED <<set, held, typed, c2, found>>

(* Byte d is the release of c in set 1. *)
Releases(c, d) == d = 128 + c

(* Faulty variant: F0 alone shows set 2, whatever it releases.               *)
ReadC2NoThird ==
  /\ pc = "c2"
  /\ Read
  /\ c2' = Head(wire).byte
  /\ Return(IF Releases(c1, c2') THEN 1 ELSE IF c2' = F0 THEN 2 ELSE -1)
  /\ UNCHANGED <<set, held, typed, c1>>

(* Faulty variant: any second byte that releases nothing is taken for F0.    *)
ReadC2AnyPrefix ==
  /\ pc = "c2"
  /\ Read
  /\ c2' = Head(wire).byte
  /\ IF ~Releases(c1, c2')
     THEN pc' = "c3" /\ UNCHANGED found
     ELSE Return(1)
  /\ UNCHANGED <<set, held, typed, c1>>

ReadC2 ==
  /\ pc = "c2"
  /\ Read
  /\ c2' = Head(wire).byte
  /\ IF c2' = F0 /\ ~Releases(c1, c2')
     THEN pc' = "c3" /\ UNCHANGED found
     ELSE Return(IF Releases(c1, c2') THEN 1 ELSE -1)
  /\ UNCHANGED <<set, held, typed, c1>>

(* Faulty variant: the code is returned instead of the set.                  *)
ReadC3Code ==
  /\ pc = "c3"
  /\ Read
  /\ Return(IF Head(wire).byte = c1 THEN c1 ELSE -1)
  /\ UNCHANGED <<set, held, typed, c1, c2>>

(* Faulty variant: the third byte is compared with the second.               *)
ReadC3Wrong ==
  /\ pc = "c3"
  /\ Read
  /\ Return(IF Head(wire).byte = c2 THEN 2 ELSE -1)
  /\ UNCHANGED <<set, held, typed, c1, c2>>

ReadC3 ==
  /\ pc = "c3"
  /\ Read
  /\ Return(IF Head(wire).byte = c1 THEN 2 ELSE -1)
  /\ UNCHANGED <<set, held, typed, c1, c2>>

(* keyboard_flush() reads until it finds no byte, which it may while the     *)
(* rest of a code is on its way.                                             *)
Flush ==
  /\ pc = "flush"
  /\ \/ Read /\ UNCHANGED pc
     \/ pc' = "c1" /\ UNCHANGED <<wire, whole>>
  /\ UNCHANGED <<set, held, typed, c1, c2, found>>

Driver == ReadC1 \/ ReadC2 \/ ReadC3 \/ Flush

Next == Driver \/ \E k \in KeysOf[set] : Press(k) \/ Release(k)

Spec     == Init /\ [][Next]_vars
FairSpec == Spec /\ WF_vars(Driver)

-----------------------------------------------------------------------------
TypeOK ==
  /\ set \in DOMAIN KeysOf
  /\ wire \in Seq([byte : 0 .. 255, last : BOOLEAN])
  /\ held \subseteq KeysOf[set] /\ typed \in 0 .. Typing
  /\ pc \in {"c1", "c2", "c3", "flush", "done"}
  /\ c1 \in 0 .. 255 /\ c2 \in 0 .. 255 /\ found \in {-1, 0, 1, 2} /\ whole \in BOOLEAN

(* No byte of the keyboard's set 2 is 80 + c for a key c: F0 is, for the 0   *)
(* of the keypad (70), and 83 (F7) is for 03 (F5).                           *)
Apart ==
  2 \in DOMAIN KeysOf =>
    \A k \in KeysOf[2] : 128 + k.code \notin {E0, F0} \union {m.code : m \in KeysOf[2]}

(* The set that is detected is the keyboard's, whatever keys were pressed,   *)
(* overlapping or repeating, and wherever the flush cut their codes.         *)
DetectsRight == pc = "done" => found = set

(* What the decoder will read next is then the beginning of a code.          *)
DecoderStartsAligned == pc = "done" => whole

(* Someone who presses a plain key and releases it when asked to is not      *)
(* asked again.                                                              *)
OneKeyIsEnough ==
  \A s \in DOMAIN KeysOf : \A k \in {key \in KeysOf[s] : ~key.ext} :
    (/\ set = s /\ pc = "c1"
     /\ wire = Coded(InSet(s)!Make(k)) \o Coded(InSet(s)!Break(k))) ~> pc = "done"
=============================================================================
