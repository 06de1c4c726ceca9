------------------------------ MODULE Ps2Codes ------------------------------
(***************************************************************************)
(* The pure part of the PS/2 keyboard driver of apps/keyboard4: the        *)
(* scancode state machine keyboard_state_push_ps2_keyevent() and, beside   *)
(* it, what a keyboard sends for its keys in scan code sets 1 and 2        *)
(* (external: the PS/2 protocol). Bytes are the numbers 0 .. 255.          *)
(***************************************************************************)
EXTENDS Integers, Sequences

CONSTANTS
  ScanSet,  (* kb_state.scanset: the set the keyboard was found to use       *)
  VKeys,    (* virtual keys                                                  *)
  NoKey,    (* "no associated vkey", -1                                      *)
  Pause,    (* VK_PAUSE                                                      *)
  VKey,     (* VKey[ext][code]: keycode_ps2_to_vkey_set1/2 of code, or of     *)
            (*   0xE000 + code when ext                                      *)
  Keys      (* the keys of the keyboard: [ext, code, means], the code in the *)
            (*   scan set and the virtual key it stands for, or NoKey        *)

Byte == 0 .. 255

(* KEYBOARD_PS2_EVENTCODE_* and KEYBOARD_ACK. *)
EXTENDED       == 224
EXTENDED_PAUSE == 225
RELEASE        == 240
ACK            == 250

(* No key sends a code that the protocol reserves; an ACK is no key.         *)
ASSUME CodesAssumption ==
  /\ ScanSet \in {1, 2}
  /\ NoKey \notin VKeys
  /\ Pause \in VKeys
  /\ VKey \in [BOOLEAN -> [Byte -> VKeys \union {NoKey}]]
  /\ VKey[FALSE][ACK] = NoKey /\ VKey[FALSE][ACK - 128] = NoKey
  /\ Keys \subseteq [ext : BOOLEAN, code : Byte, means : VKeys \union {NoKey}]
  /\ \A k \in Keys : IF ScanSet = 1 THEN k.code < EXTENDED - 128
                     ELSE k.code \notin {EXTENDED, EXTENDED_PAUSE, RELEASE}

(* keyboard_key_event_t; NoEvent is ev_none. *)
Event   == [vkey : VKeys, pressed : BOOLEAN]
NoEvent == [vkey |-> NoKey, pressed |-> FALSE]

(* The driver's state: num_ignore is 0 outside KEYBOARD_PS2_STATE_IGNORE.    *)
State == [extended : BOOLEAN, release : BOOLEAN, num_ignore : 0 .. 7]

Flags(e, r) == [extended |-> e, release |-> r, num_ignore |-> 0]
Ignoring(n) == [extended |-> FALSE, release |-> FALSE, num_ignore |-> n]
Normal      == Flags(FALSE, FALSE)

-----------------------------------------------------------------------------
(* What follows a byte in state s: the next state and the event returned.    *)
Silent(s) == [next |-> s, ev |-> NoEvent]

(* The last byte of a key's code. In set 1 its top bit means release.        *)
CodeOf(b)  == IF ScanSet = 1 THEN b % 128 ELSE b
Down(s, b) == IF ScanSet = 1 THEN b < 128 ELSE ~s.release

KeyCode(s, b) ==
  LET vkey == VKey[s.extended][CodeOf(b)]
  IN  IF vkey = NoKey THEN Silent(Normal)
      ELSE [next |-> Normal, ev |-> [vkey |-> vkey, pressed |-> Down(s, b)]]

Ignored(s) == Silent(Ignoring(s.num_ignore - 1))

(* Faulty variant: the byte that was just read is counted again.             *)
PauseKeyLong == [next |-> Ignoring(IF ScanSet = 2 THEN 8 ELSE 6),
                 ev   |-> [vkey |-> Pause, pressed |-> TRUE]]

PauseKey == [next |-> Ignoring(IF ScanSet = 2 THEN 7 ELSE 5),
             ev   |-> [vkey |-> Pause, pressed |-> TRUE]]

Push(s, b) ==
  CASE s.num_ignore > 0               -> Ignored(s)
    [] s.num_ignore = 0 /\ b = RELEASE /\ ScanSet = 2
                                      -> Silent(Flags(s.extended, TRUE))
    [] s.num_ignore = 0 /\ b = EXTENDED
                                      -> Silent(Flags(TRUE, s.release))
    [] s.num_ignore = 0 /\ b = EXTENDED_PAUSE
                                      -> PauseKey
    [] OTHER                          -> KeyCode(s, b)

-----------------------------------------------------------------------------
(* The keyboard. Every byte carries, in says, the key event that the driver  *)
(* should report when it reads it.                                           *)
Mute(b)    == [byte |-> b, says |-> NoEvent]
Says(k, p) == IF k.means = NoKey THEN NoEvent ELSE [vkey |-> k.means, pressed |-> p]
Prefix(k)  == IF k.ext THEN <<Mute(EXTENDED)>> ELSE <<>>

Make(k)  == Prefix(k) \o <<[byte |-> k.code, says |-> Says(k, TRUE)]>>
Break(k) == Prefix(k) \o IF ScanSet = 2
                         THEN <<Mute(RELEASE), [byte |-> k.code, says |-> Says(k, FALSE)]>>
                         ELSE <<[byte |-> k.code + 128, says |-> Says(k, FALSE)]>>

(* The pause key sends everything on press and nothing on release:           *)
(* E1 14 77 E1 F0 14 F0 77 in set 2, E1 1D 45 E1 9D C5 in set 1.             *)
PauseRest == IF ScanSet = 2 THEN <<20, 119, 225, 240, 20, 240, 119>>
                            ELSE <<29, 69, 225, 157, 197>>
MakePause == <<[byte |-> EXTENDED_PAUSE, says |-> [vkey |-> Pause, pressed |-> TRUE]]>>
               \o [i \in 1 .. Len(PauseRest) |-> Mute(PauseRest[i])]

(* Answers to commands are mixed with the keys.                              *)
Answer == <<Mute(ACK)>>

(* The table gives every key the virtual key it stands for.                  *)
TableRight == \A k \in Keys : VKey[k.ext][k.code] = k.means

Packets == {Make(k) : k \in Keys} \union {Break(k) : k \in Keys}
             \union {MakePause, Answer}

(* The key events that the bytes of w mean, in their order.                  *)
Meant(w) ==
  LET said[i \in 0 .. Len(w)] ==
        IF i = 0 THEN <<>>
        ELSE IF w[i].says = NoEvent THEN said[i - 1] ELSE Append(said[i - 1], w[i].says)
  IN  said[Len(w)]
=============================================================================
