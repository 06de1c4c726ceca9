--------------------------- MODULE Ps2InitProofs ----------------------------
(***************************************************************************)
(* What the initialisation of the keyboard guarantees for any keys typed   *)
(* meanwhile, any number of attempts and any answers of the keyboard: type *)
(* correctness, and that success means a controller that is configured and *)
(* a keyboard that scans in set 2.                                         *)
(***************************************************************************)
EXTENDS Ps2Init, SequenceTheorems, TLAPS

(* A write of the command byte fails less often than it is tried, and the   *)
(* controller never comes out of its self test with a command byte of 0,    *)
(* which is also the answer of an interface test that succeeded: after a    *)
(* key that was taken for the command byte read back it would be read for   *)
(* that answer.                                                             *)
Sound == Flaky < ConfigTries /\ 0 \notin Defaults

CommandBytes == {RESET, DISABLE_SCAN, ENABLE_SCAN, SET_SCANCODE, SET_LEDS, 2, LedParam}

(* After the answer of the controller was added and before a byte is read.  *)
Answered == {"selfTestAnswer", "config", "configCheck", "interfaceAnswer"}

Places == Answered \union
          {"disable", "flush", "selfTest", "readConfig", "writeConfig", "checkConfig",
           "interfaceTest", "enable", "enableFlush", "command", "param", "ack", "bat",
           "done", "exit", "assert"}

(* In the loop that writes the command byte.                                *)
Writing == {"writeConfig", "checkConfig", "configCheck"}

TypeInv ==
  /\ TypeOK
  /\ pc \in Places
  /\ toKbd = <<>> \/ \E b \in CommandBytes : toKbd = <<b>>
  /\ pc = "param" => step \in {3, 5}
  /\ pc # "exit" => n <= RetryLimit
  /\ pc \in Writing => try < ConfigTries
  /\ Len(out) <= 2 /\ (pc \notin Answered => Len(out) <= 1)

-----------------------------------------------------------------------------
(* The command byte.                                                        *)
LEMMA Bits ==
  ASSUME NEW b \in 0 .. 255
  PROVE  /\ SetBit(b, 0) \in 0 .. 255 /\ Bit(SetBit(b, 0), 0)
         /\ SetBit(b, 4) \in 0 .. 255
         /\ ClearBit(b, 6) \in 0 .. 255 /\ ~Bit(ClearBit(b, 6), 6)
         /\ Bit(ClearBit(b, 6), 0) <=> Bit(b, 0)
         /\ ClearBit(b, 4) \in 0 .. 255 /\ ~Bit(ClearBit(b, 4), 4)
         /\ Bit(ClearBit(b, 4), 0) <=> Bit(b, 0)
         /\ Bit(ClearBit(b, 4), 6) <=> Bit(b, 6)
<1>1. 2 ^ 0 = 1 /\ 2 ^ 4 = 16 /\ 2 ^ 6 = 64
  OBVIOUS
<1>2. SetBit(b, 0) \in 0 .. 255 /\ Bit(SetBit(b, 0), 0)
  BY <1>1 DEF SetBit, Bit
<1>3. SetBit(b, 4) \in 0 .. 255
  BY <1>1 DEF SetBit, Bit
<1>4. ClearBit(b, 6) \in 0 .. 255 /\ ~Bit(ClearBit(b, 6), 6)
  BY <1>1 DEF ClearBit, Bit
<1>5. Bit(ClearBit(b, 6), 0) <=> Bit(b, 0)
  BY <1>1 DEF ClearBit, Bit
<1>6. ClearBit(b, 4) \in 0 .. 255 /\ ~Bit(ClearBit(b, 4), 4)
  BY <1>1 DEF ClearBit, Bit
<1>7. Bit(ClearBit(b, 4), 0) <=> Bit(b, 0)
  BY <1>1 DEF ClearBit, Bit
<1>8. Bit(ClearBit(b, 4), 6) <=> Bit(b, 6)
  BY <1>1 DEF ClearBit, Bit
<1> QED
  BY <1>2, <1>3, <1>4, <1>5, <1>6, <1>7, <1>8

(* The sequences that the buffer goes through.                              *)
LEMMA Popped ==
  ASSUME TypeOK, out # <<>>
  PROVE  /\ Head(out) \in 0 .. 255 /\ Head(out) = out[1] /\ Tail(out) \in Seq(0 .. 255)
         /\ Len(out) \in Nat \ {0} /\ Len(Tail(out)) = Len(out) - 1
         /\ Len(out) = 2 => Tail(out)[1] = out[2]
<1>1. out \in Seq(0 .. 255)
  BY DEF TypeOK
<1>2. Len(out) \in Nat \ {0} /\ Head(out) = out[1] /\ Head(out) \in 0 .. 255
  BY <1>1, HeadTailProperties, LenProperties, EmptySeq
<1>3. /\ Tail(out) \in Seq(0 .. 255) /\ Len(Tail(out)) = Len(out) - 1
      /\ \A i \in 1 .. Len(Tail(out)) : Tail(out)[i] = out[i + 1]
  BY <1>1, HeadTailProperties
<1> QED
  BY <1>2, <1>3

LEMMA Pushed ==
  ASSUME TypeOK, NEW b \in 0 .. 255
  PROVE  /\ Append(out, b) \in Seq(0 .. 255) /\ Len(Append(out, b)) = Len(out) + 1
         /\ Len(out) \in Nat
         /\ Append(out, b)[Len(out) + 1] = b
         /\ \A i \in 1 .. Len(out) : Append(out, b)[i] = out[i]
<1>1. out \in Seq(0 .. 255)
  BY DEF TypeOK
<1> QED
  BY <1>1, AppendProperties, LenProperties

(* ps2_read_data(): at most one byte less, and never more.                  *)
LEMMA Drained ==
  ASSUME TypeOK, ReadData
  PROVE  out' \in Seq(0 .. 255) /\ Len(out') <= Len(out) /\ Len(out') \in Nat
<1>1. CASE out = <<>>
  BY <1>1, EmptySeq DEF ReadData
<1>2. CASE out # <<>>
  BY <1>2, Popped DEF ReadData
<1> QED
  BY <1>1, <1>2

LEMMA CommandsKnown ==
  /\ Len(Commands) = 5
  /\ \A s \in 1 .. 5 : /\ Commands[s][1] \in CommandBytes
                       /\ (Len(Commands[s]) = 2 => s \in {3, 5})
                       /\ (s \in {3, 5} => Commands[s][2] \in CommandBytes)
  BY DEF Commands, CommandBytes

LEMMA CommandBytesAreBytes == CommandBytes \subseteq 0 .. 255
  BY Ps2InitAssumption DEF CommandBytes, RESET, DISABLE_SCAN, ENABLE_SCAN, SET_SCANCODE, SET_LEDS

-----------------------------------------------------------------------------
Keyboards == [scanning : BOOLEAN, set : 0 .. 7, leds : 0 .. 7, bat : BOOLEAN,
              wants : {0, SET_SCANCODE, SET_LEDS}, resends : 0 .. Resends]

LEMMA PowerOnIsKeyboard ==
  \A r \in 0 .. Resends : [PowerOn EXCEPT !.resends = r] \in Keyboards
<1>1. PowerOn \in Keyboards
  <2>1. 2 \in 0 .. 7 /\ 0 \in 0 .. 7 /\ 0 \in 0 .. Resends
    BY Ps2InitAssumption
  <2> QED
    BY <2>1, Zenon DEF Keyboards, PowerOn
<1> QED
  BY <1>1 DEF Keyboards

LEMMA InitTypeInv == Init => TypeInv
<1> SUFFICES ASSUME Init
             PROVE  TypeInv
  OBVIOUS
<1>1. /\ out = <<>> /\ config \in 0 .. 255 /\ flaky = 0 /\ toKbd = <<>> /\ kbd = PowerOn
      /\ sending = <<>> /\ typed = 0 /\ pc = "disable" /\ want = 0 /\ try = 0 /\ step = 1
      /\ n = 0 /\ err = FALSE
  BY Ps2InitAssumption DEF Init
<1>2. kbd \in Keyboards
  BY <1>1, Ps2InitAssumption DEF PowerOn, Keyboards
<1>3. step \in 1 .. Len(Commands)
  BY <1>1, CommandsKnown
<1>4. /\ out \in Seq(0 .. 255) /\ toKbd \in Seq(0 .. 255) /\ sending \in Seq(0 .. 255)
      /\ Len(out) = 0 /\ Len(toKbd) = 0
  BY <1>1, EmptySeq
<1>a. flaky \in 0 .. Flaky /\ typed \in 0 .. Typing /\ try \in 0 .. ConfigTries
  BY <1>1, Ps2InitAssumption
<1>b. n \in 0 .. RetryLimit + 1 /\ n <= RetryLimit
  BY <1>1, Ps2InitAssumption
<1>c. want \in 0 .. 255
  BY <1>1
<1>5. err \in BOOLEAN
  BY <1>1, Zenon
<1>6. TypeOK
  BY <1>1, <1>2, <1>3, <1>4, <1>a, <1>b, <1>c, <1>5 DEF TypeOK, Keyboards
<1> QED
  BY <1>1, <1>4, <1>b, <1>6 DEF TypeInv, Places, Answered, Writing

(* What an action of the keyboard or the user has to keep.                  *)
LEMMA DriverStands ==
  ASSUME TypeInv, UNCHANGED <<ctl, pc, want, try, step, n, err>>,
         out' \in Seq(0 .. 255), Len(out') <= 2, pc \notin Answered => Len(out') <= 1,
         toKbd' = toKbd \/ toKbd' = <<>>,
         sending' \in Seq(0 .. 255), kbd' \in Keyboards, typed' \in 0 .. Typing
  PROVE  TypeInv'
<1>1. toKbd' \in Seq(0 .. 255) /\ Len(toKbd') <= 1
  <2>1. CASE toKbd' = toKbd
    BY <2>1 DEF TypeInv, TypeOK
  <2>2. CASE toKbd' = <<>>
    BY <2>2, EmptySeq
  <2> QED
    BY <2>1, <2>2
<1>2. toKbd' = <<>> \/ \E b \in CommandBytes : toKbd' = <<b>>
  BY DEF TypeInv
<1>3. TypeOK'
  BY <1>1 DEF TypeInv, TypeOK, Keyboards, ctl
<1> QED
  BY <1>2, <1>3 DEF TypeInv, ctl

LEMMA KeyboardObeys ==
  ASSUME NEW b \in CommandBytes, kbd \in Keyboards, Understood(b)
  PROVE  Obeyed(b) \in Keyboards
<1>1. CASE b = RESET
  <2>1. [kbd EXCEPT !.bat = TRUE, !.wants = 0] \in Keyboards
    BY Zenon DEF Keyboards
  <2>2. b # DISABLE_SCAN /\ b # ENABLE_SCAN /\ b \notin {SET_SCANCODE, SET_LEDS} /\ ~(b < 8)
    BY <1>1 DEF RESET, DISABLE_SCAN, ENABLE_SCAN, SET_SCANCODE, SET_LEDS
  <2>3. Obeyed(b) = [kbd EXCEPT !.bat = TRUE, !.wants = 0]
    BY <1>1, <2>2, Zenon DEF Obeyed
  <2> QED
    BY <2>1, <2>3
<1>2. CASE b = DISABLE_SCAN
  <2>1. [kbd EXCEPT !.scanning = FALSE, !.wants = 0] \in Keyboards
    BY Zenon DEF Keyboards
  <2>2. b # RESET /\ b # ENABLE_SCAN /\ b \notin {SET_SCANCODE, SET_LEDS} /\ ~(b < 8)
    BY <1>2 DEF RESET, DISABLE_SCAN, ENABLE_SCAN, SET_SCANCODE, SET_LEDS
  <2>3. Obeyed(b) = [kbd EXCEPT !.scanning = FALSE, !.wants = 0]
    BY <1>2, <2>2, Zenon DEF Obeyed
  <2> QED
    BY <2>1, <2>3
<1>3. CASE b = ENABLE_SCAN
  <2>1. [kbd EXCEPT !.scanning = TRUE, !.wants = 0] \in Keyboards
    BY Zenon DEF Keyboards
  <2>2. b # RESET /\ b # DISABLE_SCAN /\ b \notin {SET_SCANCODE, SET_LEDS} /\ ~(b < 8)
    BY <1>3 DEF RESET, DISABLE_SCAN, ENABLE_SCAN, SET_SCANCODE, SET_LEDS
  <2>3. Obeyed(b) = [kbd EXCEPT !.scanning = TRUE, !.wants = 0]
    BY <1>3, <2>2, Zenon DEF Obeyed
  <2> QED
    BY <2>1, <2>3
<1>4. CASE b = SET_SCANCODE
  BY <1>4 DEF Obeyed, Keyboards, RESET, DISABLE_SCAN, ENABLE_SCAN, SET_SCANCODE
<1>5. CASE b = SET_LEDS
  BY <1>5 DEF Obeyed, Keyboards, RESET, DISABLE_SCAN, ENABLE_SCAN, SET_LEDS
<1>6. CASE b \in {2, LedParam}
  <2>1. b \in 0 .. 7
    BY <1>6, Ps2InitAssumption
  <2>2. /\ b # RESET /\ b # DISABLE_SCAN /\ b # ENABLE_SCAN
        /\ b \notin {SET_SCANCODE, SET_LEDS} /\ b < 8
    BY <2>1 DEF RESET, DISABLE_SCAN, ENABLE_SCAN, SET_SCANCODE, SET_LEDS
  <2>3. kbd.wants \in {SET_SCANCODE, SET_LEDS}
    BY <2>1, Ps2InitAssumption DEF Understood, Keyboards
  <2>4. SET_SCANCODE # SET_LEDS
    BY DEF SET_SCANCODE, SET_LEDS
  <2>5. CASE kbd.wants = SET_SCANCODE
    <3>1. Obeyed(b) = [kbd EXCEPT !.set = b, !.wants = 0]
      BY <2>2, <2>4, <2>5 DEF Obeyed
    <3> QED
      BY <2>1, <3>1 DEF Keyboards
  <2>6. CASE kbd.wants = SET_LEDS
    <3>1. Obeyed(b) = [kbd EXCEPT !.leds = b, !.wants = 0]
      BY <2>2, <2>4, <2>6 DEF Obeyed
    <3> QED
      BY <2>1, <3>1 DEF Keyboards
  <2> QED
    BY <2>3, <2>5, <2>6
<1> QED
  BY <1>1, <1>2, <1>3, <1>4, <1>5, <1>6 DEF CommandBytes

(* The keyboard's side.                                                     *)
LEMMA KeyboardTypes ==
  ASSUME TypeInv, Obey \/ SelfTested \/ Receive \/ (\E c \in KeyCodes : TypeKey(c))
  PROVE  TypeInv'
<1>0. \A b \in 0 .. 255 : Append(sending, b) \in Seq(0 .. 255)
  <2>1. sending \in Seq(0 .. 255)
    BY DEF TypeInv, TypeOK
  <2> QED
    BY <2>1, AppendProperties
<1>a. /\ kbd \in Keyboards /\ out \in Seq(0 .. 255) /\ Len(out) <= 2
      /\ pc \notin Answered => Len(out) <= 1
      /\ sending \in Seq(0 .. 255) /\ typed \in 0 .. Typing
  BY DEF TypeInv, TypeOK, Keyboards
<1>b. ACK \in 0 .. 255 /\ RESEND \in 0 .. 255 /\ BAT_SUCCESSFUL \in 0 .. 255
      /\ KEYBOARD_ERROR \in 0 .. 255
  BY DEF ACK, RESEND, BAT_SUCCESSFUL, KEYBOARD_ERROR
<1>1. CASE \E c \in KeyCodes : TypeKey(c)
  <2>1. sending' \in Seq(0 .. 255)
    BY <1>0, <1>1, Ps2InitAssumption DEF TypeKey
  <2>2. typed' \in 0 .. Typing
    BY <1>1, <1>a, Ps2InitAssumption DEF TypeKey
  <2>3. UNCHANGED <<out, ctl, toKbd, kbd, pc, want, try, step, n, err>>
    BY <1>1 DEF TypeKey
  <2> QED
    BY <1>a, <2>1, <2>2, <2>3, DriverStands
<1>2. CASE Obey
  <2>1. PICK b \in CommandBytes : toKbd = <<b>>
    BY <1>2 DEF Obey, TypeInv
  <2>2. Head(toKbd) = b /\ toKbd' = <<>> /\ UNCHANGED <<out, ctl, typed, pc, want, try, step, n, err>>
    BY <1>2, <2>1 DEF Obey
  <2>3. \/ Understood(b) /\ kbd' = Obeyed(b) /\ sending' = Append(sending, ACK)
        \/ kbd' = kbd /\ sending' = Append(sending, RESEND)
        \/ /\ kbd.resends < Resends /\ kbd' = [kbd EXCEPT !.resends = @ + 1]
           /\ sending' = Append(sending, RESEND)
    BY <1>2, <2>2 DEF Obey
  <2>4. sending' \in Seq(0 .. 255)
    BY <1>0, <1>b, <2>3
  <2>5. ASSUME Understood(b), kbd' = Obeyed(b)
        PROVE  kbd' \in Keyboards
    <3> HIDE DEF Keyboards, CommandBytes
    <3> QED
      BY <1>a, <2>5, KeyboardObeys
  <2>6. ASSUME kbd.resends < Resends, kbd' = [kbd EXCEPT !.resends = @ + 1]
        PROVE  kbd' \in Keyboards
    <3>1. kbd \in Keyboards /\ kbd.resends \in 0 .. Resends /\ kbd.resends + 1 \in 0 .. Resends
      BY <1>a, <2>6, Ps2InitAssumption DEF Keyboards
    <3> QED
      BY <2>6, <3>1 DEF Keyboards
  <2>7. kbd' \in Keyboards
    BY <1>a, <2>3, <2>5, <2>6
  <2> QED
    BY <1>a, <2>2, <2>4, <2>7, DriverStands
<1>3. CASE SelfTested
  <2>1. sending' \in Seq(0 .. 255)
    BY <1>0, <1>3, <1>b DEF SelfTested
  <2>2. kbd.resends \in 0 .. Resends /\ kbd' = [PowerOn EXCEPT !.resends = kbd.resends]
    BY <1>3, <1>a DEF SelfTested, Keyboards
  <2>3. kbd' \in Keyboards
    BY <2>2, PowerOnIsKeyboard
  <2>4. UNCHANGED <<out, ctl, toKbd, typed, pc, want, try, step, n, err>>
    BY <1>3 DEF SelfTested
  <2> QED
    BY <1>a, <2>1, <2>3, <2>4, DriverStands
<1>4. CASE Receive
  <2>1. /\ sending # <<>>
        /\ out' = <<Head(sending)>> /\ sending' = Tail(sending)
        /\ UNCHANGED <<ctl, toKbd, kbd, typed, pc, want, try, step, n, err>>
    BY <1>4 DEF Receive
  <2>2. Head(sending) \in 0 .. 255 /\ sending' \in Seq(0 .. 255)
    BY <1>a, <2>1, HeadTailProperties
  <2>3. out' \in Seq(0 .. 255) /\ Len(out') = 1
    BY <2>1, <2>2
  <2> QED
    BY <1>a, <2>1, <2>2, <2>3, DriverStands
<1> QED
  BY <1>1, <1>2, <1>3, <1>4

(* What a step of the driver has to keep.                                   *)
LEMMA KeyboardStands ==
  ASSUME TypeInv, UNCHANGED <<kbd, sending, typed>>,
         out' \in Seq(0 .. 255), Len(out') <= 2, pc' \notin Answered => Len(out') <= 1,
         config' \in 0 .. 255, flaky' \in 0 .. Flaky,
         toKbd' = toKbd \/ (\E b \in CommandBytes : toKbd' = <<b>>),
         pc' \in Places, want' \in 0 .. 255, try' \in 0 .. ConfigTries,
         pc' \in Writing => try' < ConfigTries,
         step' \in 1 .. 5, pc' = "param" => step' \in {3, 5},
         n' \in 0 .. RetryLimit + 1, pc' # "exit" => n' <= RetryLimit, err' \in BOOLEAN
  PROVE  TypeInv'
<1>1. toKbd' = <<>> \/ \E b \in CommandBytes : toKbd' = <<b>>
  BY DEF TypeInv
<1>2. toKbd' \in Seq(0 .. 255) /\ Len(toKbd') <= 1
  <2>1. CASE toKbd' = <<>>
    BY <2>1, EmptySeq
  <2>2. CASE \E b \in CommandBytes : toKbd' = <<b>>
    BY <2>2, CommandBytesAreBytes
  <2> QED
    BY <1>1, <2>1, <2>2
<1>3. step' \in 1 .. Len(Commands)
  BY CommandsKnown
<1>4. TypeOK'
  BY <1>2, <1>3 DEF TypeInv, TypeOK
<1> QED
  BY <1>1, <1>4 DEF TypeInv

(* Return(e), the end of an attempt, wherever it occurs.                    *)
LEMMA ReturnTypes ==
  ASSUME TypeInv, NEW e \in BOOLEAN, Return(e), pc # "exit"
  PROVE  /\ err' \in BOOLEAN /\ n' \in 0 .. RetryLimit + 1
         /\ pc' \in {"exit", "disable", "done"} /\ (pc' # "exit" => n' <= RetryLimit)
<1>1. n \in 0 .. RetryLimit /\ n' = n + 1
  BY Ps2InitAssumption DEF TypeInv, TypeOK, Return
<1>2. err' = e /\ pc' = IF n = RetryLimit THEN "exit" ELSE IF e THEN "disable" ELSE "done"
  BY DEF Return
<1> QED
  BY <1>1, <1>2, Ps2InitAssumption

LEMMA DriverTypes ==
  ASSUME TypeInv, Driver
  PROVE  TypeInv'
<1>0. /\ out \in Seq(0 .. 255) /\ Len(out) \in Nat /\ Len(out) <= 2
      /\ pc \notin Answered => Len(out) <= 1
      /\ config \in 0 .. 255 /\ flaky \in 0 .. Flaky
      /\ want \in 0 .. 255 /\ try \in 0 .. ConfigTries
      /\ step \in 1 .. 5 /\ n \in 0 .. RetryLimit + 1
      /\ pc # "exit" => n <= RetryLimit
  BY LenProperties, CommandsKnown DEF TypeInv, TypeOK
<1>e. pc \in Writing => try < ConfigTries
  BY DEF TypeInv
<1>a. err \in BOOLEAN
  BY DEF TypeInv, TypeOK
<1>b. \A b \in 0 .. 255 : SetBit(b, 0) \in 0 .. 255 /\ SetBit(b, 4) \in 0 .. 255
                          /\ ClearBit(b, 4) \in 0 .. 255 /\ ClearBit(b, 6) \in 0 .. 255
  BY Bits
<1>c. out # <<>> => Head(out) \in 0 .. 255 /\ Tail(out) \in Seq(0 .. 255)
                    /\ Len(Tail(out)) <= 1 /\ Len(Tail(out)) \in Nat
  BY <1>0, Popped DEF TypeInv
<1>d. \A b \in 0 .. 255 : Append(out, b) \in Seq(0 .. 255) /\ Len(Append(out, b)) = Len(out) + 1
  BY Pushed DEF TypeInv
<1>1. CASE Disable
  <2>1. config' \in 0 .. 255
    BY <1>0, <1>b, <1>1 DEF Disable
  <2>2. pc = "disable" /\ pc' = "flush"
        /\ UNCHANGED <<out, flaky, kbd, sending, typed, toKbd, want, try, step, n, err>>
    BY <1>1 DEF Disable, Goto, device
  <2> QED
    BY <1>0, <1>a, <2>1, <2>2, KeyboardStands DEF Places, Answered, Writing
<1>2. CASE Flush \/ EnableFlush
  <2>1. out' \in Seq(0 .. 255) /\ Len(out') <= Len(out) /\ Len(out') \in Nat
    BY <1>2, Drained DEF Flush, EnableFlush, TypeInv
  <2>2. /\ pc \in {"flush", "enableFlush"} /\ pc' \in {"selfTest", "command"}
        /\ step' \in {step, 1}
        /\ UNCHANGED <<ctl, kbd, sending, typed, toKbd, want, try, n, err>>
    BY <1>2 DEF Flush, EnableFlush, Goto, device
  <2> QED
    BY <1>0, <1>a, <2>1, <2>2, KeyboardStands DEF Places, Answered, Writing, ctl
<1>3. CASE SelfTest
  <2>1. out' \in Seq(0 .. 255) /\ Len(out') <= 2
    BY <1>0, <1>d, <1>3 DEF SelfTest, Answer, SELF_TEST_OK, Answered
  <2>2. config' \in 0 .. 255
    BY <1>3, Ps2InitAssumption DEF SelfTest
  <2>3. pc = "selfTest" /\ pc' = "selfTestAnswer"
        /\ UNCHANGED <<flaky, kbd, sending, typed, toKbd, want, try, step, n, err>>
    BY <1>3 DEF SelfTest, Goto, device
  <2> QED
    BY <1>0, <1>a, <2>1, <2>2, <2>3, KeyboardStands DEF Places, Answered, Writing
<1>4. CASE SelfTestAnswer \/ InterfaceAnswer
  <2>1. out' \in Seq(0 .. 255) /\ Len(out') <= 1
    BY <1>4, <1>c DEF SelfTestAnswer, InterfaceAnswer, ReadOutput
  <2>2. pc \in {"selfTestAnswer", "interfaceAnswer"}
        /\ UNCHANGED <<ctl, kbd, sending, typed, toKbd, want, try, step>>
    BY <1>4 DEF SelfTestAnswer, InterfaceAnswer, device
  <2>3. Return(TRUE) \/ (pc' \in {"readConfig", "enable"} /\ UNCHANGED <<n, err>>)
    BY <1>4 DEF SelfTestAnswer, InterfaceAnswer, Goto
  <2>4. /\ err' \in BOOLEAN /\ n' \in 0 .. RetryLimit + 1
        /\ pc' \in {"exit", "disable", "done", "readConfig", "enable"}
        /\ (pc' # "exit" => n' <= RetryLimit)
    <3>1. CASE Return(TRUE)
      BY <2>2, <3>1, ReturnTypes
    <3>2. CASE pc' \in {"readConfig", "enable"} /\ UNCHANGED <<n, err>>
      BY <1>0, <1>a, <2>2, <3>2
    <3> QED
      BY <2>3, <3>1, <3>2
  <2> QED
    BY <1>0, <2>1, <2>2, <2>4, KeyboardStands DEF Places, Answered, Writing, ctl
<1>5. CASE ReadConfig
  <2>1. out' \in Seq(0 .. 255) /\ Len(out') <= 2
    BY <1>0, <1>d, <1>5 DEF ReadConfig, Answer, Answered
  <2>2. /\ \/ pc = "readConfig" /\ pc' = "config"
           \/ pc = "checkConfig" /\ pc' = "configCheck"
        /\ UNCHANGED <<ctl, kbd, sending, typed, toKbd, want, try, step, n, err>>
    BY <1>5 DEF ReadConfig, Goto, device
  <2> QED
    BY <1>0, <1>a, <1>e, <2>1, <2>2, KeyboardStands DEF Places, Answered, Writing, ctl
<1>6. CASE Config
  <2>1. out' \in Seq(0 .. 255) /\ Len(out') <= 1 /\ want' \in 0 .. 255
    BY <1>6, <1>b, <1>c DEF Config, ReadOutput
  <2>2. pc = "config" /\ pc' = "writeConfig" /\ try' = 0
        /\ UNCHANGED <<ctl, kbd, sending, typed, toKbd, step, n, err>>
    BY <1>6 DEF Config, Goto, device
  <2> QED
    BY <1>0, <1>a, <1>e, <2>1, <2>2, KeyboardStands, Ps2InitAssumption DEF Places, Answered, ctl
<1>7. CASE WriteConfig
  <2>1. config' \in 0 .. 255 /\ flaky' \in 0 .. Flaky
    <3>1. \/ config' = want /\ flaky' = flaky
          \/ flaky < Flaky /\ flaky' = flaky + 1 /\ config' = config
      BY <1>7 DEF WriteConfig
    <3>2. config' \in 0 .. 255
      BY <1>0, <3>1
    <3>3. flaky \in Nat /\ flaky <= Flaky /\ Flaky \in Nat
      BY <1>0, Ps2InitAssumption
    <3> QED
      BY <3>1, <3>2, <3>3
  <2>2. pc = "writeConfig" /\ pc' = "checkConfig"
        /\ UNCHANGED <<out, kbd, sending, typed, toKbd, want, try, step, n, err>>
    BY <1>7 DEF WriteConfig, Goto, device
  <2> QED
    BY <1>0, <1>a, <1>e, <2>1, <2>2, KeyboardStands DEF Places, Answered, Writing
<1>8. CASE ConfigCheck
  <2>1. out' \in Seq(0 .. 255) /\ Len(out') <= 1
    BY <1>8, <1>c DEF ConfigCheck, ReadOutput
  <2>2. pc = "configCheck" /\ pc' \in {"writeConfig", "interfaceTest"}
        /\ UNCHANGED <<ctl, kbd, sending, typed, toKbd, want, step, n, err>>
    BY <1>8 DEF ConfigCheck, Goto, device
  <2>3. try' \in 0 .. ConfigTries /\ (pc' = "writeConfig" => try' < ConfigTries)
    BY <1>0, <1>e, <1>8, Ps2InitAssumption DEF ConfigCheck, Goto, Writing
  <2> QED
    BY <1>0, <1>a, <1>e, <2>1, <2>2, <2>3, KeyboardStands DEF Places, Answered, Writing, ctl
<1>9. CASE InterfaceTest
  <2>1. out' \in Seq(0 .. 255) /\ Len(out') <= 2
    BY <1>0, <1>d, <1>9 DEF InterfaceTest, Answer, Answered
  <2>2. pc = "interfaceTest" /\ pc' = "interfaceAnswer"
        /\ UNCHANGED <<ctl, kbd, sending, typed, toKbd, want, try, step, n, err>>
    BY <1>9 DEF InterfaceTest, Goto, device
  <2> QED
    BY <1>0, <1>a, <2>1, <2>2, KeyboardStands DEF Places, Answered, Writing, ctl
<1>10. CASE Enable
  <2>1. config' \in 0 .. 255
    BY <1>0, <1>b, <1>10 DEF Enable
  <2>2. pc = "enable" /\ pc' = "enableFlush"
        /\ UNCHANGED <<out, flaky, kbd, sending, typed, toKbd, want, try, step, n, err>>
    BY <1>10 DEF Enable, Goto, device
  <2> QED
    BY <1>0, <1>a, <2>1, <2>2, KeyboardStands DEF Places, Answered, Writing
<1>11. CASE WriteCommand
  <2>1. \E b \in CommandBytes : toKbd' = <<b>>
    BY <1>0, <1>11, CommandsKnown DEF WriteCommand, Write
  <2>2. pc = "command" /\ pc' \in {"param", "ack"} /\ (pc' = "param" => step \in {3, 5})
        /\ UNCHANGED <<out, ctl, kbd, sending, typed, want, try, step, n, err>>
    BY <1>0, <1>11, CommandsKnown DEF WriteCommand, Goto
  <2> QED
    BY <1>0, <1>a, <2>1, <2>2, KeyboardStands DEF Places, Answered, Writing, ctl
<1>12. CASE WriteParam
  <2>1. \E b \in CommandBytes : toKbd' = <<b>>
    BY <1>0, <1>12, CommandsKnown DEF WriteParam, Write, TypeInv
  <2>2. pc = "param" /\ pc' = "ack"
        /\ UNCHANGED <<out, ctl, kbd, sending, typed, want, try, step, n, err>>
    BY <1>12 DEF WriteParam, Goto
  <2> QED
    BY <1>0, <1>a, <2>1, <2>2, KeyboardStands DEF Places, Answered, Writing, ctl
<1>13. CASE CommandAnswer \/ AssuranceTest
  <2>1. out' \in Seq(0 .. 255) /\ Len(out') <= 1
    BY <1>13, <1>c DEF CommandAnswer, AssuranceTest, ReadOutput
  <2>2. pc \in {"ack", "bat"} /\ UNCHANGED <<ctl, kbd, sending, typed, toKbd, want, try>>
    BY <1>13 DEF CommandAnswer, AssuranceTest, device
  <2>3. NextCommand \/ (pc' \in {"command", "bat", "assert", pc} /\ UNCHANGED <<step, n, err>>)
    BY <1>13 DEF CommandAnswer, AssuranceTest, Goto
  <2>4. /\ step' \in 1 .. 5 /\ err' \in BOOLEAN /\ n' \in 0 .. RetryLimit + 1
        /\ pc' \in {"exit", "disable", "done", "command", "bat", "assert", "ack"}
        /\ (pc' # "exit" => n' <= RetryLimit)
    <3>1. CASE NextCommand /\ step < Len(Commands)
      BY <1>0, <1>a, <2>2, <3>1, CommandsKnown DEF NextCommand, Goto
    <3>2. CASE NextCommand /\ ~(step < Len(Commands))
      <4>1. step' = 1 /\ Return(FALSE)
        BY <3>2 DEF NextCommand
      <4>2. /\ err' \in BOOLEAN /\ n' \in 0 .. RetryLimit + 1
            /\ pc' \in {"exit", "disable", "done"} /\ (pc' # "exit" => n' <= RetryLimit)
        <5>1. FALSE \in BOOLEAN /\ pc # "exit"
          BY <2>2
        <5> QED
          BY <4>1, <5>1, ReturnTypes, Zenon
      <4>3. step' \in 1 .. 5
        BY <4>1
      <4> QED
        BY <4>2, <4>3
    <3>3. CASE pc' \in {"command", "bat", "assert", pc} /\ UNCHANGED <<step, n, err>>
      BY <1>0, <1>a, <2>2, <3>3
    <3> QED
      BY <2>3, <3>1, <3>2, <3>3
  <2> QED
    BY <1>0, <2>1, <2>2, <2>4, KeyboardStands DEF Places, Answered, Writing, ctl
<1> QED
  BY <1>1, <1>2, <1>3, <1>4, <1>5, <1>6, <1>7, <1>8, <1>9, <1>10, <1>11, <1>12, <1>13 DEF Driver

(* For any number of attempts, keys and answers: the driver's variables and *)
(* the buffers stay in their ranges, and an attempt is never counted beyond *)
(* the limit of init_keyboard().                                            *)
THEOREM TypeCorrect == Spec => []TypeOK
<1>1. Init => TypeInv
  BY InitTypeInv
<1>2. TypeInv /\ [Next]_vars => TypeInv'
  <2> SUFFICES ASSUME TypeInv, [Next]_vars
               PROVE  TypeInv'
    OBVIOUS
  <2>1. CASE UNCHANGED vars
    BY <2>1 DEF TypeInv, TypeOK, vars, ctl, device
  <2> QED
    BY <2>1, DriverTypes, KeyboardTypes DEF Next
<1>3. TypeInv => TypeOK
  BY DEF TypeInv
<1> QED
  BY <1>1, <1>2, <1>3, PTL DEF Spec

-----------------------------------------------------------------------------
(* Why success means a configured controller. While the command byte is     *)
(* being written it is the one that is wanted, or a default that as many    *)
(* writes have missed as were tried. What is read to compare may be older,  *)
(* but then the byte itself is still in the buffer, and is no 0: the        *)
(* interface test fails on it.                                              *)
Right      == Bit(config, 0) /\ ~Bit(config, 6) /\ ~Bit(config, 4)
Configured == {"enableFlush", "command", "param", "ack", "bat", "done"}

AfterSelfTest == pc \in {"selfTestAnswer", "readConfig", "config"} => config \in Defaults

Wanted ==
  pc \in Writing \union {"interfaceTest", "interfaceAnswer", "enable"} =>
    /\ config \in Defaults \union {want}
    /\ Bit(want, 0) /\ ~Bit(want, 6)

Missed ==
  /\ pc = "writeConfig" => config = want \/ flaky >= try
  /\ pc \in {"checkConfig", "configCheck"} => config = want \/ flaky >= try + 1

ReadBack ==
  /\ pc = "configCheck" => Len(out) >= 1 /\ out[Len(out)] = config
  /\ pc = "interfaceTest" => config = want \/ (Len(out) = 1 /\ out[1] = config)
  /\ pc = "interfaceAnswer" => config = want \/ (Len(out) >= 1 /\ out[1] = config)
  /\ pc = "enable" => config = want

ConfigInv ==
  /\ AfterSelfTest /\ Wanted /\ Missed /\ ReadBack
  /\ pc \in Configured => Right

LEMMA InitConfigInv == Init => ConfigInv
  BY DEF Init, ConfigInv, AfterSelfTest, Wanted, Missed, ReadBack, Writing, Configured

(* The keyboard and the user touch nothing of it: the buffer is not empty   *)
(* where a byte in it is spoken of.                                         *)
LEMMA KeyboardConfig ==
  ASSUME TypeInv, ConfigInv, Obey \/ SelfTested \/ Receive \/ (\E c \in KeyCodes : TypeKey(c))
  PROVE  ConfigInv'
<1>1. CASE Obey \/ SelfTested \/ (\E c \in KeyCodes : TypeKey(c))
  <2>1. UNCHANGED <<out, config, flaky, pc, want, try>>
    BY <1>1 DEF Obey, SelfTested, TypeKey, ctl
  <2> QED
    BY <2>1 DEF ConfigInv, AfterSelfTest, Wanted, Missed, ReadBack, Right
<1>2. CASE Receive
  <2>1. UNCHANGED <<config, flaky, pc, want, try>>
    BY <1>2 DEF Receive, ctl
  <2>2. Len(out) = 0
    BY <1>2, EmptySeq DEF Receive
  <2>3. ReadBack'
    BY <2>1, <2>2 DEF ConfigInv, ReadBack
  <2> QED
    BY <2>1, <2>3 DEF ConfigInv, AfterSelfTest, Wanted, Missed, Right
<1> QED
  BY <1>1, <1>2

(* The steps after the controller was configured, and those that return.    *)
LEMMA Afterwards ==
  ASSUME ConfigInv, UNCHANGED config,
         \/ pc \in Configured /\ pc' \in Configured
         \/ pc' \in {"disable", "flush", "selfTest", "exit", "assert"}
  PROVE  ConfigInv'
  BY DEF ConfigInv, AfterSelfTest, Wanted, Missed, ReadBack, Right, Writing, Configured

LEMMA DriverConfig ==
  ASSUME TypeInv, ConfigInv, Sound, Driver
  PROVE  ConfigInv'
<1>0. /\ config \in 0 .. 255 /\ want \in 0 .. 255 /\ try \in Nat /\ flaky \in Nat
      /\ Flaky \in Nat /\ flaky <= Flaky /\ Flaky < ConfigTries /\ ConfigTries \in Nat
      /\ Len(out) \in Nat
  BY LenProperties, Ps2InitAssumption DEF TypeInv, TypeOK, Sound
<1>c. out # <<>> => /\ Head(out) \in 0 .. 255 /\ Head(out) = out[1]
                    /\ Len(out) \in Nat \ {0} /\ Len(Tail(out)) = Len(out) - 1
                    /\ (Len(out) = 2 => Tail(out)[1] = out[2])
  BY Popped DEF TypeInv
<1>1. CASE Disable
  BY <1>1 DEF Disable, Goto, ConfigInv, AfterSelfTest, Wanted, Missed, ReadBack, Writing, Configured
<1>2. CASE Flush \/ EnableFlush
  <2>1. UNCHANGED config /\ \/ pc' = "selfTest"
                            \/ pc = "enableFlush" /\ pc' = "command"
    BY <1>2 DEF Flush, EnableFlush, Goto, ctl
  <2> QED
    BY <2>1, Afterwards DEF Configured
<1>3. CASE SelfTest
  BY <1>3 DEF SelfTest, Goto, ConfigInv, AfterSelfTest, Wanted, Missed, ReadBack, Writing, Configured
<1>4. CASE SelfTestAnswer
  <2>1. UNCHANGED config /\ (pc' \in {"exit", "disable"} \/ (pc = "selfTestAnswer" /\ pc' = "readConfig"))
    BY <1>4 DEF SelfTestAnswer, Return, Goto, ctl
  <2>2. CASE pc = "selfTestAnswer" /\ pc' = "readConfig"
    BY <2>1, <2>2 DEF ConfigInv, AfterSelfTest, Wanted, Missed, ReadBack, Writing, Configured
  <2> QED
    BY <2>1, <2>2, Afterwards
<1>5. CASE ReadConfig
  <2>1. /\ UNCHANGED <<config, flaky, want, try>> /\ out' = Append(out, config)
        /\ \/ pc = "readConfig" /\ pc' = "config"
           \/ pc = "checkConfig" /\ pc' = "configCheck"
    BY <1>5 DEF ReadConfig, Goto, Answer, ctl
  <2>2. Len(out') >= 1 /\ out'[Len(out')] = config'
    BY <1>0, <2>1, Pushed DEF TypeInv
  <2> QED
    BY <2>1, <2>2 DEF ConfigInv, AfterSelfTest, Wanted, Missed, ReadBack, Writing, Configured
<1>6. CASE Config
  <2>1. /\ UNCHANGED <<config, flaky>> /\ pc = "config" /\ pc' = "writeConfig" /\ try' = 0
        /\ want' = ClearBit(SetBit(Head(out), 0), 6) /\ out # <<>>
    BY <1>6 DEF Config, ReadOutput, Goto, ctl
  <2>2. /\ SetBit(Head(out), 0) \in 0 .. 255 /\ Bit(SetBit(Head(out), 0), 0)
    BY <1>c, <2>1, Bits
  <2>3. Bit(want', 0) /\ ~Bit(want', 6)
    BY <2>1, <2>2, Bits
  <2>4. flaky' >= try'
    BY <1>0, <2>1
  <2> QED
    BY <2>1, <2>3, <2>4 DEF ConfigInv, AfterSelfTest, Wanted, Missed, ReadBack, Writing, Configured
<1>7. CASE WriteConfig
  <2>1. /\ UNCHANGED <<out, want, try>> /\ pc = "writeConfig" /\ pc' = "checkConfig"
        /\ \/ config' = want /\ flaky' = flaky
           \/ flaky' = flaky + 1 /\ config' = config
    BY <1>7 DEF WriteConfig, Goto
  <2>2. config' = want' \/ flaky' >= try' + 1
    BY <1>0, <2>1 DEF ConfigInv, Missed
  <2> QED
    BY <2>1, <2>2 DEF ConfigInv, AfterSelfTest, Wanted, Missed, ReadBack, Writing, Configured
<1>8. CASE ConfigCheck
  <2>1. /\ UNCHANGED <<config, flaky, want>> /\ pc = "configCheck"
        /\ out # <<>> /\ out' = Tail(out)
        /\ pc' = IF Head(out) # want /\ try < ConfigTries - 1 THEN "writeConfig" ELSE "interfaceTest"
        /\ try' = IF Head(out) # want THEN try + 1 ELSE try
    BY <1>8 DEF ConfigCheck, ReadOutput, Goto, ctl
  <2>2. config = want \/ flaky >= try + 1
    BY <2>1 DEF ConfigInv, Missed
  <2>3. CASE pc' = "writeConfig"
    <3>1. config' = want' \/ flaky' >= try'
      BY <1>0, <2>1, <2>2, <2>3
    <3> QED
      BY <2>1, <2>3, <3>1 DEF ConfigInv, AfterSelfTest, Wanted, Missed, ReadBack, Writing, Configured
  <2>4. CASE pc' = "interfaceTest"
    <3>1. Head(out) = want \/ config = want
      BY <1>0, <2>1, <2>2, <2>4
    <3>2. Len(out) >= 1 /\ out[Len(out)] = config
      BY <2>1 DEF ConfigInv, ReadBack
    <3>3. Len(out) \in {1, 2}
      <4>1. Len(out) <= 2
        BY DEF TypeInv
      <4>2. \A k \in Nat : k >= 1 /\ k <= 2 => k \in {1, 2}
        OBVIOUS
      <4> QED
        BY <1>0, <3>2, <4>1, <4>2
    <3>4. config = want \/ (Len(Tail(out)) = 1 /\ Tail(out)[1] = config)
      BY <1>c, <2>1, <3>1, <3>2, <3>3
    <3> QED
      BY <2>1, <2>4, <3>4 DEF ConfigInv, AfterSelfTest, Wanted, Missed, ReadBack, Writing, Configured
  <2> QED
    BY <2>1, <2>3, <2>4
<1>9. CASE InterfaceTest
  <2>1. /\ UNCHANGED <<config, flaky, want, try>> /\ out' = Append(out, 0)
        /\ pc = "interfaceTest" /\ pc' = "interfaceAnswer"
    BY <1>9 DEF InterfaceTest, Goto, Answer, ctl
  <2>2. CASE config = want
    BY <2>1, <2>2 DEF ConfigInv, AfterSelfTest, Wanted, Missed, ReadBack, Writing, Configured
  <2>3. CASE Len(out) = 1 /\ out[1] = config
    <3>1. Len(out') = 2 /\ out'[1] = config'
      BY <2>1, <2>3, Pushed DEF TypeInv
    <3> QED
      BY <2>1, <3>1 DEF ConfigInv, AfterSelfTest, Wanted, Missed, ReadBack, Writing, Configured
  <2> QED
    BY <2>1, <2>2, <2>3 DEF ConfigInv, ReadBack
<1>10. CASE InterfaceAnswer
  <2>1. /\ UNCHANGED <<config, flaky, want, try>> /\ out # <<>> /\ pc = "interfaceAnswer"
        /\ pc' \in {"exit", "disable"} \/ (Head(out) = 0 /\ pc' = "enable")
    BY <1>10 DEF InterfaceAnswer, ReadOutput, Return, Goto, ctl
  <2>2. CASE Head(out) = 0 /\ pc' = "enable"
    <3>1. config \in Defaults \/ config = want
      BY <2>1 DEF ConfigInv, Wanted
    <3>2. config = want \/ out[1] = config
      BY <2>1 DEF ConfigInv, ReadBack
    <3>3. config = want
      BY <1>c, <2>1, <2>2, <3>1, <3>2 DEF Sound
    <3> QED
      BY <2>1, <2>2, <3>3 DEF ConfigInv, AfterSelfTest, Wanted, Missed, ReadBack, Writing, Configured
  <2> QED
    BY <2>1, <2>2, Afterwards
<1>11. CASE Enable
  <2>1. pc = "enable" /\ config' = ClearBit(config, 4) /\ pc' = "enableFlush"
    BY <1>11 DEF Enable, Goto
  <2>2. Bit(config, 0) /\ ~Bit(config, 6)
    BY <2>1 DEF ConfigInv, Wanted, ReadBack
  <2>3. Bit(config', 0) /\ ~Bit(config', 6) /\ ~Bit(config', 4)
    BY <1>0, <2>1, <2>2, Bits
  <2> QED
    BY <2>1, <2>3 DEF ConfigInv, AfterSelfTest, Wanted, Missed, ReadBack, Right, Writing, Configured
<1>12. CASE WriteCommand \/ WriteParam
  <2>1. UNCHANGED config /\ pc \in {"command", "param"} /\ pc' \in {"param", "ack"}
    BY <1>12 DEF WriteCommand, WriteParam, Goto, ctl
  <2> QED
    BY <2>1, Afterwards DEF Configured
<1>13. CASE CommandAnswer \/ AssuranceTest
  <2>1. /\ UNCHANGED config /\ pc \in {"ack", "bat"}
        /\ pc' \in {"command", "bat", "assert", "done", "exit", "disable", pc}
    BY <1>13 DEF CommandAnswer, AssuranceTest, NextCommand, Return, Goto, ctl
  <2> QED
    BY <2>1, Afterwards DEF Configured
<1> QED
  BY <1>1, <1>2, <1>3, <1>4, <1>5, <1>6, <1>7, <1>8, <1>9, <1>10, <1>11, <1>12, <1>13 DEF Driver

(* Unless every write of the command byte can fail, or the controller's     *)
(* default command byte can be 0, an initialisation that succeeded has      *)
(* configured the controller, whatever keys were taken for its answers.     *)
THEOREM SuccessIsConfigured == Sound => (Spec => []ConfigGood)
<1> SUFFICES ASSUME Sound
             PROVE  Spec => []ConfigGood
  OBVIOUS
<1>1. Init => TypeInv /\ ConfigInv
  BY InitTypeInv, InitConfigInv
<1>2. TypeInv /\ ConfigInv /\ [Next]_vars => TypeInv' /\ ConfigInv'
  <2> SUFFICES ASSUME TypeInv, ConfigInv, [Next]_vars
               PROVE  TypeInv' /\ ConfigInv'
    OBVIOUS
  <2>1. CASE UNCHANGED vars
    BY <2>1 DEF TypeInv, TypeOK, ConfigInv, AfterSelfTest, Wanted, Missed, ReadBack, Right,
                vars, ctl, device
  <2> QED
    BY <2>1, DriverTypes, KeyboardTypes, DriverConfig, KeyboardConfig DEF Next
<1>3. ConfigInv => ConfigGood
  BY DEF ConfigInv, ConfigGood, Configured, Right
<1> QED
  BY <1>1, <1>2, <1>3, PTL DEF Spec

-----------------------------------------------------------------------------
(* Why the keyboard is ready. The driver never waits for the right answer   *)
(* in vain, but it can take an old one for it, so what it has read says     *)
(* little; what it has written says all. The keyboard takes the bytes in    *)
(* their order, and the driver goes through the commands in theirs, however *)
(* often it repeats each: so look at the keyboard as it will be when its    *)
(* self test is over and it has taken the byte on its way.                  *)
Settles == IF kbd.bat THEN PowerOn ELSE kbd

Taken(k, b) ==
  CASE b = RESET        -> PowerOn
    [] b = DISABLE_SCAN -> [k EXCEPT !.scanning = FALSE, !.wants = 0]
    [] b = ENABLE_SCAN  -> [k EXCEPT !.scanning = TRUE, !.wants = 0]
    [] b \in {SET_SCANCODE, SET_LEDS} -> [k EXCEPT !.wants = b]
    [] b < 8 /\ k.wants = SET_SCANCODE -> [k EXCEPT !.set = b, !.wants = 0]
    [] b < 8 /\ k.wants = SET_LEDS     -> [k EXCEPT !.leds = b, !.wants = 0]

Ahead == IF toKbd = <<>> THEN Settles ELSE Taken(Settles, Head(toKbd))

(* A parameter finds the keyboard waiting for it.                           *)
Expected == toKbd # <<>> /\ Head(toKbd) < 8 => Settles.wants \in {SET_SCANCODE, SET_LEDS}

Lit == pc = "done" \/ (pc = "ack" /\ step = 5)

Scans == Lit \/ (pc = "ack" /\ step = 4) \/ (pc \in {"command", "param"} /\ step = 5)

ReadyInv ==
  kbd.resends = 0 =>
    /\ Expected
    /\ Ahead.set = 2
    /\ Ahead.wants = IF pc = "param" THEN Commands[step][1] ELSE 0
    /\ pc = "bat" => step = 1
    /\ Scans => Ahead.scanning
    /\ Lit => Ahead.leds = LedParam


LEMMA InitReady == Init => ReadyInv
BY DEF Init, ReadyInv, Expected, Ahead, Settles, PowerOn, Scans, Lit

(* The keyboard's steps and the user's change nothing of what is ahead: the *)
(* keyboard does what was expected of it.                                   *)
LEMMA KeyboardReadies ==
  ASSUME TypeInv, ReadyInv, Obey \/ SelfTested \/ Receive \/ (\E c \in KeyCodes : TypeKey(c))
  PROVE  ReadyInv'
<1>0. UNCHANGED <<pc, step>> /\ kbd \in Keyboards /\ kbd.resends \in Nat
  BY DEF Obey, SelfTested, Receive, TypeKey, TypeInv, TypeOK, Keyboards
<1>1. SUFFICES ASSUME kbd'.resends = 0
               PROVE  kbd.resends = 0 /\ Expected' /\ Ahead' = Ahead
  BY <1>0 DEF ReadyInv, Scans, Lit
<1>2. CASE Receive \/ (\E c \in KeyCodes : TypeKey(c))
  <2>1. UNCHANGED <<kbd, toKbd>>
    BY <1>2 DEF Receive, TypeKey
  <2> QED BY <1>1, <2>1 DEF ReadyInv, Expected, Ahead, Settles
<1>3. CASE SelfTested
  <2>1. kbd.bat /\ kbd' = [PowerOn EXCEPT !.resends = kbd.resends] /\ toKbd' = toKbd
    BY <1>3 DEF SelfTested
  <2>2. kbd.resends = 0 /\ kbd' = PowerOn /\ ~PowerOn.bat
    BY <1>1, <2>1 DEF PowerOn
  <2>3. Settles' = Settles
    BY <2>1, <2>2 DEF Settles
  <2> QED BY <2>1, <2>2, <2>3 DEF ReadyInv, Expected, Ahead
<1>4. CASE Obey
  <2>0. PICK b \in CommandBytes : toKbd = <<b>>
    BY <1>4 DEF Obey, TypeInv
  <2>1. /\ toKbd' = <<>> /\ ~kbd.bat /\ Head(toKbd) = b /\ toKbd # <<>> /\ b \in 0 .. 255
        /\ \/ Understood(b) /\ kbd' = Obeyed(b)
           \/ ~Understood(b) /\ kbd' = kbd
           \/ kbd' = [kbd EXCEPT !.resends = @ + 1]
    BY <1>4, <2>0, CommandBytesAreBytes DEF Obey
  <2>b. b \in 0 .. 255
    BY CommandBytesAreBytes
  <2>2. Settles = kbd
    BY <2>1 DEF Settles
  <2>3. CASE kbd' = [kbd EXCEPT !.resends = @ + 1]
    BY <1>0, <1>1, <2>3 DEF Keyboards
  <2>4. CASE ~Understood(b) /\ kbd' = kbd
    <3>0. ~(b >= 8) /\ ~(kbd.wants # 0)
      BY <2>4, Zenon DEF Understood
    <3>1. b < 8 /\ kbd.wants = 0
      BY <2>b, <3>0
    <3>2. kbd.wants \in {SET_SCANCODE, SET_LEDS}
      BY <1>1, <2>1, <2>2, <2>4, <3>1 DEF ReadyInv, Expected
    <3> QED BY <3>1, <3>2 DEF SET_SCANCODE, SET_LEDS
  <2>5. CASE Understood(b) /\ kbd' = Obeyed(b)
    <3>1. Ahead = Taken(kbd, b) /\ Ahead' = Settles' /\ Expected'
      BY <2>1, <2>2 DEF Ahead, Expected
    <3>2. CASE b = RESET
      <4>1. kbd' = [kbd EXCEPT !.bat = TRUE, !.wants = 0]
        BY <2>5, <3>2 DEF Obeyed, RESET, DISABLE_SCAN, ENABLE_SCAN, SET_SCANCODE, SET_LEDS
      <4>2. kbd'.bat /\ kbd'.resends = kbd.resends
        BY <1>0, <4>1 DEF Keyboards
      <4>3. Taken(kbd, b) = PowerOn
        BY <3>2 DEF Taken, RESET, DISABLE_SCAN, ENABLE_SCAN, SET_SCANCODE, SET_LEDS
      <4> QED BY <1>1, <3>1, <4>2, <4>3 DEF Settles
    <3>3. CASE b # RESET
      <4>1. b < 8 => kbd.wants \in {SET_SCANCODE, SET_LEDS}
        <5>1. kbd.wants \in {0, SET_SCANCODE, SET_LEDS}
          BY <1>0 DEF Keyboards
        <5>2. b >= 8 \/ kbd.wants # 0
          BY <2>5 DEF Understood
        <5> QED BY <2>b, <5>1, <5>2
      <4>2. kbd' = Taken(kbd, b)
        <5>1. CASE b = DISABLE_SCAN
          BY <2>5, <5>1 DEF Obeyed, Taken, RESET, DISABLE_SCAN
        <5>2. CASE b = ENABLE_SCAN
          BY <2>5, <5>2 DEF Obeyed, Taken, RESET, DISABLE_SCAN, ENABLE_SCAN
        <5>3. CASE b \in {SET_SCANCODE, SET_LEDS}
          BY <2>5, <5>3 DEF Obeyed, Taken, RESET, DISABLE_SCAN, ENABLE_SCAN, SET_SCANCODE, SET_LEDS
        <5>4. CASE b < 8
          BY <2>5, <4>1, <5>4 DEF Obeyed, Taken, RESET, DISABLE_SCAN, ENABLE_SCAN, SET_SCANCODE, SET_LEDS
        <5>5. b \in {2, LedParam} => b < 8
          BY Ps2InitAssumption
        <5> QED BY <2>0, <3>3, <5>1, <5>2, <5>3, <5>4, <5>5 DEF CommandBytes
      <4>3. ~kbd'.bat /\ kbd'.resends = kbd.resends
        BY <1>0, <2>1, <2>0, <4>1, <4>2, <3>3, Ps2InitAssumption DEF Keyboards, Taken, CommandBytes, RESET
      <4> QED BY <1>1, <3>1, <4>2, <4>3 DEF Settles
    <3> QED BY <3>2, <3>3
  <2> QED BY <2>1, <2>3, <2>4, <2>5
<1> QED BY <1>2, <1>3, <1>4

(* A byte that the driver writes, with nothing on its way before.           *)
LEMMA DriverReadies ==
  ASSUME TypeInv, ReadyInv, Driver
  PROVE  ReadyInv'
<1>0. kbd \in Keyboards /\ step \in 1 .. 5 /\ UNCHANGED kbd
  BY CommandsKnown DEF TypeInv, TypeOK, Keyboards, Driver, Disable, Flush, SelfTest, SelfTestAnswer,
     ReadConfig, Config, WriteConfig, ConfigCheck, InterfaceTest, InterfaceAnswer, Enable,
     EnableFlush, WriteCommand, WriteParam, CommandAnswer, AssuranceTest, device
<1> SUFFICES ASSUME kbd.resends = 0
             PROVE  ReadyInv'
  BY <1>0 DEF ReadyInv
<1>1. CASE WriteCommand
  <2> DEFINE b == Commands[step][1]
  <2>1. /\ pc = "command" /\ toKbd = <<>> /\ toKbd' = <<b>> /\ step' = step
        /\ pc' = IF Len(Commands[step]) = 2 THEN "param" ELSE "ack"
    BY <1>1 DEF WriteCommand, Write, Goto
  <2>2. /\ b = CASE step = 1 -> RESET [] step = 2 -> DISABLE_SCAN [] step = 3 -> SET_SCANCODE
                 [] step = 4 -> ENABLE_SCAN [] step = 5 -> SET_LEDS
        /\ pc' = IF step \in {3, 5} THEN "param" ELSE "ack"
    BY <1>0, <2>1, SMTT(30) DEF Commands
  <2>3. Ahead = Settles /\ Settles' = Settles /\ Ahead' = Taken(Settles, b)
    BY <1>0, <2>1 DEF Ahead, Settles
  <2>4. Settles.wants = 0 /\ Settles.set = 2 /\ (step = 5 => Settles.scanning)
    BY <2>1, <2>3 DEF ReadyInv, Scans
  <2>5. Settles \in [scanning : BOOLEAN, set : 0 .. 7, leds : 0 .. 7, bat : BOOLEAN,
                     wants : {0, SET_SCANCODE, SET_LEDS}, resends : 0 .. Resends]
    BY <1>0, PowerOnIsKeyboard, Ps2InitAssumption DEF Settles, Keyboards, PowerOn
  <2> HIDE DEF b
  <2>6. Expected'
    <3>1. b \notin 0 .. 7 /\ Head(toKbd') = b
      BY <1>0, <2>1, <2>2 DEF RESET, DISABLE_SCAN, ENABLE_SCAN, SET_SCANCODE, SET_LEDS
    <3>2. b \in Nat
      BY <1>0, <2>2 DEF RESET, DISABLE_SCAN, ENABLE_SCAN, SET_SCANCODE, SET_LEDS
    <3> QED BY <3>1, <3>2 DEF Expected
  <2>7. CASE step \in {1, 2, 4}
    <3>1. /\ pc' = "ack" /\ (Scans' <=> step = 4) /\ ~Lit'
      BY <2>1, <2>2, <2>7 DEF Scans, Lit
    <3>2. Taken(Settles, b).set = 2 /\ Taken(Settles, b).wants = 0
          /\ (step = 4 => Taken(Settles, b).scanning)
      <4>1. CASE step = 1
        <5>1. Taken(Settles, b) = [scanning |-> TRUE, set |-> 2, leds |-> 0, wants |-> 0, bat |-> FALSE, resends |-> 0]
          BY <2>2, <4>1 DEF Taken, PowerOn, RESET, DISABLE_SCAN, ENABLE_SCAN, SET_SCANCODE, SET_LEDS
        <5> QED BY <2>4, <2>5, <4>1, <5>1
      <4>2. CASE step = 2
        <5>1. Taken(Settles, b) = [Settles EXCEPT !.scanning = FALSE, !.wants = 0]
          BY <2>2, <4>2 DEF Taken, PowerOn, RESET, DISABLE_SCAN, ENABLE_SCAN, SET_SCANCODE, SET_LEDS
        <5> QED BY <2>4, <2>5, <4>2, <5>1
      <4>3. CASE step = 4
        <5>1. Taken(Settles, b) = [Settles EXCEPT !.scanning = TRUE, !.wants = 0]
          BY <2>2, <4>3 DEF Taken, PowerOn, RESET, DISABLE_SCAN, ENABLE_SCAN, SET_SCANCODE, SET_LEDS
        <5> QED BY <2>4, <2>5, <4>3, <5>1
      <4> QED BY <2>7, <4>1, <4>2, <4>3
    <3> QED BY <2>3, <2>6, <3>1, <3>2 DEF ReadyInv
  <2>8. CASE step \in {3, 5}
    <3>1. pc' = "param" /\ ~Lit' /\ (Scans' => step = 5)
      BY <2>1, <2>2, <2>8 DEF Scans, Lit
    <3>2. Taken(Settles, b) = [Settles EXCEPT !.wants = b]
      BY <2>2, <2>8 DEF Taken, RESET, DISABLE_SCAN, ENABLE_SCAN, SET_SCANCODE, SET_LEDS
    <3>3. Taken(Settles, b).set = 2 /\ Taken(Settles, b).wants = Commands[step][1]
          /\ (step = 5 => Taken(Settles, b).scanning)
      BY <2>4, <2>5, <3>2 DEF b
    <3> QED BY <2>1, <2>3, <2>6, <3>1, <3>3 DEF ReadyInv
  <2> QED BY <1>0, <2>7, <2>8
<1>2. CASE WriteParam
  <2> DEFINE b == Commands[step][2]
  <2>1. pc = "param" /\ toKbd = <<>> /\ toKbd' = <<b>> /\ step' = step /\ pc' = "ack"
    BY <1>2 DEF WriteParam, Write, Goto
  <2>2. step \in {3, 5}
    BY <2>1 DEF TypeInv
  <2>3. /\ b = IF step = 3 THEN 2 ELSE LedParam
        /\ Commands[step][1] = IF step = 3 THEN SET_SCANCODE ELSE SET_LEDS
    BY <2>2 DEF Commands
  <2>4. Ahead = Settles /\ Settles' = Settles /\ Ahead' = Taken(Settles, b) /\ Head(toKbd') = b
    BY <1>0, <2>1 DEF Ahead, Settles
  <2>5. /\ Settles.wants = IF step = 3 THEN SET_SCANCODE ELSE SET_LEDS
        /\ Settles.set = 2 /\ (step = 5 => Settles.scanning)
    BY <2>1, <2>2, <2>3, <2>4 DEF ReadyInv, Scans
  <2>6. Settles \in [scanning : BOOLEAN, set : 0 .. 7, leds : 0 .. 7, bat : BOOLEAN,
                     wants : {0, SET_SCANCODE, SET_LEDS}, resends : 0 .. Resends]
    BY <1>0, PowerOnIsKeyboard, Ps2InitAssumption DEF Settles, Keyboards, PowerOn
  <2> HIDE DEF b
  <2>7. Expected'
    BY <2>4, <2>5 DEF Expected
  <2>8. b \in 0 .. 7
    BY <2>3, Ps2InitAssumption
  <2>9. CASE step = 3
    <3>1. Taken(Settles, b) = [Settles EXCEPT !.set = 2, !.wants = 0]
      BY <2>3, <2>5, <2>9 DEF Taken, RESET, DISABLE_SCAN, ENABLE_SCAN, SET_SCANCODE, SET_LEDS
    <3>2. Taken(Settles, b).set = 2 /\ Taken(Settles, b).wants = 0
      BY <2>6, <3>1
    <3>3. ~Scans' /\ ~Lit'
      BY <2>1, <2>9 DEF Scans, Lit
    <3> QED BY <2>1, <2>4, <2>7, <3>2, <3>3 DEF ReadyInv
  <2>10. CASE step = 5
    <3>1. Taken(Settles, b) = [Settles EXCEPT !.leds = LedParam, !.wants = 0]
      BY <2>3, <2>5, <2>8, <2>10 DEF Taken, RESET, DISABLE_SCAN, ENABLE_SCAN, SET_SCANCODE, SET_LEDS
    <3>2. /\ Taken(Settles, b).set = 2 /\ Taken(Settles, b).wants = 0
          /\ Taken(Settles, b).scanning /\ Taken(Settles, b).leds = LedParam
      BY <2>5, <2>6, <2>10, <3>1
    <3> QED BY <2>1, <2>4, <2>7, <3>2 DEF ReadyInv
  <2> QED BY <2>2, <2>9, <2>10
<1>3. CASE UNCHANGED toKbd /\ ~WriteCommand /\ ~WriteParam
  <2>1. Ahead' = Ahead /\ Settles' = Settles /\ (Expected => Expected')
    BY <1>0, <1>3 DEF Ahead, Settles, Expected
  <2>2. /\ pc # "param" /\ pc' # "param"
        /\ pc' = "bat" => step' = 1
        /\ Scans' => Scans
        /\ Lit' => Lit
    <3>1. CASE Disable \/ Flush \/ SelfTest \/ SelfTestAnswer \/ ReadConfig \/ Config \/ WriteConfig
               \/ ConfigCheck \/ InterfaceTest \/ InterfaceAnswer \/ Enable
      <4>1. /\ pc \notin {"param", "done", "ack", "command"}
            /\ pc' \notin {"param", "ack", "command", "bat"} /\ (pc' = "done" => pc = "done")
        BY <3>1 DEF Disable, Flush, SelfTest, SelfTestAnswer, ReadConfig, Config, WriteConfig,
           ConfigCheck, InterfaceTest, InterfaceAnswer, Enable, Return, Goto
      <4> QED BY <4>1 DEF Scans, Lit
    <3>2. CASE EnableFlush
      BY <3>2 DEF EnableFlush, Goto, Scans, Lit
    <3>3. CASE CommandAnswer
      <4>1. /\ pc = "ack"
            /\ \/ pc' = "command" /\ step' = step
               \/ pc' = "bat" /\ step' = step /\ Commands[step] = <<RESET>>
               \/ NextCommand
        BY <3>3 DEF CommandAnswer, Goto
      <4>3. Commands[step] = <<RESET>> => step = 1
        BY <1>0 DEF Commands, RESET, DISABLE_SCAN, ENABLE_SCAN, SET_SCANCODE, SET_LEDS
      <4>2. CASE NextCommand
        BY <1>0, <4>1, <4>2, CommandsKnown DEF NextCommand, Return, Goto, Scans, Lit
      <4> QED BY <4>1, <4>2, <4>3 DEF Scans, Lit
    <3>4. CASE AssuranceTest
      <4>1. pc = "bat" /\ ((pc' \in {"assert", "bat"} /\ step' = step) \/ NextCommand)
        BY <3>4 DEF AssuranceTest, Goto
      <4>2. step = 1
        BY <4>1 DEF ReadyInv
      <4> QED BY <4>1, <4>2, CommandsKnown DEF NextCommand, Return, Goto, Scans, Lit
    <3> QED BY <1>3, <3>1, <3>2, <3>3, <3>4 DEF Driver
  <2> QED BY <2>1, <2>2 DEF ReadyInv
<1>4. WriteCommand \/ WriteParam \/ UNCHANGED toKbd
  BY DEF Driver, Disable, Flush, SelfTest, SelfTestAnswer, ReadConfig, Config, WriteConfig,
     ConfigCheck, InterfaceTest, InterfaceAnswer, Enable, EnableFlush, CommandAnswer,
     AssuranceTest, device
<1> QED BY <1>1, <1>2, <1>3, <1>4

(* Once it has taken what it was sent, the keyboard of an initialisation    *)
(* that succeeded scans, in set 2, with num lock lit: however many keys     *)
(* were typed, whichever old answers were taken for new ones, and however   *)
(* many times commands were repeated for that, as long as no byte was       *)
(* garbled.                                                                 *)
THEOREM SuccessIsReady == Spec => []KeyboardReady
<1>1. Init => TypeInv /\ ReadyInv
  BY InitTypeInv, InitReady
<1>2. TypeInv /\ ReadyInv /\ [Next]_vars => TypeInv' /\ ReadyInv'
  <2> SUFFICES ASSUME TypeInv, ReadyInv, [Next]_vars
               PROVE  TypeInv' /\ ReadyInv'
    OBVIOUS
  <2>1. CASE UNCHANGED vars
    <3>1. ReadyInv'
      BY <2>1 DEF ReadyInv, Expected, Ahead, Settles, Scans, Lit, vars, device
    <3> QED BY <2>1, <3>1 DEF TypeInv, TypeOK, vars, ctl, device
  <2> QED
    BY <2>1, DriverTypes, KeyboardTypes, DriverReadies, KeyboardReadies DEF Next
<1>3. ReadyInv => KeyboardReady
  BY DEF ReadyInv, KeyboardReady, Ahead, Settles, Scans, Lit
<1> QED
  BY <1>1, <1>2, <1>3, PTL DEF Spec

=============================================================================
