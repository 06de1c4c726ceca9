------------------------------ MODULE Ps2Init -------------------------------
(***************************************************************************)
(* The initialisation of the PS/2 keyboard of apps/keyboard4:              *)
(* init_keyboard() calls keyboard_cdev_init() until it succeeds;           *)
(* keyboard_init() tests and configures the controller, resets the         *)
(* keyboard and selects scan code set 2, and keyboard_cdev_init() lights   *)
(* the LEDs. Every byte comes back through the one output buffer, so a key *)
(* typed meanwhile can be taken for an answer. Bytes are numbers.          *)
(*                                                                         *)
(* External: the controller, which obeys its commands at once, and the     *)
(* keyboard, which takes bytes one at a time, answers in order, and holds  *)
(* its answers back while its interface is disabled.                       *)
(***************************************************************************)
EXTENDS Integers, Sequences

CONSTANTS
  KeyCodes,     (* bytes that the user's keys send                             *)
  Defaults,     (* command bytes the controller may have after its self test   *)
  LedParam,     (* keyboard_set_led()'s parameter for num lock                 *)
  ConfigTries,  (* writes of the command byte: 25 in ps_init_commandbyte()     *)
  RetryLimit,   (* 100 in init_keyboard()                                      *)
  Flaky,        (* writes of the command byte that have no effect: a bound     *)
  Broken,       (* the keyboard's self test may fail                           *)
  Resends,      (* bytes the keyboard rejects as garbled: a bound              *)
  Typing        (* keys typed in all: a bound of the model                     *)

ASSUME Ps2InitAssumption ==
  /\ KeyCodes \subseteq 0 .. 255 /\ Defaults \subseteq 0 .. 255
  /\ LedParam \in 0 .. 7
  /\ Broken \in BOOLEAN
  /\ ConfigTries \in Nat \ {0}
  /\ RetryLimit \in Nat /\ Flaky \in Nat /\ Resends \in Nat /\ Typing \in Nat

(* Answers of the controller and the keyboard. *)
SELF_TEST_OK   == 85
ACK            == 250
RESEND         == 254
BAT_SUCCESSFUL == 170
KEYBOARD_ERROR == 252

(* Commands to the keyboard. *)
RESET        == 255
DISABLE_SCAN == 245
ENABLE_SCAN  == 244
SET_SCANCODE == 240
SET_LEDS     == 237

(* Faulty variant: scanning is not enabled again.                            *)
CommandsNoEnable == << <<RESET>>, <<DISABLE_SCAN>>, <<SET_SCANCODE, 2>>, <<SET_LEDS, LedParam>> >>

(* The commands of keyboard_reset(), keyboard_set_scanmode(state, 2) and     *)
(* keyboard_set_led(), in order, each with its parameter.                    *)
Commands == << <<RESET>>, <<DISABLE_SCAN>>, <<SET_SCANCODE, 2>>, <<ENABLE_SCAN>>,
               <<SET_LEDS, LedParam>> >>

(* Bits of the command byte: interrupt 0, keyboard disabled 4, translation 6. *)
Bit(b, i)      == (b \div 2^i) % 2 = 1
SetBit(b, i)   == IF Bit(b, i) THEN b ELSE b + 2^i
ClearBit(b, i) == IF Bit(b, i) THEN b - 2^i ELSE b

VARIABLES
  out,      (* the controller's output buffer: bytes for the driver            *)
  config,   (* the controller's command byte                                   *)
  flaky,    (* writes of it that had no effect so far                          *)
  toKbd,    (* the byte on its way to the keyboard, if any                     *)
  kbd,      (* the keyboard                                                    *)
  sending,  (* bytes the keyboard has yet to send                              *)
  typed,    (* keys typed so far                                               *)
  pc,       (* where the driver is                                             *)
  want,     (* config in ps_init_commandbyte()                                 *)
  try,      (* its i                                                           *)
  step,     (* the command of Commands it is at                                *)
  n,        (* failed attempts counted by init_keyboard()                      *)
  err       (* what the last keyboard_cdev_init() returned                     *)

ctl    == <<config, flaky>>
device == <<toKbd, kbd, sending, typed>>
vars   == <<out, ctl, device, pc, want, try, step, n, err>>

(* The keyboard's state: wants is the command whose parameter it waits for,  *)
(* bat that its self test runs.                                              *)
PowerOn == [scanning |-> TRUE, set |-> 2, leds |-> 0, wants |-> 0, bat |-> FALSE, resends |-> 0]

Init ==
  /\ out = <<>> /\ config \in Defaults /\ flaky = 0
  /\ toKbd = <<>> /\ kbd = PowerOn /\ sending = <<>> /\ typed = 0
  /\ pc = "disable" /\ want = 0 /\ try = 0 /\ step = 1
  /\ n = 0 /\ err = FALSE

-----------------------------------------------------------------------------
(* The user and the keyboard. *)

TypeKey(c) ==
  /\ typed < Typing
  /\ kbd.scanning /\ ~kbd.bat
  /\ sending' = Append(sending, c)
  /\ typed' = typed + 1
  /\ UNCHANGED <<out, ctl, toKbd, kbd, pc, want, try, step, n, err>>

(* What a byte does to a keyboard that understood it. *)
Obeyed(b) ==
  CASE b = RESET        -> [kbd EXCEPT !.bat = TRUE, !.wants = 0]
    [] b = DISABLE_SCAN -> [kbd EXCEPT !.scanning = FALSE, !.wants = 0]
    [] b = ENABLE_SCAN  -> [kbd EXCEPT !.scanning = TRUE, !.wants = 0]
    [] b \in {SET_SCANCODE, SET_LEDS} -> [kbd EXCEPT !.wants = b]
    [] b < 8 /\ kbd.wants = SET_SCANCODE -> [kbd EXCEPT !.set = b, !.wants = 0]
    [] b < 8 /\ kbd.wants = SET_LEDS     -> [kbd EXCEPT !.leds = b, !.wants = 0]

Understood(b) == b >= 8 \/ kbd.wants # 0

Obey ==
  /\ toKbd # <<>> /\ ~kbd.bat
  /\ toKbd' = <<>>
  /\ \/ /\ Understood(Head(toKbd))
        /\ kbd'     = Obeyed(Head(toKbd))
        /\ sending' = Append(sending, ACK)
     \/ /\ ~Understood(Head(toKbd))
        /\ sending' = Append(sending, RESEND)
        /\ UNCHANGED kbd
     \/ /\ kbd.resends < Resends
        /\ kbd'     = [kbd EXCEPT !.resends = @ + 1]
        /\ sending' = Append(sending, RESEND)
  /\ UNCHANGED <<out, ctl, typed, pc, want, try, step, n, err>>

SelfTested ==
  /\ kbd.bat
  /\ kbd'     = [PowerOn EXCEPT !.resends = kbd.resends]
  /\ \/ sending' = Append(sending, BAT_SUCCESSFUL)
     \/ Broken /\ sending' = Append(sending, KEYBOARD_ERROR)
  /\ UNCHANGED <<out, ctl, toKbd, typed, pc, want, try, step, n, err>>

(* The controller takes a byte from the keyboard when its buffer is empty    *)
(* and the interface enabled.                                                *)
Receive ==
  /\ sending # <<>> /\ out = <<>> /\ ~Bit(config, 4)
  /\ out'     = <<Head(sending)>>
  /\ sending' = Tail(sending)
  /\ UNCHANGED <<ctl, toKbd, kbd, typed, pc, want, try, step, n, err>>

-----------------------------------------------------------------------------
(* keyboard_init() until the keyboard is enabled again.                      *)
Goto(l)   == pc' = l
Answer(b) == out' = Append(out, b)

(* ps2_read_data(): the byte in the buffer, if any.                          *)
ReadData == out' = IF out = <<>> THEN <<>> ELSE Tail(out)

(* ps2_read_output(): waits for a byte.                                      *)
ReadOutput == out # <<>> /\ out' = Tail(out)

(* keyboard_cdev_init() returns e to init_keyboard(), which counts it.       *)
Return(e) ==
  /\ err' = e
  /\ n'   = n + 1
  /\ pc'  = IF n = RetryLimit THEN "exit" ELSE IF e THEN "disable" ELSE "done"

Disable ==
  /\ pc = "disable"
  /\ config' = SetBit(config, 4)
  /\ Goto("flush")
  /\ UNCHANGED <<out, flaky, device, want, try, step, n, err>>

Flush ==
  /\ pc = "flush"
  /\ ReadData
  /\ Goto("selfTest")
  /\ UNCHANGED <<ctl, device, want, try, step, n, err>>

SelfTest ==
  /\ pc = "selfTest"
  /\ Answer(SELF_TEST_OK)
  /\ config' \in Defaults
  /\ Goto("selfTestAnswer")
  /\ UNCHANGED <<flaky, device, want, try, step, n, err>>

SelfTestAnswer ==
  /\ pc = "selfTestAnswer"
  /\ ReadOutput
  /\ IF Head(out) = SELF_TEST_OK THEN Goto("readConfig") /\ UNCHANGED <<n, err>>
     ELSE Return(TRUE)
  /\ UNCHANGED <<ctl, device, want, try, step>>

(* ps_init_commandbyte() *)
ReadConfig ==
  /\ pc \in {"readConfig", "checkConfig"}
  /\ Answer(config)
  /\ Goto(IF pc = "readConfig" THEN "config" ELSE "configCheck")
  /\ UNCHANGED <<ctl, device, want, try, step, n, err>>

Config ==
  /\ pc = "config"
  /\ ReadOutput
  /\ want' = ClearBit(SetBit(Head(out), 0), 6)
  /\ try'  = 0
  /\ Goto("writeConfig")
  /\ UNCHANGED <<ctl, device, step, n, err>>

WriteConfig ==
  /\ pc = "writeConfig"
  /\ toKbd = <<>>
  /\ \/ config' = want /\ UNCHANGED flaky
     \/ flaky < Flaky /\ flaky' = flaky + 1 /\ UNCHANGED config
  /\ Goto("checkConfig")
  /\ UNCHANGED <<out, device, want, try, step, n, err>>

(* Faulty variant: a byte that differs is not written again.                 *)
ConfigCheckOnce ==
  /\ pc = "configCheck"
  /\ ReadOutput
  /\ Goto("interfaceTest")
  /\ UNCHANGED <<ctl, device, want, try, step, n, err>>

ConfigCheck ==
  /\ pc = "configCheck"
  /\ ReadOutput
  /\ Goto(IF Head(out) # want /\ try < ConfigTries - 1 THEN "writeConfig" ELSE "interfaceTest")
  /\ try' = IF Head(out) # want THEN try + 1 ELSE try
  /\ UNCHANGED <<ctl, device, want, step, n, err>>

InterfaceTest ==
  /\ pc = "interfaceTest"
  /\ Answer(0)
  /\ Goto("interfaceAnswer")
  /\ UNCHANGED <<ctl, device, want, try, step, n, err>>

InterfaceAnswer ==
  /\ pc = "interfaceAnswer"
  /\ ReadOutput
  /\ IF Head(out) = 0 THEN Goto("enable") /\ UNCHANGED <<n, err>>
     ELSE Return(TRUE)
  /\ UNCHANGED <<ctl, device, want, try, step>>

Enable ==
  /\ pc = "enable"
  /\ config' = ClearBit(config, 4)
  /\ Goto("enableFlush")
  /\ UNCHANGED <<out, flaky, device, want, try, step, n, err>>

(* Faulty variant: the flush waits for a byte (ps2_read_output()).           *)
EnableFlushWaits ==
  /\ pc = "enableFlush"
  /\ ReadOutput
  /\ step' = 1
  /\ Goto("command")
  /\ UNCHANGED <<ctl, device, want, try, n, err>>

EnableFlush ==
  /\ pc = "enableFlush"
  /\ ReadData
  /\ step' = 1
  /\ Goto("command")
  /\ UNCHANGED <<ctl, device, want, try, n, err>>

-----------------------------------------------------------------------------
(* ps2_send_keyboard_cmd() and ps2_send_keyboard_cmd_param(), and the wait   *)
(* for the self test in keyboard_reset().                                    *)
Write(b) == toKbd = <<>> /\ toKbd' = <<b>>

WriteCommand ==
  /\ pc = "command"
  /\ Write(Commands[step][1])
  /\ Goto(IF Len(Commands[step]) = 2 THEN "param" ELSE "ack")
  /\ UNCHANGED <<out, ctl, kbd, sending, typed, want, try, step, n, err>>

WriteParam ==
  /\ pc = "param"
  /\ Write(Commands[step][2])
  /\ Goto("ack")
  /\ UNCHANGED <<out, ctl, kbd, sending, typed, want, try, step, n, err>>

(* Faulty variant: the sequence is not started over by the next attempt.     *)
NextCommandNoReset ==
  /\ step' = step + 1
  /\ IF step < Len(Commands) THEN Goto("command") /\ UNCHANGED <<n, err>> ELSE Return(FALSE)

(* The command after the present one, or success. *)
NextCommand ==
  IF step < Len(Commands) THEN step' = step + 1 /\ Goto("command") /\ UNCHANGED <<n, err>>
  ELSE step' = 1 /\ Return(FALSE)

CommandAnswer ==
  /\ pc = "ack"
  /\ ReadOutput
  /\ IF Head(out) # ACK THEN Goto("command") /\ UNCHANGED <<step, n, err>>
     ELSE IF Commands[step] = <<RESET>>
     THEN Goto("bat") /\ UNCHANGED <<step, n, err>>
     ELSE NextCommand
  /\ UNCHANGED <<ctl, device, want, try>>

(* A failed self test is an assertion failure. *)
AssuranceTest ==
  /\ pc = "bat"
  /\ ReadOutput
  /\ CASE Head(out) = BAT_SUCCESSFUL -> NextCommand
       [] Head(out) = KEYBOARD_ERROR -> Goto("assert") /\ UNCHANGED <<step, n, err>>
       [] OTHER                      -> UNCHANGED <<pc, step, n, err>>
  /\ UNCHANGED <<ctl, device, want, try>>

Driver ==
  \/ Disable \/ Flush \/ SelfTest \/ SelfTestAnswer
  \/ ReadConfig \/ Config \/ WriteConfig \/ ConfigCheck
  \/ InterfaceTest \/ InterfaceAnswer \/ Enable \/ EnableFlush
  \/ WriteCommand \/ WriteParam \/ CommandAnswer \/ AssuranceTest

Next ==
  \/ Driver \/ Obey \/ SelfTested \/ Receive
  \/ \E c \in KeyCodes : TypeKey(c)

Spec == Init /\ [][Next]_vars

(* The driver, the controller and the keyboard keep going; nobody need type. *)
FairSpec == Spec /\ WF_vars(Driver) /\ WF_vars(Obey) /\ WF_vars(SelfTested) /\ WF_vars(Receive)

-----------------------------------------------------------------------------
TypeOK ==
  /\ out \in Seq(0 .. 255) /\ config \in 0 .. 255 /\ flaky \in 0 .. Flaky
  /\ toKbd \in Seq(0 .. 255) /\ Len(toKbd) <= 1 /\ sending \in Seq(0 .. 255)
  /\ kbd \in [scanning : BOOLEAN, set : 0 .. 7, leds : 0 .. 7, bat : BOOLEAN,
              wants : {0, SET_SCANCODE, SET_LEDS}, resends : 0 .. Resends]
  /\ typed \in 0 .. Typing
  /\ want \in 0 .. 255 /\ try \in 0 .. ConfigTries /\ step \in 1 .. Len(Commands)
  /\ n \in 0 .. RetryLimit + 1 /\ err \in BOOLEAN

(* An initialisation that succeeded has configured the controller: the       *)
(* keyboard interrupt is on, translation off, the interface enabled. A key   *)
(* taken for the self test's answer or for the command byte, or writes that  *)
(* fail, must not end in success.                                            *)
ConfigGood ==
  pc = "done" => Bit(config, 0) /\ ~Bit(config, 6) /\ ~Bit(config, 4)

(* After success, once the keyboard has taken all it was sent, it scans, in  *)
(* set 2, with num lock lit, however many keys were typed meanwhile and      *)
(* however many times commands were repeated for them, as long as no byte    *)
(* was garbled.                                                              *)
KeyboardReady ==
  (pc = "done" /\ toKbd = <<>> /\ ~kbd.bat /\ kbd.resends = 0) =>
     kbd.scanning /\ kbd.set = 2 /\ kbd.leds = LedParam /\ kbd.wants = 0

(* "We retry a couple of times before giving up": keyboard4 ends only when   *)
(* its attempts are used up and the last one has failed, be it by exit() or  *)
(* by the assertion on the keyboard's self test.                             *)
GivesUpOnFailure == pc \in {"exit", "assert"} => err /\ n > RetryLimit

(* The initialisation ends: no wait for an answer is for good.               *)
Ends == <>(pc \in {"done", "exit", "assert"})
=============================================================================
