# A TLA+ model of the seL4 example applications

The repository holds small root tasks for the seL4 microkernel: device
experiments (PS/2 keyboard, serial ports, timer, VGA frame buffers), thread and
endpoint experiments, and the sel4test suite they grew out of, whose driver runs
every test in a process of its own. All of it is C. The kernel and the seL4 user
libraries (`libsel4vka`, `libsel4utils`, `libplatsupport`, ...) are not part of
the sources; where the code depends on them, they are modelled from how the code
uses them and marked external in `PROJECT.json`.

This directory models the parts that react to something: interrupts, bytes on a
wire, messages; and all applications as what they are to the kernel: the one task
that it boots, whose calls may fail. `PROJECT.json` maps every definition to the
lines it stands for.

Contents: [inventory](#inventory), [plan](#plan),
[modules and code](#modules-and-code), [runs](#runs),
[disagreements with the code](#where-the-code-disagrees-with-its-own-text),
[proofs](#proofs), [not modelled](#not-modelled).

## Inventory

Paths are relative to `src/apps/`; `lib` is `keyboard4/src/local_libplatsupport`.

| Component | Source | State | Operations |
|---|---|---|---|
| Interrupt-driven loops | `multiirqs`, `keyboard2`, `keyboard3` | IRQ handler and endpoint caps, the badge word of an asynchronous endpoint, the devices' FIFOs | `get_irqhandler_cap`, `set_devEp`, `seL4_Wait`, `handle_cdev_event`, `seL4_IRQHandler_Ack` |
| Scancode decoder | `lib/keyboard_ps2.c` | `kb_state`: flags, `num_ignore`, `scanset` | `keyboard_state_push_ps2_keyevent`, `keyboard_poll_ps2_keyevent` |
| Key state, characters, LEDs | `lib/keyboard_vkey.c`, `lib/keyboard_chardev.c` | `kc_state`: `keystate[]`, locks; the LED command in flight | `keycode_process_vkey_event(_to_char)`, `keyboard_set_led`, the loops of `main` |
| Keyboard bring-up | `lib/keyboard_ps2.c`, `keyboard4/src/main.c` | controller's command byte, output buffer, keyboard's state, retry counters | `keyboard_init`, `ps_init_commandbyte`, `keyboard_reset`, `keyboard_set_scanmode`, `init_keyboard` |
| Scan set detection | `lib/keyboard_ps2.c`, `keyboard4/src/main.c` | the first bytes of an attempt | `keyboard_detect_scanset`, `keyboard_flush` |
| Test protocol | `sel4test-driver/src/main.c`, `sel4test-tests/src/main.c`, `helpers.c` | driver, test process, helpers, the fault endpoint between them, the results | `run_test`, `send_init_data`, `receive_init_data`, `abort`, `create_helper_*`, `start_helper`, `wait_for_helper`, `cleanup_helper` |
| Untypeds and slots | `sel4test-driver/src/main.c`, `sel4test-tests/src/main.c` | the allocator's pool, the driver's reserve, sizes of untypeds, the next slot of a test process, the init data | `populate_untypeds`, `allocate_untypeds`, `free_objects`, `copy_untypeds_to_process`, `copy_cap_to_process`, `init_allocator` |
| Timer | `timer` | one bit of an asynchronous endpoint, wake-up count | `test_interrupt`, `wait_for_interrupt`, `do_something` |
| Threads | `threads` | two TCBs, one register structure for both | `run_threads`, `seL4_Yield` |
| Frame buffers | `ega*`, `graphics*` | frame capabilities, the mapping, the display's start | `mapVideoRam`, `writeVideoRam`, `ps_io_map`, `callVBE7` |
| Polling | `keyboard3` | `my_kb_state`, the event of a round of polls | `check_keyboard1`, `check_keyboard2`, `flush_keyboard` |
| Boot sequence | `setup_system`, `init_env`, `main` of every application | allocator, vka, vspace, memory pool; what else the body needs | one-shot set-up |
| Badges | `badges` | one endpoint, badged caps | mint, notify, wait |
| Loaded data, greeting, library's keyboard | `loaddata*`, `helloworld`, `keyboard` | none of their own | print |
| Kernel tests | `sel4test-tests/src/tests` | per test | ipc, scheduler, faults, endpoints, ... |

How they interact:

* devices raise edges, the interrupt controller latches them, the kernel masks
  the line, ORs a badge into the endpoint and wakes the root task; the task reads
  the device and acks, which unmasks the line. Device, kernel and task share the
  FIFO, the mask and the badge word, and take turns in any order;
* key codes, answers of the controller and answers of the keyboard all arrive
  through one output buffer. Bring-up, scan set detection, LED commands and the
  decoder read it in turn, and each may meet bytes that are meant for another;
* decoder events become `keystate`, locks and characters; a toggled lock calls
  back into the driver, which sends a command in the middle of the poll;
* driver, test process and helpers share one endpoint: it carries the init data
  one way, results, aborts and faults the other way; the kernel's priorities
  decide who is at it first;
* the driver allocates, numbers the slots and describes both in the init data; the
  test process builds an allocator from that description alone;
* every body runs on what its set-up left, and the seventeen copies of the set-up
  differ in which errors stop them.

What is hard in this code, and which property is about it, is the list "hazards"
of `PROJECT.json`. The ones that shaped the models:

* a byte that arrives between the last read and the ack (`InputAnnounced`);
* several badge bits in one wake-up (`MaskedHasOwner`, `InputDrained`);
* flags of the decoder that outlive a key without a meaning (`NormalWhenIdle`);
* keys typed ahead of, or as, the answer to a command (`LedsMatch`,
  `LedLoopEnds`, `ConfigGood`, `KeyboardReady`, `Ends`);
* commands repeated for every byte that is not their ACK, which leaves ACKs for
  later commands (`LedsMatch`, `KeyboardReady`);
* events taken by one loop that the other loop's state never sees
  (`KeysTracked`, `TypesWhatLedsSay`);
* a flush that ends in the middle of a code (`DetectsRight`,
  `DecoderStartsAligned`);
* a fault of a helper on the endpoint the result comes over (`ReportsTruly`), a
  helper that faults while the test waits for it (`EveryTestReported`), a process
  that must be torn down before it runs again (`NeverRunsOn`);
* results of system calls that are printed and not looked at, in some copies of
  the set-up and in `mapVideoRam()` and `run_threads()` (`NothingUsedMissing`,
  `WritesReachVideoRam`, `OwnStack`);
* a sum of bytes in a word, a limit by bytes and one by number, slots that are
  numbered in one program and used in another (`AllocationMaximal`,
  `FreeSlotsAreFree`, `UntypedsNamedRight`);
* ticks that share one bit with others, or with what calibration left
  (`NeverFast`, `TimerLoopEnds`);
* polls that come between the bytes of a code (`ReportsKeys`).

## Plan

In the order of importance; the ones marked + exist.

| Module | Models | Abstract specification | Theorems |
|---|---|---|---|
| + `IrqDrivers` | interrupt-driven loops | | + types, no lost wake-up, nothing stranded, nothing masked for ever |
| + `Ps2Codes`, `Ps2Decoder` | decoder against a keyboard | + `KeyEvents` without loss | + types, every byte decoded right, implements `KeyEvents` |
| + `Keyboard4` | key state, characters, LED command | + `KeyEvents` with loss behind a lock key | + types, `LedsMatch`, implements `KeyEvents`, `KeysTracked`, `TypesWhatLedsSay` |
| + `Ps2Init` | bring-up | | + types, `ConfigGood`, `KeyboardReady` |
| + `ScanSetDetect` | detection of the scan set | | + types, `DetectsRight`, `DecoderStartsAligned` |
| + `TestProtocol` | test driver, process, helpers | + `TestSuite` | + types, no run-on, clean starts, implements `TestSuite` |
| + `Untypeds` | memory and slots of the driver and of the test process | | + free slots are free, untypeds are named right, the memory is shared out |
| + `Boot` | the set-up of every application, with failing calls | | + nothing used is missing |
| + `FrameBuffers` | mapping and drawing of `ega*` and `graphics*` | | + what is drawn is in place, halves |
| + `Threads` | `run_threads()` under a scheduler | | + own stacks |
| + `Timer` | `test_interrupt()` against a timer | | + never early |
| + `Keyboard3` | polling | + `KeyEvents` without loss | + implements `KeyEvents` |
| + `RootTasks` | composes the six above: one application is booted and runs | | + types (the others in the rows of its parts) |
| `IpcPair` | the sender and receiver functions of `tests/ipc.c` over one endpoint, messages longer than the buffer | both sides agree on the seed | agreement for every length |

`Keyboard4` composes `Ps2Codes` with the key state, `Keyboard3` and `Ps2Decoder`
with a poll; `FrameBuffers`, `Threads`, `Timer`, `Untypeds` and `Keyboard3` extend
`Boot`, and `RootTasks` extends them all. What is left are the kernel's test
programs, of which the message tests are the first to take up.

## Modules and code

Faulty variants (`PollKeepsRelease`, `IrqAckElseIf`, `ResultOfMr0`, ...) stand
before the definition they corrupt. Nothing in a specification uses them: each is
a plausible bug that some property must catch, and `PROJECT.json` pairs them.

**`IrqDrivers`** (`multiirqs`, `keyboard2`, `keyboard3` in its WAIT
configuration). The three applications are one module with parameters: how many
devices, which of them raise an edge for every byte, whether set-up flushes the
device or reads once, whether a wake-up drains it or reads once. The root task is
a program counter that goes through `set_devEp()` (`GetIrqHandler`, `SetEndpoint`,
`SetupRead`, `SetupAck`) for each device and then through the `seL4_Wait()` loop
(`Wait`, `CheckBadge`, `GetChar`, `IrqAck`). One read of the device is one step,
so that a byte can arrive between any two. `Arrive` and `Deliver` are the device
and the kernel. A byte is a character or completes none, because
`handle_cdev_event()` takes EOF for "nothing left".

**`Ps2Codes`** has the byte-level part: `Push` is
`keyboard_state_push_ps2_keyevent()`, with `Ignored`, `PauseKey` and `KeyCode` for
its branches; `Packets` is what a keyboard sends. Every byte carries, as a history,
the event that it means (`says`), which is what the decoder is compared with.
**`Ps2Decoder`** polls it. **`KeyTables`** abridges the tables of
`keyboard_vkey.c` to one key of every kind: letter, modifier, lock, a code with
its high bit set, extended keys, a key whose extended code has another meaning
than its plain code, keys without a virtual key, and the keys whose entry is wrong. What
a key means is never taken from the table: `MCPs2Decoder` has it from the names in
`keyboard_vkey.h`. **`KeyEvents`** is the abstract
promise: events are reported in order, once, with their meaning; events may be
lost only right behind an event of `MayLose`. What is pending there is what the
bytes on the wire mean (`Meant`). Its `Live` is apart from its safety, so that the
one can be proved and the other left to TLC.

**`Keyboard4`** adds `keycode_process_vkey_event()` (`UpdateKeys`, the locks,
`Form` and `CharOf` for the character) and the two loops of `main()`: `PollEvent`
and `PollChar` are one pass of each. The LED command is a loop within a pass:
`WriteSetLeds`, `WriteParam`, `ReadAnswer`; meanwhile the user types on and the
keyboard answers when it gets the byte (`Obey`). `missed` is a history variable:
the keys whose last event never came to `kc_state`, because the event loop or the
LED loop took it. Two keys of the model have one vkey, as the two enter keys
have in the table: the release of either clears it (`Shared`, `Agrees`). That a lock
key has no character and that no modifier shares its vkey is what the tables say
(`Keyboard4Assumption`).

**`Ps2Init`** is bring-up, one action per command written or byte awaited.
The controller obeys at once, the keyboard takes one byte at a time (`Receive`),
may reject it as garbled (`Resends`), and may fail its self test (`Broken`).
Bytes are numbers, since the code compares them with codes that keys send too.

**`ScanSetDetect`** is `keyboard_detect_scanset()` and the loop around it, with
two instances of `Ps2Codes`, one per scan code set; `whole` is a history: the
last byte read ended a code.

**`TestProtocol`** is `run_test()`, `main()` of the test process and
`helpers.c`. `ep` is the queue of senders in the endpoint that the three share;
the driver's own blocking send of the init data waits in it as well. A test
function is any sequence of creating, starting, awaiting and cleaning up helpers
that ends in a result, an `abort()` or a fault. A helper is a thread or a process:
they differ in whether freeing the local endpoint takes it from the helper, and in
what `abort()` does. `DriverRuns`, `TestRuns` and `HelperMay` are the kernel's
strict priorities: a step of the test needs that the driver is blocked, a step of
a helper below the test's priority that both are. Helpers among themselves take
any order, which includes every choice of priorities the tests make. Clean-up has
two steps, because the endpoint is freed before the thread is stopped. Two
conventions of the tests are guards: a helper is awaited only after it was
started, and a helper at the test's own priority is awaited before it is cleaned
up (`tests/scheduler.c`, SCHED0005). **`TestSuite`** is what it promises: tests
one after the other, each reported once, as FAILURE exactly if something in it
went wrong.

**`Boot`** is what every `main()` does before its work. A set-up is a sequence of
calls (`Program`); of a call the model keeps what it provides, what it uses, and
what that copy of the code does with its error: stop, go on, or there is none. A
call works, fails, or, when something it uses is missing, may fault. `misused` is a
history: what was used without being there. `Trusting` lists what each copy takes
on trust.

**`FrameBuffers`** counts memory in pages. `ega` and `graphics` (`Raw`) look for
the untyped (`Found`), make all pages from its start to the video memory
(`MakePages`, with unsigned subtraction), and map the last ones (`MapPage`,
`FrameCap`); each call may fail and they go on. `ega2`, `graphics2` and `graphics3`
(`IoMapped`) ask the platform library and assert. `drawn` holds, for every page
written, the page that was meant and the one that was hit. `CopyInterface` and
`ShowHalf` are the end of `graphics3`; `origin` is the first byte shown.

**`Threads`** has one action for each system call of `run_threads()`. `context`
tells whose entry point and whose stack a thread has, `regs` is the one structure
that both are set through. `ready` is the kernel's queue at the one priority there
is.

**`Timer`** has the bit of the endpoint (`word`), the latch of the interrupt
controller and the kernel's mask. The initial values of all three are free, since
calibration of the TSC may have used the timer; `stale` remembers them.

**`Untypeds`** is `populate_untypeds()`, the rest of `main_continued()`, the slots
of `run_test()` and `init_allocator()` in the test process. `allocated` is a word
(`% 2^WordBits`). A capability in the process is known by its kind, and an untyped
by its place among the copies, so that what the process adds to its allocator can
be compared with what the driver copied.

**`Keyboard3`** is the loop around `check_keyboard1()`, whose up to three polls may
each find nothing; `check_keyboard2()` is one of them, `check_keyboard3()` the read
of the flush.

**`RootTasks`** boots one of the applications and lets its body run on whatever the
set-up left behind: of the modules above, at most one moves after boot. The bodies
of `keyboard2`, `keyboard4` and `multiirqs` are `IrqDrivers` and `Keyboard4`.

The `MC...` modules give the constants values; the `.cfg` files name the
properties.

## Runs

| Run | Question | States |
|---|---|---|
| `multi_irqs` | Two serial ports and a keyboard on one endpoint: does the loop ever sleep on input? | 14347 |
| `decode` | Is every byte of any three keys reported as what was typed, once and in order? | 26141 |
| `keyboard4` | Keys against LED commands on one wire: do LEDs, key state and characters stay right, and what is lost? | 616302 |
| `init` | Does bring-up end, and what does success mean, with keys typed all along? | 592481 |
| `detect` | Is the detected set the keyboard's, and the decoder aligned? | 126316 |
| `test_protocol` | Is every test reported, truly, and does the next start clean? | 67594 |
| `root_tasks` | Any application, any call of its set-up failing: what is used without being there, what is written where, and does each body do its work? | 34002 |
| `serial_setup`, `init_gives_up`, `detect_keypad0`, `test_early_fault`, `set2_keys` | see the next section | |

Input is bounded in every model, and when it is exhausted the program has ended or
waits for more, as `multiirqs` does in `seL4_Wait()`; so a state without a
successor is not an error in these runs. That nothing stops too early is what the
liveness properties say: `InputDrained`, `EveryKeyComesOut`, `LedLoopEnds`, `Ends`,
`OneKeyIsEnough`, `EveryTestReported`, `ThreadsFinish`, `TimerLoopEnds`,
`EveryKeyPrinted`. `EveryKeyComesOut` is checked where the decoder is used, in
`Keyboard4`. `Reports` and `ReportsKeys` are the refinements of `KeyEvents`.

Bounds, and why they suffice:

* `multi_irqs`: FIFOs of 2 and 4 bytes in all. A lost wake-up needs one byte
  before and one after the read of one device, and a badge of another device in
  the same word; both fit. The serial ports are quiet until they are acked
  (`Quiet`), the keyboard is not; `serial_setup` shows why.
* `decode`: 3 keys, as the decoder keeps nothing of a code but its flags and its
  ignore count: a key that leaves something behind is seen by the next one. The
  theorem has no bound. The keys (`Keys2`) are of every kind but those that the table
  of set 2 has wrong, which have a run of their own, `set2_keys`.
* `keyboard4`: 5 presses and releases. Two lock keys and one key between, which a
  surplus ACK needs, or shift, lock and letter, or both enter keys.
* `init`: 3 keys, 2 command bytes that are not stored of 3 tries, 1 garbled byte,
  3 retries (25 and 100 in the code). `Flaky` is less than the number of tries,
  as the hypothesis of `ConfigGood` asks; what happens beyond it is among the
  observations below. The keys may all come
  before one command, which then leaves surplus ACKs for the commands after it.
* `detect`: 5 presses or releases, enough for an overlap, a repeat and a second
  attempt that begins in the middle of a code. There are up to 2 ACKs of bring-up
  in front.
* `test_protocol`: 3 tests of 2 helpers. The protocol of a test depends on the
  ones before only through what `StartsClean` forbids. The theorems have no bound.
* `root_tasks`, boot: nothing is bounded; every call of all 17 set-ups fails or not.
* `root_tasks`, frame buffers: pages of 8 bytes, addresses of 2^20 pages, six lists
  of device untypeds (one from 0, one that begins at the video memory with and
  without one below, only smaller ones, only one above, none) and five VBE modes
  (a screen that fills its last page and ones that do not, one image, an interface that
  does not fit, no bytes per line). The scan ends at once, inside and behind the
  list; the number of pages fits, exceeds the untyped, exceeds the fan-out limit,
  and wraps. The theorems have no bound.
* `root_tasks`, threads: 3 lines each, so that either may finish first. Timer: 7
  wake-ups, a print every 3rd, 12 ticks, which allows for lost ones and for
  three prints.
* `root_tasks`, untypeds: words of 6 bits, pages of 4 bytes, a reserve of 16 bytes
  in 2 untypeds, a list of 5, up to three blocks of 8 bytes and one each of 16 and
  32. The sum of bytes wraps in some of these memories; the reserve ends
  by bytes or by number, and both lists can be full. 16 slots, of
  which 6 are taken: they suffice for some numbers of untypeds and not for others.
  2 tests, since the second one meets the slots of a new process.
* `root_tasks`, polling: 3 keys, plain and extended, whose bytes may come between
  any two polls, and initialisation has left nothing or two answers.

Fairness. The programs are single threads that never block except where the model
has a guard, hence weak fairness of their steps. The kernel delivers a latched
interrupt of an open line (`WF(Deliver)`). The keyboard and the controller answer
a command (`Obey`, `Receive`, `SelfTested`): without that every loop of the
driver may wait for ever, as none has a timeout. Nobody need type or send:
`Arrive`, `Press`, `Release`, `Type`, `TypeKey` have no fairness. In
`RootTasks` the timer ticks, the kernel delivers and preempts, and weak fairness
is enough for the tasks, with two exceptions that are strong: in `Threads` a
thread that is preempted before it does anything is at the head of the queue again
and again, and gets as far as its next step in one of its turns; in `Keyboard3` a byte
that the keyboard is sending arrives before one of the polls that wait for it. In
`TestProtocol` the three threads are scheduled fairly within what the priorities
allow, and a helper's function comes to an end, as every test that waits for one
expects; a test function does too, since it may use each helper once.

## Where the code disagrees with its own text

Each run checks one property that a comment states, and finds it violated.

* `serial_setup`: `multiirqs` reads a device once before the first ack
  (`main.c:147`, "not sure why"). If a serial port already holds two bytes,
  `seL4_Wait()` then sleeps on input that no interrupt announces. `keyboard3`
  flushes for that reason.
* `init_gives_up`: the retry counter is looked at before the result, so an
  attempt that succeeds is given up when it is the last one allowed.
* `detect_keypad0`: `keyboard_detect_scanset()` tests for the release code of set 1
  (`0x80 + c1 == c2`) before it tests for the release prefix F0 of set 2. The 0 of
  the keypad is 70 in set 2, so its release is taken for one in set 1; so are F5
  and F7 (03 83) pressed together. The prompt asks for "any key except extended
  keys".
* `test_early_fault`: a process that faults before it has received its init data
  queues behind the driver's blocking send on the same endpoint. The driver never
  comes to "wait on it to finish or fault".
* `set2_keys`: the switch of `keycode_ps2_to_vkey_set2()` has no case for
  `PS2_KEY_CTRL_RIGHT`, so the right control key is no key in set 2, and it returns
  `VK_LEFT` and `VK_RIGHT` for the two windows keys. The header has `VK_RCONTROL`, "Right
  CONTROL key", `VK_LWIN`, "Left Windows key", and `VK_RWIN`; `VK_LEFT` is the "LEFT ARROW
  key". The table of set 1 agrees with the header for the first two. TLC's trace is one
  of the three keys, `Set2Wrong` evaluates all.

Observations without a run of their own, which say what the exceptions of some
properties stand for.

* `ps_init_commandbyte()` writes up to 25 times and has no result. When all writes are
  lost, bring-up succeeds on a controller that was not set up to "enable IRQs and disable
  translation": with `Flaky` = `ConfigTries` TLC finds `ConfigGood` violated.
* A command with a parameter is acknowledged twice and read once. The surplus ACK, or one
  left by a repeated command, ends the loop of "Re-Enable scanning", so that a keyboard
  which rejected that byte stays silent after a successful bring-up: without
  `kbd.resends = 0` TLC finds `KeyboardReady` violated, and no key need be typed.
* `keyboard_reset()` asserts before it returns its error, so a keyboard whose first self
  test fails ends the program at once, for all its retries. `Ends` counts that as an end.
  `GivesUpOnFailure` forbids it; `init_gives_up` has `Broken` = `FALSE`, so that its trace
  is the one of the last attempt, and with `TRUE` it is the assertion.
* Eleven of the seventeen copies of the set-up go on after
  `sel4utils_bootstrap_vspace_with_bootinfo_leaky()` has failed, where the other six
  assert that it has not. `NothingUsedMissing` says that, beside I/O ports and files, this
  is all that is used blindly.
* `mapVideoRam()` of `ega` and `graphics` is to "find untyped device memory containing
  vram" and stops at the first untyped that does not begin below it; one that begins
  exactly there is skipped. `WritesReachVideoRam` says that nothing worse than a fault
  comes of it, as long as the slots that the two use without asking, "empty slots,
  hopefully", are empty.
* In set 2 the menu key is `VK_MENU`, which is the alt key, and in set 1 both windows keys
  are `VK_LWIN`.
* If the controller's command byte after its self test were 0, a key could be read back
  in its place and the stale 0 behind it be taken for the answer of the interface test:
  the driver would report success with an unconfigured controller (`Sound`, below).
* `keyboard3` declares `keycode_state_t` with a `keystate[]` of 256 elements and passes it
  to the library, whose copy in `keyboard4` has 255: the fields behind the array are then
  not where the other side looks for them.

## Proofs

`tlapm` proves the theorems of the `...Proofs` modules for every value of the
constants that satisfies the named assumptions. Three kinds of assumption occur:
types and ranges of constants (`...Assumption`), which TLC evaluates in the runs;
what a theorem needs of the environment, which is a hypothesis of that theorem; and
`PowersAssumption`, that powers of two are positive, because the provers know
nothing of `2^n`. The hypotheses are

* `DrainsBursts`: a device that announces only the first byte of a burst is emptied
  before each ack, and at set-up unless it is quiet then, which `serial_setup` violates;
* `TableRight`: the table of vkeys has the meaning of every key. TLC evaluates it on
  the tables of the runs (`Set1Right`, `Set2Right`, `KeysRight` in the `MC` modules). It
  is false of a keyboard in set 2 with a windows key or a right control key
  (`Set2Wrong`), for which the theorems under it say nothing;
* `Apart`: no byte of set 2 is 80 + c for a plain key c, which `detect_keypad0` shows
  to be needed;
* `Sound`: fewer writes of the command byte get lost than are tried, and no default
  command byte is 0;
* `Roomy`: the driver's reserve and the largest block fit in one word, 2^25 + 2^31 in
  the code; TLC evaluates it on the sizes of the run (`MemoryIsRoomy`).

Every invariant, every action property and every refinement of the passing runs is
the statement of a theorem; what TLC alone checks is liveness, and the five runs
that expect a violation. `NeverSleeps` and `ReportsRight` state what follows from the
properties of a run: `NeverSleepsOnInput` from `InputAnnounced` and `MaskedHasOwner`,
`DecodesRight` from `Reports`.

**`IrqDriversProofs`**: `TypeCorrect`; `NeverSleeps`, `NothingStranded` and
`MaskedIsOwned` under `DrainsBursts`. The theorems cover `keyboard2` and `keyboard3` as
well, which have no run of their own. `NeverSleepsOnInput` follows from the other two
and is about `wait` only; the run checks the two. `DeviceInv` says for every state who will attend to a byte: a
latched edge, the badge word, the pass over `badge`, or the read in progress; and
who will unmask a masked line. `TaskInv` ties the program counter to what is set up.

**`Ps2CodesProofs`** is what the proofs about `Ps2Decoder`, `Keyboard4` and
`Keyboard3` share. `Leads(s, w)`: the bytes of `w` lead the decoder from the state `s`,
through the events they mean, to its normal state. A packet of any key does so from
the normal state (`PacketsAreClean`), a path followed by a packet is a path
(`PathGrows`), and a poll takes the first step of one (`PathShrinks`). `Meant` is
distributive over concatenation (`MeantConcat`), which is an induction over data. The
library states induction for operators, which the provers cannot instantiate;
`Inductive` states it for a set of numbers instead and `RecursionExists` for a
function of steps, and both are derived from the fact that strict inclusion of
finite sets is well-founded.

**`Ps2DecoderProofs`**: `TypeCorrect` for any table, a wrong one too; under
`TableRight` `IdleIsNormal`, `ReportsRight` and `Implements`, that the decoder
implements `KeyEvents` without loss, for both sets, any keys and any number of them.
Whether a byte is decoded right depends on the bytes before it, so the invariant
`Aligned` is `Leads(kb, wire)`: the bytes still on the wire lead the decoder from
where it is back to its normal state. By `MeantConcat` and `MeantTail` a packet
then adds one event to what is pending, and a poll takes the first or none.

**`TestProtocolProofs`**: `TypeCorrect`, `ProcessNeverRunsOn`,
`EveryTestStartsClean`, and `ReportsAreTrue`, that `TestProtocol` implements
`TestSuite`, for any number of tests and helpers, wherever the process may fault
(a driver that is stuck reports nothing, so nothing false). The invariant has a
part for each phase of `run_test()`; the one that carries the argument is `Waits`: while
the driver waits there is at most one message in the endpoint, it tells whether
the test went wrong, and until there is one nothing went wrong. It holds because
whoever sends makes the driver runnable, and nobody else runs before it has taken
the message. A helper whose endpoint is freed would send a fault that is none of
the test's; it does not run before it is destroyed, as the test, which is at or
above its priority, does not block in between (`restarted` implies that the test
is cleaning up that helper).

**`Keyboard4Proofs`**: `TypeCorrect` and `LedsShowLocks` for any table; `Implements`,
`KeysAreTracked` and `LettersAsLedsSay` under `TableRight`. Type correctness is not
plain here: a decoded byte must be a key, an answer or nothing, for every table, so
the parts `Sent`, `Known` and `Where` of `TypeOK` are carried separately. `LedInv`
says that outside the first half of a command the LEDs show the locks, or the
parameter with the locks is what the keyboard has yet to take: an ACK meant for
SET_LEDS may end the loop before it does. `WireInv` is for the loss: in the main loop
the wire leads the decoder home; in the LED loop the decoder is at home, and the wire,
which the loop may cut in the middle of a code, leads home from some state. The loop
ends with an ACK, which is never a part of a code, so that what is behind it begins
with a whole one. `TrackInv` says for every vkey what decides about it: the last event
on the wire that names it agrees with the keys that are down, or there is none and
`keystate` agrees, or its last event was missed. `KeysTracked` is that for an empty
wire, and `TypesWhatLedsSay` follows from it and `LedInv` at the step that makes the
character.

**`Ps2InitProofs`**: `TypeCorrect`, for any number of attempts, rejected bytes and
keys; `SuccessIsConfigured` under `Sound`; `SuccessIsReady` without a hypothesis.
`ConfigInv` follows the command byte from the self test (`AfterSelfTest`), through the
writes (`Wanted`, `Missed`) and the byte that is read back (`ReadBack`), to the states
behind the loop, where it is right. For the keyboard what was read says little, as an
old ACK or a key may have been taken for an answer; what was written says all, since
the keyboard obeys in order. `ReadyInv` is therefore about the keyboard as it will be
when its self test is over and it has taken the byte on its way (`Ahead`): it has the
set, the LEDs and the scanning that the commands written so far ask for, however often
each was repeated.

**`ScanSetDetectProofs`**: `TypeCorrect` on every keyboard; `TheSetIsFound` and
`DecoderStartsAtACode` under `Apart`. `DetectInv` says that what is on the wire is a
sequence of whole codes but for the first, which the flush may have cut, that ACKs of
bring-up come first, and what the bytes read so far can have been at each place of the
detection.

**`RootTasksProofs`** has the applications, each body with an invariant of its own, as
a step of one body leaves the others alone.

* `TypeCorrect`: the types of all bodies and of the set-up.
* `SetUpsAreSound`: nothing is used that is missing, but what `Trusting` lists. What
  the task has at a call depends on which calls failed before, so `BtInv` says that it
  has at least what an outline of the set-up gives it: `Outline` gives every place of a
  sequence of calls the things that are certain there, and an outline of each
  application is put together from those of its parts (`init_env`, `setup_system`, ...).
* `MemoryIsShared` under `Roomy`: `Shares` says that the sum of the reserve is exact,
  as it stays far from the end of a word, and that for the tests no block is left of
  the sizes already tried. That the sum for the tests wraps does no harm, as the limit
  it is compared with is the largest word.
* `FreeSlots` and `UntypedsAreNamed`, for any pool, list size, word width and number of
  tests: `UtInv` says that what is copied is a prefix of `CapNames`, that `init` has the
  first and last slot of the untypeds in that prefix (`Copied`), and that what is added
  is a prefix of the untypeds (`Added`).
* `Keyboard3Reports` under `TableRight`: `K3Inv` is `Leads(kb, wire)` once the flush is
  over, and that a poll is repeated only while there is no event in hand.
* `ThreadsOnTheirStacks`: `Prepared` says what `regs` and `context` hold at each call.
* `TimeIsNeverEarly`: `TicksSpent` bounds the wake-ups by the ticks, `TimesCounted` ties
  `prints` and `count` to the wake-ups.
* `WhatIsDrawnIsInPlace`: the pages made are consecutive from the start of the untyped
  that the scan ended at, whichever that is (`PagesInOrder`), and those mapped and drawn
  are at the place that was meant (`MappedInPlace`, `DrawnInPlace`).
* `HalvesForEveryMode`: at most 7 bytes are lost by `(n / 4 / 2) * 4`, for any n.

Only model-checked: the liveness properties `InputDrained`, `EveryKeyComesOut`,
`LedLoopEnds`, `Ends`, `OneKeyIsEnough`, `EveryTestReported`, `ThreadsFinish`,
`TimerLoopEnds` and `EveryKeyPrinted`, as fairness and ENABLED are out of the prover's
reach. That `TableRight` holds is evaluated on the abridged tables. `Cancel` in
`TestProtocol` says separately that nothing changes when no deleted thread waits, which
would otherwise need an induction over the queue.

## Not modelled

* The kernel and the libraries, except where a module says external. The allocator
  in `Untypeds` splits the smallest block that is large enough.
* In `TestProtocol`: what a test function computes; a domain or a priority that a
  test gives away; the option of the test library to stop at the first failure;
  faults while the process waits for or destroys a helper.
* Numeric, punctuation and keypad keys of `keyboard4`, whose handling is that of
  letters or of keys without a character; delays; console output, with it the list
  of pressed keys of `keyboard3`; where the fields of its key state lie.
* Asserts are taken to be compiled in. The slots that `ega`, `graphics` and
  `threads` use without asking are taken to be empty or to hold nothing that can be
  mapped or run. The keyboard of `keyboard3` is quiet until the prompt.
* What `graphics3` overwrites behind `vbeTable` when the VBE interface is larger than
  the table: the model lets the task fault there. `callVBE7()` is assembly and is
  modelled by its effect. Colours within a page.
* `timer_demo()` of `timer`, which `main()` does not call.
* The kernel's test programs (`sel4test-tests/src/tests`): they test a kernel that is
  not part of the sources.
* The body of `keyboard` polls a driver of another repository; what `loaddata*` and
  `helloworld` print; build files and scripts have no behaviour to state.
* `keyboard_poll_ps2_keyevents()`, `keyboard_read()` and
  `keycode_get_async_vkey_state()` have no caller in the application.
