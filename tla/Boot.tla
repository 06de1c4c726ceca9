-------------------------------- MODULE Boot --------------------------------
(***************************************************************************)
(* How the root tasks start. Every application of src/apps is the first    *)
(* and only task the kernel boots, and each copies the same set-up:        *)
(* init_env() or setup_system(), the serial port, what else it needs, and  *)
(* then its own work, its body. The copies differ in what they do with an  *)
(* error: an assert or exit stops the task, an ignored error lets it go on *)
(* without the thing it asked for.                                         *)
(*                                                                         *)
(* A set-up is a sequence of calls of libraries that are not in this       *)
(* repository. Of a call the model keeps what it provides, what it uses    *)
(* and what the application does with its error. A call that uses          *)
(* something missing may fail, fault, or get through by luck.              *)
(***************************************************************************)
EXTENDS Integers, Sequences, FiniteSets

Call(gives, needs, onError) == [gives |-> gives, needs |-> needs, onError |-> onError]

Sure(gives, needs)    == Call(gives, needs, "never")  (* has no result        *)
Checked(gives, needs) == Call(gives, needs, "stop")   (* assert or exit       *)
Unchecked(gives, needs) == Call(gives, needs, "goOn") (* result not looked at *)

(* simple_stable_init_bootinfo() and platsupport_serial_setup_simple().     *)
Simple == <<Sure("simple", {})>>
Serial == <<Unchecked("serial", {"simple", "vka"})>>

(* Faulty variant: the reservation is not asserted.                         *)
EnvironmentRangeIgnored(vspaceError) ==
  <<Checked("allocman", {"simple"}), Sure("vka", {"allocman"}),
    Call("vspace", {"simple", "vka"}, vspaceError),
    Unchecked("range", {"vspace"}), Sure("pool", {"allocman", "range"})>>

(* The allocator, the vka on top of it, the vspace, and the virtual memory  *)
(* pool the allocator goes on with. Only the vspace's error is treated      *)
(* differently from copy to copy.                                           *)
Environment(vspaceError) ==
  <<Checked("allocman", {"simple"}), Sure("vka", {"allocman"}),
    Call("vspace", {"simple", "vka"}, vspaceError),
    Checked("range", {"vspace"}), Sure("pool", {"allocman", "range"})>>

(* A capability slot and in it the handler of an interrupt.                 *)
IrqHandler(handler) ==
  <<Checked("slot", {"vka"}), Checked(handler, {"slot", "simple"})>>

IoPorts(onError) == <<Call("ioports", {"simple"}, onError)>>
IoOps            == <<Checked("ioops", {"simple", "vspace", "vka"})>>
AsyncEndpoint    == <<Checked("aep", {"vka"})>>
Stack            == <<Checked("stack", {"vspace"})>>

-----------------------------------------------------------------------------
(* The applications, one definition for each function of theirs.            *)

HelloInitEnv == Environment("goOn")
HelloMain    == Simple \o HelloInitEnv \o Serial

LoadDataInitEnv   == Environment("goOn")
ProcessFile(file) == <<Unchecked(file, {})>>   (* says so when it is not there *)
LoadDataMain == Simple \o LoadDataInitEnv \o Serial
                  \o ProcessFile("file1") \o ProcessFile("file2")

LoadData2InitEnv == Environment("goOn")
LoadData2Main == Simple \o LoadData2InitEnv \o Serial
  \o <<Checked("file", {}),      Sure("text", {"file"}),
       Unchecked("writable", {}),  Sure("fputc", {"writable"}),
       Unchecked("reopened", {}),  Sure("fgetc", {"reopened"})>>

KeyboardInitEnv == Environment("goOn")
KeyboardMain == Simple \o KeyboardInitEnv \o Serial \o IoPorts("goOn")
  \o <<Checked("keyboard", {"ioports"}), Sure("typing", {"keyboard"})>>

Keyboard2InitEnv   == Environment("goOn")
Keyboard2Caps      == IrqHandler("handler")
Keyboard2HandleIrq == Keyboard2Caps
  \o <<Checked("irqEP", {}), Checked("bound", {"handler", "irqEP"}),
       Sure("read", {"keyboard"}), Checked("acked", {"handler"})>>
Keyboard2Main == Simple \o Keyboard2InitEnv \o Serial \o IoPorts("goOn")
  \o <<Checked("keyboard", {"ioports"})>> \o Keyboard2HandleIrq

Keyboard3Setup == Simple \o Environment("stop") \o IoPorts("stop")
Keyboard3Irq   == IrqHandler("handler")
Keyboard3Init  == <<Checked("keyboard", {"ioports"})>> \o Keyboard3Irq \o AsyncEndpoint
  \o <<Checked("bound", {"handler", "aep"}), Sure("flushed", {"ioports"}),
       Checked("acked", {"handler"})>>
Keyboard3Main  == Keyboard3Setup \o Serial \o Keyboard3Init

Keyboard4Setup == Simple \o Environment("stop") \o IoPorts("stop")
Keyboard4Irq   == IrqHandler("handler")
Keyboard4Init  == <<Checked("keyboard", {"ioports"})>> \o Keyboard4Irq \o AsyncEndpoint
  \o <<Checked("bound", {"handler", "aep"}), Sure("flushed", {"ioports"}),
       Checked("acked", {"handler"})>>
Keyboard4Main  == Keyboard4Setup \o Serial \o Keyboard4Init

MultiIrqsSetup        == Simple \o Environment("stop")
MultiIrqsHandler(h)   == IrqHandler(h)
SetDevEp(dev, ep, h)  == MultiIrqsHandler(h)
  \o <<Checked("bound", {h, ep}), Sure("read", {dev}), Checked("acked", {h})>>
MultiIrqsMain == MultiIrqsSetup \o Serial \o IoPorts("goOn")
  \o <<Checked("serial1", {"ioports"}), Checked("serial2", {"ioports"}),
       Checked("keyboard", {"ioports"})>>
  \o AsyncEndpoint
  \o <<Checked("ep1", {"vka", "aep"}), Checked("ep2", {"vka", "aep"}),
       Checked("ep3", {"vka", "aep"})>>
  \o SetDevEp("serial1", "ep1", "handler1") \o SetDevEp("serial2", "ep2", "handler2")
  \o SetDevEp("keyboard", "ep3", "handler3")

BadgesInitEnv == Environment("stop") \o AsyncEndpoint
TestEP == <<Checked("epb1", {"vka", "aep"}), Checked("epb2", {"vka", "aep"}),
            Sure("notified1", {"epb1"}), Sure("notified2", {"epb2"}),
            Sure("senderBadge", {"aep"})>>
BadgesMain == Simple \o BadgesInitEnv \o Serial \o TestEP

ThreadsInitEnv == Environment("goOn")
ThreadsMain    == Simple \o ThreadsInitEnv \o Serial

EgaInitEnv == Environment("goOn")
EgaMain    == Simple \o EgaInitEnv \o Serial

Ega2InitEnv == Environment("goOn") \o IoOps
Ega2Main    == Simple \o Ega2InitEnv \o Serial

GraphicsInitEnv == Environment("goOn")
GraphicsMain    == Simple \o GraphicsInitEnv \o Serial

Graphics2InitEnv == <<Checked("vbe", {})>> \o Simple \o Environment("goOn") \o IoOps
Graphics2Main    == Graphics2InitEnv \o Serial

Graphics3Setup == <<Checked("vbe", {})>> \o Simple \o Environment("stop") \o IoOps
Graphics3Main  == Graphics3Setup \o Serial \o Stack

TimerSetup == Simple \o Environment("stop")
InitTimers == AsyncEndpoint
  \o <<Checked("timer", {"vka", "vspace", "simple", "aep"}), Checked("tsc", {"timer"})>>
TimerMain  == TimerSetup \o Serial \o InitTimers

DriverInitEnv == Environment("goOn")
DriverMain    == Simple \o DriverInitEnv \o Serial \o Stack

Program ==
  [helloworld |-> HelloMain, loaddata |-> LoadDataMain, loaddata2 |-> LoadData2Main,
   keyboard |-> KeyboardMain, keyboard2 |-> Keyboard2Main, keyboard3 |-> Keyboard3Main,
   keyboard4 |-> Keyboard4Main, multiirqs |-> MultiIrqsMain, badges |-> BadgesMain,
   threads |-> ThreadsMain, ega |-> EgaMain, ega2 |-> Ega2Main,
   graphics |-> GraphicsMain, graphics2 |-> Graphics2Main, graphics3 |-> Graphics3Main,
   timer |-> TimerMain, driver |-> DriverMain]

Apps == DOMAIN Program

(* The applications that return from main() when the calls are made.        *)
NoBody == {"helloworld", "loaddata", "loaddata2", "badges"}

-----------------------------------------------------------------------------
VARIABLES
  app,     (* the application the kernel boots                               *)
  at,      (* the call it is at                                              *)
  have,    (* what its calls have provided                                   *)
  life,    (* the task's life: boot, body, done, halted or faulted           *)
  misused  (* what it used without having it: a history variable             *)

bootVars == <<app, at, have, life, misused>>

BootInit ==
  /\ app \in Apps
  /\ at = 1
  /\ have = {}
  /\ life = "boot"
  /\ misused = {}

Current == Program[app][at]
Missing == Current.needs \ have

GoOn ==
  /\ at'   = at + 1
  /\ life' = IF at < Len(Program[app]) THEN "boot"
             ELSE IF app \in NoBody THEN "done" ELSE "body"

CallWorks ==
  /\ GoOn
  /\ have' = have \union {Current.gives}

CallFails ==
  /\ Current.onError # "never" \/ Missing # {}
  /\ \/ Current.onError = "stop" /\ life' = "halted" /\ UNCHANGED at
     \/ Current.onError # "stop" /\ GoOn
  /\ UNCHANGED have

CallFaults ==
  /\ Missing # {}
  /\ life' = "faulted"
  /\ UNCHANGED <<at, have>>

BootNext ==
  /\ life = "boot"
  /\ misused' = misused \union Missing
  /\ CallWorks \/ CallFails \/ CallFaults
  /\ UNCHANGED app

(* What the bodies, in the modules that extend this one, do to the task:    *)
(* they run while it is alive, and may end it.                              *)
Running(apps) == life = "body" /\ app \in apps
Lives(fate)   == life' = fate /\ UNCHANGED <<app, at, have, misused>>

-----------------------------------------------------------------------------
BootTypeOK ==
  /\ app \in Apps
  /\ at \in 1 .. Len(Program[app]) + 1
  /\ have \subseteq {Program[app][i].gives : i \in 1 .. at - 1}
  /\ life \in {"boot", "body", "done", "halted", "faulted"}
  /\ life = "boot" => at <= Len(Program[app])

(* What each application may use without having it, because it looks at no  *)
(* result: the vspace wherever init_env() drops its error, the I/O ports    *)
(* where main() drops theirs, and the files loaddata2 reopens.              *)
Trusting ==
  [a \in Apps |->
     (IF a \in {"helloworld", "loaddata", "loaddata2", "keyboard", "keyboard2", "threads",
                "ega", "ega2", "graphics", "graphics2", "driver"} THEN {"vspace"} ELSE {})
     \union (IF a \in {"keyboard", "keyboard2", "multiirqs"} THEN {"ioports"} ELSE {})
     \union (IF a = "loaddata2" THEN {"writable", "reopened"} ELSE {})]

(* No root task uses anything that was not provided, but for the results    *)
(* its copy of the set-up trusts blindly; the five that check every result   *)
(* they build on (badges, timer, keyboard3, keyboard4, graphics3) use       *)
(* nothing they do not have.                                                *)
NothingUsedMissing == misused \subseteq Trusting[app]
=============================================================================
