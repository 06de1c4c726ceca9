-------------------------- MODULE RootTasksProofs ---------------------------
(***************************************************************************)
(* What the root tasks guarantee on every machine: for any video memory,   *)
(* VBE mode and device untypeds, any free memory, number of wake-ups and   *)
(* lines, any keyboard, and whatever calls of a set-up fail. Each body has *)
(* an inductive invariant of its own; the bodies touch no variables of     *)
(* each other's, and of the task only its life, which they may end.        *)
(***************************************************************************)
EXTENDS RootTasks, Ps2CodesProofs

-----------------------------------------------------------------------------
(* threads.                                                                 *)

(* A thread is resumed only when its registers are written, and it is in    *)
(* the queue only when it was resumed.                                      *)
Prepared ==
  /\ thPc \in {"retype", "configure0", "read0", "write0", "configure1", "read1", "write1",
               "resume0", "resume1", "spin"}
  /\ tcbs /\ thPc \in {"configure1", "read1", "write1", "resume0", "resume1", "spin"}
       => context[0] = [eip |-> 0, esp |-> 0]
  /\ tcbs /\ thPc \in {"resume0", "resume1", "spin"} => context[1] = [eip |-> 1, esp |-> 1]
  /\ \A i \in DOMAIN ready : ready[i] \in Workers => tcbs /\ thPc \in {"resume1", "spin"}

ThInv == ThTypeOK /\ Prepared

(* A queue keeps its members when its head goes to the end.                 *)
LEMMA HeadToEnd ==
  ASSUME NEW T, NEW s \in Seq(T), s # <<>>
  PROVE  /\ Append(Tail(s), Head(s)) \in Seq(T)
         /\ DOMAIN Append(Tail(s), Head(s)) = DOMAIN s
         /\ \A i \in DOMAIN s : \E j \in DOMAIN s : Append(Tail(s), Head(s))[i] = s[j]
<1>1. Len(s) \in Nat \ {0} /\ DOMAIN s = 1 .. Len(s)
  BY EmptySeq, LenProperties
<1>2. /\ Head(s) \in T /\ Tail(s) \in Seq(T) /\ Len(Tail(s)) = Len(s) - 1
      /\ \A i \in 1 .. Len(Tail(s)) : Tail(s)[i] = s[i + 1]
  BY HeadTailProperties
<1>3. Head(s) = s[1]
  OBVIOUS
<1>4. DEFINE q == Tail(s)
             e == Head(s)
             r == Append(q, e)
<1>5. /\ r \in Seq(T) /\ Len(r) = Len(s) /\ r[Len(s)] = e
      /\ \A i \in 1 .. Len(s) - 1 : r[i] = q[i]
  <2> HIDE DEF q, e
  <2> QED
    BY <1>1, <1>2 DEF q, e
<1>6. DOMAIN r = 1 .. Len(s)
  BY <1>5, LenProperties
<1>7. ASSUME NEW i \in 1 .. Len(s)
      PROVE  \E j \in 1 .. Len(s) : r[i] = s[j]
  <2>0. \A k \in 1 .. Len(s) - 1 : q[k] = s[k + 1]
    BY <1>1, <1>2
  <2> HIDE DEF q, e, r
  <2>1. CASE i < Len(s)
    <3>1. r[i] = s[i + 1] /\ i + 1 \in 1 .. Len(s)
      BY <1>1, <1>5, <2>0, <2>1
    <3> QED
      BY <3>1
  <2>2. CASE i = Len(s)
    <3>1. r[i] = s[1] /\ 1 \in 1 .. Len(s)
      BY <1>1, <1>3, <1>5, <2>2 DEF e
    <3> QED
      BY <3>1
  <2>3. i < Len(s) \/ i = Len(s)
    BY SMTT(30)
  <2> QED
    BY <2>1, <2>2, <2>3
<1> QED
  BY <1>1, <1>5, <1>6, <1>7

(* A thread that is resumed comes to one end of the queue.                  *)
LEMMA ResumedIn ==
  ASSUME ready \in Seq(Workers \union {Root}), NEW t \in Workers,
         NEW q \in {Append(ready, t), <<t>> \o ready}
  PROVE  /\ q \in Seq(Workers \union {Root})
         /\ \A i \in DOMAIN q : q[i] = t \/ \E j \in DOMAIN ready : q[i] = ready[j]
<1> DEFINE T == Workers \union {Root}
<1> /\ ready \in Seq(T) /\ t \in T /\ <<t>> \in Seq(T)
  OBVIOUS
<1>1. Len(ready) \in Nat /\ DOMAIN ready = 1 .. Len(ready)
  BY LenProperties
<1> HIDE DEF T
<1>2. CASE q = Append(ready, t)
  BY <1>1, <1>2 DEF T
<1>3. CASE q = <<t>> \o ready
  <2>1. /\ q \in Seq(T) /\ Len(q) = 1 + Len(ready)
        /\ \A i \in 1 .. 1 + Len(ready) : q[i] = IF i <= 1 THEN t ELSE ready[i - 1]
    BY <1>3, ConcatProperties, Len(<<t>>) = 1
  <2>2. DOMAIN q = 1 .. 1 + Len(ready)
    BY <2>1, LenProperties
  <2>3. ASSUME NEW i \in 1 .. 1 + Len(ready), i # 1
        PROVE  q[i] = ready[i - 1] /\ i - 1 \in DOMAIN ready
    BY <1>1, <2>1, <2>3
  <2> QED
    BY <1>1, <2>1, <2>2, <2>3 DEF T
<1> QED
  BY <1>2, <1>3

LEMMA ThreadsStart == Init => ThInv
<1> SUFFICES ASSUME Init
             PROVE  ThInv
  OBVIOUS
<1>1. ready \in Seq(Workers \union {Root}) /\ \A i \in DOMAIN ready : ready[i] = Root
  BY DEF Init, ThInit
<1>2. Root \notin Workers
  BY DEF Root, Workers
<1>3. context \in [Workers -> Regs] /\ regs \in Regs
  BY DEF Init, ThInit, NoRegs, Regs
<1>4. lines \in [Workers -> 0 .. Lines]
  BY ThreadsAssumption DEF Init, ThInit
<1> QED
  BY <1>1, <1>2, <1>3, <1>4 DEF Init, ThInit, ThInv, ThTypeOK, Prepared

LEMMA ThreadsStep == ThInv /\ [Next]_vars => ThInv'
<1> SUFFICES ASSUME ThInv, [Next]_vars
             PROVE  ThInv'
  OBVIOUS
<1> USE DEF ThInv, ThTypeOK, Prepared
<1>1. CASE UNCHANGED thVars
  BY <1>1 DEF thVars
<1>2. CASE RetypeTcbs
  BY <1>2 DEF RetypeTcbs, Runs, Running, Workers, Root
<1>3. CASE \E t \in Workers : Configure(t) \/ ReadRegisters(t)
  BY <1>3 DEF Configure, ReadRegisters, Runs, Running, Workers, Root, Regs
<1>4. ASSUME NEW t \in Workers, WriteRegisters(t)
      PROVE  ThInv'
  <2>1. regs' = [eip |-> t, esp |-> t]
    BY <1>4 DEF WriteRegisters, SetRegs, Regs
  <2>2. regs' \in Regs
    BY <2>1 DEF Regs
  <2> QED
    BY <1>4, <2>1, <2>2 DEF WriteRegisters, Runs, Running, Workers, Root
<1>5. ASSUME NEW t \in Workers, Resume(t)
      PROVE  ThInv'
  <2>1. CASE tcbs
    <3>1. /\ ready' \in Seq(Workers \union {Root})
          /\ \A i \in DOMAIN ready' : ready'[i] = t \/ \E j \in DOMAIN ready : ready'[i] = ready[j]
      BY <1>5, <2>1, ResumedIn DEF Resume
    <3> QED
      BY <1>5, <2>1, <3>1 DEF Resume, Runs, Running, Workers, Root
  <2>2. CASE ~tcbs
    BY <1>5, <2>2 DEF Resume, Runs, Running, Workers, Root
  <2> QED
    BY <2>1, <2>2
<1>6. ASSUME ready' = Rotated, ready # <<>>
      PROVE  /\ ready' \in Seq(Workers \union {Root})
             /\ \A i \in DOMAIN ready' : \E j \in DOMAIN ready : ready'[i] = ready[j]
  BY <1>6, HeadToEnd, ZenonT(60) DEF Rotated
<1>7. CASE Preempt
  <2>1. ready # <<>>
    BY <1>7, EmptySeq DEF Preempt
  <2> QED
    BY <1>6, <1>7, <2>1 DEF Preempt
<1>8. ASSUME NEW t \in Workers, PrintLine(t)
      PROVE  ThInv'
  BY <1>6, <1>8, ThreadsAssumption DEF PrintLine, Runs, Running, Yielded
<1> QED
  BY <1>1, <1>2, <1>3, <1>4, <1>5, <1>7, <1>8
  DEF Next, vars, bodyVars, ThNext, RunThreads

(* In threads, whichever of the system calls fail, a thread that can be     *)
(* scheduled runs its own function on its own stack.                        *)
THEOREM ThreadsOnTheirStacks == Spec => []OwnStack
<1>1. ThInv => OwnStack
  BY DEF ThInv, Prepared, OwnStack, Workers
<1> QED
  BY <1>1, ThreadsStart, ThreadsStep, PTL DEF Spec

-----------------------------------------------------------------------------
(* timer.                                                                   *)

(* Every tick is spent on one wake-up at most: it is latched, or a bit of   *)
(* the endpoint, or the wake-up at hand, or one of those that are counted.  *)
TicksSpent ==
  ticks < MaxTicks =>
    turn + One(latch) + One(word) + One(tmPc \in {"ack", "print"}) <= ticks + stale

(* The wake-ups so far: PerSecond for each time printed but the last one,   *)
(* and the count since.                                                     *)
TimesCounted ==
  /\ turn = 0 => prints = 0 /\ count = 0
  /\ turn > 0 => /\ count >= 1
                 /\ (prints - 1) * PerSecond + count = turn
  /\ prints <= turn
  /\ tmPc \in {"ack", "print"} => turn < Wakeups

TmInv == TmTypeOK /\ TicksSpent /\ TimesCounted

LEMMA TimerStart == Init => TmInv
<1> SUFFICES ASSUME Init
             PROVE  TmInv
  OBVIOUS
<1> USE TimerAssumption DEF Init, TmInit
<1>1. stale \in 0 .. 2 /\ stale = One(latch) + One(word)
  BY DEF One
<1>2. TmTypeOK
  <2>1. on \in BOOLEAN /\ latch \in BOOLEAN /\ unmask \in BOOLEAN /\ word \in BOOLEAN
    OBVIOUS
  <2>2. /\ turn \in 0 .. Wakeups /\ count \in 0 .. PerSecond /\ prints \in 0 .. Wakeups
        /\ ticks \in 0 .. MaxTicks
    OBVIOUS
  <2> QED
    BY <1>1, <2>1, <2>2 DEF TmTypeOK
<1>3. TicksSpent
  BY <1>1 DEF TicksSpent, One
<1> QED
  BY <1>2, <1>3 DEF TmInv, TimesCounted

LEMMA TimerStep == TmInv /\ [Next]_vars => TmInv'
<1> SUFFICES ASSUME TmInv, [Next]_vars
             PROVE  TmInv'
  OBVIOUS
<1> USE TimerAssumption DEF TmInv, TmTypeOK, TicksSpent
<1>1. CASE UNCHANGED tmVars
  BY <1>1 DEF tmVars, TimesCounted
<1>0. ASSUME UNCHANGED <<turn, count, prints>>,
             tmPc' \in {"ack", "print"} => turn < Wakeups
      PROVE  TimesCounted'
  BY <1>0 DEF TimesCounted
<1>2. CASE Tick
  BY <1>2 DEF Tick, TimesCounted, One
<1>3. CASE DeliverTick
  <2>1. TimesCounted'
    BY <1>0, <1>3 DEF DeliverTick, TimesCounted
  <2>2. TicksSpent'
    BY <1>3 DEF DeliverTick, One
  <2> QED
    BY <1>3, <2>1, <2>2 DEF DeliverTick
<1>4. CASE Start \/ FirstAck
  <2>1. TimesCounted'
    BY <1>0, <1>4 DEF Start, FirstAck, TimesCounted
  <2>2. TicksSpent'
    BY <1>4 DEF Start, FirstAck, One
  <2> QED
    BY <1>4, <2>1, <2>2 DEF Start, FirstAck
<1>5. CASE WaitTick \/ AckTick
  <2>1. TimesCounted'
    BY <1>0, <1>5 DEF WaitTick, AckTick, TimesCounted
  <2>2. TicksSpent'
    BY <1>5 DEF WaitTick, AckTick, One
  <2> QED
    BY <1>5, <2>1, <2>2 DEF WaitTick, AckTick
<1>6. CASE DoSomething
  <2>1. turn < Wakeups /\ turn' = turn + 1 /\ tmPc' = "loop"
    BY <1>6 DEF DoSomething, TimesCounted
  <2>2. Counted \in 0 .. PerSecond - 1 /\ (Counted = 0 => count \in {0, PerSecond})
                                      /\ (Counted # 0 => Counted = count)
    BY DEF Counted
  <2>3. prints' <= turn' /\ prints' \in 0 .. Wakeups /\ count' \in 1 .. PerSecond
    BY <1>6, <2>1, <2>2 DEF DoSomething, TimesCounted
  <2>4. (prints' - 1) * PerSecond + count' = turn'
    <3>1. CASE turn = 0
      BY <1>6, <2>1, <3>1 DEF DoSomething, TimesCounted, Counted
    <3>2. CASE turn > 0 /\ Counted = 0
      <4>1. count = PerSecond
        BY <2>2, <3>2 DEF TimesCounted
      <4>2. prints' = prints + 1 /\ count' = 1
        BY <1>6, <3>2 DEF DoSomething
      <4>3. prints * PerSecond = (prints - 1) * PerSecond + PerSecond
        OBVIOUS
      <4> QED
        BY <2>1, <3>2, <4>1, <4>2, <4>3 DEF TimesCounted
    <3>3. CASE turn > 0 /\ Counted # 0
      BY <1>6, <2>1, <2>2, <3>3 DEF DoSomething, TimesCounted
    <3> QED
      BY <3>1, <3>2, <3>3
  <2>5. TicksSpent'
    BY <1>6, <2>1 DEF DoSomething, One
  <2> QED
    BY <1>6, <2>1, <2>3, <2>4, <2>5 DEF DoSomething, TimesCounted
<1>7. CASE Stop
  BY <1>7 DEF Stop, TimesCounted, One
<1> QED
  BY <1>1, <1>2, <1>3, <1>4, <1>5, <1>6, <1>7
  DEF Next, vars, bodyVars, TmNext, TmTask

(* In timer no print is early, whatever the timer does while the task       *)
(* prints and whatever the calibration left behind.                         *)
THEOREM TimeIsNeverEarly == Spec => []NeverFast
<1>1. TmInv => NeverFast
  <2> SUFFICES ASSUME TmInv, ticks < MaxTicks
               PROVE  (prints - 1) * PerSecond <= ticks + stale
    BY DEF NeverFast
  <2> USE TimerAssumption DEF TmInv, TmTypeOK, TimesCounted
  <2>1. turn <= ticks + stale
    BY DEF TicksSpent, One
  <2>2. CASE turn = 0
    BY <2>2
  <2>3. CASE turn > 0
    <3> DEFINE full == (prints - 1) * PerSecond
    <3>1. full \in Int /\ full + count = turn
      BY <2>3
    <3> HIDE DEF full
    <3> QED
      BY <2>1, <2>3, <3>1 DEF full
  <2> QED
    BY <2>2, <2>3
<1> QED
  BY <1>1, TimerStart, TimerStep, PTL DEF Spec

-----------------------------------------------------------------------------
(* The frame buffers.                                                       *)

(* The last byte of a is on a page that b bytes are given, if a <= b.       *)
LEMMA LastPage ==
  ASSUME NEW p \in Nat \ {0}, NEW a \in Nat \ {0}, NEW b \in Nat, a <= b
  PROVE  ((a - 1) \div p) + 1 <= (b + p - 1) \div p
<1>1. \A m, n \in Nat : m <= n => (m \div p) <= (n \div p)
  OBVIOUS
<1>2. \A n \in Nat : (n + p) \div p = (n \div p) + 1
  OBVIOUS
<1>3. a - 1 \in Nat /\ b - 1 \in Nat /\ a - 1 <= b - 1 /\ b + p - 1 = (b - 1) + p
  OBVIOUS
<1>4. (b + p - 1) \div p = ((b - 1) \div p) + 1
  BY <1>2, <1>3
<1>5. ((a - 1) \div p) <= ((b - 1) \div p)
  BY <1>1, <1>3
<1>6. (a - 1) \div p \in Nat /\ (b - 1) \div p \in Nat
  BY <1>3
<1> QED
  BY <1>4, <1>5, <1>6

Start0 == Untyped(Found(devices)).page

(* The scan ends at an untyped of the boot info.                            *)
LEMMA ScanEnds ==
  ASSUME devices \in DeviceLists
  PROVE  Untyped(Found(devices)) \in MemoryRange
<1> DEFINE below == {k \in DOMAIN devices : \A j \in 1 .. k : devices[j].page < VideoPage}
<1>1. devices \in Seq(MemoryRange) /\ Len(devices) \in Nat /\ DOMAIN devices = 1 .. Len(devices)
  BY FrameBuffersAssumption, LenProperties
<1>2. IsFiniteSet(1 .. Len(devices)) /\ Cardinality(1 .. Len(devices)) = Len(devices)
  BY <1>1, FS_Interval
<1>3. below \in SUBSET (1 .. Len(devices))
  BY <1>1
<1>4. Cardinality(below) \in 0 .. Len(devices)
  <2> HIDE DEF below
  <2>1. IsFiniteSet(below) /\ Cardinality(below) <= Cardinality(1 .. Len(devices))
    BY <1>2, <1>3, FS_Subset
  <2>2. Cardinality(below) \in Nat
    BY <2>1, FS_CardinalityType
  <2> QED
    BY <1>1, <1>2, <2>1, <2>2
<1>5. Found(devices) \in 0 .. Len(devices)
  BY <1>4 DEF Found
<1> QED
  BY <1>1, <1>5, ElementOfSeq, FrameBuffersAssumption DEF Untyped

LEMMA BufferTypes ==
  ASSUME mode \in Modes
  PROVE  /\ ScreenBytes \in Nat /\ mode.page \in Nat
         /\ VideoPage \in 0 .. Words - 1 /\ MapBase \in Nat
         /\ app \in IoMapped => MapBytes \in Nat /\ DrawBytes \in Nat /\ DrawBytes <= MapBytes
         /\ app \in Raw => DrawBytes \in Nat
<1>1. mode.yRes \in Nat /\ mode.linBytes \in Nat /\ mode.page \in Nat
  BY FrameBuffersAssumption
<1>2. \A m, n \in Nat : m * n \in Nat
  OBVIOUS
<1>3. ScreenBytes \in Nat
  BY <1>1, <1>2 DEF ScreenBytes
<1>4. VideoPage \in 0 .. Words - 1 /\ MapBase \in Nat
  BY <1>1, FrameBuffersAssumption DEF VideoPage, MapBase
<1>5. app \in IoMapped => MapBytes \in Nat /\ DrawBytes \in Nat /\ DrawBytes <= MapBytes
  BY <1>3, FrameBuffersAssumption DEF IoMapped, MapBytes, DrawBytes
<1>6. app \in Raw => DrawBytes \in Nat
  BY FrameBuffersAssumption DEF Raw, DrawBytes
<1> QED
  BY <1>1, <1>3, <1>4, <1>5, <1>6

(* What the pages are and where they are mapped, what was written, and      *)
(* where the screen starts.                                                 *)
PagesInOrder ==
  /\ pages # <<>> => Start0 <= VideoPage
  /\ \A j \in DOMAIN pages : j \in Nat /\ pages[j] = Start0 + j - 1

MappedInPlace ==
  /\ mapped \in Seq(Int)
  /\ app \in Raw => \A v \in 1 .. Len(mapped) : mapped[v] \in {-1, VideoPage + v - 1}
  /\ app \in IoMapped => \A v \in 1 .. Len(mapped) : mapped[v] = MapBase + v - 1
  /\ app \in IoMapped /\ fbPc = "draw" => Len(mapped) = PagesFor(MapBytes)

DrawnInPlace ==
  /\ \A d \in drawn : d[2] = d[1]
  /\ app \in IoMapped /\ fbPc = "draw" /\ life = "faulted" => ToDraw = {}
  /\ life = "boot" => fbPc = "map"

ShownHalf == fbPc = "shown" => origin = HalfOfFirst * 4

FbInv == FbTypeOK /\ PagesInOrder /\ MappedInPlace /\ DrawnInPlace /\ ShownHalf

LEMMA BuffersStart == Init => FbInv
<1> SUFFICES ASSUME Init
             PROVE  FbInv
  OBVIOUS
<1> USE DEF Init, FbInit
<1>1. mapped \in Seq(Int) /\ Len(mapped) = 0 /\ DOMAIN mapped = {} /\ DOMAIN pages = {}
  OBVIOUS
<1>2. FbTypeOK
  BY <1>1 DEF FbTypeOK
<1>3. PagesInOrder /\ ShownHalf
  BY <1>1 DEF PagesInOrder, ShownHalf
<1>4. MappedInPlace
  BY <1>1 DEF MappedInPlace
<1>5. DrawnInPlace
  BY DEF DrawnInPlace
<1> QED
  BY <1>2, <1>3, <1>4, <1>5 DEF FbInv

(* The steps of the other tasks, and of the boot, leave a task that draws   *)
(* alone, except that the boot may fail.                                    *)
LEMMA BuffersKept ==
  ASSUME FbInv, UNCHANGED fbVars, app' = app,
         life' = "boot" => life = "boot",
         life' = "faulted" => life \in {"faulted", "boot"}
  PROVE  FbInv'
<1> USE DEF fbVars, FbInv
<1>1. /\ FbTypeOK' /\ VideoPage' = VideoPage /\ MapBase' = MapBase /\ MapBytes' = MapBytes
      /\ Start0' = Start0 /\ HalfOfFirst' = HalfOfFirst /\ ToDraw' = ToDraw
      /\ PagesFor(MapBytes)' = PagesFor(MapBytes)
  BY DEF FbTypeOK, VideoPage, MapBase, MapBytes, Start0, HalfOfFirst, ScreenBytes, ToDraw, Drawn,
         BufferBase, TouchedBy, DrawBytes, Untyped, Found, PagesFor
<1> QED
  BY <1>1 DEF PagesInOrder, MappedInPlace, DrawnInPlace, ShownHalf

LEMMA BuffersStep == FbInv /\ FbNext => FbInv'
<1> SUFFICES ASSUME FbInv, FbNext
             PROVE  FbInv'
  OBVIOUS
<1> USE DEF FbInv, FbTypeOK
<1>1. /\ devices' = devices /\ mode' = mode /\ app' = app
      /\ devices \in DeviceLists /\ mode \in Modes /\ life = "body"
  BY DEF FbNext, MakePages, MakeTable, MapPage, IoMap, IoMapFails, DrawPage, FbEnds,
         CopyInterface, ShowHalf, Running, Lives, fbVars
<1>2. /\ VideoPage' = VideoPage /\ MapBase' = MapBase /\ Start0' = Start0
      /\ PagesFor(MapBytes)' = PagesFor(MapBytes) /\ HalfOfFirst' = HalfOfFirst
      /\ drawn' = drawn => ToDraw' = ToDraw
  BY <1>1 DEF VideoPage, MapBase, MapBytes, Start0, HalfOfFirst, ScreenBytes, ToDraw, Drawn,
         BufferBase, TouchedBy, DrawBytes, Untyped, Found, PagesFor
<1>3. /\ ScreenBytes \in Nat /\ mode.page \in Nat
      /\ VideoPage \in 0 .. Words - 1 /\ MapBase \in Nat
      /\ app \in IoMapped => MapBytes \in Nat /\ DrawBytes \in Nat /\ DrawBytes <= MapBytes
      /\ app \in Raw => DrawBytes \in Nat
  BY <1>1, BufferTypes
<1>4. Untyped(Found(devices)) \in MemoryRange /\ Start0 \in 0 .. Words - 1 /\ Words \in Nat
  BY <1>1, ScanEnds, FrameBuffersAssumption DEF Start0, MemoryRange
<1>5. app \in Raw => app \notin IoMapped
  BY DEF Raw, IoMapped
<1>6. CASE MakePages
  <2>1. PICK works \in BOOLEAN : RetypePages(works)
    BY <1>6 DEF MakePages
  <2>2. BufferPages \in Nat \ {0}
    <3>1. PagesFor(VgaBytes) \in Nat \ {0}
      <4>1. \A n \in Nat \ {0} : (n + PageSize - 1) \div PageSize \in Nat \ {0}
        BY FrameBuffersAssumption
      <4> QED
        BY <4>1, FrameBuffersAssumption DEF PagesFor
    <3> QED
      BY <3>1 DEF BufferPages
  <2> DEFINE found    == Untyped(Found(devices))
             numPages == ((VideoPage - found.page) % Words) + BufferPages
  <2>3. numPages \in Nat
    BY <1>3, <1>4, <2>2 DEF Start0
  <2>4. ~works => pages' = <<>>
    BY <2>1 DEF RetypePages
  <2>5. works => /\ numPages <= 2 ^ found.bits
                 /\ pages' = [j \in 1 .. numPages |-> found.page + j - 1]
    BY <2>1 DEF RetypePages
  <2>6. works => Start0 <= VideoPage
    <3> SUFFICES ASSUME works, Start0 > VideoPage
                 PROVE  FALSE
      BY <1>3, <1>4
    <3>1. (VideoPage - Start0) % Words = VideoPage - Start0 + Words
      BY <1>3, <1>4
    <3>2. found.page + 2 ^ found.bits <= Words
      BY <1>4 DEF MemoryRange
    <3>3. numPages = VideoPage - Start0 + Words + BufferPages
      BY <3>1 DEF Start0
    <3>4. numPages <= 2 ^ found.bits
      BY <2>5
    <3> DEFINE u == 2 ^ found.bits
    <3>5. u \in Int
      BY <1>4 DEF MemoryRange
    <3>6. numPages <= u /\ Start0 + u <= Words
      BY <3>2, <3>4 DEF Start0
    <3> HIDE DEF u, numPages
    <3> QED
      BY <1>3, <1>4, <2>2, <3>3, <3>5, <3>6
  <2>7. PagesInOrder'
    <3>1. CASE works
      BY <1>2, <1>3, <1>4, <2>3, <2>5, <2>6, <3>1 DEF PagesInOrder, Start0
    <3>2. CASE ~works
      BY <2>4, <3>2 DEF PagesInOrder
    <3> QED
      BY <3>1, <3>2
  <2>8. \A j \in DOMAIN pages' : pages'[j] \in Nat
    BY <1>2, <1>4, <2>7 DEF PagesInOrder
  <2> QED
    BY <1>1, <1>2, <1>5, <1>6, <2>7, <2>8
    DEF MakePages, Running, MappedInPlace, DrawnInPlace, ShownHalf
<1>7. CASE MakeTable
  BY <1>1, <1>2, <1>5, <1>7 DEF MakeTable, Running, PagesInOrder, MappedInPlace, DrawnInPlace, ShownHalf
<1>8. CASE MapPage
  <2>1. app \in Raw /\ app \notin IoMapped /\ mapped \in Seq(Int) /\ Len(mapped) \in Nat
    BY <1>5, <1>8, LenProperties DEF MapPage, Running, MappedInPlace
  <2>2. PICK p : /\ mapped' = Append(mapped, p)
                 /\ p = -1 \/ /\ FrameCap(Len(mapped)) \in DOMAIN pages
                              /\ p = pages[FrameCap(Len(mapped))]
    BY <1>8 DEF MapPage
  <2>3. p = -1 \/ p = VideoPage + Len(mapped)
    <3> SUFFICES ASSUME FrameCap(Len(mapped)) \in DOMAIN pages,
                        p = pages[FrameCap(Len(mapped))]
                 PROVE  p = VideoPage + Len(mapped)
      BY <2>2
    <3>1. pages # <<>> => Start0 <= VideoPage
      BY DEF PagesInOrder
    <3>2. pages # <<>>
      OBVIOUS
    <3>3. FrameCap(Len(mapped)) = VideoPage - Start0 + Len(mapped) + 1
      <4>1. (VideoPage - Start0) % Words = VideoPage - Start0
        BY <1>3, <1>4, <3>1, <3>2
      <4> QED
        BY <4>1 DEF FrameCap, Start0
    <3>4. p = Start0 + FrameCap(Len(mapped)) - 1
      BY DEF PagesInOrder
    <3> QED
      BY <1>3, <1>4, <2>1, <3>3, <3>4
  <2>4. p \in Nat \union {-1}
    BY <1>3, <2>1, <2>3
  <2>5. /\ mapped' \in Seq(Int) /\ Len(mapped') = Len(mapped) + 1
        /\ DOMAIN mapped' = 1 .. Len(mapped) + 1
        /\ \A v \in 1 .. Len(mapped) + 1 : mapped'[v] = IF v <= Len(mapped) THEN mapped[v] ELSE p
    BY <2>1, <2>2, <2>4
  <2>6. DOMAIN mapped = 1 .. Len(mapped)
    BY <2>1, LenProperties
  <2>7. \A v \in DOMAIN mapped' : mapped'[v] \in Nat \union {-1}
    BY <2>4, <2>5, <2>6
  <2>8. MappedInPlace'
    <3>1. ASSUME NEW v \in 1 .. Len(mapped')
          PROVE  mapped'[v] \in {-1, VideoPage + v - 1}
      <4>1. CASE v <= Len(mapped)
        <5>1. v \in 1 .. Len(mapped) /\ mapped'[v] = mapped[v]
          BY <2>1, <2>5, <4>1
        <5> QED
          BY <2>1, <5>1 DEF MappedInPlace
      <4>2. CASE v = Len(mapped) + 1
        BY <1>3, <2>1, <2>3, <2>5, <4>2, SMTT(30)
      <4> QED
        BY <2>1, <2>5, <4>1, <4>2
    <3> QED
      BY <1>1, <1>2, <2>1, <2>5, <3>1 DEF MappedInPlace
  <2> QED
    BY <1>1, <1>2, <1>8, <2>1, <2>7, <2>8
    DEF MapPage, Running, PagesInOrder, DrawnInPlace, ShownHalf
<1>9. CASE IoMap
  <2>1. app \in IoMapped /\ app \notin Raw /\ life' = life
    BY <1>5, <1>9 DEF IoMap, Running
  <2>2. PagesFor(MapBytes) \in Nat
    <3>1. \A n \in Nat : (n + PageSize - 1) \div PageSize \in Nat
      BY FrameBuffersAssumption
    <3> QED
      BY <1>3, <2>1, <3>1 DEF PagesFor
  <2>3. mapped' = [v \in 1 .. PagesFor(MapBytes) |-> MapBase + v - 1]
    BY <1>9 DEF IoMap
  <2>4. /\ mapped' \in Seq(Int) /\ Len(mapped') = PagesFor(MapBytes)
        /\ \A v \in DOMAIN mapped' : mapped'[v] \in Nat
    BY <1>3, <2>2, <2>3
  <2>5. MappedInPlace'
    BY <1>1, <1>2, <1>3, <2>1, <2>3, <2>4 DEF MappedInPlace
  <2> QED
    BY <1>1, <1>2, <1>9, <2>1, <2>4, <2>5
    DEF IoMap, Running, PagesInOrder, DrawnInPlace, ShownHalf
<1>10. CASE IoMapFails
  BY <1>1, <1>10, BuffersKept DEF IoMapFails, Running, Lives
<1>11. CASE DrawPage
  <2>1. PICK v \in ToDraw :
          \/ /\ Accessible(v)
             /\ drawn' = drawn \union {<<BufferBase + v, mapped[v + 1]>>}
             /\ life' = life
          \/ ~Accessible(v) /\ life' = "faulted" /\ drawn' = drawn
    BY <1>11 DEF DrawPage, Lives
  <2>2. /\ app \in Drawing /\ fbPc = "draw" /\ fbPc' = fbPc
        /\ pages' = pages /\ table' = table /\ mapped' = mapped /\ origin' = origin
    BY <1>11 DEF DrawPage, Running
  <2>3. DrawBytes \in Nat /\ v \in Nat /\ (DrawBytes = 0 => FALSE) /\ v <= (DrawBytes - 1) \div PageSize
    <3>1. DrawBytes \in Nat
      BY <1>3, <2>2 DEF Drawing
    <3>2. v \in TouchedBy(DrawBytes)
      BY DEF ToDraw
    <3> QED
      BY <3>1, <3>2 DEF TouchedBy
  <2>4. DOMAIN mapped = 1 .. Len(mapped) /\ Len(mapped) \in Nat
    BY LenProperties DEF MappedInPlace
  <2>5. BufferBase = (IF app \in Raw THEN VideoPage ELSE MapBase) /\ BufferBase \in Nat
    BY <1>3, <1>5, <2>2 DEF BufferBase, Drawing
  <2>6. Accessible(v) => mapped[v + 1] = BufferBase + v
    <3>1. CASE app \in Raw
      BY <1>3, <2>3, <2>4, <2>5, <3>1 DEF Accessible, MappedInPlace
    <3>2. CASE app \in IoMapped
      BY <1>3, <1>5, <2>3, <2>4, <2>5, <3>2 DEF Accessible, MappedInPlace
    <3> QED
      BY <2>2, <3>1, <3>2 DEF Drawing
  <2>7. app \in IoMapped => Accessible(v)
    <3> SUFFICES ASSUME app \in IoMapped
                 PROVE  Accessible(v)
      OBVIOUS
    <3>1. ((DrawBytes - 1) \div PageSize) + 1 <= PagesFor(MapBytes)
      BY <1>3, <2>3, LastPage, FrameBuffersAssumption DEF PagesFor
    <3>2. Len(mapped) = PagesFor(MapBytes)
      BY <2>2 DEF MappedInPlace
    <3>3. (DrawBytes - 1) \div PageSize \in Nat
      BY <2>3, FrameBuffersAssumption
    <3>4. v + 1 \in 1 .. Len(mapped)
      BY <2>3, <2>4, <3>1, <3>2, <3>3
    <3>5. mapped[v + 1] = MapBase + v
      BY <1>3, <2>3, <3>4 DEF MappedInPlace
    <3> QED
      BY <1>3, <2>3, <2>4, <3>4, <3>5 DEF Accessible
  <2>8. drawn' \subseteq Nat \X Nat /\ \A d \in drawn' : d[2] = d[1]
    <3>1. drawn \subseteq Nat \X Nat /\ \A d \in drawn : d[2] = d[1]
      BY DEF DrawnInPlace
    <3>2. CASE drawn' = drawn
      BY <3>1, <3>2
    <3>3. CASE Accessible(v) /\ drawn' = drawn \union {<<BufferBase + v, mapped[v + 1]>>}
      <4>1. BufferBase + v \in Nat /\ mapped[v + 1] = BufferBase + v
        BY <2>3, <2>5, <2>6, <3>3
      <4> QED
        BY <3>1, <3>3, <4>1
    <3> QED
      BY <2>1, <3>2, <3>3
  <2>9. app \in IoMapped => life' # "faulted"
    BY <1>1, <2>1, <2>7
  <2>10. DrawnInPlace'
    BY <1>1, <2>1, <2>2, <2>8, <2>9 DEF DrawnInPlace
  <2>11. MappedInPlace' /\ PagesInOrder'
    BY <1>1, <1>2, <2>2 DEF MappedInPlace, PagesInOrder
  <2> QED
    BY <1>1, <1>2, <2>2, <2>8, <2>10, <2>11 DEF ShownHalf
<1>12. CASE FbEnds
  <2>1. /\ fbPc' = fbPc /\ pages' = pages /\ table' = table /\ drawn' = drawn
        /\ origin' = origin /\ life' = "done" /\ fbPc = "draw"
        /\ mapped' = IF app = "ega" THEN <<>> ELSE mapped
    BY <1>12 DEF FbEnds, Running
  <2>2. MappedInPlace' /\ \A v \in DOMAIN mapped' : mapped'[v] \in Nat \union {-1}
    <3>1. CASE app = "ega"
      <4>1. mapped' = <<>> /\ mapped' \in Seq(Int) /\ Len(mapped') = 0 /\ DOMAIN mapped' = {}
        BY <2>1, <3>1
      <4>2. app \notin IoMapped
        BY <3>1 DEF IoMapped
      <4> QED
        BY <1>1, <4>1, <4>2 DEF MappedInPlace
    <3>2. CASE app # "ega"
      BY <1>1, <1>2, <2>1, <3>2 DEF MappedInPlace
    <3> QED
      BY <3>1, <3>2
  <2> QED
    BY <1>1, <1>2, <2>1, <2>2 DEF PagesInOrder, DrawnInPlace, ShownHalf
<1>13. CASE CopyInterface
  BY <1>1, <1>2, <1>13 DEF CopyInterface, Running, Lives, PagesInOrder, MappedInPlace, DrawnInPlace, ShownHalf
<1>14. CASE ShowHalf
  <2>1. origin' \in Nat
    BY <1>3, <1>14 DEF ShowHalf, HalfOfFirst
  <2> QED
    BY <1>1, <1>2, <1>14, <2>1 DEF ShowHalf, Running, PagesInOrder, MappedInPlace, DrawnInPlace, ShownHalf
<1> QED
  BY <1>6, <1>7, <1>8, <1>9, <1>10, <1>11, <1>12, <1>13, <1>14 DEF FbNext

(* What the other bodies do to the task: no more than end it.               *)
OnlyEnds == app' = app /\ (life' = life \/ (life = "body" /\ life' \in {"halted", "done"}))

LEMMA OtherBodies == ThNext \/ TmNext \/ UtNext \/ K3Next => OnlyEnds
<1>1. ThNext \/ K3Next => OnlyEnds
  BY DEF ThNext, K3Next, bootVars, OnlyEnds
<1>2. ASSUME TmNext
      PROVE  OnlyEnds
  <2>1. app' = app
    BY <1>2 DEF TmNext
  <2>2. CASE Tick \/ DeliverTick \/ FirstAck \/ WaitTick \/ AckTick \/ DoSomething
    BY <2>1, <2>2 DEF Tick, DeliverTick, FirstAck, WaitTick, AckTick, DoSomething, OnlyEnds
  <2>3. CASE Start \/ Stop
    BY <2>1, <2>3 DEF Start, Stop, InTimer, Running, OnlyEnds
  <2> QED
    BY <1>2, <2>2, <2>3 DEF TmNext, TmTask
<1>3. ASSUME UtNext
      PROVE  OnlyEnds
  <2>1. app' = app
    BY <1>3 DEF UtNext
  <2>2. CASE TakeForReserve \/ TakeForTests \/ NextSize \/ ReserveTaken
    BY <2>1, <2>2 DEF TakeForReserve, TakeForTests, NextSize, ReserveTaken, OnlyEnds
  <2>3. CASE FreeReserve \/ Prepare
    BY <2>1, <2>3 DEF FreeReserve, Prepare, InDriver, Running, OnlyEnds
  <2>4. CASE NextTest
    BY <2>1, <2>4 DEF NextTest, InDriver, Running, OnlyEnds
  <2>5. CASE CopyCap \/ Spawn
    BY <2>1, <2>5 DEF CopyCap, Spawn, InDriver, Running, OnlyEnds
  <2>6. CASE AddUntyped \/ EndTest
    BY <2>1, <2>6 DEF AddUntyped, EndTest, OnlyEnds
  <2> QED
    BY <1>3, <2>2, <2>3, <2>4, <2>5, <2>6 DEF UtNext
<1> QED
  BY <1>1, <1>2, <1>3

(* What any body does to the task: it may end it.                           *)
Ended == {"done", "halted", "faulted"}

LEMMA BodiesEnd ==
  ASSUME FbNext \/ ThNext \/ TmNext \/ UtNext \/ K3Next
  PROVE  /\ UNCHANGED <<app, at, have, misused>>
         /\ life' = life \/ (life = "body" /\ life' \in Ended)
<1>1. CASE FbNext
  <2>1. UNCHANGED <<app, at, have, misused>>
    BY <1>1 DEF FbNext
  <2>2. CASE MakePages \/ MakeTable \/ MapPage \/ IoMap \/ ShowHalf
    BY <2>1, <2>2 DEF MakePages, MakeTable, MapPage, IoMap, ShowHalf
  <2>3. CASE IoMapFails \/ DrawPage \/ FbEnds
    BY <2>1, <2>3 DEF IoMapFails, DrawPage, FbEnds, Running, Lives, Ended
  <2>4. CASE CopyInterface
    BY <2>1, <2>4 DEF CopyInterface, Running, Lives, Ended
  <2> QED BY <1>1, <2>1, <2>2, <2>3, <2>4 DEF FbNext
<1>2. CASE ThNext \/ TmNext \/ UtNext \/ K3Next
  <2>1. life' = life \/ (life = "body" /\ life' \in Ended)
    BY <1>2, OtherBodies DEF OnlyEnds, Ended
  <2>2. UNCHANGED <<app, at, have, misused>>
    BY <1>2 DEF ThNext, TmNext, UtNext, K3Next, bootVars
  <2> QED BY <2>1, <2>2
<1> QED BY <1>1, <1>2

LEMMA BuffersAlways == Spec => []FbInv
<1>1. ASSUME FbInv, [Next]_vars
      PROVE  FbInv'
  <2>1. CASE FbNext
    BY <1>1, <2>1, BuffersStep
  <2>2. CASE BootNext /\ UNCHANGED bodyVars
    BY <1>1, <2>2, BuffersKept
    DEF BootNext, CallWorks, CallFails, CallFaults, GoOn, bodyVars
  <2>3. CASE (ThNext \/ TmNext \/ UtNext \/ K3Next) /\ UNCHANGED fbVars
    BY <1>1, <2>3, OtherBodies, BuffersKept DEF OnlyEnds
  <2>4. CASE UNCHANGED vars
    BY <1>1, <2>4, BuffersKept DEF vars, bootVars, bodyVars
  <2> QED
    BY <1>1, <2>1, <2>2, <2>3, <2>4 DEF Next
<1> QED
  BY <1>1, BuffersStart, PTL DEF Spec

(* Whatever a task draws reaches the page of video memory it is meant for,  *)
(* on every machine and whichever of the calls that nobody looks at fail;   *)
(* a task that asserts its mapping does not fault. The slots that a failed  *)
(* call has not filled are taken to be empty.                               *)
THEOREM WhatIsDrawnIsInPlace == Spec => []WritesReachVideoRam
<1>1. FbInv => WritesReachVideoRam
  BY DEF FbInv, DrawnInPlace, WritesReachVideoRam
<1> QED
  BY <1>1, BuffersAlways, PTL

(* What graphics3 shows is half white and half gray, for every VBE mode.    *)
THEOREM HalvesForEveryMode == Spec => []HalfAndHalf
<1>1. FbInv => HalfAndHalf
  <2> SUFFICES ASSUME FbInv, fbPc = "shown"
               PROVE  Shown("white") - Shown("gray") \in 0 .. 7
    BY DEF HalfAndHalf
  <2> DEFINE S == ScreenBytes
  <2>1. S \in Nat
    BY BufferTypes DEF FbInv, FbTypeOK
  <2>2. PICK half \in Nat : origin = half * 4 /\ S - 8 * half \in 0 .. 7
    <3>1. origin = ((S \div 4) \div 2) * 4
      BY DEF FbInv, ShownHalf, HalfOfFirst
    <3> HIDE DEF S
    <3> QED
      BY <2>1, <3>1
  <2>3. {o \in origin .. origin + S - 1 : ColorAt(o) = "white"} = origin .. S - 1
    <3> HIDE DEF S
    <3> QED
      BY <2>1, <2>2 DEF ColorAt, S
  <2>4. {o \in origin .. origin + S - 1 : ColorAt(o) = "gray"} = S .. origin + S - 1
    <3> HIDE DEF S
    <3> QED
      BY <2>1, <2>2 DEF ColorAt, S
  <2>5. Cardinality(origin .. S - 1) = S - origin
    <3> HIDE DEF S
    <3>1. Cardinality(origin .. S - 1) = IF origin > S - 1 THEN 0 ELSE S - 1 - origin + 1
      BY <2>1, <2>2, FS_Interval
    <3> QED
      BY <2>1, <2>2, <3>1
  <2>6. Cardinality(S .. origin + S - 1) = origin
    <3> HIDE DEF S
    <3> QED
      BY <2>1, <2>2, FS_Interval
  <2>7. Shown("white") = S - origin /\ Shown("gray") = origin
    BY <2>3, <2>4, <2>5, <2>6 DEF Shown
  <2> HIDE DEF S
  <2> QED
    BY <2>1, <2>2, <2>7
<1> QED
  BY <1>1, BuffersAlways, PTL

-----------------------------------------------------------------------------
(* The test driver's memory and the slots of a test process.                *)

LastUntyped == Len(BeforeMemory) + Len(untypeds)

(* From prepare on the number of untypeds is settled.                       *)
Settled == utPc \in {"prepare", "next", "copy", "test"} => untypeds # <<>>

(* What was copied so far, and what the init data says about it.            *)
Copied ==
  /\ Len(cspace) <= Len(CapNames)
  /\ \A i \in 1 .. Len(cspace) : cspace[i] = CapNames[i]
  /\ Len(cspace) >= FirstUntyped => init.start = SlotOf(FirstUntyped)
  /\ Len(cspace) \in FirstUntyped .. LastUntyped => init.end = SlotOf(Len(cspace))
  /\ Len(cspace) >= LastUntyped => init.end = SlotOf(LastUntyped)

(* The process goes through the slots and through the sizes together.       *)
Added ==
  /\ Len(added) <= Len(untypeds)
  /\ \A i \in 1 .. Len(added) :
       added[i] = [slot |-> SlotOf(FirstUntyped) + i - 1, bits |-> untypeds[i]]

Slots ==
  /\ utPc \in {"copy", "test"} => Copied
  /\ utPc = "copy" => added = <<>>
  /\ utPc = "test" => /\ Len(cspace) = Len(CapNames)
                      /\ init.free = FirstSlot + Len(cspace)
                      /\ init.free < 2 ^ CSpaceBits
                      /\ Added

UtInv == UtTypeOK /\ Settled /\ Slots

-----------------------------------------------------------------------------
CapName == OtherCaps \union {"untyped"}

(* The untypeds are the capabilities from FirstUntyped to LastUntyped.      *)
LEMMA NamesOfCaps ==
  ASSUME UtTypeOK
  PROVE  /\ CapNames \in Seq(CapName)
         /\ Len(BeforeMemory) \in Nat /\ Len(untypeds) \in Nat /\ Len(BehindMemory) \in Nat
         /\ Len(CapNames) = Len(BeforeMemory) + Len(untypeds) + Len(BehindMemory)
         /\ \A i \in 1 .. Len(CapNames) :
              CapNames[i] = "untyped" <=> i \in FirstUntyped .. LastUntyped
<1> DEFINE middle == [i \in 1 .. Len(untypeds) |-> "untyped"]
           front  == BeforeMemory \o middle
<1>1. BeforeMemory \in Seq(OtherCaps) /\ BehindMemory \in Seq(OtherCaps)
  BY UntypedsAssumption
<1>2. Len(BeforeMemory) \in Nat /\ Len(BehindMemory) \in Nat /\ Len(untypeds) \in Nat
  BY <1>1, LenProperties DEF UtTypeOK
<1>3. /\ \A i \in 1 .. Len(BeforeMemory) : BeforeMemory[i] # "untyped"
      /\ \A i \in 1 .. Len(BehindMemory) : BehindMemory[i] # "untyped"
  BY <1>1, ElementOfSeq, UntypedsAssumption
<1>4. middle \in Seq(CapName) /\ Len(middle) = Len(untypeds)
      /\ \A i \in 1 .. Len(untypeds) : middle[i] = "untyped"
  BY <1>2 DEF CapName
<1> HIDE DEF middle
<1>8. BeforeMemory \in Seq(CapName) /\ BehindMemory \in Seq(CapName)
  BY <1>1, SeqMonotonic DEF CapName
<1>5. /\ front \in Seq(CapName) /\ Len(front) = Len(BeforeMemory) + Len(untypeds)
      /\ \A i \in 1 .. Len(BeforeMemory) + Len(untypeds) :
           front[i] = IF i <= Len(BeforeMemory) THEN BeforeMemory[i] ELSE middle[i - Len(BeforeMemory)]
  <2>1. /\ BeforeMemory \o middle \in Seq(CapName)
        /\ Len(BeforeMemory \o middle) = Len(BeforeMemory) + Len(middle)
        /\ \A i \in 1 .. Len(BeforeMemory) + Len(middle) :
             (BeforeMemory \o middle)[i] =
               IF i <= Len(BeforeMemory) THEN BeforeMemory[i] ELSE middle[i - Len(BeforeMemory)]
    BY <1>4, <1>8, ConcatProperties
  <2> QED
    BY <1>4, <2>1
<1> HIDE DEF front
<1>6. /\ CapNames \in Seq(CapName) /\ Len(CapNames) = Len(front) + Len(BehindMemory)
      /\ \A i \in 1 .. Len(front) + Len(BehindMemory) :
           CapNames[i] = IF i <= Len(front) THEN front[i] ELSE BehindMemory[i - Len(front)]
  <2>1. CapNames = front \o BehindMemory
    BY DEF CapNames, front, middle
  <2>3. front \in Seq(CapName)
    BY <1>5
  <2>2. /\ front \o BehindMemory \in Seq(CapName)
        /\ Len(front \o BehindMemory) = Len(front) + Len(BehindMemory)
        /\ \A i \in 1 .. Len(front) + Len(BehindMemory) :
             (front \o BehindMemory)[i] =
               IF i <= Len(front) THEN front[i] ELSE BehindMemory[i - Len(front)]
    BY <1>8, <2>3, ConcatProperties
  <2> QED
    BY <2>1, <2>2
<1>7. ASSUME NEW i \in 1 .. Len(CapNames)
      PROVE  CapNames[i] = "untyped" <=> i \in FirstUntyped .. LastUntyped
  <2>1. CASE i <= Len(BeforeMemory)
    BY <1>2, <1>3, <1>5, <1>6, <2>1 DEF FirstUntyped, LastUntyped
  <2>2. CASE i \in FirstUntyped .. LastUntyped
    <3>1. /\ i > Len(BeforeMemory) /\ i <= Len(front)
          /\ i - Len(BeforeMemory) \in 1 .. Len(untypeds)
      BY <1>2, <1>5, <2>2 DEF FirstUntyped, LastUntyped
    <3> QED
      BY <1>2, <1>4, <1>5, <1>6, <2>2, <3>1
  <2>3. CASE i > LastUntyped
    <3>1. i > Len(front) /\ i - Len(front) \in 1 .. Len(BehindMemory) /\ i \notin FirstUntyped .. LastUntyped
      BY <1>2, <1>5, <1>6, <2>3 DEF FirstUntyped, LastUntyped
    <3> QED
      BY <1>2, <1>3, <1>5, <1>6, <3>1
  <2> QED
    BY <1>2, <2>1, <2>2, <2>3 DEF FirstUntyped, LastUntyped
<1> QED
  BY <1>2, <1>5, <1>6, <1>7

(* A free block is taken: there is a smallest one that is large enough.     *)
LEMMA TakenFrom ==
  ASSUME pool \in [Bits -> Nat], size \in Bits, Blocks(size) # {}
  PROVE  Without(size) \in [Bits -> Nat]
<1>1. WordBits \in Nat
  BY UntypedsAssumption
<1>2. Blocks(size) \subseteq Nat
  BY <1>1 DEF Blocks, Bits
<1>3. \E k \in Blocks(size) : \A j \in Blocks(size) : k <= j
  BY <1>2, Least
<1> DEFINE k == CHOOSE k \in Blocks(size) : \A j \in Blocks(size) : k <= j
<1>4. k \in Blocks(size)
  BY <1>3
<1>5. pool[k] - 1 \in Nat
  BY <1>1, <1>4 DEF Blocks, Bits
<1> HIDE DEF k
<1>6. Without(size) = [j \in Bits |-> CASE j = k -> pool[j] - 1
                                      [] size <= j /\ j < k -> pool[j] + 1
                                      [] OTHER -> pool[j]]
  BY DEF Without, k
<1> QED
  BY <1>5, <1>6

-----------------------------------------------------------------------------
LEMMA UntypedsStart == Init => UtInv
<1> SUFFICES ASSUME Init
             PROVE  UtInv
  OBVIOUS
<1>1. UtTypeOK
  <2>1. /\ size \in Bits /\ WordBits - 1 \in Bits
    BY UntypedsAssumption DEF Init, UtInit, Bits
  <2>2. allocated \in 0 .. 2 ^ WordBits - 1
    BY UntypedsAssumption, PowersAssumption DEF Init, UtInit
  <2>3. /\ reserve \in Seq(Bits) /\ untypeds \in Seq(Bits)
        /\ cspace \in Seq(OtherCaps \union {"untyped"})
        /\ added \in Seq([slot : Nat, bits : Bits])
    BY DEF Init, UtInit
  <2>4. init \in [start : Nat, end : Nat, free : Nat]
    BY DEF Init, UtInit, NoInit
  <2>5. pool \in [Bits -> Nat] /\ tests \in 0 .. NumTests
    BY UntypedsAssumption DEF Init, UtInit
  <2> QED
    BY <2>1, <2>2, <2>3, <2>4, <2>5 DEF UtTypeOK, Init, UtInit
<1> QED
  BY <1>1 DEF UtInv, Settled, Slots, Init, UtInit

(* Nothing is said of the slots before they are filled.                     *)
LEMMA AllocationKeeps ==
  ASSUME UtTypeOK', utPc' \in {"reserve", "tests"} \/ (utPc' = "prepare" /\ untypeds' # <<>>)
  PROVE  UtInv'
  BY DEF UtInv, Settled, Slots

LEMMA TakeTypes ==
  ASSUME UtTypeOK, Take, Blocks(size) # {}
  PROVE  pool' \in [Bits -> Nat] /\ allocated' \in 0 .. 2 ^ WordBits - 1
<1>1. pool' \in [Bits -> Nat]
  BY TakenFrom DEF UtTypeOK, Take
<1>2. WordBits \in Nat /\ size \in 0 .. WordBits /\ WordBits \in 0 .. WordBits
  BY UntypedsAssumption DEF UtTypeOK, Bits
<1>3. 2 ^ WordBits \in Nat \ {0} /\ 2 ^ size \in Nat
  BY <1>2, PowersAssumption
<1>4. allocated \in Nat
  BY <1>3 DEF UtTypeOK
<1>5. \A n \in Nat : \A w \in Nat \ {0} : n % w \in 0 .. w - 1
  OBVIOUS
<1> DEFINE w   == 2 ^ WordBits
           sum == allocated + 2 ^ size
<1>6. w \in Nat \ {0} /\ sum \in Nat
  BY <1>3, <1>4
<1>7. allocated' = sum % w
  BY DEF Take
<1> HIDE DEF w, sum
<1>8. sum % w \in 0 .. w - 1
  BY <1>5, <1>6
<1>9. allocated' \in 0 .. w - 1
  BY <1>7, <1>8
<1> QED
  BY <1>1, <1>9 DEF w

LEMMA UntypedsStep == UtInv /\ UtNext => UtInv'
<1> SUFFICES ASSUME UtInv, UtNext
             PROVE  UtInv'
  OBVIOUS
<1> USE DEF UtInv
<1>0. WordBits \in Nat /\ PageBits \in Nat /\ FirstSlot \in Nat \ {0}
  BY UntypedsAssumption DEF Bits
<1>1. CASE TakeForReserve
  <2>1. UtTypeOK'
    BY <1>1, TakeTypes DEF UtTypeOK, TakeForReserve, CanTake
  <2> QED
    BY <1>1, <2>1, AllocationKeeps DEF TakeForReserve, InDriver
<1>2. CASE TakeForTests
  <2>1. UtTypeOK'
    BY <1>2, TakeTypes DEF UtTypeOK, TakeForTests, CanTake
  <2> QED
    BY <1>2, <2>1, AllocationKeeps DEF TakeForTests, InDriver
<1>3. CASE NextSize
  <2>1. UtTypeOK'
    BY <1>0, <1>3 DEF UtTypeOK, NextSize, Bits
  <2> QED
    BY <1>3, <2>1, AllocationKeeps DEF NextSize, InDriver
<1>4. CASE ReserveTaken
  <2>1. UtTypeOK'
    BY <1>0, <1>4, PowersAssumption DEF UtTypeOK, ReserveTaken, Bits
  <2> QED
    BY <1>4, <2>1, AllocationKeeps DEF ReserveTaken
<1>5. CASE FreeReserve
  <2>1. \A bits \in Bits : NumberOf(reserve, bits) \in Nat
    <3>1. reserve \in Seq(Bits)
      BY DEF UtTypeOK
    <3>2. DOMAIN reserve = 1 .. Len(reserve) /\ Len(reserve) \in Nat
      BY <3>1, LenProperties
    <3>3. IsFiniteSet(DOMAIN reserve)
      BY <3>2, FS_Interval
    <3> QED
      BY <3>3, FS_Subset, FS_CardinalityType DEF NumberOf
  <2>2. pool' \in [Bits -> Nat]
    BY <1>5, <2>1, SMTT(30) DEF FreeReserve, UtTypeOK
  <2>3. reserve' \in Seq(Bits) /\ utPc' \in {"tests", "prepare"}
    BY <1>5 DEF FreeReserve, InDriver
  <2>4. UtTypeOK'
    BY <1>5, <2>2, <2>3 DEF FreeReserve, UtTypeOK
  <2> QED
    BY <1>5, <2>3, <2>4, AllocationKeeps DEF FreeReserve, InDriver
<1>6. CASE Prepare
  BY <1>6 DEF Prepare, InDriver, UtTypeOK, Settled, Slots
<1>7. CASE NextTest
  <2>1. UtTypeOK'
    <3>1. tests' \in 0 .. NumTests
      BY <1>7, UntypedsAssumption DEF NextTest, UtTypeOK
    <3>2. init' \in [start : Nat, end : Nat, free : Nat]
      BY <1>7 DEF NextTest, NoInit
    <3>3. cspace' \in Seq(OtherCaps \union {"untyped"}) /\ added' \in Seq([slot : Nat, bits : Bits])
      BY <1>7 DEF NextTest
    <3> QED
      BY <1>7, <3>1, <3>2, <3>3 DEF NextTest, UtTypeOK, InDriver
  <2>2. utPc' \in {"next", "copy"} /\ untypeds' = untypeds /\ untypeds # <<>> /\ cspace' = <<>> /\ added' = <<>>
    BY <1>7 DEF NextTest, InDriver, Settled
  <2>3. Copied'
    <3>1. /\ Len(BeforeMemory) \in Nat /\ Len(untypeds) \in Nat \ {0}
          /\ Len(CapNames) \in Nat
      <4>1. Len(untypeds) # 0
        BY <2>2, EmptySeq DEF UtTypeOK
      <4> QED
        BY <4>1, NamesOfCaps
    <3>2. Len(cspace') = 0 /\ CapNames' = CapNames
      BY <2>2 DEF CapNames
    <3> QED
      BY <2>2, <3>1, <3>2 DEF Copied, FirstUntyped, LastUntyped
  <2> QED
    BY <2>1, <2>2, <2>3 DEF Settled, Slots
<1>8. CASE CopyCap
  <2>1. CASE UNCHANGED <<cspace, init>>
    BY <1>8, <2>1 DEF CopyCap, UtTypeOK, Settled, Slots, Copied, CapNames, FirstUntyped,
       LastUntyped, SlotOf, Added, InDriver
  <2>2. CASE cspace' # cspace
    <3> DEFINE i == Len(cspace) + 1
    <3>1. /\ utPc = "copy" /\ utPc' = "copy" /\ i <= Len(CapNames)
          /\ cspace' = Append(cspace, CapNames[i])
          /\ init' = [start |-> IF i = FirstUntyped THEN SlotOf(i) ELSE init.start,
                      end   |-> IF CapNames[i] = "untyped" THEN SlotOf(i) ELSE init.end,
                      free  |-> init.free]
          /\ UNCHANGED <<pool, size, allocated, reserve, untypeds, added, tests>>
      <4>1. Len(cspace) \in Nat /\ Len(CapNames) \in Nat
        BY NamesOfCaps, LenProperties DEF UtTypeOK
      <4> QED
        BY <1>8, <2>2, <4>1 DEF CopyCap, InDriver
    <3>2. Copied /\ untypeds # <<>>
      BY <3>1 DEF Slots, Settled
    <3>3. /\ Len(BeforeMemory) \in Nat /\ Len(untypeds) \in Nat \ {0} /\ Len(CapNames) \in Nat
          /\ Len(cspace) \in Nat /\ i \in 1 .. Len(CapNames)
      <4>1. Len(untypeds) # 0
        BY <3>2, EmptySeq DEF UtTypeOK
      <4>2. Len(cspace) \in Nat
        BY LenProperties DEF UtTypeOK
      <4> QED
        BY <3>1, <4>1, <4>2, NamesOfCaps
    <3>4. CapNames[i] \in OtherCaps \union {"untyped"} /\ (CapNames[i] = "untyped" <=> i \in FirstUntyped .. LastUntyped)
      <4>1. CapNames \in Seq(CapName)
        BY NamesOfCaps
      <4>2. CapNames[i] \in CapName
        BY <3>3, <4>1, ElementOfSeq
      <4>3. CapNames[i] = "untyped" <=> i \in FirstUntyped .. LastUntyped
        BY <3>3, NamesOfCaps
      <4> QED
        BY <4>2, <4>3 DEF CapName
    <3>5. /\ cspace' \in Seq(OtherCaps \union {"untyped"}) /\ Len(cspace') = i
          /\ \A j \in 1 .. Len(cspace) : cspace'[j] = cspace[j]
          /\ cspace'[i] = CapNames[i]
      <4>1. cspace \in Seq(OtherCaps \union {"untyped"})
        BY DEF UtTypeOK
      <4> QED
        BY <3>1, <3>4, <4>1, AppendProperties
    <3>6. CapNames' = CapNames /\ FirstUntyped' = FirstUntyped /\ LastUntyped' = LastUntyped
      BY <3>1 DEF CapNames, FirstUntyped, LastUntyped
    <3>7. FirstUntyped \in Nat /\ LastUntyped \in Nat /\ FirstUntyped <= LastUntyped
      BY <3>3 DEF FirstUntyped, LastUntyped
    <3>8. \A k \in Nat \ {0} : SlotOf(k) \in Nat
      BY <1>0 DEF SlotOf
    <3> HIDE DEF i
    <3>9. UtTypeOK'
      <4>1. init' \in [start : Nat, end : Nat, free : Nat]
        BY <3>1, <3>3, <3>8 DEF UtTypeOK
      <4> QED
        BY <3>1, <3>5, <4>1 DEF UtTypeOK
    <3>10. Copied'
      <4>1. i = Len(cspace) + 1
        BY DEF i
      <4>2. \A j \in 1 .. Len(cspace') : cspace'[j] = CapNames[j]
        BY <3>2, <3>3, <3>5, <4>1 DEF Copied
      <4>3. i >= FirstUntyped => init'.start = SlotOf(FirstUntyped)
        BY <3>1, <3>2, <3>3, <3>7, <4>1 DEF Copied
      <4>4. i \in FirstUntyped .. LastUntyped => init'.end = SlotOf(i)
        BY <3>1, <3>4
      <4>5. i >= LastUntyped => init'.end = SlotOf(LastUntyped)
        <5>1. CASE i = LastUntyped
          BY <3>7, <4>4, <5>1
        <5>2. CASE i > LastUntyped
          <6>1. CapNames[i] # "untyped" /\ Len(cspace) >= LastUntyped
            BY <3>3, <3>4, <3>7, <4>1, <5>2
          <6> QED
            BY <3>1, <3>2, <6>1 DEF Copied
        <5> QED
          BY <3>3, <3>7, <5>1, <5>2
      <4>6. \A k \in Nat : SlotOf(k)' = SlotOf(k)
        BY DEF SlotOf
      <4> QED
        BY <3>3, <3>5, <3>6, <3>7, <4>2, <4>3, <4>4, <4>5 DEF Copied, SlotOf
    <3> QED
      BY <3>1, <3>2, <3>9, <3>10 DEF Settled, Slots
  <2> QED
    BY <1>8, <2>1, <2>2 DEF CopyCap
<1>9. CASE Spawn
  <2>1. /\ utPc = "copy" /\ Copied /\ added = <<>> /\ untypeds # <<>> /\ Len(cspace) = Len(CapNames)
        /\ init' = [init EXCEPT !.free = FreeStart]
        /\ (utPc' = "copy" \/ (utPc' = "test" /\ FreeStart < 2 ^ CSpaceBits))
        /\ UNCHANGED <<pool, size, allocated, reserve, untypeds, cspace, added, tests>>
    BY <1>9 DEF Spawn, InDriver, Slots, Settled
  <2>2. Len(cspace) \in Nat /\ FreeStart = FirstSlot + Len(cspace)
    <3>1. Len(cspace) \in Nat
      BY LenProperties DEF UtTypeOK
    <3> QED
      BY <1>0, <3>1 DEF FreeStart, SlotOf
  <2>3. /\ init' \in [start : Nat, end : Nat, free : Nat]
        /\ init'.start = init.start /\ init'.end = init.end /\ init'.free = FreeStart
    <3>1. FreeStart \in Nat /\ init \in [start : Nat, end : Nat, free : Nat]
      BY <1>0, <2>2 DEF UtTypeOK
    <3> QED
      BY <2>1, <3>1
  <2>4. UtTypeOK'
    BY <2>1, <2>3 DEF UtTypeOK
  <2>5. Copied'
    BY <2>1, <2>3 DEF Copied, CapNames, FirstUntyped, LastUntyped, SlotOf
  <2>6. Added'
    <3>1. Len(untypeds) \in Nat
      BY NamesOfCaps
    <3> QED
      BY <2>1, <3>1 DEF Added
  <2> QED
    BY <2>1, <2>2, <2>3, <2>4, <2>5, <2>6 DEF Settled, Slots, CapNames
<1>10. CASE AddUntyped
  <2>1. /\ utPc = "test" /\ utPc' = "test" /\ Copied /\ Added /\ untypeds # <<>>
        /\ Len(cspace) = Len(CapNames) /\ NextSlot <= init.end
        /\ added' = Append(added, [slot |-> NextSlot, bits |-> untypeds[Len(added) + 1]])
        /\ UNCHANGED <<pool, size, allocated, reserve, untypeds, cspace, init, tests>>
    BY <1>10 DEF AddUntyped, InDriver, Slots, Settled
  <2>2. /\ Len(BeforeMemory) \in Nat /\ Len(untypeds) \in Nat \ {0} /\ Len(BehindMemory) \in Nat
        /\ Len(CapNames) = Len(BeforeMemory) + Len(untypeds) + Len(BehindMemory)
        /\ Len(added) \in Nat
    <3>1. Len(untypeds) # 0
      BY <2>1, EmptySeq DEF UtTypeOK
    <3>2. Len(added) \in Nat
      BY LenProperties DEF UtTypeOK
    <3> QED
      BY <3>1, <3>2, NamesOfCaps
  <2>3. init.start = SlotOf(FirstUntyped) /\ init.end = SlotOf(LastUntyped)
    BY <2>1, <2>2 DEF Copied, FirstUntyped, LastUntyped
  <2>4. Len(added) + 1 \in 1 .. Len(untypeds) /\ NextSlot = SlotOf(FirstUntyped) + Len(added)
    BY <1>0, <2>1, <2>2, <2>3 DEF NextSlot, SlotOf, FirstUntyped, LastUntyped
  <2>5. NextSlot \in Nat
    BY <1>0, <2>2, <2>4 DEF SlotOf, FirstUntyped
  <2>6. untypeds[Len(added) + 1] \in Bits
    BY <2>4, ElementOfSeq DEF UtTypeOK
  <2> DEFINE new == [slot |-> NextSlot, bits |-> untypeds[Len(added) + 1]]
  <2>7. new \in [slot : Nat, bits : Bits]
    BY <2>5, <2>6
  <2>8. /\ added' \in Seq([slot : Nat, bits : Bits]) /\ Len(added') = Len(added) + 1
        /\ \A i \in 1 .. Len(added) : added'[i] = added[i]
        /\ added'[Len(added) + 1] = new
    <3>1. added \in Seq([slot : Nat, bits : Bits])
      BY DEF UtTypeOK
    <3>2. added' = Append(added, new)
      BY <2>1
    <3> HIDE DEF new
    <3> QED
      BY <2>7, <3>1, <3>2, AppendProperties
  <2>9. UtTypeOK'
    BY <2>1, <2>8 DEF UtTypeOK
  <2>10. Copied'
    BY <2>1 DEF Copied, CapNames, FirstUntyped, LastUntyped, SlotOf
  <2>11. Added'
    <3>1. /\ untypeds' = untypeds /\ FirstUntyped' = FirstUntyped
          /\ SlotOf(FirstUntyped)' = SlotOf(FirstUntyped)
      BY <2>1 DEF FirstUntyped, SlotOf
    <3>2. SlotOf(FirstUntyped) \in Nat
      BY <1>0, <2>2 DEF SlotOf, FirstUntyped
    <3>3. new = [slot |-> SlotOf(FirstUntyped) + (Len(added) + 1) - 1, bits |-> untypeds[Len(added) + 1]]
      BY <2>2, <2>4, <3>2
    <3> HIDE DEF new
    <3>4. ASSUME NEW i \in 1 .. Len(added')
          PROVE  added'[i] = [slot |-> SlotOf(FirstUntyped) + i - 1, bits |-> untypeds[i]]
      <4>1. CASE i = Len(added) + 1
        BY <2>8, <3>3, <4>1
      <4>2. CASE i # Len(added) + 1
        <5>1. i \in 1 .. Len(added)
          BY <2>2, <2>8, <4>2
        <5> QED
          BY <2>1, <2>8, <5>1 DEF Added
      <4> QED
        BY <4>1, <4>2
    <3> QED
      BY <2>2, <2>4, <2>8, <3>1, <3>4 DEF Added
  <2> QED
    BY <2>1, <2>9, <2>10, <2>11 DEF Settled, Slots, CapNames
<1>11. CASE EndTest
  BY <1>11 DEF EndTest, InDriver, UtTypeOK, Settled, Slots
<1> QED
  BY <1>1, <1>2, <1>3, <1>4, <1>5, <1>6, <1>7, <1>8, <1>9, <1>10, <1>11 DEF UtNext

-----------------------------------------------------------------------------
(* No other part of a root task's body touches what the driver keeps.       *)
LEMMA UntypedsKept == UtInv /\ [Next]_vars => UtInv'
<1> SUFFICES ASSUME UtInv, [Next]_vars
             PROVE  UtInv'
  OBVIOUS
<1>1. CASE UtNext
  BY <1>1, UntypedsStep
<1>2. CASE UNCHANGED utVars
  BY <1>2 DEF UtInv, UtTypeOK, Settled, Slots, Copied, Added, CapNames, FirstUntyped,
     LastUntyped, SlotOf, utVars
<1> QED
  BY <1>1, <1>2 DEF Next, vars, bodyVars

LEMMA UntypedsAlways == Spec => []UtInv
  BY UntypedsStart, UntypedsKept, PTL DEF Spec

(* Whatever capabilities a test process is given and however many untypeds, *)
(* no slot that run_test() calls free holds a copied capability, and there  *)
(* is a free slot (main.c:300, "do not copy more caps").                    *)
THEOREM FreeSlots == Spec => []FreeSlotsAreFree
<1>1. UtInv => FreeSlotsAreFree
  <2> SUFFICES ASSUME UtInv, InDriver("test"), NEW i \in DOMAIN cspace
               PROVE  init.free < 2 ^ CSpaceBits /\ SlotOf(i) < init.free
    BY DEF FreeSlotsAreFree, UtInv, Slots, InDriver
  <2>1. FirstSlot \in Nat /\ Len(cspace) \in Nat /\ i \in 1 .. Len(cspace)
    BY UntypedsAssumption, LenProperties DEF UtInv, UtTypeOK
  <2> QED
    BY <2>1 DEF UtInv, Slots, InDriver, SlotOf
<1> QED
  BY <1>1, UntypedsAlways, PTL

(* Whatever was allocated and whatever stands beside the untypeds in the    *)
(* process's slots, the test adds to its allocator exactly the untypeds it  *)
(* was given, each with its own size (init_allocator()).                    *)
THEOREM UntypedsAreNamed == Spec => []UntypedsNamedRight
<1>1. UtInv => UntypedsNamedRight
  <2> SUFFICES ASSUME UtInv, InDriver("test")
               PROVE  UntypedsNamedRight
    BY DEF UntypedsNamedRight
  <2>1. /\ UtTypeOK /\ Copied /\ Added /\ untypeds # <<>> /\ Len(cspace) = Len(CapNames)
    BY DEF UtInv, InDriver, Slots, Settled
  <2>2. /\ Len(BeforeMemory) \in Nat /\ Len(untypeds) \in Nat \ {0} /\ Len(BehindMemory) \in Nat
        /\ Len(CapNames) = Len(BeforeMemory) + Len(untypeds) + Len(BehindMemory)
        /\ Len(added) \in Nat /\ DOMAIN added = 1 .. Len(added) /\ FirstSlot \in Nat
    <3>1. Len(untypeds) # 0
      BY <2>1, EmptySeq DEF UtTypeOK
    <3>2. Len(added) \in Nat /\ DOMAIN added = 1 .. Len(added)
      BY <2>1, LenProperties DEF UtTypeOK
    <3> QED
      BY <2>1, <3>1, <3>2, NamesOfCaps, UntypedsAssumption
  <2>3. init.start = SlotOf(FirstUntyped) /\ init.end = SlotOf(LastUntyped)
    BY <2>1, <2>2 DEF Copied, FirstUntyped, LastUntyped
  <2>4. init.end - init.start + 1 = Len(untypeds)
    BY <2>2, <2>3 DEF SlotOf, FirstUntyped, LastUntyped
  <2>5. ASSUME NEW i \in DOMAIN added
        PROVE  /\ added[i].slot \in SlotOf(1) .. SlotOf(Len(cspace))
               /\ cspace[added[i].slot - FirstSlot + 1] = "untyped"
               /\ added[i].slot - SlotOf(FirstUntyped) + 1 = i
               /\ added[i].bits = untypeds[i]
    <3> DEFINE k == Len(BeforeMemory) + i
    <3>1. /\ added[i].slot = SlotOf(FirstUntyped) + i - 1 /\ added[i].bits = untypeds[i]
          /\ i \in 1 .. Len(untypeds)
      BY <2>1, <2>2 DEF Added
    <3>2. added[i].slot = FirstSlot + k - 1 /\ k \in FirstUntyped .. LastUntyped
      BY <2>2, <3>1 DEF SlotOf, FirstUntyped, LastUntyped
    <3>3. k \in 1 .. Len(CapNames)
      BY <2>2, <3>1
    <3> HIDE DEF k
    <3>4. CapNames[k] = "untyped"
      BY <2>1, <3>2, <3>3, NamesOfCaps
    <3>5. cspace[k] = "untyped"
      BY <2>1, <3>3, <3>4 DEF Copied
    <3>6. added[i].slot - FirstSlot + 1 = k
      BY <2>2, <3>2, <3>3
    <3>7. added[i].slot \in SlotOf(1) .. SlotOf(Len(cspace))
      BY <2>1, <2>2, <3>2, <3>3 DEF SlotOf
    <3>8. added[i].slot - SlotOf(FirstUntyped) + 1 = i
      BY <2>2, <3>1 DEF SlotOf, FirstUntyped
    <3> QED
      BY <3>1, <3>5, <3>6, <3>7, <3>8
  <2> QED
    BY <2>4, <2>5 DEF UntypedsNamedRight
<1> QED
  BY <1>1, UntypedsAlways, PTL

(* The bytes of a list of sizes, as their recursion counts them.            *)
Sums(taken, f) ==
  /\ f \in [0 .. Len(taken) -> Nat]
  /\ f[0] = 0
  /\ \A i \in 1 .. Len(taken) : f[i] = f[i - 1] + 2 ^ taken[i]

LEMMA BytesSum ==
  ASSUME NEW taken \in Seq(Bits)
  PROVE  \E f : Sums(taken, f) /\ Bytes(taken) = f[Len(taken)]
<1> DEFINE n == Len(taken)
           p(i) == 2 ^ taken[i]
           step == [i \in 1 .. n |-> [s \in Nat |-> s + p(i)]]
           Rec(m) == m = [i \in 0 .. n |-> IF i = 0 THEN 0 ELSE m[i - 1] + p(i)]
<1>1. n \in Nat /\ \A i \in 1 .. n : p(i) \in Nat
  <2>1. n \in Nat /\ \A i \in 1 .. n : taken[i] \in 0 .. WordBits
    BY UntypedsAssumption DEF Bits
  <2> QED BY <2>1, PowersAssumption
<1>2. Bytes(taken) = (CHOOSE m : Rec(m))[n]
  BY DEF Bytes
<1> HIDE DEF n, p
<1>3. PICK f \in [0 .. n -> Nat] : f[0] = 0 /\ \A i \in 1 .. n : f[i] = f[i - 1] + p(i)
  <2>1. step \in [1 .. n -> [Nat -> Nat]]
    BY <1>1
  <2>2. \A i \in 1 .. n : \A s \in Nat : step[i][s] = s + p(i)
    OBVIOUS
  <2> HIDE DEF step
  <2>3. PICK f : Recursive(f, Nat, 0, n, step)
    BY <1>1, <2>1, RecursionExists
  <2>4. f \in [0 .. n -> Nat] /\ f[0] = 0 /\ \A i \in 1 .. n : f[i] = step[i][f[i - 1]]
    BY <2>3 DEF Recursive
  <2>5. \A i \in 1 .. n : f[i - 1] \in Nat
    BY <1>1, <2>4
  <2> QED BY <2>2, <2>4, <2>5
<1>4. Rec(f)
  <2> DEFINE r == [i \in 0 .. n |-> IF i = 0 THEN 0 ELSE f[i - 1] + p(i)]
  <2>1. ASSUME NEW i \in 0 .. n PROVE f[i] = r[i]
    <3>1. i = 0 \/ i \in 1 .. n
      BY <1>1
    <3> QED BY <1>1, <1>3, <3>1
  <2>2. f = [i \in 0 .. n |-> f[i]] /\ r = [i \in 0 .. n |-> r[i]]
    BY <1>3
  <2> HIDE DEF r
  <2>3. f = r
    BY <2>1, <2>2
  <2> QED BY <2>3 DEF r
<1> DEFINE m == CHOOSE m : Rec(m)
<1>5. Rec(m)
  <2> HIDE DEF Rec
  <2> QED BY <1>4
<1>6. Bytes(taken) = m[n]
  BY <1>2
<1> HIDE DEF m
<1>7. m[0] = 0 /\ \A i \in 1 .. n : m[i] = m[i - 1] + p(i)
  <2>1. ASSUME NEW i \in 0 .. n PROVE m[i] = IF i = 0 THEN 0 ELSE m[i - 1] + p(i)
    BY <1>5, Zenon
  <2>2. 0 \in 0 .. n /\ \A i \in 1 .. n : i \in 0 .. n /\ i # 0
    BY <1>1
  <2> QED BY <2>1, <2>2, Zenon
<1>8. \A i \in 0 .. n : m[i] \in Nat
  <2> DEFINE T == {k \in Nat : k <= n => m[k] \in Nat}
  <2>1. 0 \in T
    BY <1>7
  <2>2. ASSUME NEW k \in Nat, k \in T PROVE k + 1 \in T
    <3> SUFFICES ASSUME k + 1 <= n PROVE m[k + 1] \in Nat
      OBVIOUS
    <3>1. k + 1 \in 1 .. n /\ (k + 1) - 1 = k /\ m[k] \in Nat
      BY <1>1, <2>2
    <3> QED BY <1>1, <1>7, <3>1
  <2>3. Nat \subseteq T
    <3> HIDE DEF T
    <3> QED BY <2>1, <2>2, Inductive
  <2> QED BY <1>1, <2>3
<1>9. m \in [0 .. n -> Nat]
  <2> DEFINE r(i) == IF i = 0 THEN 0 ELSE m[i - 1] + p(i)
  <2>1. m = [i \in 0 .. n |-> r(i)]
    BY <1>5, Zenon
  <2> HIDE DEF r
  <2>2. m = [i \in 0 .. n |-> m[i]]
    BY <2>1
  <2> QED BY <1>8, <2>2
<1> QED BY <1>6, <1>7, <1>9 DEF Sums, n, p

(* Nothing has no bytes, and a block adds its own.                          *)
LEMMA BytesEmpty == Bytes(<<>>) = 0
<1>1. <<>> \in Seq(Bits) /\ Len(<<>>) = 0
  OBVIOUS
<1> QED BY <1>1, BytesSum DEF Sums

LEMMA BytesAppend ==
  ASSUME NEW taken \in Seq(Bits), NEW b \in Bits
  PROVE  Bytes(Append(taken, b)) = Bytes(taken) + 2 ^ b /\ Bytes(taken) \in Nat
<1> DEFINE more == Append(taken, b)
           n == Len(taken)
<1>1. /\ n \in Nat /\ more \in Seq(Bits) /\ Len(more) = n + 1 /\ more[n + 1] = b
      /\ \A i \in 1 .. n : more[i] = taken[i]
  BY AppendProperties
<1>2. PICK f : Sums(taken, f) /\ Bytes(taken) = f[n]
  BY BytesSum
<1> HIDE DEF more
<1>3. PICK g : Sums(more, g) /\ Bytes(more) = g[n + 1]
  BY <1>1, BytesSum
<1> HIDE DEF n
<1>4. f[n] = g[n] /\ f[n] \in Nat
  <2> DEFINE T == {k \in Nat : k <= n => f[k] = g[k]}
  <2>0. /\ f[0] = 0 /\ f \in [0 .. n -> Nat] /\ \A i \in 1 .. n : f[i] = f[i - 1] + 2 ^ taken[i]
        /\ g[0] = 0 /\ \A i \in 1 .. n + 1 : g[i] = g[i - 1] + 2 ^ more[i]
    BY <1>1, <1>2, <1>3 DEF Sums, n
  <2>1. 0 \in T
    BY <2>0
  <2>2. ASSUME NEW k \in Nat, k \in T PROVE k + 1 \in T
    <3> SUFFICES ASSUME k + 1 <= n PROVE f[k + 1] = g[k + 1]
      OBVIOUS
    <3>1. k + 1 \in 1 .. n /\ k + 1 \in 1 .. n + 1 /\ (k + 1) - 1 = k /\ f[k] = g[k]
      BY <1>1, <2>2
    <3>2. more[k + 1] = taken[k + 1]
      BY <1>1, <3>1 DEF n
    <3> QED BY <2>0, <3>1, <3>2
  <2>3. Nat \subseteq T
    <3> HIDE DEF T
    <3> QED BY <2>1, <2>2, Inductive
  <2> QED BY <1>1, <2>0, <2>3
<1>5. g[n + 1] = g[n] + 2 ^ b
  <2>1. n + 1 \in 1 .. Len(more) /\ (n + 1) - 1 = n
    BY <1>1
  <2> QED BY <1>1, <1>3, <2>1 DEF Sums
<1> QED BY <1>2, <1>3, <1>4, <1>5 DEF more

(* What allocate_untypeds() has taken and left: the sum of the reserve is   *)
(* exact, for it never comes near the end of a word; of the sizes that the  *)
(* tests' share is through with no block is left.                           *)
Shares ==
  /\ life = "boot" => utPc = "reserve"
  /\ utPc = "reserve" => allocated = Bytes(reserve)
  /\ Bytes(reserve) <= ReserveBytes
  /\ InDriver("tests") /\ Len(untypeds) < ListSize
       => \A bits \in Bits : bits > size => pool[bits] = 0

LEMMA SharesStart == Init => Shares
<1> SUFFICES ASSUME Init
             PROVE  Shares
  OBVIOUS
<1>1. Bytes(reserve) = 0 /\ allocated = 0 /\ utPc = "reserve"
  BY BytesEmpty DEF Init, UtInit
<1> QED BY <1>1, UntypedsAssumption DEF Shares, InDriver

(* A block for the reserve: nothing wraps around.                           *)
LEMMA ReserveGrows ==
  ASSUME Roomy, UtTypeOK, Shares, TakeForReserve
  PROVE  /\ allocated' = Bytes(reserve') /\ Bytes(reserve') <= ReserveBytes
<1> DEFINE w   == 2 ^ WordBits
           b   == 2 ^ size
           sum == allocated + b
<1>1. reserve \in Seq(Bits) /\ size \in Bits /\ ReserveBytes \in Nat
  BY UntypedsAssumption DEF UtTypeOK
<1>2. w \in Nat \ {0} /\ b \in Nat
  BY <1>1, UntypedsAssumption, PowersAssumption DEF Bits
<1>3. /\ reserve' = Append(reserve, size) /\ allocated' = sum % w /\ sum % w <= ReserveBytes
      /\ utPc = "reserve"
  BY DEF TakeForReserve, Take, CanTake, Fits, InDriver
<1>4. allocated = Bytes(reserve) /\ Bytes(reserve) <= ReserveBytes
  BY <1>3 DEF Shares
<1>5. Bytes(reserve') = Bytes(reserve) + b /\ Bytes(reserve) \in Nat
  BY <1>1, <1>3, BytesAppend
<1>6. ReserveBytes + b < w
  BY <1>1 DEF Roomy
<1> HIDE DEF w, b
<1>7. sum \in Nat /\ sum < w
  BY <1>1, <1>2, <1>4, <1>5, <1>6
<1> HIDE DEF sum
<1>8. sum % w = sum
  BY <1>2, <1>7
<1> QED BY <1>3, <1>4, <1>5, <1>8 DEF sum

(* A block for the tests: with no larger block there is nothing to split.   *)
LEMMA TestsTake ==
  ASSUME UtTypeOK, Shares, TakeForTests, Len(untypeds') < ListSize, NEW bits \in Bits, bits > size'
  PROVE  pool'[bits] = 0
<1> DEFINE k == CHOOSE k \in Blocks(size) : \A j \in Blocks(size) : k <= j
<1>1. /\ pool' = Without(size) /\ size' = size /\ untypeds' = Append(untypeds, size)
      /\ Blocks(size) # {} /\ InDriver("tests")
  BY DEF TakeForTests, Take, CanTake
<1>2. untypeds \in Seq(Bits) /\ size \in Bits /\ pool \in [Bits -> Nat] /\ WordBits \in Nat
  BY UntypedsAssumption DEF UtTypeOK
<1>3. Len(untypeds) < ListSize
  BY <1>1, <1>2, UntypedsAssumption, AppendProperties
<1>4. \A j \in Bits : j > size => pool[j] = 0
  BY <1>1, <1>3 DEF Shares
<1>5. Blocks(size) = {size}
  <2>1. ASSUME NEW j \in Blocks(size) PROVE j = size
    <3>1. j \in size .. WordBits - 1 /\ pool[j] > 0
      BY DEF Blocks
    <3>2. j \in Bits
      BY <1>2, <3>1 DEF Bits
    <3> QED BY <1>2, <1>4, <3>1, <3>2 DEF Bits
  <2> QED BY <1>1, <2>1
<1>6. k = size
  BY <1>5, <1>2 DEF Bits
<1> HIDE DEF k
<1>7. Without(size) = [j \in Bits |-> CASE j = k -> pool[j] - 1
                                      [] size <= j /\ j < k -> pool[j] + 1
                                      [] OTHER -> pool[j]]
  BY DEF Without, k
<1>8. bits # size /\ ~(bits < size)
  BY <1>1, <1>2 DEF Bits
<1> QED BY <1>1, <1>4, <1>6, <1>7, <1>8

LEMMA SharesStep == Roomy /\ UtInv /\ Shares /\ [Next]_vars => Shares'
<1> SUFFICES ASSUME Roomy, UtInv, Shares, [Next]_vars
             PROVE  Shares'
  OBVIOUS
<1>0. /\ UtTypeOK /\ size \in Bits /\ WordBits \in Nat /\ WordBits - 1 \in Bits /\ PageBits \in Nat
      /\ ReserveBytes \in Nat /\ size' \in Bits
  <2>1. UtInv'
    BY UntypedsKept
  <2>2. UtTypeOK /\ size \in Bits /\ size' \in Bits
    BY <2>1 DEF UtInv, UtTypeOK
  <2>3. /\ WordBits \in Nat /\ WordBits - 1 \in Bits /\ PageBits \in Nat /\ ReserveBytes \in Nat
    BY UntypedsAssumption DEF Bits
  <2> QED BY <2>2, <2>3
<1>1. CASE UNCHANGED utVars
  <2>1. /\ life' = "boot" => life = "boot"
        /\ InDriver("tests")' => InDriver("tests")
    <3>1. CASE BootNext
      BY <1>1, <3>1 DEF BootNext, InDriver, Running, utVars, Shares
    <3>2. CASE FbNext \/ ThNext \/ TmNext \/ UtNext \/ K3Next
      BY <1>1, <3>2, BodiesEnd DEF InDriver, Running, utVars, Ended
    <3>3. CASE UNCHANGED vars
      BY <1>1, <3>3 DEF InDriver, Running, utVars, vars, bootVars
    <3> QED BY <3>1, <3>2, <3>3 DEF Next
  <2> QED BY <1>1, <2>1 DEF Shares, utVars
<1>2. CASE UtNext
  <2>0. life # "boot" /\ (life' = "boot" => life = "boot")
    <3>1. life = "body" /\ life' \in {life} \union Ended
      BY <1>2, BodiesEnd DEF UtNext, TakeForReserve, TakeForTests, NextSize, ReserveTaken,
         FreeReserve, Prepare, NextTest, CopyCap, Spawn, AddUntyped, EndTest, InDriver, Running
    <3> QED BY <3>1 DEF Ended
  <2>1. CASE TakeForReserve
    <3>1. utPc' = "reserve" /\ ~InDriver("tests")'
      BY <2>1 DEF TakeForReserve, InDriver
    <3> QED BY <1>0, <2>0, <2>1, <3>1, ReserveGrows DEF Shares
  <2>2. CASE TakeForTests
    <3>1. UNCHANGED <<utPc, reserve>> /\ utPc = "tests"
      BY <2>2 DEF TakeForTests, InDriver
    <3> QED BY <1>0, <2>0, <2>2, <3>1, TestsTake DEF Shares
  <2>3. CASE NextSize
    <3>1. UNCHANGED <<utPc, pool, allocated, reserve, untypeds, life, app>> /\ size' = size - 1
      BY <1>2, <2>3 DEF NextSize, UtNext
    <3>2. ASSUME InDriver("tests"), Len(untypeds) < ListSize, NEW bits \in Bits, bits > size - 1
          PROVE  pool[bits] = 0
      <4>1. ~CanTake(untypeds, 2 ^ WordBits - 1, ListSize)
        BY <2>3, <3>2 DEF NextSize, InDriver
      <4>2. Fits(2 ^ WordBits - 1)
        <5> DEFINE w == 2 ^ WordBits
                   sum == allocated + 2 ^ size
        <5>1. w \in Nat \ {0} /\ sum \in Nat
          BY <1>0, PowersAssumption DEF UtTypeOK, Bits
        <5> HIDE DEF w, sum
        <5>2. sum % w <= w - 1
          BY <5>1
        <5> QED BY <5>2 DEF Fits, w, sum
      <4>3. Blocks(size) = {}
        BY <3>2, <4>1, <4>2 DEF CanTake
      <4>4. CASE bits > size
        BY <3>2, <4>4 DEF Shares
      <4>5. CASE bits = size
        <5>1. pool[size] \in Nat /\ size \in size .. WordBits - 1
          BY <1>0 DEF UtTypeOK, Bits
        <5> QED BY <4>3, <4>5, <5>1 DEF Blocks
      <4> QED BY <1>0, <3>2, <4>4, <4>5 DEF Bits
    <3>3. InDriver("tests")' => InDriver("tests")
      BY <3>1 DEF InDriver, Running
    <3> QED BY <2>0, <3>1, <3>2, <3>3 DEF Shares
  <2>4. CASE ReserveTaken
    <3>1. utPc' = "tests" /\ size' = WordBits - 1 /\ reserve' = reserve
      BY <2>4 DEF ReserveTaken
    <3>2. \A bits \in Bits : ~(bits > size')
      BY <1>0, <3>1 DEF Bits
    <3> QED BY <2>0, <3>1, <3>2 DEF Shares
  <2>5. CASE FreeReserve
    <3>1. Bytes(reserve') = 0 /\ utPc' # "reserve" /\ ~InDriver("tests")'
      BY <2>5, BytesEmpty DEF FreeReserve, InDriver, Running
    <3> QED BY <1>0, <2>0, <3>1 DEF Shares
  <2>6. CASE Prepare \/ NextTest \/ CopyCap \/ Spawn \/ AddUntyped \/ EndTest
    <3>1. utPc' \notin {"reserve", "tests"} /\ reserve' = reserve
      <4>1. CASE Prepare
        BY <4>1 DEF Prepare, InDriver
      <4>2. CASE NextTest
        BY <4>2 DEF NextTest, InDriver
      <4>3. CASE CopyCap
        BY <4>3 DEF CopyCap, InDriver
      <4>4. CASE Spawn
        BY <4>4 DEF Spawn, InDriver
      <4>5. CASE AddUntyped \/ EndTest
        BY <4>5 DEF AddUntyped, EndTest, InDriver
      <4> QED BY <2>6, <4>1, <4>2, <4>3, <4>4, <4>5
    <3>2. ~InDriver("tests")'
      BY <3>1 DEF InDriver
    <3> QED BY <2>0, <3>1, <3>2 DEF Shares
  <2> QED BY <1>2, <2>1, <2>2, <2>3, <2>4, <2>5, <2>6 DEF UtNext
<1> QED BY <1>1, <1>2 DEF Next, vars, bodyVars

(* For any memory: the driver's reserve never exceeds what is asked for it, *)
(* and when the tests' share is complete no block larger than a page is     *)
(* left, unless the list was full; the sum may overflow the word meanwhile. *)
THEOREM MemoryIsShared == Roomy => (Spec => []AllocationMaximal)
<1> SUFFICES ASSUME Roomy PROVE Spec => []AllocationMaximal
  OBVIOUS
<1>1. UtInv /\ Shares => AllocationMaximal
  <2> SUFFICES ASSUME UtInv, Shares PROVE AllocationMaximal
    OBVIOUS
  <2>1. PageBits \in Bits /\ size \in Bits /\ WordBits \in Nat
    BY UntypedsAssumption DEF UtInv, UtTypeOK
  <2>2. ASSUME InDriver("tests"), size <= PageBits, Len(untypeds) < ListSize,
               NEW bits \in PageBits + 1 .. WordBits - 1
        PROVE  pool[bits] = 0
    <3>1. bits \in Bits /\ bits > size
      BY <2>1, <2>2 DEF Bits
    <3> QED BY <2>2, <3>1 DEF Shares
  <2> QED BY <2>2 DEF AllocationMaximal, Shares
<1> QED BY <1>1, SharesStart, SharesStep, UntypedsAlways, PTL DEF Spec

-----------------------------------------------------------------------------
(* keyboard3.                                                               *)

(* After the flush the bytes on the wire lead the driver back to its normal *)
(* state, and as long as a round goes on polling it has no event in hand.   *)
K3Inv ==
  /\ K3TypeOK
  /\ k3Pc = "flush" => /\ kb = Normal /\ wire \in Seq([byte : Byte, says : {NoEvent}])
  /\ k3Pc # "flush" => Leads(kb, wire)
  /\ k3Pc # "report" => ev = NoEvent

LEMMA K3Start == Init => K3Inv
<1> SUFFICES ASSUME Init
             PROVE  K3Inv
  OBVIOUS
<1>1. /\ k3Pc = "flush" /\ kb = Normal /\ ev = NoEvent /\ extmode = FALSE /\ printed = NoEvent
      /\ typed = 0 /\ wire \in Seq([byte : Byte, says : {NoEvent}])
  BY Keyboard3Assumption DEF Init, K3Init
<1>2. wire \in Seq([byte : Byte, says : Event \union {NoEvent}])
  BY <1>1, SeqMonotonic
<1>3. kb \in State
  BY <1>1, NormalIsState
<1>4. K3TypeOK
  <2>1. typed \in 0 .. Typing
    BY <1>1, Keyboard3Assumption
  <2>2. extmode \in BOOLEAN /\ k3Pc \in {"flush"}
    BY <1>1, Zenon
  <2>3. ev \in Event \union {NoEvent} /\ printed \in Event \union {NoEvent}
    BY <1>1
  <2> QED BY <1>2, <1>3, <2>1, <2>2, <2>3 DEF K3TypeOK
<1> QED BY <1>1, <1>4 DEF K3Inv

(* A poll: what it takes off the wire it has in hand, and with an event in  *)
(* hand the decoder is behind no prefix.                                    *)
LEMMA K3Poll ==
  ASSUME K3Inv, k3Pc \in {"first", "second", "third"}, PollByte \/ PollNothing
  PROVE  /\ wire' \in Seq([byte : Byte, says : Event \union {NoEvent}])
         /\ kb' \in State /\ ev' \in Event \union {NoEvent} /\ Leads(kb', wire')
         /\ ev' # NoEvent => ~kb'.extended /\ ~kb'.release
         /\ Meant(wire) = IF ev' = NoEvent THEN Meant(wire') ELSE <<ev'>> \o Meant(wire')
<1>1. /\ wire \in Seq(Item) /\ kb \in State /\ ev = NoEvent /\ Leads(kb, wire)
  BY DEF K3Inv, K3TypeOK, Item, Told
<1>2. CASE PollNothing
  BY <1>1, <1>2 DEF PollNothing, Item, Told
<1>3. CASE PollByte
  <2> DEFINE r == Push(kb, Head(wire).byte)
  <2>1. wire # <<>> /\ wire' = Tail(wire) /\ kb' = r.next /\ ev' = r.ev
    BY <1>3 DEF PollByte
  <2>2. Head(wire) \in Item /\ Tail(wire) \in Seq(Item)
    BY <1>1, <2>1, HeadTailProperties
  <2>3. Head(wire).byte \in Byte
    BY <2>2 DEF Item
  <2>4. r.next \in State /\ r.ev \in Told
    BY <1>1, <2>3, PushTypes
  <2>5. Leads(r.next, Tail(wire)) /\ r.ev = Head(wire).says
    BY <1>1, <2>1, PathShrinks
  <2>6. r.ev # NoEvent => ~r.next.extended /\ ~r.next.release
    BY <1>1, <2>3, EventEndsCode
  <2>7. Meant(wire) = IF Head(wire).says = NoEvent THEN Meant(Tail(wire))
                      ELSE <<Head(wire).says>> \o Meant(Tail(wire))
    BY <1>1, <2>1, MeantTail
  <2> HIDE DEF r
  <2> QED BY <2>1, <2>2, <2>4, <2>5, <2>6, <2>7 DEF Item, Told
<1> QED BY <1>2, <1>3

LEMMA K3Step == TableRight /\ K3Inv /\ [Next]_vars => K3Inv'
<1> SUFFICES ASSUME TableRight, K3Inv, [Next]_vars
             PROVE  K3Inv'
  OBVIOUS
<1> DEFINE Items == Seq([byte : Byte, says : Event \union {NoEvent}])
<1>0. Items = Seq(Item)
  BY DEF Item, Told
<1>1. CASE UNCHANGED k3Vars
  BY <1>1 DEF k3Vars, K3Inv, K3TypeOK
<1>2. CASE FlushByte
  <2>1. kb = Normal /\ wire \in Seq([byte : Byte, says : {NoEvent}])
    BY <1>2 DEF FlushByte, InK3, K3Inv
  <2>2. CASE wire # <<>> /\ wire' = Tail(wire) /\ UNCHANGED k3Pc
    <3>1. wire' \in Seq([byte : Byte, says : {NoEvent}])
      BY <2>1, <2>2, HeadTailProperties
    <3>2. wire' \in Items
      BY <3>1, SeqMonotonic
    <3> QED BY <1>2, <2>1, <2>2, <3>1, <3>2 DEF FlushByte, InK3, K3Inv, K3TypeOK
  <2>3. CASE wire = <<>> /\ k3Pc' = "first" /\ UNCHANGED wire
    <3>1. Leads(kb', wire')
      BY <1>2, <2>1, <2>3, PathEmpty DEF FlushByte
    <3> QED BY <1>2, <2>1, <2>3, <3>1 DEF FlushByte, InK3, K3Inv, K3TypeOK
  <2> QED BY <1>2, <2>2, <2>3 DEF FlushByte
<1>3. CASE FirstPoll \/ SecondPoll \/ ThirdPoll
  <2>1. k3Pc \in {"first", "second", "third"} /\ (PollByte \/ PollNothing)
    BY <1>3 DEF FirstPoll, SecondPoll, ThirdPoll, InK3
  <2>2. /\ wire' \in Items /\ kb' \in State /\ ev' \in Event \union {NoEvent} /\ Leads(kb', wire')
        /\ ev' # NoEvent => ~kb'.extended /\ ~kb'.release
    BY <2>1, K3Poll
  <2>3. /\ k3Pc' \in {"second", "third", "report"} /\ (k3Pc' # "report" => ev' = NoEvent)
        /\ extmode' \in BOOLEAN /\ UNCHANGED <<printed, typed>>
    <3>1. kb'.extended \in BOOLEAN /\ extmode \in BOOLEAN
      BY <2>2 DEF State, K3Inv, K3TypeOK
    <3> QED BY <1>3, <2>2, <3>1 DEF FirstPoll, SecondPoll, ThirdPoll, ThirdNeeded
  <2> HIDE DEF Items
  <2> QED BY <2>2, <2>3 DEF K3Inv, K3TypeOK, Items
<1>4. CASE Report
  BY <1>4 DEF Report, InK3, K3Inv, K3TypeOK
<1>5. ASSUME NEW packet \in Packets, TypeKey(packet)
      PROVE  K3Inv'
  <2>1. /\ wire' = wire \o packet /\ k3Pc # "flush" /\ typed < Typing /\ typed' = typed + 1
        /\ UNCHANGED <<k3Pc, kb, ev, extmode, printed>>
    BY <1>5 DEF TypeKey
  <2>2. packet \in Seq(Item) /\ Leads(Normal, packet)
    BY PacketsAreClean DEF Clean
  <2>3. wire \in Seq(Item) /\ Leads(kb, wire)
    BY <1>0, <2>1 DEF K3Inv, K3TypeOK
  <2>4. wire' \in Items /\ Leads(kb, wire')
    BY <1>0, <2>1, <2>2, <2>3, PathGrows, ConcatProperties
  <2>5. typed' \in 0 .. Typing
    BY <2>1, Keyboard3Assumption DEF K3Inv, K3TypeOK
  <2> HIDE DEF Items
  <2> QED BY <2>1, <2>4, <2>5 DEF K3Inv, K3TypeOK, Items
<1> QED
  BY <1>1, <1>2, <1>3, <1>4, <1>5 DEF Next, vars, bodyVars, K3Next, CheckKeyboard1

LEMMA K3StartReports == Init => KE!Init
<1> SUFFICES ASSUME Init
             PROVE  KE!Init
  OBVIOUS
<1>1. ev = NoEvent /\ printed = NoEvent /\ wire \in Seq([byte : Byte, says : {NoEvent}])
  BY Keyboard3Assumption DEF Init, K3Init
<1>2. wire \in Seq(Item)
  <2>1. [byte : Byte, says : {NoEvent}] \subseteq Item
    BY DEF Item, Told
  <2> QED BY <1>1, <2>1, SeqMonotonic
<1>3. Meant(wire) = <<>>
  <2>1. \A i \in 1 .. Len(wire) : wire[i] \in [byte : Byte, says : {NoEvent}]
    BY <1>1, ElementOfSeq
  <2> QED BY <1>2, <2>1, MeantNothing
<1> QED BY <1>1, <1>3 DEF KE!Init

(* A step, seen as one of KeyEvents: what is typed is added, what is        *)
(* reported is taken; the flush and the polls change nothing.               *)
LEMMA K3StepReports == TableRight /\ K3Inv /\ [Next]_vars => [KE!Next]_(KE!vars)
<1> SUFFICES ASSUME TableRight, K3Inv, [Next]_vars
             PROVE  [KE!Next]_(KE!vars)
  OBVIOUS
<1>0. /\ wire \in Seq(Item) /\ Meant(wire) \in Seq(Event) /\ (ev # NoEvent => ev \in Event)
  BY MeantType DEF K3Inv, K3TypeOK, Item, Told
<1>1. CASE UNCHANGED k3Vars
  BY <1>1 DEF k3Vars, KE!vars
<1>2. CASE FlushByte
  <2>1. wire \in Seq([byte : Byte, says : {NoEvent}]) /\ UNCHANGED <<ev, printed>>
    BY <1>2 DEF FlushByte, InK3, K3Inv
  <2>2. Meant(wire') = Meant(wire)
    <3>1. CASE wire # <<>> /\ wire' = Tail(wire)
      <4>1. Head(wire) \in [byte : Byte, says : {NoEvent}]
        BY <2>1, <3>1, HeadTailProperties
      <4> QED BY <1>0, <3>1, <4>1, MeantTail
    <3>2. CASE UNCHANGED wire
      BY <3>2
    <3> QED BY <1>2, <3>1, <3>2 DEF FlushByte
  <2> QED BY <2>1, <2>2 DEF KE!vars
<1>3. CASE FirstPoll \/ SecondPoll \/ ThirdPoll
  <2>1. /\ k3Pc \in {"first", "second", "third"} /\ (PollByte \/ PollNothing)
        /\ UNCHANGED printed
    BY <1>3 DEF FirstPoll, SecondPoll, ThirdPoll, InK3
  <2>2. ev = NoEvent
    BY <2>1 DEF K3Inv
  <2>3. Meant(wire) = IF ev' = NoEvent THEN Meant(wire') ELSE <<ev'>> \o Meant(wire')
    BY <2>1, K3Poll
  <2> QED BY <2>1, <2>2, <2>3 DEF KE!vars
<1>4. CASE Report
  <2>1. printed' = ev /\ ev' = NoEvent /\ wire' = wire
    BY <1>4 DEF Report
  <2>2. CASE ev = NoEvent
    BY <2>1, <2>2 DEF KE!Nothing, KE!Next
  <2>3. CASE ev # NoEvent
    <3>1. /\ <<ev>> \o Meant(wire) # <<>> /\ Head(<<ev>> \o Meant(wire)) = ev
          /\ Tail(<<ev>> \o Meant(wire)) = Meant(wire)
      BY <1>0, <2>3, TakenFirst
    <3> QED BY <2>1, <2>3, <3>1 DEF KE!Take, KE!Next
  <2> QED BY <2>2, <2>3
<1>5. ASSUME NEW packet \in Packets, TypeKey(packet)
      PROVE  [KE!Next]_(KE!vars)
  <2>1. wire' = wire \o packet /\ UNCHANGED <<ev, printed>>
    BY <1>5 DEF TypeKey
  <2>2. Meant(wire') = Meant(wire) \o Meant(packet)
    BY <1>0, <2>1, PacketsAreClean, MeantConcat DEF Clean
  <2>3. CASE Meant(packet) = <<>>
    <3>1. Meant(wire') = Meant(wire)
      BY <1>0, <2>2, <2>3, ConcatEmptySeq
    <3> QED BY <2>1, <3>1 DEF KE!vars
  <2>4. CASE \E e \in Event : Meant(packet) = <<e>>
    <3>1. PICK e \in Event : Meant(packet) = <<e>>
      BY <2>4
    <3>2. Meant(wire') = Append(Meant(wire), e)
      BY <1>0, <2>2, <3>1, AppendIsConcat
    <3>3. CASE ev = NoEvent
      BY <2>1, <3>2, <3>3 DEF KE!Type, KE!Next
    <3>4. CASE ev # NoEvent
      <4>1. <<ev>> \in Seq(Event)
        BY <1>0, <3>4
      <4>2. Append(<<ev>> \o Meant(wire), e) = <<ev>> \o Append(Meant(wire), e)
        BY <1>0, <4>1, ConcatAppend
      <4> QED BY <2>1, <3>2, <3>4, <4>2 DEF KE!Type, KE!Next
    <3> QED BY <3>3, <3>4
  <2> QED BY <2>3, <2>4, PacketMeans
<1> QED
  BY <1>1, <1>2, <1>3, <1>4, <1>5 DEF Next, vars, bodyVars, K3Next, CheckKeyboard1

(* check_keyboard1() of keyboard3 prints every key event, once, in order    *)
(* and with the meaning it was typed with, however many of its polls come   *)
(* before the keyboard's next byte: the second and the third poll, which    *)
(* overwrite ev, are made only when there is no event in it.                *)
THEOREM Keyboard3Reports == TableRight => (Spec => ReportsKeys)
<1> SUFFICES ASSUME TableRight PROVE Spec => ReportsKeys
  OBVIOUS
<1> QED BY K3Start, K3Step, K3StartReports, K3StepReports, PTL DEF Spec, ReportsKeys, KE!Spec

-----------------------------------------------------------------------------
(* The set-ups. An outline of a sequence of calls says what the task can be *)
(* sure to have at every call, if it has H before: what a call needs is     *)
(* among that or among what the task trusts blindly, and what a call gives  *)
(* is sure behind it if the task stops otherwise, or if the call has no     *)
(* result and had what it needs.                                            *)
Gained(c, have0) ==
  IF c.onError = "stop" \/ (c.onError = "never" /\ c.needs \subseteq have0) THEN {c.gives} ELSE {}

Outlined(H, s, G, T, g) ==
  /\ s # <<>> /\ \E S : s \in Seq(S)
  /\ g[1] \subseteq H /\ G \subseteq g[Len(s) + 1]
  /\ \A i \in 1 .. Len(s) : /\ s[i].needs \subseteq g[i] \union T
                            /\ g[i + 1] \subseteq g[i] \union Gained(s[i], g[i])

Outline(H, s, G, T) == \E g : Outlined(H, s, G, T, g)

(* One call.                                                                *)
LEMMA OneCall ==
  ASSUME NEW H, NEW T, NEW c, NEW G, c.needs \subseteq H \union T,
         G \subseteq H \union Gained(c, H)
  PROVE  Outline(H, <<c>>, G, T)
<1> DEFINE s == <<c>>
           g == [i \in 1 .. 2 |-> IF i = 1 THEN H ELSE G]
<1>1. s \in Seq({c}) /\ s # <<>> /\ Len(s) = 1 /\ s[1] = c
  OBVIOUS
<1>2. g[1] = H /\ g[2] = G
  OBVIOUS
<1> HIDE DEF s, g
<1>3. Outlined(H, s, G, T, g)
  BY <1>1, <1>2 DEF Outlined
<1> QED BY <1>3 DEF Outline, s

(* Calls behind others.                                                     *)
LEMMA MoreCalls ==
  ASSUME NEW H, NEW s, NEW G, NEW t, NEW K, NEW T, Outline(H, s, G, T), Outline(G, t, K, T)
  PROVE  Outline(H, s \o t, K, T)
<1>1. PICK f : Outlined(H, s, G, T, f)
  BY DEF Outline
<1>2. PICK g : Outlined(G, t, K, T, g)
  BY DEF Outline
<1> DEFINE n == Len(s)
           r == s \o t
           h == [i \in 1 .. Len(r) + 1 |-> IF i <= n THEN f[i] ELSE g[i - n]]
<1> DEFINE Kept == \E S : r \in Seq(S)
<1>3. /\ n \in Nat \ {0} /\ Len(t) \in Nat \ {0} /\ Kept /\ Len(r) = n + Len(t)
      /\ \A i \in 1 .. Len(r) : r[i] = IF i <= n THEN s[i] ELSE t[i - n]
  <2>1. PICK S1 : s \in Seq(S1)
    BY <1>1 DEF Outlined
  <2>2. PICK S2 : t \in Seq(S2)
    BY <1>2 DEF Outlined
  <2> DEFINE S == S1 \union S2
  <2>3. s \in Seq(S) /\ t \in Seq(S) /\ s # <<>> /\ t # <<>>
    BY <1>1, <1>2, <2>1, <2>2, SeqMonotonic DEF Outlined
  <2> HIDE DEF S
  <2> QED BY <2>3, ConcatProperties, EmptySeq
<1>4. r # <<>>
  BY <1>3, EmptySeq
<1> HIDE DEF r
<1>5. h[1] \subseteq H /\ K \subseteq h[Len(r) + 1]
  <2>1. h[1] = f[1] /\ h[Len(r) + 1] = g[Len(t) + 1]
    BY <1>3
  <2> QED BY <1>1, <1>2, <2>1 DEF Outlined
<1>6. ASSUME NEW i \in 1 .. Len(r)
      PROVE  /\ r[i].needs \subseteq h[i] \union T
             /\ h[i + 1] \subseteq h[i] \union Gained(r[i], h[i])
  <2>1. CASE i < n
    <3>1. r[i] = s[i] /\ h[i] = f[i] /\ h[i + 1] = f[i + 1] /\ i \in 1 .. n
      BY <1>3, <2>1
    <3> QED BY <1>1, <3>1 DEF Outlined
  <2>2. CASE i = n
    <3>1. r[i] = s[i] /\ h[i] = f[i] /\ h[i + 1] = g[1] /\ i \in 1 .. n
      BY <1>3, <2>2
    <3>2. g[1] \subseteq f[i + 1]
      BY <1>1, <1>2, <2>2 DEF Outlined
    <3> QED BY <1>1, <3>1, <3>2 DEF Outlined
  <2>3. CASE i > n
    <3>1. /\ r[i] = t[i - n] /\ h[i] = g[i - n] /\ h[i + 1] = g[(i - n) + 1]
          /\ i - n \in 1 .. Len(t)
      BY <1>3, <2>3
    <3> QED BY <1>2, <3>1 DEF Outlined
  <2> HIDE DEF h
  <2>4. i < n \/ i = n \/ i > n
    BY <1>3
  <2> QED BY <2>1, <2>2, <2>3, <2>4
<1> HIDE DEF h
<1>7. Outlined(H, r, K, T, h)
  BY <1>3, <1>4, <1>5, <1>6 DEF Outlined
<1> QED BY <1>7 DEF Outline, r

(* Calls of each kind, behind s.                                            *)
LEMMA SureCall ==
  ASSUME NEW H, NEW T, NEW gives, NEW needs, needs \subseteq H,
         NEW G, G \subseteq H \union {gives}
  PROVE  Outline(H, <<Sure(gives, needs)>>, G, T)
<1> DEFINE c == Sure(gives, needs)
<1>1. c.needs = needs /\ c.gives = gives /\ c.onError = "never"
  BY DEF Sure, Call
<1> HIDE DEF c
<1> QED BY <1>1, OneCall DEF Gained, c

LEMMA CheckedCall ==
  ASSUME NEW H, NEW T, NEW gives, NEW needs,
         needs \subseteq H \union T, NEW G, G \subseteq H \union {gives}
  PROVE  Outline(H, <<Checked(gives, needs)>>, G, T)
<1> DEFINE c == Checked(gives, needs)
<1>1. c.needs = needs /\ c.gives = gives /\ c.onError = "stop"
  BY DEF Checked, Call
<1> HIDE DEF c
<1> QED BY <1>1, OneCall DEF Gained, c

LEMMA AnyCall ==
  ASSUME NEW H, NEW T, NEW gives, NEW needs,
         needs \subseteq H \union T, NEW error, NEW G, G \subseteq H
  PROVE  Outline(H, <<Call(gives, needs, error)>>, G, T)
<1> DEFINE c == Call(gives, needs, error)
<1>1. c.needs = needs
  BY DEF Call
<1> HIDE DEF c
<1> QED BY <1>1, OneCall DEF c

(* A tuple of calls, one by one.                                            *)
LEMMA NextCall ==
  ASSUME NEW H, NEW s, NEW G, NEW c, NEW K, NEW T, Outline(H, s, G, T), Outline(G, <<c>>, K, T)
  PROVE  Outline(H, Append(s, c), K, T)
<1>1. PICK f : Outlined(H, s, G, T, f)
  BY DEF Outline
<1>3. PICK S : s \in Seq(S)
  BY <1>1 DEF Outlined
<1> DEFINE U == S \union {c}
<1>4. s \in Seq(U) /\ c \in U
  BY <1>3, SeqMonotonic
<1> HIDE DEF U
<1>5. Append(s, c) = s \o <<c>>
  BY <1>4, AppendIsConcat
<1> QED BY <1>5, MoreCalls

(* Tuples of two calls and more.                                            *)
LEMMA TwoCalls ==
  ASSUME NEW T, NEW H, NEW G1, NEW G2,
         NEW a, NEW b,
         Outline(H, <<a>>, G1, T), Outline(G1, <<b>>, G2, T)
  PROVE  Outline(H, <<a, b>>, G2, T)
<1>1. <<a, b>> = Append(<<a>>, b)
  OBVIOUS
<1> QED BY <1>1, NextCall

LEMMA ThreeCalls ==
  ASSUME NEW T, NEW H, NEW G1, NEW G2, NEW G3,
         NEW a, NEW b, NEW c,
         Outline(H, <<a>>, G1, T), Outline(G1, <<b>>, G2, T), Outline(G2, <<c>>, G3, T)
  PROVE  Outline(H, <<a, b, c>>, G3, T)
<1>1. <<a, b, c>> = Append(<<a, b>>, c)
  OBVIOUS
<1>2. Outline(H, <<a, b>>, G2, T)
  BY TwoCalls
<1> QED BY <1>1, <1>2, NextCall

LEMMA FourCalls ==
  ASSUME NEW T, NEW H, NEW G1, NEW G2, NEW G3, NEW G4,
         NEW a, NEW b, NEW c, NEW d,
         Outline(H, <<a>>, G1, T), Outline(G1, <<b>>, G2, T), Outline(G2, <<c>>, G3, T),
         Outline(G3, <<d>>, G4, T)
  PROVE  Outline(H, <<a, b, c, d>>, G4, T)
<1>1. <<a, b, c, d>> = Append(<<a, b, c>>, d)
  OBVIOUS
<1>2. Outline(H, <<a, b, c>>, G3, T)
  BY ThreeCalls
<1> QED BY <1>1, <1>2, NextCall

LEMMA FiveCalls ==
  ASSUME NEW T, NEW H, NEW G1, NEW G2, NEW G3, NEW G4, NEW G5,
         NEW a, NEW b, NEW c, NEW d, NEW e,
         Outline(H, <<a>>, G1, T), Outline(G1, <<b>>, G2, T), Outline(G2, <<c>>, G3, T),
         Outline(G3, <<d>>, G4, T), Outline(G4, <<e>>, G5, T)
  PROVE  Outline(H, <<a, b, c, d, e>>, G5, T)
<1>1. <<a, b, c, d, e>> = Append(<<a, b, c, d>>, e)
  OBVIOUS
<1>2. Outline(H, <<a, b, c, d>>, G4, T)
  BY FourCalls
<1> QED BY <1>1, <1>2, NextCall

LEMMA SixCalls ==
  ASSUME NEW T, NEW H, NEW G1, NEW G2, NEW G3, NEW G4, NEW G5, NEW G6,
         NEW a, NEW b, NEW c, NEW d, NEW e, NEW f,
         Outline(H, <<a>>, G1, T), Outline(G1, <<b>>, G2, T), Outline(G2, <<c>>, G3, T),
         Outline(G3, <<d>>, G4, T), Outline(G4, <<e>>, G5, T), Outline(G5, <<f>>, G6, T)
  PROVE  Outline(H, <<a, b, c, d, e, f>>, G6, T)
<1>1. <<a, b, c, d, e, f>> = Append(<<a, b, c, d, e>>, f)
  OBVIOUS
<1>2. Outline(H, <<a, b, c, d, e>>, G5, T)
  BY FiveCalls
<1> QED BY <1>1, <1>2, NextCall

(* The steps the copies have in common.                                     *)
LEMMA OutlineSimple ==
  ASSUME NEW H, NEW T, NEW K, K \subseteq H \union {"simple"}
  PROVE  Outline(H, Simple, K, T)
BY SureCall DEF Simple

LEMMA OutlineSerial ==
  ASSUME NEW H, NEW T, {"simple", "vka"} \subseteq H, NEW K, K \subseteq H
  PROVE  Outline(H, Serial, K, T)
BY AnyCall DEF Serial, Unchecked

LEMMA OutlineIrqHandler ==
  ASSUME NEW H, NEW T, NEW h, {"simple", "vka"} \subseteq H, NEW K, K \subseteq H \union {h}
  PROVE  Outline(H, IrqHandler(h), K, T)
<1> DEFINE G == H \union {"slot"}
<1>1. Outline(H, <<Checked("slot", {"vka"})>>, G, T)
  BY CheckedCall
<1>2. Outline(G, <<Checked(h, {"slot", "simple"})>>, K, T)
  BY CheckedCall
<1> QED BY <1>1, <1>2, TwoCalls DEF IrqHandler

LEMMA OutlineIoPorts ==
  ASSUME NEW H, NEW T, "simple" \in H, NEW error, NEW K,
         K \subseteq H \union (IF error = "stop" THEN {"ioports"} ELSE {})
  PROVE  Outline(H, IoPorts(error), K, T)
<1>1. CASE error = "stop"
  BY <1>1, CheckedCall DEF IoPorts, Checked
<1>2. CASE error # "stop"
  BY <1>2, AnyCall DEF IoPorts
<1> QED BY <1>1, <1>2

LEMMA OutlineIoOps ==
  ASSUME NEW H, NEW T, {"simple", "vspace", "vka"} \subseteq H \union T,
         NEW K, K \subseteq H
  PROVE  Outline(H, IoOps, K, T)
BY CheckedCall DEF IoOps

LEMMA OutlineAsyncEndpoint ==
  ASSUME NEW H, NEW T, "vka" \in H, NEW K, K \subseteq H \union {"aep"}
  PROVE  Outline(H, AsyncEndpoint, K, T)
BY CheckedCall DEF AsyncEndpoint

LEMMA OutlineStack ==
  ASSUME NEW H, NEW T, "vspace" \in H \union T, NEW K, K \subseteq H
  PROVE  Outline(H, Stack, K, T)
BY CheckedCall DEF Stack

(* init_env() and setup_system(): who drops the error of the vspace trusts  *)
(* that it is there, in the calls behind as well.                           *)
LEMMA OutlineCopies ==
  ASSUME NEW H, NEW T, NEW error, "simple" \in H, error = "stop" \/ "vspace" \in T,
         NEW K, K \subseteq H \union {"vka"} \union (IF error = "stop" THEN {"vspace"} ELSE {})
  PROVE  Outline(H, Environment(error), K, T)
<1> DEFINE G1 == H \union {"allocman"}
           G2 == G1 \union {"vka"}
           G3 == G2 \union (IF error = "stop" THEN {"vspace"} ELSE {})
           G4 == G3 \union {"range"}
           a == Checked("allocman", {"simple"})
           b == Sure("vka", {"allocman"})
           c == Call("vspace", {"simple", "vka"}, error)
           d == Checked("range", {"vspace"})
           e == Sure("pool", {"allocman", "range"})
<1>1. Outline(H, <<a>>, G1, T)
  BY CheckedCall
<1>2. Outline(G1, <<b>>, G2, T)
  BY SureCall
<1>3. Outline(G2, <<c>>, G3, T)
  <2>1. CASE error = "stop"
    BY <2>1, CheckedCall DEF Checked
  <2>2. CASE error # "stop"
    BY <2>2, AnyCall
  <2> QED BY <2>1, <2>2
<1>4. Outline(G3, <<d>>, G4, T)
  BY CheckedCall
<1>5. Outline(G4, <<e>>, K, T)
  BY SureCall
<1>6. Environment(error) = <<a, b, c, d, e>>
  BY DEF Environment
<1> HIDE DEF G1, G2, G3, G4, a, b, c, d, e
<1>7. Outline(H, <<a, b, c, d, e>>, K, T)
  BY <1>1, <1>2, <1>3, <1>4, <1>5, FiveCalls
<1> QED BY <1>6, <1>7


LEMMA OutlineEnvironment ==
  ASSUME NEW H, NEW T, "simple" \in H, NEW K, K \subseteq H \union {"vka", "vspace"}
  PROVE  Outline(H, Environment("stop"), K, T)
BY OutlineCopies

LEMMA OutlineInitEnv ==
  ASSUME NEW H, NEW T, "simple" \in H, "vspace" \in T, NEW K, K \subseteq H \union {"vka"}
  PROVE  Outline(H, Environment("goOn"), K, T)
BY OutlineCopies

(* How every main() begins: the bootinfo and init_env() or setup_system().  *)
LEMMA OutlineSetUp ==
  ASSUME NEW T
  PROVE  /\ "vspace" \in T =>
              Outline({}, Simple \o Environment("goOn"), {"simple", "vka"}, T)
         /\ Outline({}, Simple \o Environment("stop"), {"simple", "vka", "vspace"}, T)
<1>1. Outline({}, Simple, {"simple"}, T)
  BY OutlineSimple
<1>2. ASSUME "vspace" \in T
      PROVE  Outline({"simple"}, Environment("goOn"), {"simple", "vka"}, T)
  BY <1>2, OutlineInitEnv
<1>3. Outline({"simple"}, Environment("stop"), {"simple", "vka", "vspace"}, T)
  BY OutlineEnvironment
<1> QED BY <1>1, <1>2, <1>3, MoreCalls

LEMMA OutlineMain ==
  ASSUME NEW T, "vspace" \in T
  PROVE  Outline({}, Simple \o Environment("goOn") \o Serial, {"simple", "vka"}, T)
<1>1. Outline({"simple", "vka"}, Serial, {"simple", "vka"}, T)
  BY OutlineSerial
<1> QED BY <1>1, OutlineSetUp, MoreCalls

(* The applications that do no more: helloworld, threads, ega, graphics.    *)
LEMMA OutlineShort ==
  ASSUME NEW T, "vspace" \in T, NEW main \in {HelloMain, ThreadsMain, EgaMain, GraphicsMain}
  PROVE  Outline({}, main, {"simple", "vka"}, T)
BY OutlineMain DEF HelloMain, HelloInitEnv, ThreadsMain, ThreadsInitEnv, EgaMain, EgaInitEnv,
   GraphicsMain, GraphicsInitEnv

LEMMA OutlineLoadData ==
  ASSUME NEW T, "vspace" \in T
  PROVE  Outline({}, LoadDataMain, {"simple", "vka"}, T)
<1> DEFINE H == {"simple", "vka"}
<1>1. \A f : Outline(H, ProcessFile(f), H, T)
  BY AnyCall DEF ProcessFile, Unchecked
<1>2. Outline({}, Simple \o Environment("goOn") \o Serial, H, T)
  BY OutlineMain
<1> HIDE DEF H
<1> DEFINE start == Simple \o Environment("goOn") \o Serial
<1>3. LoadDataMain = start \o ProcessFile("file1") \o ProcessFile("file2")
  BY DEF LoadDataMain, LoadDataInitEnv
<1> HIDE DEF start
<1>4. Outline({}, start, H, T)
  BY <1>2 DEF start
<1>5. Outline({}, start \o ProcessFile("file1"), H, T)
  BY <1>1, <1>4, MoreCalls
<1>6. Outline({}, start \o ProcessFile("file1") \o ProcessFile("file2"), H, T)
  BY <1>1, <1>5, MoreCalls
<1> QED BY <1>3, <1>6 DEF H


(* loaddata2 trusts the two files it opens for writing and reads again.     *)
LEMMA OutlineLoadData2 ==
  ASSUME NEW T, {"vspace", "writable", "reopened"} \subseteq T
  PROVE  Outline({}, LoadData2Main, {}, T)
<1> DEFINE H == {"simple", "vka"}
           F == {"file"}
           start == Simple \o Environment("goOn") \o Serial
           a == Checked("file", {})
           b == Sure("text", {"file"})
           c == Unchecked("writable", {})
           d == Sure("fputc", {"writable"})
           e == Unchecked("reopened", {})
           f == Sure("fgetc", {"reopened"})
<1>1. Outline({}, start, H, T)
  BY OutlineMain
<1>2. Outline(H, <<a>>, F, T) /\ Outline(F, <<b>>, F, T)
  BY CheckedCall, SureCall
<1>3. Outline(F, <<c>>, F, T) /\ Outline(F, <<e>>, F, T)
  BY AnyCall DEF Unchecked
<1>4. Outline(F, <<d>>, F, T) /\ Outline(F, <<f>>, {}, T)
  BY AnyCall DEF Sure
<1>5. LoadData2Main = start \o <<a, b, c, d, e, f>>
  BY DEF LoadData2Main, LoadData2InitEnv
<1> HIDE DEF H, F, start, a, b, c, d, e, f
<1>6. Outline(H, <<a, b, c, d, e, f>>, {}, T)
  BY <1>2, <1>3, <1>4, SixCalls
<1> QED BY <1>1, <1>5, <1>6, MoreCalls

(* keyboard and keyboard2 drop the error of the I/O ports as well.          *)
LEMMA OutlineKeyboards ==
  ASSUME NEW T, {"vspace", "ioports"} \subseteq T
  PROVE  Outline({}, KeyboardMain, {}, T) /\ Outline({}, Keyboard2Main, {}, T)
<1> DEFINE H == {"simple", "vka"}
           K == {"simple", "vka", "keyboard"}
           K1 == {"simple", "vka", "keyboard", "handler"}
           K2 == {"keyboard", "handler", "irqEP"}
           start == Simple \o Environment("goOn") \o Serial \o IoPorts("goOn")
           open == <<Checked("keyboard", {"ioports"})>>
           a == Checked("irqEP", {})
           b == Checked("bound", {"handler", "irqEP"})
           c == Sure("read", {"keyboard"})
           d == Checked("acked", {"handler"})
<1>1. Outline({}, start, H, T)
  BY OutlineMain, OutlineIoPorts, MoreCalls
<1>2. Outline(H, open, K, T)
  BY CheckedCall
<1>3. Outline({}, KeyboardMain, {}, T)
  <2> DEFINE t == Sure("typing", {"keyboard"})
  <2>1. Outline(K, <<t>>, {}, T)
    BY SureCall
  <2>2. Outline(H, <<Checked("keyboard", {"ioports"}), t>>, {}, T)
    BY <1>2, <2>1, TwoCalls
  <2>3. KeyboardMain = start \o <<Checked("keyboard", {"ioports"}), t>>
    BY DEF KeyboardMain, KeyboardInitEnv
  <2> QED BY <1>1, <2>2, <2>3, MoreCalls
<1>4. Outline({}, Keyboard2Main, {}, T)
  <2>1. Outline(K, IrqHandler("handler"), K1, T)
    BY OutlineIrqHandler
  <2>2. Outline(K1, <<a>>, K2, T) /\ Outline(K2, <<b>>, K2, T) /\ Outline(K2, <<d>>, {}, T)
    BY CheckedCall
  <2>3. Outline(K2, <<c>>, K2, T)
    BY SureCall
  <2>4. Keyboard2HandleIrq = IrqHandler("handler") \o <<a, b, c, d>>
    BY DEF Keyboard2HandleIrq, Keyboard2Caps
  <2>5. Keyboard2Main = start \o open \o Keyboard2HandleIrq
    BY DEF Keyboard2Main, Keyboard2InitEnv
  <2> HIDE DEF H, K, K1, K2, start, open, a, b, c, d
  <2>6. Outline(K1, <<a, b, c, d>>, {}, T)
    BY <2>2, <2>3, FourCalls
  <2>7. Outline(K, Keyboard2HandleIrq, {}, T)
    BY <2>1, <2>4, <2>6, MoreCalls
  <2>8. Outline({}, start \o open, K, T)
    BY <1>1, <1>2, MoreCalls
  <2> QED BY <2>5, <2>7, <2>8, MoreCalls
<1> QED BY <1>3, <1>4

(* keyboard3 and keyboard4 check everything.                                *)
LEMMA OutlineKeyboardBases ==
  ASSUME NEW T
  PROVE  Outline({}, Keyboard3Main, {}, T) /\ Outline({}, Keyboard4Main, {}, T)
<1> DEFINE H == {"simple", "vka", "vspace"}
           I == {"simple", "vka", "ioports"}
           K1 == {"simple", "vka", "ioports", "handler"}
           K2 == {"ioports", "handler", "aep"}
           start == Simple \o Environment("stop") \o IoPorts("stop")
           open == <<Checked("keyboard", {"ioports"})>>
           a == Checked("bound", {"handler", "aep"})
           b == Sure("flushed", {"ioports"})
           c == Checked("acked", {"handler"})
           initialise == open \o IrqHandler("handler") \o AsyncEndpoint \o <<a, b, c>>
<1>1. Outline({}, start, I, T)
  <2>1. Outline(H, IoPorts("stop"), I, T)
    BY OutlineIoPorts
  <2> QED BY <2>1, OutlineSetUp, MoreCalls
<1>2. Outline(I, Serial, I, T)
  BY OutlineSerial
<1>3. Outline(I, open, I, T)
  BY CheckedCall
<1>4. Outline(I, IrqHandler("handler"), K1, T)
  BY OutlineIrqHandler
<1>5. Outline(K1, AsyncEndpoint, K2, T)
  BY OutlineAsyncEndpoint
<1>6. Outline(K2, <<a>>, K2, T) /\ Outline(K2, <<c>>, {}, T)
  BY CheckedCall
<1>7. Outline(K2, <<b>>, K2, T)
  BY SureCall
<1>8. Keyboard3Main = start \o Serial \o initialise /\ Keyboard4Main = start \o Serial \o initialise
  BY DEF Keyboard3Main, Keyboard3Setup, Keyboard3Init, Keyboard3Irq,
         Keyboard4Main, Keyboard4Setup, Keyboard4Init, Keyboard4Irq
<1> HIDE DEF H, I, K1, K2, start, open, a, b, c
<1>9. Outline(K2, <<a, b, c>>, {}, T)
  BY <1>6, <1>7, ThreeCalls
<1>10. Outline(I, open \o IrqHandler("handler"), K1, T)
  BY <1>3, <1>4, MoreCalls
<1>11. Outline(I, open \o IrqHandler("handler") \o AsyncEndpoint, K2, T)
  BY <1>5, <1>10, MoreCalls
<1>12. Outline(I, initialise, {}, T)
  BY <1>9, <1>11, MoreCalls
<1> HIDE DEF initialise
<1>13. Outline({}, start \o Serial, I, T)
  BY <1>1, <1>2, MoreCalls
<1> QED BY <1>8, <1>12, <1>13, MoreCalls


(* multiirqs drops the error of the I/O ports only; each of its devices has *)
(* an endpoint and a handler of its own.                                    *)
LEMMA OutlineSetDevEp ==
  ASSUME NEW T, NEW dev, NEW ep, NEW h, NEW H, {"simple", "vka", dev, ep} \subseteq H
  PROVE  Outline(H, SetDevEp(dev, ep, h), H, T)
<1> DEFINE K == H \union {h}
           a == Checked("bound", {h, ep})
           b == Sure("read", {dev})
           c == Checked("acked", {h})
<1>1. Outline(H, IrqHandler(h), K, T)
  BY OutlineIrqHandler
<1>2. Outline(K, <<a>>, K, T) /\ Outline(K, <<c>>, H, T)
  BY CheckedCall
<1>3. Outline(K, <<b>>, K, T)
  BY SureCall
<1>4. SetDevEp(dev, ep, h) = IrqHandler(h) \o <<a, b, c>>
  BY DEF SetDevEp, MultiIrqsHandler
<1> HIDE DEF K, a, b, c
<1>5. Outline(K, <<a, b, c>>, H, T)
  BY <1>2, <1>3, ThreeCalls
<1> QED BY <1>1, <1>4, <1>5, MoreCalls

LEMMA OutlineMultiIrqs ==
  ASSUME NEW T, "ioports" \in T
  PROVE  Outline({}, MultiIrqsMain, {}, T)
<1> DEFINE H == {"simple", "vka"}
           D1 == H \union {"serial1"}
           D2 == D1 \union {"serial2"}
           D3 == D2 \union {"keyboard"}
           E0 == D3 \union {"aep"}
           E1 == E0 \union {"ep1"}
           E2 == E1 \union {"ep2"}
           E3 == E2 \union {"ep3"}
           start == Simple \o Environment("stop") \o Serial \o IoPorts("goOn")
           d1 == Checked("serial1", {"ioports"})
           d2 == Checked("serial2", {"ioports"})
           d3 == Checked("keyboard", {"ioports"})
           e1 == Checked("ep1", {"vka", "aep"})
           e2 == Checked("ep2", {"vka", "aep"})
           e3 == Checked("ep3", {"vka", "aep"})
           s1 == SetDevEp("serial1", "ep1", "handler1")
           s2 == SetDevEp("serial2", "ep2", "handler2")
           s3 == SetDevEp("keyboard", "ep3", "handler3")
<1>1. Outline({}, start, H, T)
  <2> DEFINE V == {"simple", "vka", "vspace"}
  <2>1. Outline(V, Serial, V, T) /\ Outline(V, IoPorts("goOn"), H, T)
    BY OutlineSerial, OutlineIoPorts
  <2>2. Outline({}, Simple \o Environment("stop") \o Serial, V, T)
    BY <2>1, OutlineSetUp, MoreCalls
  <2> QED BY <2>1, <2>2, MoreCalls
<1>2. Outline(H, <<d1>>, D1, T) /\ Outline(D1, <<d2>>, D2, T) /\ Outline(D2, <<d3>>, D3, T)
  BY CheckedCall
<1>3. Outline(D3, AsyncEndpoint, E0, T)
  BY OutlineAsyncEndpoint
<1>4. Outline(E0, <<e1>>, E1, T) /\ Outline(E1, <<e2>>, E2, T) /\ Outline(E2, <<e3>>, E3, T)
  BY CheckedCall
<1>5. Outline(E3, s1, E3, T) /\ Outline(E3, s2, E3, T) /\ Outline(E3, s3, E3, T)
  BY OutlineSetDevEp
<1>6. Outline(H, <<d1, d2, d3>>, D3, T) /\ Outline(E0, <<e1, e2, e3>>, E3, T)
  <2> HIDE DEF H, D1, D2, D3, E0, E1, E2, E3, d1, d2, d3, e1, e2, e3
  <2> QED BY <1>2, <1>4, ThreeCalls
<1>7. MultiIrqsMain = start \o <<d1, d2, d3>> \o AsyncEndpoint \o <<e1, e2, e3>>
                        \o s1 \o s2 \o s3
  BY DEF MultiIrqsMain, MultiIrqsSetup
<1> HIDE DEF H, D1, D2, D3, E0, E1, E2, E3, d1, d2, d3, e1, e2, e3, s1, s2, s3, start
<1>8. Outline({}, start \o <<d1, d2, d3>> \o AsyncEndpoint, E0, T)
  BY <1>1, <1>3, <1>6, MoreCalls
<1> DEFINE r == start \o <<d1, d2, d3>> \o AsyncEndpoint \o <<e1, e2, e3>>
<1>9. Outline({}, r, E3, T)
  BY <1>6, <1>8, MoreCalls
<1> HIDE DEF r
<1>10. Outline({}, r \o s1 \o s2, E3, T)
  BY <1>5, <1>9, MoreCalls
<1>11. Outline({}, r \o s1 \o s2 \o s3, E3, T)
  BY <1>5, <1>10, MoreCalls
<1>12. Outline({}, MultiIrqsMain, E3, T)
  BY <1>7, <1>11 DEF r
<1>13. ASSUME NEW s, NEW G, Outline({}, s, G, T)
       PROVE  Outline({}, s, {}, T)
  BY <1>13 DEF Outline, Outlined
<1> QED BY <1>12, <1>13

LEMMA OutlineBadges ==
  ASSUME NEW T
  PROVE  Outline({}, BadgesMain, {}, T)
<1> DEFINE H == {"simple", "vka", "vspace"}
           K == {"simple", "vka", "aep"}
           K1 == {"vka", "aep", "epb1"}
           K2 == {"aep", "epb1", "epb2"}
           a == Checked("epb1", {"vka", "aep"})
           b == Checked("epb2", {"vka", "aep"})
           c == Sure("notified1", {"epb1"})
           d == Sure("notified2", {"epb2"})
           e == Sure("senderBadge", {"aep"})
<1>1. Outline({}, Simple, {"simple"}, T)
  BY OutlineSimple
<1>2. Outline({"simple"}, Environment("stop"), H, T)
  BY OutlineEnvironment
<1>3. Outline(H, AsyncEndpoint, K, T) /\ Outline(K, Serial, K, T)
  BY OutlineAsyncEndpoint, OutlineSerial
<1>4. Outline(K, <<a>>, K1, T) /\ Outline(K1, <<b>>, K2, T)
  BY CheckedCall
<1>5. Outline(K2, <<c>>, K2, T) /\ Outline(K2, <<d>>, K2, T) /\ Outline(K2, <<e>>, {}, T)
  BY SureCall
<1>6. TestEP = <<a, b, c, d, e>>
  BY DEF TestEP
<1> HIDE DEF H, K, K1, K2, a, b, c, d, e
<1>7. Outline(K, TestEP, {}, T)
  BY <1>4, <1>5, <1>6, FiveCalls
<1>8. Outline({}, Simple \o BadgesInitEnv, K, T)
  BY <1>1, <1>2, <1>3, MoreCalls DEF BadgesInitEnv
<1>9. Outline({}, Simple \o BadgesInitEnv \o Serial, K, T)
  BY <1>3, <1>8, MoreCalls
<1> QED BY <1>7, <1>9, MoreCalls DEF BadgesMain

(* The graphics modes: ega2 and graphics2 need the vspace for the I/O       *)
(* operations, graphics3 for its stack too, and that one has checked it.    *)
LEMMA OutlineGraphics ==
  ASSUME NEW T
  PROVE  /\ "vspace" \in T => Outline({}, Ega2Main, {}, T) /\ Outline({}, Graphics2Main, {}, T)
         /\ Outline({}, Graphics3Main, {}, T)
<1> DEFINE S == {"simple"}
           H == {"simple", "vka"}
           V == {"simple", "vka", "vspace"}
           vbe == <<Checked("vbe", {})>>
<1>1. Outline({}, Simple, S, T) /\ Outline({}, vbe, {}, T)
  BY OutlineSimple, CheckedCall
<1>2. Outline({}, vbe \o Simple, S, T)
  BY <1>1, MoreCalls
<1>3. Outline(S, Environment("stop"), V, T)
  BY OutlineEnvironment
<1>4. Outline(V, IoOps, V, T) /\ Outline(V, Serial, V, T) /\ Outline(V, Stack, {}, T)
  BY OutlineIoOps, OutlineSerial, OutlineStack
<1>5. ASSUME "vspace" \in T
      PROVE  Outline(S, Environment("goOn"), H, T) /\ Outline(H, IoOps, H, T)
  BY <1>5, OutlineInitEnv, OutlineIoOps
<1>6. Outline(H, Serial, {}, T)
  BY OutlineSerial
<1> HIDE DEF S, H, V, vbe
<1>7. Outline({}, Graphics3Main, {}, T)
  <2>1. Outline({}, vbe \o Simple \o Environment("stop") \o IoOps, V, T)
    BY <1>2, <1>3, <1>4, MoreCalls
  <2> DEFINE r == vbe \o Simple \o Environment("stop") \o IoOps
  <2>2. Graphics3Main = r \o Serial \o Stack
    BY DEF Graphics3Main, Graphics3Setup, vbe
  <2> HIDE DEF r
  <2>3. Outline({}, r \o Serial, V, T)
    BY <1>4, <2>1, MoreCalls DEF r
  <2> QED BY <1>4, <2>2, <2>3, MoreCalls
<1>8. ASSUME "vspace" \in T
      PROVE  Outline({}, Ega2Main, {}, T)
  <2>1. Outline(S, Environment("goOn") \o IoOps, H, T)
    BY <1>5, <1>8, MoreCalls
  <2>2. Outline({}, Simple \o Ega2InitEnv, H, T)
    BY <1>1, <2>1, MoreCalls DEF Ega2InitEnv
  <2> QED BY <1>6, <2>2, MoreCalls DEF Ega2Main
<1>9. ASSUME "vspace" \in T
      PROVE  Outline({}, Graphics2Main, {}, T)
  <2>1. Outline({}, vbe \o Simple \o Environment("goOn"), H, T)
    BY <1>2, <1>5, <1>9, MoreCalls
  <2>2. Outline({}, vbe \o Simple \o Environment("goOn") \o IoOps, H, T)
    BY <1>5, <1>9, <2>1, MoreCalls
  <2> QED BY <1>6, <2>2, MoreCalls DEF Graphics2Main, Graphics2InitEnv, vbe
<1> QED BY <1>7, <1>8, <1>9

LEMMA OutlineTimer ==
  ASSUME NEW T
  PROVE  Outline({}, TimerMain, {}, T)
<1> DEFINE V == {"simple", "vka", "vspace"}
           A == {"simple", "vka", "vspace", "aep"}
           K == {"timer"}
           a == Checked("timer", {"vka", "vspace", "simple", "aep"})
           b == Checked("tsc", {"timer"})
<1>1. Outline({}, TimerSetup, V, T)
  BY OutlineSetUp DEF TimerSetup
<1>2. Outline(V, Serial, V, T) /\ Outline(V, AsyncEndpoint, A, T)
  BY OutlineSerial, OutlineAsyncEndpoint
<1>3. Outline(A, <<a>>, K, T) /\ Outline(K, <<b>>, {}, T)
  BY CheckedCall
<1>4. InitTimers = AsyncEndpoint \o <<a, b>>
  BY DEF InitTimers
<1> HIDE DEF V, A, K, a, b
<1>5. Outline(A, <<a, b>>, {}, T)
  BY <1>3, TwoCalls
<1>6. Outline(V, InitTimers, {}, T)
  BY <1>2, <1>4, <1>5, MoreCalls
<1>7. Outline({}, TimerSetup \o Serial, V, T)
  BY <1>1, <1>2, MoreCalls
<1> QED BY <1>6, <1>7, MoreCalls DEF TimerMain

LEMMA OutlineDriver ==
  ASSUME NEW T, "vspace" \in T
  PROVE  Outline({}, DriverMain, {}, T)
<1>1. Outline({"simple", "vka"}, Stack, {}, T)
  BY OutlineStack
<1> QED BY <1>1, OutlineMain, MoreCalls DEF DriverMain, DriverInitEnv


(* All of them, with what Boot says each trusts.                            *)
LEMMA OutlineEvery == \A a \in Apps : Outline({}, Program[a], {}, Trusting[a])
<1>1. Apps = {"helloworld", "loaddata", "loaddata2", "keyboard", "keyboard2", "keyboard3",
              "keyboard4", "multiirqs", "badges", "threads", "ega", "ega2", "graphics",
              "graphics2", "graphics3", "timer", "driver"}
  BY DEF Apps, Program
<1>2. ASSUME NEW s, NEW G, NEW T, Outline({}, s, G, T)
      PROVE  Outline({}, s, {}, T)
  BY <1>2 DEF Outline, Outlined
<1>3. \A a \in Apps : Trusting[a] =
        (IF a \in {"helloworld", "loaddata", "loaddata2", "keyboard", "keyboard2", "threads",
                   "ega", "ega2", "graphics", "graphics2", "driver"} THEN {"vspace"} ELSE {})
        \union (IF a \in {"keyboard", "keyboard2", "multiirqs"} THEN {"ioports"} ELSE {})
        \union (IF a = "loaddata2" THEN {"writable", "reopened"} ELSE {})
  BY DEF Trusting
<1>4. ASSUME NEW a \in {"helloworld", "threads", "ega", "graphics"}
      PROVE  Outline({}, Program[a], {}, Trusting[a])
  <2>1. Program[a] \in {HelloMain, ThreadsMain, EgaMain, GraphicsMain}
    BY DEF Program
  <2>2. "vspace" \in Trusting[a]
    BY <1>1, <1>3
  <2> QED BY <2>1, <2>2, <1>2, OutlineShort
<1>5. ASSUME NEW a \in {"loaddata", "loaddata2", "driver"}
      PROVE  Outline({}, Program[a], {}, Trusting[a])
  <2>1. "vspace" \in Trusting[a] /\ (a = "loaddata2" => {"writable", "reopened"} \subseteq Trusting[a])
    BY <1>1, <1>3
  <2>2. /\ a = "loaddata"  => Program[a] = LoadDataMain
        /\ a = "loaddata2" => Program[a] = LoadData2Main
        /\ a = "driver"    => Program[a] = DriverMain
    BY DEF Program
  <2> QED BY <2>1, <2>2, <1>2, OutlineLoadData, OutlineLoadData2, OutlineDriver
<1>6. ASSUME NEW a \in {"keyboard", "keyboard2", "keyboard3", "keyboard4", "multiirqs"}
      PROVE  Outline({}, Program[a], {}, Trusting[a])
  <2>1. /\ a \in {"keyboard", "keyboard2"} => {"vspace", "ioports"} \subseteq Trusting[a]
        /\ a = "multiirqs" => "ioports" \in Trusting[a]
    BY <1>1, <1>3
  <2>2. /\ a = "keyboard"  => Program[a] = KeyboardMain
        /\ a = "keyboard2" => Program[a] = Keyboard2Main
        /\ a = "keyboard3" => Program[a] = Keyboard3Main
        /\ a = "keyboard4" => Program[a] = Keyboard4Main
        /\ a = "multiirqs" => Program[a] = MultiIrqsMain
    BY DEF Program
  <2> QED BY <2>1, <2>2, OutlineKeyboards, OutlineKeyboardBases, OutlineMultiIrqs
<1>7. ASSUME NEW a \in {"badges", "ega2", "graphics2", "graphics3", "timer"}
      PROVE  Outline({}, Program[a], {}, Trusting[a])
  <2>1. a \in {"ega2", "graphics2"} => "vspace" \in Trusting[a]
    BY <1>1, <1>3
  <2>2. /\ a = "badges"    => Program[a] = BadgesMain
        /\ a = "ega2"      => Program[a] = Ega2Main
        /\ a = "graphics2" => Program[a] = Graphics2Main
        /\ a = "graphics3" => Program[a] = Graphics3Main
        /\ a = "timer"     => Program[a] = TimerMain
    BY DEF Program
  <2> QED BY <2>1, <2>2, OutlineBadges, OutlineGraphics, OutlineTimer
<1> QED BY <1>1, <1>4, <1>5, <1>6, <1>7

(* The inductive invariant of the set-ups: while the task is at a call, the *)
(* outline holds of what it has.                                            *)
AsOutlined == \E g : Outlined({}, Program[app], {}, Trusting[app], g) /\ g[at] \subseteq have

BtInv ==
  /\ BootTypeOK
  /\ NothingUsedMissing
  /\ life = "boot" => AsOutlined

LEMMA ProgramLength ==
  ASSUME NEW a \in Apps
  PROVE  Len(Program[a]) \in Nat \ {0}
<1>1. PICK g : Outlined({}, Program[a], {}, Trusting[a], g)
  BY OutlineEvery DEF Outline
<1>2. PICK S : Program[a] \in Seq(S) /\ Program[a] # <<>>
  BY <1>1 DEF Outlined
<1> QED BY <1>2, EmptySeq

LEMMA BootStart == Init => BtInv
<1> SUFFICES ASSUME Init PROVE BtInv
  OBVIOUS
<1>1. app \in Apps /\ at = 1 /\ have = {} /\ life = "boot" /\ misused = {}
  BY DEF Init, BootInit
<1>2. Len(Program[app]) \in Nat \ {0}
  BY <1>1, ProgramLength
<1>3. BootTypeOK
  BY <1>1, <1>2 DEF BootTypeOK
<1>4. AsOutlined
  <2>1. PICK g : Outlined({}, Program[app], {}, Trusting[app], g)
    BY <1>1, OutlineEvery DEF Outline
  <2> QED BY <1>1, <2>1 DEF AsOutlined, Outlined
<1> QED BY <1>1, <1>3, <1>4 DEF BtInv, NothingUsedMissing

LEMMA BootKept == BtInv /\ [Next]_vars => BtInv'
<1> SUFFICES ASSUME BtInv, [Next]_vars PROVE BtInv'
  OBVIOUS
<1>1. CASE UNCHANGED bootVars
  BY <1>1 DEF BtInv, BootTypeOK, NothingUsedMissing, AsOutlined, bootVars
<1>2. CASE FbNext \/ ThNext \/ TmNext \/ UtNext \/ K3Next
  <2>1. UNCHANGED <<app, at, have, misused>> /\ (life' = life \/ life' \in Ended)
    BY <1>2, BodiesEnd
  <2> QED BY <2>1 DEF BtInv, BootTypeOK, NothingUsedMissing, AsOutlined, Ended
<1>3. CASE BootNext
  <2> DEFINE n == Len(Program[app])
             T == Trusting[app]
  <2>0. life = "boot" /\ app \in Apps /\ app' = app
    BY <1>3 DEF BootNext, BtInv, BootTypeOK
  <2>1. PICK g : Outlined({}, Program[app], {}, T, g) /\ g[at] \subseteq have
    BY <2>0 DEF BtInv, AsOutlined
  <2>2. n \in Nat \ {0} /\ at \in 1 .. n
    BY <2>0, ProgramLength DEF BtInv, BootTypeOK
  <2>3. /\ Current.needs \subseteq g[at] \union T
        /\ g[at + 1] \subseteq g[at] \union Gained(Current, g[at])
    BY <2>1, <2>2 DEF Outlined, Current
  <2>4. NothingUsedMissing'
    <3>1. misused' = misused \union (Current.needs \ have)
      BY <1>3 DEF BootNext, Missing
    <3> QED BY <2>0, <2>1, <2>3, <3>1 DEF BtInv, NothingUsedMissing
  <2>5. \/ GoOn /\ (have' = have \/ have' = have \union {Current.gives})
        \/ at' = at /\ have' = have /\ life' \in Ended
    BY <1>3 DEF BootNext, CallWorks, CallFails, CallFaults, Ended
  <2>6. BootTypeOK'
    <3> DEFINE Gives(m) == {Program[app][i].gives : i \in 1 .. m - 1}
    <3>1. have \subseteq Gives(at)
      BY DEF BtInv, BootTypeOK
    <3>2. CASE GoOn /\ (have' = have \/ have' = have \union {Current.gives})
      <4>1. at' = at + 1 /\ life' = IF at < n THEN "boot" ELSE IF app \in NoBody THEN "done" ELSE "body"
        BY <3>2 DEF GoOn
      <4>2. Gives(at) \subseteq Gives(at + 1) /\ Current.gives \in Gives(at + 1)
        BY <2>2 DEF Current
      <4>3. have' \subseteq Gives(at + 1)
        BY <3>1, <3>2, <4>2
      <4> QED BY <2>0, <2>2, <4>1, <4>3 DEF BootTypeOK
    <3>3. CASE at' = at /\ have' = have /\ life' \in Ended
      BY <2>0, <3>3 DEF BtInv, BootTypeOK, Ended
    <3> QED BY <2>5, <3>2, <3>3
  <2>7. ASSUME life' = "boot" PROVE AsOutlined'
    <3>1. GoOn /\ at' = at + 1
      BY <2>5, <2>7 DEF GoOn, Ended
    <3>2. g[at + 1] \subseteq have'
      <4>1. CASE CallWorks
        BY <2>1, <2>3, <4>1 DEF CallWorks, Gained
      <4>2. CASE CallFails
        <5>1. have' = have /\ Current.onError # "stop"
          BY <2>2, <2>7, <4>2, <3>1 DEF CallFails
        <5>2. Gained(Current, g[at]) = {}
          BY <2>1, <4>2, <5>1 DEF CallFails, Missing, Gained
        <5> QED BY <2>1, <2>3, <5>1, <5>2
      <4>3. CASE CallFaults
        BY <2>7, <4>3 DEF CallFaults
      <4> QED BY <1>3, <4>1, <4>2, <4>3 DEF BootNext
    <3> QED BY <2>0, <2>1, <3>1, <3>2 DEF AsOutlined
  <2> QED BY <2>4, <2>6, <2>7 DEF BtInv
<1> QED BY <1>1, <1>2, <1>3 DEF Next, vars

LEMMA BootAlways == Spec => []BtInv
BY BootStart, BootKept, PTL DEF Spec

(* No root task uses anything its set-up has not provided, except for the   *)
(* results its copy of init_env() or setup_system() and its main() drop:    *)
(* whatever call fails, in whatever order. badges, timer, keyboard3,        *)
(* keyboard4 and graphics3 use nothing they do not have.                    *)
THEOREM SetUpsAreSound == Spec => []NothingUsedMissing
BY BootAlways, PTL DEF BtInv


-----------------------------------------------------------------------------
(* The types. Those of keyboard3 hold whatever the table says of its keys.  *)
LEMMA K3Types == K3TypeOK /\ [Next]_vars => K3TypeOK'
<1> SUFFICES ASSUME K3TypeOK, [Next]_vars
             PROVE  K3TypeOK'
  OBVIOUS
<1>0. /\ wire \in Seq(Item) /\ kb \in State /\ ev \in Told /\ printed \in Told
      /\ extmode \in BOOLEAN /\ typed \in 0 .. Typing
  BY DEF K3TypeOK, Item, Told
<1>1. CASE UNCHANGED k3Vars
  BY <1>1 DEF k3Vars, K3TypeOK
<1>2. CASE FlushByte
  <2>1. wire' \in Seq(Item)
    BY <1>0, <1>2, HeadTailProperties DEF FlushByte
  <2> QED BY <1>2, <2>1 DEF FlushByte, InK3, K3TypeOK, Item, Told
<1>3. CASE FirstPoll \/ SecondPoll \/ ThirdPoll
  <2>1. wire' \in Seq(Item) /\ kb' \in State /\ ev' \in Told
    <3>1. CASE PollNothing
      BY <1>0, <3>1, NormalIsState DEF PollNothing
    <3>2. CASE PollByte
      <4> DEFINE r == Push(kb, Head(wire).byte)
      <4>1. Head(wire) \in Item /\ Tail(wire) \in Seq(Item)
        BY <1>0, <3>2, HeadTailProperties DEF PollByte
      <4>2. r.next \in State /\ r.ev \in Told
        BY <1>0, <4>1, PushTypes DEF Item
      <4>3. wire' = Tail(wire) /\ kb' = r.next /\ ev' = r.ev
        BY <3>2 DEF PollByte
      <4> QED BY <4>1, <4>2, <4>3
    <3> QED BY <1>3, <3>1, <3>2 DEF FirstPoll, SecondPoll, ThirdPoll
  <2>2. kb'.extended \in BOOLEAN
    BY <2>1 DEF State
  <2>3. /\ k3Pc' \in {"second", "third", "report"}
        /\ extmode' \in BOOLEAN /\ UNCHANGED <<printed, typed>>
    BY <1>0, <1>3, <2>2 DEF FirstPoll, SecondPoll, ThirdPoll
  <2> QED BY <1>0, <2>1, <2>3 DEF K3TypeOK, Item, Told
<1>4. CASE Report
  BY <1>0, <1>4, NormalIsState DEF Report, K3TypeOK, Item, Told
<1>5. ASSUME NEW packet \in Packets, TypeKey(packet)
      PROVE  K3TypeOK'
  <2>1. packet \in Seq(Item)
    BY Packet DEF Packets
  <2>2. wire' \in Seq(Item)
    BY <1>0, <1>5, <2>1, ConcatProperties DEF TypeKey
  <2>3. typed' \in 0 .. Typing
    BY <1>0, <1>5, Keyboard3Assumption DEF TypeKey
  <2> QED BY <1>0, <1>5, <2>2, <2>3 DEF TypeKey, K3TypeOK, Item, Told
<1> QED
  BY <1>1, <1>2, <1>3, <1>4, <1>5 DEF Next, vars, bodyVars, K3Next, CheckKeyboard1

(* The variables of every application have the types the modules give them. *)
THEOREM TypeCorrect == Spec => []TypeOK
<1>1. Init => ThInv /\ TmInv /\ K3TypeOK
  BY ThreadsStart, TimerStart, K3Start DEF K3Inv
<1>2. BtInv /\ FbInv /\ ThInv /\ TmInv /\ UtInv /\ K3TypeOK => TypeOK
  BY DEF TypeOK, BtInv, FbInv, ThInv, TmInv, UtInv
<1> QED BY <1>1, <1>2, ThreadsStep, TimerStep, K3Types, BootAlways, BuffersAlways,
           UntypedsAlways, PTL DEF Spec

=============================================================================
