-------------------------- MODULE IrqDriversProofs --------------------------
(* No application of IrqDrivers goes to sleep on a byte, for any number of  *)
(* devices, any FIFO and any amount of input, as long as it drains the      *)
(* devices that announce only the first byte of a burst.                    *)
EXTENDS IrqDrivers, TLAPS, SequenceTheorems

(* The devices are the numbers 1 .. NumDevices.                             *)
LEMMA DeviceNumbers ==
  /\ NumDevices \in Nat \ {0}
  /\ \A d \in Devices : d \in Nat /\ d >= 1 /\ d <= NumDevices
  /\ \A n \in Nat : (n >= 1 /\ n <= NumDevices) => n \in Devices
  /\ PerByte \subseteq Devices /\ Quiet \subseteq Devices
  /\ Budget \in Nat
BY IrqAssumption DEF Devices

(* Every byte a device sends is a byte.                                     *)
LEMMA Bytes == \A d \in Devices : ByteOf(d) \subseteq Byte
BY DEF ByteOf, Byte

(* Appending to the bytes a device holds.                                   *)
LEMMA ByteArrived ==
  ASSUME TypeOK, NEW d \in Devices, NEW b \in ByteOf(d),
         rx' = [rx EXCEPT ![d] = Append(@, b)]
  PROVE  /\ rx' \in [Devices -> Seq(Byte)]
         /\ \A x \in Devices : rx'[x] \in Seq(ByteOf(x))
         /\ rx'[d] # <<>>
         /\ \A x \in Devices \ {d} : rx'[x] = rx[x]
<1>1. Append(rx[d], b) \in Seq(ByteOf(d)) /\ Append(rx[d], b) # <<>>
  BY AppendProperties DEF TypeOK
<1>2. Append(rx[d], b) \in Seq(Byte)
  BY <1>1, Bytes, SeqMonotonic
<1> QED
  BY <1>1, <1>2 DEF TypeOK

(* Taking the oldest byte: a device that still holds bytes then, and        *)
(* announces each, has announced the next one.                              *)
LEMMA ByteTaken ==
  ASSUME TypeOK, NEW d \in Devices, rx[d] # <<>>, TakeByte(d)
  PROVE  /\ rx' \in [Devices -> Seq(Byte)]
         /\ \A x \in Devices : rx'[x] \in Seq(ByteOf(x))
         /\ \A x \in Devices \ {d} : rx'[x] = rx[x] /\ edge'[x] = edge[x]
         /\ edge' \in [Devices -> BOOLEAN]
         /\ (d \in PerByte /\ rx'[d] # <<>>) => edge'[d]
         /\ rx'[d] # <<>> => (edge[d] => edge'[d])
<1>1. /\ Tail(rx[d]) \in Seq(ByteOf(d))
      /\ Len(Tail(rx[d])) = Len(rx[d]) - 1
      /\ Len(rx[d]) \in Nat
  BY HeadTailProperties, LenProperties DEF TypeOK
<1>2. Tail(rx[d]) \in Seq(Byte)
  BY <1>1, Bytes, SeqMonotonic
<1>3. Tail(rx[d]) # <<>> => Len(rx[d]) > 1
  BY <1>1, EmptySeq
<1>4. /\ rx' \in [Devices -> Seq(Byte)]
      /\ \A x \in Devices : rx'[x] \in Seq(ByteOf(x))
      /\ \A x \in Devices \ {d} : rx'[x] = rx[x]
      /\ rx'[d] = Tail(rx[d])
  BY <1>1, <1>2 DEF TypeOK, TakeByte
<1>5. PICK e \in IF Len(rx[d]) > 1 THEN {edge[d] \/ d \in PerByte}
                                   ELSE {edge[d], FALSE} :
         edge' = [edge EXCEPT ![d] = e]
  BY DEF TakeByte
<1>6. edge[d] \in BOOLEAN /\ (d \in PerByte) \in BOOLEAN
  BY DEF TypeOK
<1>7. e \in BOOLEAN
  BY <1>5, <1>6
<1>8. /\ edge' \in [Devices -> BOOLEAN]
      /\ \A x \in Devices \ {d} : edge'[x] = edge[x]
      /\ edge'[d] = e
  BY <1>5, <1>7 DEF TypeOK
<1>9. Len(rx[d]) > 1 => e = (edge[d] \/ d \in PerByte)
  BY <1>5
<1> QED
  BY <1>3, <1>4, <1>6, <1>7, <1>8, <1>9

(* What After does to the place of the root task.                           *)
LEMMA AfterMoves ==
  ASSUME TypeOK, NEW next, NEW done, After(next, done)
  PROVE  /\ dev' \in Devices
         /\ pc' \in {next, done}
         /\ pc' = next \/ dev = NumDevices
         /\ dev < NumDevices => dev' = dev + 1 /\ pc' = next
         /\ dev = NumDevices => dev' = 1 /\ pc' = done
<1>1. dev \in Nat /\ dev >= 1 /\ dev <= NumDevices /\ NumDevices \in Nat
  BY DeviceNumbers DEF TypeOK
<1>2. CASE dev < NumDevices
  <2>1. dev + 1 \in Devices
    BY <1>1, <1>2, DeviceNumbers
  <2> QED
    BY <1>1, <1>2, <2>1 DEF After
<1>3. CASE ~(dev < NumDevices)
  <2>1. dev = NumDevices /\ 1 \in Devices
    BY <1>1, <1>3, DeviceNumbers
  <2> QED
    BY <1>1, <1>3, <2>1 DEF After
<1> QED
  BY <1>2, <1>3

-----------------------------------------------------------------------------
(* Type correctness.                                                        *)
LEMMA InitTypeOK == Init => TypeOK
<1> SUFFICES ASSUME Init PROVE TypeOK
  OBVIOUS
<1>1. \A S : <<>> \in Seq(S)
  BY EmptySeq
<1>2. 1 \in Devices /\ 0 \in 0 .. Budget
  BY DeviceNumbers
<1> QED
  BY <1>1, <1>2 DEF Init, TypeOK, SetupPCs, LoopPCs

(* Every step keeps the types.                                              *)
LEMMA NextTypeOK == TypeOK /\ [Next]_vars => TypeOK'
<1> SUFFICES ASSUME TypeOK, [Next]_vars PROVE TypeOK'
  OBVIOUS
<1> USE DEF SetupPCs, LoopPCs
<1>1. ASSUME NEW d \in Devices, NEW b \in ByteOf(d), Arrive(d, b)
      PROVE  TypeOK'
  <2>1. sent' \in 0 .. Budget
    BY <1>1, DeviceNumbers DEF TypeOK, Arrive
  <2>2. edge' \in [Devices -> BOOLEAN]
    BY <1>1 DEF TypeOK, Arrive
  <2>3. /\ rx' \in [Devices -> Seq(Byte)]
        /\ \A x \in Devices : rx'[x] \in Seq(ByteOf(x))
    BY <1>1, ByteArrived DEF Arrive
  <2> QED
    BY <1>1, <2>1, <2>2, <2>3 DEF TypeOK, Arrive
<1>2. ASSUME NEW d \in Devices, Deliver(d)
      PROVE  TypeOK'
  BY <1>2 DEF TypeOK, Deliver
<1>3. CASE GetIrqHandler
  BY <1>3 DEF TypeOK, GetIrqHandler
<1>4. CASE SetEndpoint
  BY <1>4 DEF TypeOK, SetEndpoint
<1>5. CASE SetupRead
  <2>1. CASE rx[dev] = <<>>
    BY <1>5, <2>1 DEF TypeOK, SetupRead
  <2>2. CASE rx[dev] # <<>>
    <3>1. TakeByte(dev) /\ dev \in Devices
      BY <1>5, <2>2 DEF TypeOK, SetupRead
    <3>2. /\ rx' \in [Devices -> Seq(Byte)]
          /\ \A x \in Devices : rx'[x] \in Seq(ByteOf(x))
          /\ edge' \in [Devices -> BOOLEAN]
      BY <2>2, <3>1, ByteTaken
    <3> QED
      BY <1>5, <2>2, <3>2 DEF TypeOK, SetupRead
  <2> QED
    BY <2>1, <2>2
<1>6. CASE SetupAck
  BY <1>6, AfterMoves DEF TypeOK, SetupAck
<1>7. CASE Wait
  BY <1>7, DeviceNumbers DEF TypeOK, Wait
<1>8. CASE CheckBadge
  <2>1. CASE dev \in badge
    BY <1>8, <2>1 DEF TypeOK, CheckBadge
  <2>2. CASE dev \notin badge
    BY <1>8, <2>2, AfterMoves DEF TypeOK, CheckBadge
  <2> QED
    BY <2>1, <2>2
<1>9. CASE GetChar
  <2>1. CASE rx[dev] = <<>>
    BY <1>9, <2>1 DEF TypeOK, GetChar
  <2>2. CASE rx[dev] # <<>>
    <3>1. TakeByte(dev) /\ dev \in Devices
      BY <1>9, <2>2 DEF TypeOK, GetChar
    <3>2. /\ rx' \in [Devices -> Seq(Byte)]
          /\ \A x \in Devices : rx'[x] \in Seq(ByteOf(x))
          /\ edge' \in [Devices -> BOOLEAN]
      BY <2>2, <3>1, ByteTaken
    <3>3. pc' \in {"getchar", "ack"}
      BY <1>9, <2>2 DEF GetChar
    <3> QED
      BY <1>9, <2>2, <3>2, <3>3 DEF TypeOK, GetChar
  <2> QED
    BY <2>1, <2>2
<1>10. CASE IrqAck
  BY <1>10, AfterMoves DEF TypeOK, IrqAck
<1>11. CASE UNCHANGED vars
  BY <1>11 DEF TypeOK, vars
<1> QED
  BY <1>1, <1>2, <1>3, <1>4, <1>5, <1>6, <1>7, <1>8, <1>9, <1>10, <1>11
     DEF Next, RootTask

(* The state always has the shape TypeOK says: in particular the root task  *)
(* never tests the badge bit of a device that does not exist.               *)
THEOREM TypeCorrect == Spec => []TypeOK
  BY InitTypeOK, NextTypeOK, PTL DEF Spec

-----------------------------------------------------------------------------
(* The inductive invariant, device by device.                               *)
DeviceInv(d) ==
  /\ SetUp(d) => bound[d]
  /\ (d \in Quiet /\ ~SetUp(d)) => rx[d] = <<>>
  /\ (SetUp(d) /\ rx[d] # <<>>) => edge[d] \/ d \in aep \/ StillToServe(d)
  /\ (SetUp(d) /\ ~open[d]) => d \in aep \/ StillToServe(d) \/ BeingAcked(d)

TaskInv ==
  /\ pc \in {"read", "initAck"} => bound[dev]
  /\ (pc = "initAck" /\ rx[dev] # <<>>) => edge[dev] \/ dev \in aep
  /\ pc \in {"getchar", "ack"} => dev \in badge

IInv == TypeOK /\ TaskInv /\ \A d \in Devices : DeviceInv(d)

(* Before the setup nothing has arrived and nothing is unmasked.            *)
LEMMA InitIInv == Init => IInv
<1> SUFFICES ASSUME Init PROVE IInv
  OBVIOUS
<1>1. TypeOK
  BY InitTypeOK
<1>2. \A d \in Devices : ~SetUp(d)
  BY DeviceNumbers DEF Init, SetUp, LoopPCs
<1>3. \A d \in Devices : rx[d] = <<>>
  BY DEF Init
<1> QED
  BY <1>1, <1>2, <1>3 DEF Init, IInv, TaskInv, DeviceInv

(* A step of the outside world or of the kernel.                            *)
LEMMA EnvironmentStep ==
  ASSUME IInv,
         \/ \E d \in Devices : \E b \in ByteOf(d) : Arrive(d, b)
         \/ \E d \in Devices : Deliver(d)
  PROVE  TaskInv' /\ \A d \in Devices : DeviceInv(d)'
<1> USE DEF LoopPCs
<1>0. TypeOK /\ TaskInv /\ \A d \in Devices : DeviceInv(d)
  BY DEF IInv
<1>1. ASSUME NEW d \in Devices, NEW b \in ByteOf(d), Arrive(d, b)
      PROVE  TaskInv' /\ \A x \in Devices : DeviceInv(x)'
  <2>1. rx'[d] # <<>> /\ \A x \in Devices \ {d} : rx'[x] = rx[x]
    BY <1>0, <1>1, ByteArrived DEF Arrive
  <2>2. /\ \A x \in Devices \ {d} : edge'[x] = edge[x]
        /\ edge'[d] = (edge[d] \/ rx[d] = <<>>)
    BY <1>0, <1>1 DEF TypeOK, Arrive
  <2>3. TaskInv'
    BY <1>0, <1>1, <2>1, <2>2 DEF TypeOK, TaskInv, Arrive
  <2>4. ASSUME NEW x \in Devices
        PROVE  DeviceInv(x)'
    BY <1>0, <1>1, <2>1, <2>2 DEF TypeOK, DeviceInv, Arrive, SetUp, StillToServe, BeingAcked
  <2> QED
    BY <2>3, <2>4
<1>2. ASSUME NEW d \in Devices, Deliver(d)
      PROVE  TaskInv' /\ \A x \in Devices : DeviceInv(x)'
  <2>1. /\ \A x \in Devices \ {d} : edge'[x] = edge[x] /\ open'[x] = open[x]
        /\ ~edge'[d] /\ ~open'[d]
        /\ aep \subseteq aep' /\ bound[d] => d \in aep'
    BY <1>0, <1>2 DEF TypeOK, Deliver
  <2>2. TaskInv'
    BY <1>0, <1>2, <2>1 DEF TypeOK, TaskInv, Deliver
  <2>3. ASSUME NEW x \in Devices
        PROVE  DeviceInv(x)'
    BY <1>0, <1>2, <2>1 DEF TypeOK, DeviceInv, Deliver, SetUp, StillToServe, BeingAcked
  <2> QED
    BY <2>2, <2>3
<1> QED
  BY <1>1, <1>2

(* A step of set_devEp(). Draining matters here: a device that announces    *)
(* only the first byte of a burst is empty when it comes to its ack.        *)
LEMMA SetupStep ==
  ASSUME DrainsBursts, IInv,
         GetIrqHandler \/ SetEndpoint \/ SetupRead \/ SetupAck
  PROVE  TaskInv' /\ \A d \in Devices : DeviceInv(d)'
<1> USE DEF LoopPCs
<1>0. TypeOK /\ TaskInv /\ \A d \in Devices : DeviceInv(d)
  BY DEF IInv
<1>1. dev \in Devices /\ dev \in Nat /\ \A d \in Devices : d \in Nat
  BY <1>0, DeviceNumbers DEF TypeOK
<1>2. CASE GetIrqHandler
  BY <1>0, <1>1, <1>2 DEF TypeOK, TaskInv, DeviceInv, GetIrqHandler, SetUp,
     StillToServe, BeingAcked
<1>3. CASE SetEndpoint
  BY <1>0, <1>1, <1>3 DEF TypeOK, TaskInv, DeviceInv, SetEndpoint, SetUp,
     StillToServe, BeingAcked
<1>4. CASE SetupRead
  <2>1. CASE rx[dev] = <<>>
    BY <1>0, <1>1, <1>4, <2>1 DEF TypeOK, TaskInv, DeviceInv, SetupRead,
       SetUp, StillToServe, BeingAcked
  <2>2. CASE rx[dev] # <<>>
    <3>1. TakeByte(dev)
      BY <1>4, <2>2 DEF SetupRead
    <3>2. /\ \A x \in Devices \ {dev} : rx'[x] = rx[x] /\ edge'[x] = edge[x]
          /\ (dev \in PerByte /\ rx'[dev] # <<>>) => edge'[dev]
      BY <1>0, <1>1, <2>2, <3>1, ByteTaken
    <3>3. ~SetUp(dev) /\ dev \notin Quiet
      BY <1>0, <1>1, <1>4, <2>2 DEF SetupRead, SetUp, DeviceInv
    <3>4. dev \in PerByte \/ FlushFirst
      BY <1>1, <3>3 DEF DrainsBursts
    <3>5. TaskInv'
      BY <1>0, <1>4, <2>2, <3>2, <3>4 DEF TaskInv, SetupRead
    <3>6. ASSUME NEW x \in Devices
          PROVE  DeviceInv(x)'
      BY <1>0, <1>1, <1>4, <2>2, <3>2, <3>3
         DEF DeviceInv, SetupRead, SetUp, StillToServe, BeingAcked
    <3> QED
      BY <3>5, <3>6
  <2> QED
    BY <2>1, <2>2
<1>5. CASE SetupAck
  <2>1. /\ open' \in [Devices -> BOOLEAN] /\ open'[dev]
        /\ \A x \in Devices \ {dev} : open'[x] = open[x]
    BY <1>0, <1>1, <1>5 DEF TypeOK, SetupAck
  <2>2. /\ pc' \in {"get", "wait"}
        /\ dev < NumDevices => dev' = dev + 1 /\ pc' = "get"
        /\ dev = NumDevices => pc' = "wait"
        /\ \A d \in Devices : d >= 1 /\ d <= NumDevices
        /\ NumDevices \in Nat
    BY <1>0, <1>5, AfterMoves, DeviceNumbers DEF SetupAck
  <2>3. \A x \in Devices : SetUp(x)' <=> SetUp(x) \/ x = dev
    BY <1>1, <1>5, <2>2 DEF SetUp, SetupAck
  <2>4. TaskInv'
    BY <1>5, <2>2 DEF TaskInv
  <2>5. ASSUME NEW x \in Devices
        PROVE  DeviceInv(x)'
    <3>1. ~StillToServe(x) /\ ~BeingAcked(x)
      BY <1>5 DEF SetupAck, StillToServe, BeingAcked
    <3> QED
      BY <1>0, <1>5, <2>1, <2>3, <3>1 DEF DeviceInv, TaskInv, SetupAck
  <2> QED
    BY <2>4, <2>5
<1> QED
  BY <1>2, <1>3, <1>4, <1>5

(* A step of the loop around seL4_Wait().                                   *)
LEMMA LoopStep ==
  ASSUME DrainsBursts, IInv, Wait \/ CheckBadge \/ GetChar \/ IrqAck
  PROVE  TaskInv' /\ \A d \in Devices : DeviceInv(d)'
<1> USE DEF LoopPCs
<1>0. TypeOK /\ TaskInv /\ \A d \in Devices : DeviceInv(d)
  BY DEF IInv
<1>1. /\ dev \in Devices /\ NumDevices \in Nat
      /\ \A d \in Devices : d \in Nat /\ d >= 1 /\ d <= NumDevices
  BY <1>0, DeviceNumbers DEF TypeOK
<1>2. CASE Wait
  BY <1>0, <1>1, <1>2 DEF TaskInv, DeviceInv, Wait, SetUp, StillToServe,
     BeingAcked
<1>3. CASE CheckBadge
  <2>1. CASE dev \in badge
    BY <1>0, <1>1, <1>3, <2>1 DEF TaskInv, DeviceInv, CheckBadge, SetUp,
       StillToServe, BeingAcked
  <2>2. CASE dev \notin badge
    <3>1. /\ pc' \in {"check", "wait"}
          /\ dev < NumDevices => dev' = dev + 1 /\ pc' = "check"
          /\ dev = NumDevices => pc' = "wait"
      BY <1>0, <1>3, <2>2, AfterMoves DEF CheckBadge
    <3>2. \A x \in Devices : StillToServe(x) => StillToServe(x)'
      BY <1>1, <1>3, <2>2, <3>1 DEF CheckBadge, StillToServe
    <3> QED
      BY <1>0, <1>3, <2>2, <3>1, <3>2 DEF TaskInv, DeviceInv, CheckBadge,
         SetUp, BeingAcked
  <2> QED
    BY <2>1, <2>2
<1>4. CASE GetChar
  <2>1. CASE rx[dev] = <<>>
    BY <1>0, <1>1, <1>4, <2>1 DEF TaskInv, DeviceInv, GetChar, SetUp,
       StillToServe, BeingAcked
  <2>2. CASE rx[dev] # <<>>
    <3>1. TakeByte(dev)
      BY <1>4, <2>2 DEF GetChar
    <3>2. /\ \A x \in Devices \ {dev} : rx'[x] = rx[x] /\ edge'[x] = edge[x]
          /\ (dev \in PerByte /\ rx'[dev] # <<>>) => edge'[dev]
      BY <1>0, <1>1, <2>2, <3>1, ByteTaken
    <3>3. dev \notin PerByte => pc' = "getchar"
      <4>1. Head(rx[dev]) \in ByteOf(dev)
        BY <1>0, <1>1, <2>2, HeadTailProperties DEF TypeOK
      <4> QED
        BY <1>1, <1>4, <2>2, <4>1 DEF GetChar, ByteOf, DrainsBursts
    <3>4. /\ pc' \in {"getchar", "ack"} /\ dev' = dev /\ badge' = badge /\ aep' = aep
          /\ dev \in badge
      BY <1>0, <1>4, <2>2 DEF GetChar, TaskInv
    <3>5. TaskInv'
      BY <3>4 DEF TaskInv
    <3>6. ASSUME NEW x \in Devices
          PROVE  DeviceInv(x)'
      <4>1. x = dev \/ (StillToServe(x) => StillToServe(x)')
        BY <1>1, <1>4, <3>4 DEF GetChar, StillToServe
      <4>2. x = dev => StillToServe(x)' \/ BeingAcked(x)'
        BY <1>1, <1>4, <3>4 DEF StillToServe, BeingAcked
      <4>3. (x = dev /\ pc' = "getchar") => StillToServe(x)'
        BY <1>1, <3>4 DEF StillToServe
      <4>4. SetUp(x) /\ SetUp(x)' /\ ~BeingAcked(x)
        BY <1>4, <3>4 DEF GetChar, SetUp, BeingAcked
      <4> QED
        BY <1>0, <1>4, <3>2, <3>3, <3>4, <4>1, <4>2, <4>3, <4>4 DEF DeviceInv, GetChar
    <3> QED
      BY <3>5, <3>6
  <2> QED
    BY <2>1, <2>2
<1>5. CASE IrqAck
  <2>1. /\ open'[dev]
        /\ \A x \in Devices \ {dev} : open'[x] = open[x]
    BY <1>0, <1>1, <1>5 DEF TypeOK, IrqAck
  <2>2. /\ pc' \in {"check", "wait"}
        /\ dev < NumDevices => dev' = dev + 1 /\ pc' = "check"
        /\ dev = NumDevices => pc' = "wait"
    BY <1>0, <1>5, AfterMoves DEF IrqAck
  <2>3. \A x \in Devices : StillToServe(x) => StillToServe(x)'
    BY <1>1, <1>5, <2>2 DEF IrqAck, StillToServe
  <2> QED
    BY <1>0, <1>5, <2>1, <2>2, <2>3 DEF TaskInv, DeviceInv, IrqAck, SetUp,
       BeingAcked
<1> QED
  BY <1>2, <1>3, <1>4, <1>5

(* Every step keeps the inductive invariant.                                *)
LEMMA NextIInv == DrainsBursts /\ IInv /\ [Next]_vars => IInv'
<1> SUFFICES ASSUME DrainsBursts, IInv, [Next]_vars PROVE IInv'
  OBVIOUS
<1>1. TypeOK'
  BY NextTypeOK DEF IInv
<1>2. CASE \/ \E d \in Devices : \E b \in ByteOf(d) : Arrive(d, b)
           \/ \E d \in Devices : Deliver(d)
  BY <1>1, <1>2, EnvironmentStep DEF IInv
<1>3. CASE RootTask
  BY <1>1, <1>3, SetupStep, LoopStep DEF RootTask, IInv
<1>4. CASE UNCHANGED vars
  BY <1>1, <1>4 DEF vars, IInv, TaskInv, DeviceInv, SetUp, StillToServe, BeingAcked
<1> QED
  BY <1>2, <1>3, <1>4 DEF Next

(* A device that holds bytes when the root task is about to sleep has an    *)
(* edge latched (it was announced) and is unmasked (nobody owes it an ack). *)
LEMMA IInvSleeps == IInv => NeverSleepsOnInput
BY DEF IInv, DeviceInv, NeverSleepsOnInput, SetUp, LoopPCs,
   StillToServe, BeingAcked

(* The invariant, under DrainsBursts.                                       *)
LEMMA IInvAlways == DrainsBursts => (Spec => []IInv)
<1> SUFFICES ASSUME DrainsBursts PROVE Spec => []IInv
  OBVIOUS
<1>1. IInv /\ [Next]_vars => IInv'
  BY NextIInv
<1> QED
  BY <1>1, InitIInv, PTL DEF Spec

(* multiirqs, keyboard2 and keyboard3 never block in seL4_Wait() while a    *)
(* device holds a byte that nothing will announce, provided they drain the  *)
(* devices that announce only the first byte of a burst.                    *)
THEOREM NeverSleeps == DrainsBursts => (Spec => []NeverSleepsOnInput)
  BY IInvAlways, IInvSleeps, PTL

(* No byte is stranded by the race between reading a device and acking it.  *)
THEOREM NothingStranded == DrainsBursts => (Spec => []InputAnnounced)
<1>1. IInv => InputAnnounced
  BY DEF IInv, DeviceInv, InputAnnounced
<1> QED
  BY <1>1, IInvAlways, PTL

(* A masked interrupt always has somebody who will still ack it.            *)
THEOREM MaskedIsOwned == DrainsBursts => (Spec => []MaskedHasOwner)
<1>1. IInv => MaskedHasOwner
  BY DEF IInv, DeviceInv, MaskedHasOwner
<1> QED
  BY <1>1, IInvAlways, PTL
=============================================================================
