----------------------------- MODULE IrqDrivers -----------------------------
(***************************************************************************)
(* The interrupt-driven applications: apps/multiirqs (several devices on   *)
(* one asynchronous endpoint), apps/keyboard2 (one device) and the WAIT    *)
(* configuration of apps/keyboard3.                                        *)
(*                                                                         *)
(* Devices are numbered in the order main() tests their badge bits, so     *)
(* device d has badge 2^(d-1) and the badge word of the endpoint is the    *)
(* set of devices whose bit is set.                                        *)
(*                                                                         *)
(* External to the repository, and modelled from how it is used:           *)
(*   - the device and the 8259 interrupt controller (CONFIG_IRQ_PIC=y in   *)
(*     the configurations): an interrupt is an edge, latched while masked; *)
(*     a serial port raises one when its empty receive FIFO gets a byte, a *)
(*     PS/2 controller one for every byte it puts in its output buffer;    *)
(*   - the kernel: an interrupt is masked when it is delivered and stays   *)
(*     masked until seL4_IRQHandler_Ack; it ORs the badge into the         *)
(*     endpoint, or is dropped when no endpoint is set; seL4_Wait blocks   *)
(*     until the word is not 0 and clears it.                              *)
(***************************************************************************)
EXTENDS Integers, Sequences, FiniteSets

CONSTANTS
  NumDevices,  (* devices of the application: 3 in multiirqs, 1 in keyboard2/3 *)
  PerByte,     (* devices that raise an edge for every byte (PS/2 keyboard)    *)
  Quiet,       (* devices that receive nothing before main() acks them once    *)
  FlushFirst,  (* setup empties the device (keyboard3) or reads once           *)
  DrainAll,    (* a wake-up reads until EOF, or a single byte (keyboard3)      *)
  Fifo,        (* bytes a device can hold                                      *)
  Budget       (* bytes the outside world sends in all: a bound of the model   *)

Devices == 1 .. NumDevices

(* What ps_cdev_getchar makes of a byte: a character, or EOF for a byte    *)
(* that completes no character (a key release, an ACK, a shift key).       *)
Byte == {"char", "none"}

(* Every byte of a serial port is a character.                             *)
ByteOf(d) == IF d \in PerByte THEN Byte ELSE {"char"}

ASSUME IrqAssumption ==
  /\ NumDevices \in Nat \ {0}
  /\ PerByte \subseteq Devices
  /\ Quiet \subseteq Devices
  /\ FlushFirst \in BOOLEAN
  /\ DrainAll \in BOOLEAN
  /\ Fifo \in Nat \ {0}
  /\ Budget \in Nat

(* What the code relies on, without knowing it, to miss no interrupt: a    *)
(* device that announces only the first byte of a burst is emptied before  *)
(* it is acked, on every wake-up and, unless it is quiet then, at setup.   *)
DrainsBursts ==
  \A d \in Devices \ PerByte : DrainAll /\ (FlushFirst \/ d \in Quiet)

VARIABLES
  rx,      (* rx[d]: bytes the device holds, oldest first                      *)
  edge,    (* edge[d]: an edge of the device is latched in the controller      *)
  open,    (* open[d]: the kernel has the interrupt unmasked                   *)
  bound,   (* bound[d]: the asynchronous endpoint is set for the interrupt     *)
  aep,     (* the endpoint's badge word: devices with their bit set            *)
  pc,      (* where the root task is                                           *)
  dev,     (* the device it is at                                              *)
  badge,   (* sender_badge, the word the last seL4_Wait returned               *)
  sent     (* bytes the outside world has sent so far                          *)

vars == <<rx, edge, open, bound, aep, pc, dev, badge, sent>>

SetupPCs == {"get", "bind", "read", "initAck"}
LoopPCs  == {"wait", "check", "getchar", "ack"}

(* Device d has been through set_devEp(): main() has acked it once.        *)
SetUp(d) == pc \in LoopPCs \/ d < dev

Init ==
  /\ rx    = [d \in Devices |-> <<>>]
  /\ edge  = [d \in Devices |-> FALSE]
  /\ open  = [d \in Devices |-> FALSE]
  /\ bound = [d \in Devices |-> FALSE]
  /\ aep   = {}
  /\ pc    = "get"
  /\ dev   = 1
  /\ badge = {}
  /\ sent  = 0

-----------------------------------------------------------------------------
(* The devices, the interrupt controller and the kernel. *)

Arrive(d, b) ==
  /\ sent < Budget
  /\ Len(rx[d]) < Fifo
  /\ d \in Quiet => SetUp(d)
  /\ rx'   = [rx EXCEPT ![d] = Append(@, b)]
  /\ edge' = [edge EXCEPT ![d] = @ \/ rx[d] = <<>>]
  /\ sent' = sent + 1
  /\ UNCHANGED <<open, bound, aep, pc, dev, badge>>

Deliver(d) ==
  /\ edge[d] /\ open[d]
  /\ edge' = [edge EXCEPT ![d] = FALSE]
  /\ open' = [open EXCEPT ![d] = FALSE]
  /\ aep'  = IF bound[d] THEN aep \union {d} ELSE aep
  /\ UNCHANGED <<rx, bound, pc, dev, badge, sent>>

(* Reading the last byte lowers the line: the controller may then forget   *)
(* the latched edge. The PS/2 controller presents its next byte.           *)
TakeByte(d) ==
  /\ rx' = [rx EXCEPT ![d] = Tail(@)]
  /\ \E e \in IF Len(rx[d]) > 1 THEN {edge[d] \/ d \in PerByte}
                                ELSE {edge[d], FALSE} :
        edge' = [edge EXCEPT ![d] = e]

-----------------------------------------------------------------------------
(* The root task: set_devEp() for each device ... *)

GetIrqHandler ==
  /\ pc = "get"
  /\ open' = [open EXCEPT ![dev] = TRUE]
  /\ pc'   = "bind"
  /\ UNCHANGED <<rx, edge, bound, aep, dev, badge, sent>>

SetEndpoint ==
  /\ pc = "bind"
  /\ bound' = [bound EXCEPT ![dev] = TRUE]
  /\ pc'    = "read"
  /\ UNCHANGED <<rx, edge, open, aep, dev, badge, sent>>

SetupRead ==
  /\ pc = "read"
  /\ \/ /\ rx[dev] # <<>>
        /\ TakeByte(dev)
        /\ pc' = IF FlushFirst THEN "read" ELSE "initAck"
     \/ /\ rx[dev] = <<>>
        /\ pc' = "initAck"
        /\ UNCHANGED <<rx, edge>>
  /\ UNCHANGED <<open, bound, aep, dev, badge, sent>>

(* Faulty variant: the device number is not reset for the next pass.       *)
AfterNoReset(next, done) ==
  /\ pc'  = IF dev < NumDevices THEN next ELSE done
  /\ dev' = dev + 1

(* The next device, or "done" when dev is the last one. *)
After(next, done) ==
  /\ pc'  = IF dev < NumDevices THEN next ELSE done
  /\ dev' = IF dev < NumDevices THEN dev + 1 ELSE 1

(* Faulty variant: the setup forgets seL4_IRQHandler_Ack.                  *)
SetupAckForgotten ==
  /\ pc = "initAck"
  /\ After("get", "wait")
  /\ UNCHANGED <<rx, edge, open, bound, aep, badge, sent>>

SetupAck ==
  /\ pc = "initAck"
  /\ open' = [open EXCEPT ![dev] = TRUE]
  /\ After("get", "wait")
  /\ UNCHANGED <<rx, edge, bound, aep, badge, sent>>

(* ... and the loop around seL4_Wait(). *)

Wait ==
  /\ pc = "wait"
  /\ aep # {}
  /\ badge' = aep
  /\ aep'   = {}
  /\ pc'    = "check"
  /\ dev'   = 1
  /\ UNCHANGED <<rx, edge, open, bound, sent>>

CheckBadge ==
  /\ pc = "check"
  /\ \/ /\ dev \in badge
        /\ pc' = "getchar"
        /\ UNCHANGED dev
     \/ /\ dev \notin badge
        /\ After("check", "wait")
  /\ UNCHANGED <<rx, edge, open, bound, aep, badge, sent>>

(* Faulty variant: one character per wake-up, whatever the device.         *)
GetCharOnce ==
  /\ pc = "getchar"
  /\ \/ rx[dev] = <<>> /\ UNCHANGED <<rx, edge>>
     \/ rx[dev] # <<>> /\ TakeByte(dev)
  /\ pc' = "ack"
  /\ UNCHANGED <<open, bound, aep, dev, badge, sent>>

GetChar ==
  /\ pc = "getchar"
  /\ \/ /\ rx[dev] = <<>>
        /\ pc' = "ack"
        /\ UNCHANGED <<rx, edge>>
     \/ /\ rx[dev] # <<>>
        /\ TakeByte(dev)
        /\ pc' = IF DrainAll /\ Head(rx[dev]) = "char" THEN "getchar" ELSE "ack"
  /\ UNCHANGED <<open, bound, aep, dev, badge, sent>>

(* Faulty variant: the badge tests are an else-if chain, so the bits after *)
(* the first one served are lost.                                          *)
IrqAckElseIf ==
  /\ pc = "ack"
  /\ open' = [open EXCEPT ![dev] = TRUE]
  /\ pc'   = "wait"
  /\ dev'  = 1
  /\ UNCHANGED <<rx, edge, bound, aep, badge, sent>>

IrqAck ==
  /\ pc = "ack"
  /\ open' = [open EXCEPT ![dev] = TRUE]
  /\ After("check", "wait")
  /\ UNCHANGED <<rx, edge, bound, aep, badge, sent>>

RootTask ==
  \/ GetIrqHandler \/ SetEndpoint \/ SetupRead \/ SetupAck
  \/ Wait \/ CheckBadge \/ GetChar \/ IrqAck

Next ==
  \/ RootTask
  \/ \E d \in Devices : Deliver(d)
  \/ \E d \in Devices : \E b \in ByteOf(d) : Arrive(d, b)

(* The root task keeps running and the kernel delivers a pending interrupt; *)
(* nothing is assumed of the outside world.                                 *)
Fairness == WF_vars(RootTask) /\ \A d \in Devices : WF_vars(Deliver(d))

Spec     == Init /\ [][Next]_vars
FairSpec == Spec /\ Fairness

-----------------------------------------------------------------------------
TypeOK ==
  /\ rx    \in [Devices -> Seq(Byte)]
  /\ \A d \in Devices : rx[d] \in Seq(ByteOf(d))
  /\ edge  \in [Devices -> BOOLEAN]
  /\ open  \in [Devices -> BOOLEAN]
  /\ bound \in [Devices -> BOOLEAN]
  /\ aep   \subseteq Devices
  /\ pc    \in SetupPCs \union LoopPCs
  /\ dev   \in Devices
  /\ badge \subseteq Devices
  /\ sent  \in 0 .. Budget

(* The pass over sender_badge has not come to device d yet.                *)
StillToServe(d) ==
  /\ d \in badge
  /\ \/ pc = "check"            /\ d >= dev
     \/ pc = "getchar"          /\ d >= dev
     \/ pc = "ack"              /\ d > dev

(* Device d is being read, or was read and is not acked yet.               *)
BeingAcked(d) == pc = "ack" /\ d = dev

(* Input waiting in a set-up device is always announced: an edge is        *)
(* latched, its badge bit is set, or this pass will still read it. So no   *)
(* byte can be stranded in a device by the read/ack race.                  *)
InputAnnounced ==
  \A d \in Devices :
    (SetUp(d) /\ rx[d] # <<>>) => \/ edge[d]
                                  \/ d \in aep
                                  \/ StillToServe(d)

(* An interrupt of a set-up device is masked only while somebody still has *)
(* the duty to ack it: its badge bit is set or this pass has not acked it. *)
MaskedHasOwner ==
  \A d \in Devices :
    (SetUp(d) /\ ~open[d]) => d \in aep \/ StillToServe(d) \/ BeingAcked(d)

(* When main() blocks in seL4_Wait with nothing signalled, every byte that *)
(* waits in a device has an interrupt on its way that can be delivered.    *)
NeverSleepsOnInput ==
  (pc = "wait" /\ aep = {}) =>
    \A d \in Devices : rx[d] # <<>> => edge[d] /\ open[d]

(* Every byte sent is read: once the outside world stops sending, the      *)
(* devices are empty for good.                                             *)
InputDrained == <>[](\A d \in Devices : rx[d] = <<>>)
=============================================================================
