------------------------------ MODULE Untypeds ------------------------------
(***************************************************************************)
(* How sel4test-driver shares out memory and capability slots.             *)
(*                                                                         *)
(* main_continued() first takes a reserve for the driver out of the        *)
(* allocator, then all other untyped memory larger than a page for the     *)
(* tests, and gives the reserve back. run_test() copies capabilities into  *)
(* the next slots of the test process one after the other, the untypeds    *)
(* among them, and tells the process in its init data where they are and   *)
(* that every slot behind the last one is free. The test process builds    *)
(* its allocator from that (init_allocator() of sel4test-tests).           *)
(*                                                                         *)
(* External: the allocator, a buddy system that splits the smallest block  *)
(* that is large enough and fails only when there is none; the sel4utils   *)
(* library, which fills the slots of a new process from FirstSlot on.      *)
(***************************************************************************)
EXTENDS Boot

CONSTANTS
  WordBits,      (* seL4_WordBits: 32 in the code                            *)
  PageBits,      (* PAGE_BITS_4K: 12                                         *)
  ReserveBytes,  (* DRIVER_UNTYPED_MEMORY: 2^25                              *)
  ReserveMax,    (* DRIVER_NUM_UNTYPEDS: 16                                  *)
  ListSize,      (* CONFIG_MAX_NUM_BOOTINFO_UNTYPED_CAPS                     *)
  Memories,      (* the allocator's free blocks at the start: sets of        *)
                 (*   functions from the size in bits to their number        *)
  FirstSlot,     (* first slot of a new process that is not taken            *)
  CSpaceBits,    (* CONFIG_SEL4UTILS_CSPACE_SIZE_BITS                        *)
  OtherCaps,     (* the capabilities a test process has beside untypeds      *)
  BeforeMemory,  (* those copied before the untypeds                         *)
  BehindMemory,  (* those copied behind them, the endpoint last              *)
  NumTests       (* tests that are run                                       *)

Bits == 0 .. WordBits - 1

ASSUME UntypedsAssumption ==
  /\ WordBits \in Nat /\ PageBits \in Bits
  /\ ReserveBytes \in 0 .. 2 ^ WordBits - 1
  /\ ReserveMax \in Nat /\ ListSize \in Nat
  /\ Memories \subseteq [Bits -> Nat]
  /\ FirstSlot \in Nat \ {0} /\ CSpaceBits \in Nat
  /\ BeforeMemory \in Seq(OtherCaps) /\ BehindMemory \in Seq(OtherCaps)
  /\ "untyped" \notin OtherCaps
  /\ NumTests \in Nat

(* Powers of two, of which the provers know nothing.                        *)
ASSUME PowersAssumption == \A bits \in 0 .. WordBits : 2 ^ bits \in Nat \ {0}

(* The reserve and the largest block together fit in a word: 2^25 + 2^31.   *)
Roomy == \A bits \in Bits : ReserveBytes + 2 ^ bits < 2 ^ WordBits

VARIABLES
  utPc,       (* where main_continued() or run_test() is                     *)
  pool,       (* the allocator's free blocks                                 *)
  size,       (* size_bits of the loop in allocate_untypeds()                *)
  allocated,  (* its sum of bytes, a word                                    *)
  reserve,    (* sizes of the driver's reserve                               *)
  untypeds,   (* sizes of the untypeds for the tests                         *)
  cspace,     (* capabilities copied into the process, from FirstSlot on     *)
  init,       (* the init data: untypeds.start, .end and free_slots.start    *)
  added,      (* what the process added to its allocator: [slot, bits]       *)
  tests       (* tests begun                                                 *)

utVars == <<utPc, pool, size, allocated, reserve, untypeds, cspace, init, added, tests>>

NoInit == [start |-> 0, end |-> 0, free |-> 0]

UtInit ==
  /\ utPc = "reserve"
  /\ pool \in Memories
  /\ size = WordBits - 1
  /\ allocated = 0
  /\ reserve = <<>> /\ untypeds = <<>>
  /\ cspace = <<>> /\ init = NoInit /\ added = <<>>
  /\ tests = 0

InDriver(pc) == Running({"driver"}) /\ utPc = pc

-----------------------------------------------------------------------------
(* allocate_untypeds(), called for the reserve and then for the tests.      *)

(* Blocks that can give one of the size, and the pool without it.           *)
Blocks(bits) == {k \in bits .. WordBits - 1 : pool[k] > 0}
Without(bits) ==
  LET k == CHOOSE k \in Blocks(bits) : \A j \in Blocks(bits) : k <= j
  IN  [j \in Bits |-> CASE j = k            -> pool[j] - 1
                        [] bits <= j /\ j < k -> pool[j] + 1
                        [] OTHER            -> pool[j]]

(* Faulty variant: the limit is tested before the block is added.           *)
FitsBefore(limit) == allocated <= limit

(* The sum is computed in a word.                                           *)
Fits(limit) == (allocated + 2 ^ size) % 2 ^ WordBits <= limit

CanTake(taken, limit, max) == Len(taken) < max /\ Fits(limit) /\ Blocks(size) # {}

Take ==
  /\ pool' = Without(size)
  /\ allocated' = (allocated + 2 ^ size) % 2 ^ WordBits

TakeForReserve ==
  /\ InDriver("reserve") /\ size > PageBits
  /\ CanTake(reserve, ReserveBytes, ReserveMax)
  /\ Take
  /\ reserve' = Append(reserve, size)
  /\ UNCHANGED <<life, utPc, size, untypeds, cspace, init, added, tests>>

TakeForTests ==
  /\ InDriver("tests") /\ size > PageBits
  /\ CanTake(untypeds, 2 ^ WordBits - 1, ListSize)
  /\ Take
  /\ untypeds' = Append(untypeds, size)
  /\ UNCHANGED <<life, utPc, size, reserve, cspace, init, added, tests>>

(* No more of this size; behind the last size the function returns.         *)
NextSize ==
  /\ \/ InDriver("reserve") /\ ~CanTake(reserve, ReserveBytes, ReserveMax)
     \/ InDriver("tests") /\ ~CanTake(untypeds, 2 ^ WordBits - 1, ListSize)
  /\ size > PageBits
  /\ size' = size - 1
  /\ UNCHANGED <<life, utPc, pool, allocated, reserve, untypeds, cspace, init, added, tests>>

ReserveTaken ==
  /\ InDriver("reserve") /\ size <= PageBits
  /\ size' = WordBits - 1
  /\ allocated' = 0
  /\ utPc' = "tests"
  /\ UNCHANGED <<life, pool, reserve, untypeds, cspace, init, added, tests>>

-----------------------------------------------------------------------------
(* The rest of populate_untypeds(): the reserve is freed, and there must be *)
(* memory for the tests.                                                    *)
NumberOf(taken, bits) == Cardinality({i \in DOMAIN taken : taken[i] = bits})

FreeReserve ==
  /\ InDriver("tests") /\ size <= PageBits
  /\ pool' = [bits \in Bits |-> pool[bits] + NumberOf(reserve, bits)]
  /\ reserve' = <<>>
  /\ \/ untypeds # <<>> /\ utPc' = "prepare" /\ UNCHANGED life
     \/ untypeds = <<>> /\ life' = "halted" /\ UNCHANGED utPc
  /\ UNCHANGED <<size, allocated, untypeds, cspace, init, added, tests>>

(* The rest of main_continued(): the init data frame and the copy of its    *)
(* capability, the ELF regions, the timer's capabilities; all asserted.     *)
Prepare ==
  /\ InDriver("prepare")
  /\ \/ utPc' = "next" /\ UNCHANGED life
     \/ life' = "halted" /\ UNCHANGED utPc
  /\ UNCHANGED <<pool, size, allocated, reserve, untypeds, cspace, init, added, tests>>

-----------------------------------------------------------------------------
(* run_test(). What it copies, in order; an untyped by its index.           *)
CapNames == BeforeMemory \o [i \in 1 .. Len(untypeds) |-> "untyped"] \o BehindMemory
FirstUntyped == Len(BeforeMemory) + 1
SlotOf(i)    == FirstSlot + i - 1

NextTest ==
  /\ InDriver("next")
  /\ \/ /\ tests < NumTests
        /\ tests' = tests + 1
        /\ \/ utPc' = "copy" /\ UNCHANGED life
           \/ life' = "halted" /\ UNCHANGED utPc  (* the process is asserted *)
     \/ /\ tests = NumTests
        /\ life' = "done"
        /\ UNCHANGED <<utPc, tests>>
  /\ cspace' = <<>> /\ init' = NoInit /\ added' = <<>>
  /\ UNCHANGED <<pool, size, allocated, reserve, untypeds>>

(* copy_cap_to_process(): the next slot, while there is one.                *)
CopyCap ==
  /\ InDriver("copy") /\ Len(cspace) < Len(CapNames)
  /\ LET i == Len(cspace) + 1
     IN  \/ /\ SlotOf(i) < 2 ^ CSpaceBits
            /\ cspace' = Append(cspace, CapNames[i])
            /\ init' = [start |-> IF i = FirstUntyped THEN SlotOf(i) ELSE init.start,
                        end   |-> IF CapNames[i] = "untyped" THEN SlotOf(i) ELSE init.end,
                        free  |-> init.free]
            /\ UNCHANGED life
         \/ /\ SlotOf(i) >= 2 ^ CSpaceBits
            /\ life' = "halted"
            /\ UNCHANGED <<cspace, init>>
  /\ UNCHANGED <<utPc, pool, size, allocated, reserve, untypeds, added, tests>>

(* Faulty variant: the endpoint's own slot is taken for free.               *)
FreeFromEndpoint == SlotOf(Len(cspace))

(* free_slots.start: the slot behind the endpoint, the last one copied.     *)
FreeStart == SlotOf(Len(cspace)) + 1

(* free_slots is asserted not to be empty; then the process is spawned.     *)
Spawn ==
  /\ InDriver("copy") /\ Len(cspace) = Len(CapNames)
  /\ init' = [init EXCEPT !.free = FreeStart]
  /\ \/ FreeStart < 2 ^ CSpaceBits /\ utPc' = "test" /\ UNCHANGED life
     \/ FreeStart >= 2 ^ CSpaceBits /\ life' = "halted" /\ UNCHANGED utPc
  /\ UNCHANGED <<pool, size, allocated, reserve, untypeds, cspace, added, tests>>

-----------------------------------------------------------------------------
(* Faulty variant: the untypeds are taken for the first ones copied.         *)
NextSlotFirst == FirstSlot + Len(added)

(* The test process: init_allocator() adds slot after slot, each with the   *)
(* size at the same index of the list, and may use any free slot later.     *)
NextSlot == init.start + Len(added)

AddUntyped ==
  /\ InDriver("test") /\ NextSlot <= init.end
  /\ added' = Append(added, [slot |-> NextSlot, bits |-> untypeds[Len(added) + 1]])
  /\ UNCHANGED <<life, utPc, pool, size, allocated, reserve, untypeds, cspace, init, tests>>

(* The test ends; its untypeds are revoked and the process is destroyed.    *)
EndTest ==
  /\ InDriver("test") /\ NextSlot > init.end
  /\ utPc' = "next"
  /\ UNCHANGED <<life, pool, size, allocated, reserve, untypeds, cspace, init, added, tests>>

UtNext ==
  /\ \/ TakeForReserve \/ TakeForTests \/ NextSize \/ ReserveTaken \/ FreeReserve
     \/ Prepare \/ NextTest \/ CopyCap \/ Spawn \/ AddUntyped \/ EndTest
  /\ UNCHANGED <<app, at, have, misused>>

-----------------------------------------------------------------------------
UtTypeOK ==
  /\ utPc \in {"reserve", "tests", "prepare", "next", "copy", "test"}
  /\ pool \in [Bits -> Nat]
  /\ size \in Bits
  /\ allocated \in 0 .. 2 ^ WordBits - 1
  /\ reserve \in Seq(Bits) /\ untypeds \in Seq(Bits)
  /\ cspace \in Seq(OtherCaps \union {"untyped"})
  /\ init \in [start : Nat, end : Nat, free : Nat]
  /\ added \in Seq([slot : Nat, bits : Bits])
  /\ tests \in 0 .. NumTests

Bytes(taken) ==
  LET sum[i \in 0 .. Len(taken)] == IF i = 0 THEN 0 ELSE sum[i - 1] + 2 ^ taken[i]
  IN  sum[Len(taken)]

(* "allocate untypeds till either a certain number of bytes is allocated or *)
(* a certain number of untyped objects": the reserve never exceeds 32MB,    *)
(* and when the tests' share is complete the driver has its reserve and     *)
(* nothing else larger than a page, unless the list was full. The sum of    *)
(* bytes may overflow the word while the tests' share is taken.             *)
AllocationMaximal ==
  /\ Bytes(reserve) <= ReserveBytes
  /\ InDriver("tests") /\ size <= PageBits /\ Len(untypeds) < ListSize
       => \A bits \in PageBits + 1 .. WordBits - 1 : pool[bits] = 0

(* "do not copy more caps to the process beyond this point": every slot the *)
(* process is told is free is indeed empty, and it has slots left at all.   *)
FreeSlotsAreFree ==
  InDriver("test") =>
    /\ init.free < 2 ^ CSpaceBits
    /\ \A i \in DOMAIN cspace : SlotOf(i) < init.free

(* The process takes for memory exactly the untypeds it was given: each     *)
(* slot it adds to its allocator holds an untyped, none of them twice, with *)
(* the size that the driver allocated it with.                              *)
UntypedsNamedRight ==
  InDriver("test") =>
    /\ init.end - init.start + 1 = Len(untypeds)
    /\ \A i \in DOMAIN added :
         /\ added[i].slot \in SlotOf(1) .. SlotOf(Len(cspace))
         /\ cspace[added[i].slot - FirstSlot + 1] = "untyped"
         /\ added[i].slot - SlotOf(FirstUntyped) + 1 = i
         /\ added[i].bits = untypeds[i]
=============================================================================
