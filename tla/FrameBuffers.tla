---------------------------- MODULE FrameBuffers ----------------------------
(***************************************************************************)
(* The tasks that draw into video memory.                                  *)
(*                                                                         *)
(* ega and graphics map it with system calls of their own: they look for   *)
(* the device untyped that contains it, make every page from the start of  *)
(* that untyped to the video memory, and map the last ones at virtual      *)
(* addresses equal to the physical ones. They print every result and look  *)
(* at none. ega2, graphics2 and graphics3 ask the platform library for a   *)
(* mapping of so many bytes and assert that they got it.                   *)
(*                                                                         *)
(* Memory is counted in pages of PageSize bytes. External: the boot info,  *)
(* the VBE mode the boot loader set, ps_io_map(), and the kernel, whose    *)
(* Retype makes all the objects asked for or none, and only from an        *)
(* untyped large enough and into empty slots.                              *)
(***************************************************************************)
EXTENDS Boot

CONSTANTS
  PageSize,     (* bytes in a page, 4096 in the code                         *)
  Words,        (* pages a seL4_Word can address: subtraction is modulo this *)
  FanOut,       (* CONFIG_RETYPE_FAN_OUT_LIMIT                               *)
  DeviceLists,  (* device untypeds the boot info may list, by address:       *)
                (*   sequences of [page, bits], of 2^bits pages each         *)
  LastRegular,  (* the untyped listed before the first device untyped        *)
  EgaPage,      (* page of EGA_TEXT_FB_BASE                                  *)
  EgaBytes,     (* bytes of the text rows up to the one written              *)
  VgaPage,      (* page of vram in graphics                                  *)
  VgaBytes,     (* 320 * 200 in the code                                     *)
  Modes         (* VBE modes: [page, yRes, linBytes, imagePages, fits], fits *)
                (*   when the protected mode interface fits vbeTable         *)

(* An untyped of 2^bits pages that lies within the memory there is.         *)
MemoryRange == {u \in [page : 0 .. Words - 1, bits : Nat] : u.page + 2 ^ u.bits <= Words}

ASSUME FrameBuffersAssumption ==
  /\ PageSize \in Nat \ {0}
  /\ Words \in Nat /\ FanOut \in Nat
  /\ EgaPage \in 0 .. Words - 1
  /\ VgaPage \in 0 .. Words - 1
  /\ LastRegular \in MemoryRange
  /\ \A list \in DeviceLists : list \in Seq(MemoryRange)
  /\ EgaBytes \in 1 .. PageSize
  /\ VgaBytes \in Nat \ {0}
  /\ Modes \subseteq [page : Nat, yRes : Nat, linBytes : Nat, imagePages : Nat,
                fits : BOOLEAN]

VARIABLES
  devices,  (* the device untypeds of this machine                           *)
  mode,     (* the VBE mode of this machine                                  *)
  fbPc,     (* where the body is                                             *)
  pages,    (* physical page of each frame capability made, from 0           *)
  table,    (* the page table for the video memory is there                  *)
  mapped,   (* mapped[v]: physical page at page v of the buffer's addresses  *)
  drawn,    (* <<page meant, page written>> of every page written            *)
  origin    (* first byte of the buffer that the screen shows                *)

fbVars == <<devices, mode, fbPc, pages, table, mapped, drawn, origin>>

Raw       == {"ega", "graphics"}
IoMapped  == {"ega2", "graphics2", "graphics3"}
Drawing   == Raw \union IoMapped

(* Pages to hold so many bytes, and pages that writing them one by one      *)
(* touches: up to the page of the last byte.                                *)
PagesFor(bytes)  == (bytes + PageSize - 1) \div PageSize
TouchedBy(bytes) == IF bytes = 0 THEN {} ELSE 0 .. (bytes - 1) \div PageSize

FbInit ==
  /\ devices \in DeviceLists
  /\ mode \in Modes
  /\ fbPc = "map"
  /\ pages = <<>>
  /\ table = FALSE
  /\ mapped = <<>>
  /\ drawn = {}
  /\ origin = 0

-----------------------------------------------------------------------------
(* mapVideoRam() of ega and graphics. *)

VideoPage == IF app = "ega" THEN EgaPage ELSE VgaPage
BufferPages == IF app = "ega" THEN 1 ELSE PagesFor(VgaBytes)

(* The scan stops at the first untyped that does not begin below vram, and  *)
(* goes back by one: 0 when it stops at once, which is the entry before.    *)
Found(list) ==
  Cardinality({k \in DOMAIN list : \A j \in 1 .. k : list[j].page < VideoPage})

Untyped(k) == IF k = 0 THEN LastRegular ELSE devices[k]

RetypePages(works) ==
  LET found    == Untyped(Found(devices))
      numPages == ((VideoPage - found.page) % Words) + BufferPages
  IN  /\ works => numPages <= FanOut /\ numPages <= 2 ^ found.bits
      /\ pages' = IF works THEN [j \in 1 .. numPages |-> found.page + j - 1] ELSE <<>>

MakePages ==
  /\ Running(Raw) /\ fbPc = "map"
  /\ \E works \in BOOLEAN : RetypePages(works)
  /\ fbPc' = "table"
  /\ UNCHANGED <<life, devices, mode, table, mapped, drawn, origin>>

(* The page table may be there already, and making or mapping it may fail.  *)
MakeTable ==
  /\ Running(Raw) /\ fbPc = "table"
  /\ table' \in BOOLEAN
  /\ fbPc' = "page"
  /\ UNCHANGED <<life, devices, mode, pages, mapped, drawn, origin>>

(* Faulty variant: the first of the pages are taken for the video memory.   *)
FrameCapFirst(i) == i + 1

(* Frame capability i of the video memory: the last ones that were made.    *)
FrameCap(i) == ((VideoPage - Untyped(Found(devices)).page) % Words) + i + 1

MapPage ==
  /\ Running(Raw) /\ fbPc = "page"
  /\ LET i == Len(mapped)
     IN  /\ \/ /\ table /\ FrameCap(i) \in DOMAIN pages
               /\ mapped' = Append(mapped, pages[FrameCap(i)])
            \/ mapped' = Append(mapped, -1)
         /\ fbPc' = IF i + 1 < BufferPages THEN "page" ELSE "draw"
  /\ UNCHANGED <<life, devices, mode, pages, table, drawn, origin>>

-----------------------------------------------------------------------------
(* ega2 maps one page, graphics2 as many bytes as the screen has, and       *)
(* graphics3 two screens, if the mode has two.                              *)
ScreenBytes == mode.yRes * mode.linBytes

(* Faulty variant: graphics3 maps one screen and draws two.                 *)
MapBytesOneScreen == IF app = "ega2" THEN PageSize ELSE ScreenBytes

MapBytes == CASE app = "ega2"      -> PageSize
              [] app = "graphics2" -> ScreenBytes
              [] app = "graphics3" -> ScreenBytes * 2

MapBase == IF app = "ega2" THEN EgaPage ELSE mode.page

ModeUsable == app = "graphics3" => mode.page # 0 /\ mode.imagePages >= 2 /\ ScreenBytes # 0

IoMap ==
  /\ Running(IoMapped) /\ fbPc = "map"
  /\ ModeUsable
  /\ mapped' = [v \in 1 .. PagesFor(MapBytes) |-> MapBase + v - 1]
  /\ fbPc' = "draw"
  /\ UNCHANGED <<life, devices, mode, pages, table, drawn, origin>>

(* ps_io_map() returned NULL, or an assertion about the mode failed.        *)
IoMapFails ==
  /\ Running(IoMapped) /\ fbPc = "map"
  /\ Lives("halted")
  /\ UNCHANGED fbVars

-----------------------------------------------------------------------------
(* writeVideoRam() and the loop in main() of graphics, page by page.        *)
DrawBytes == CASE app \in {"ega", "ega2"} -> EgaBytes
               [] app = "graphics"  -> VgaBytes
               [] app = "graphics2" -> ScreenBytes
               [] app = "graphics3" -> ScreenBytes * 2

BufferBase == CASE app \in Raw      -> VideoPage
                [] app \in IoMapped -> MapBase

Drawn(v) == \E d \in drawn : d[1] = BufferBase + v
ToDraw   == {v \in TouchedBy(DrawBytes) : ~Drawn(v)}
Accessible(v) == v + 1 \in DOMAIN mapped /\ mapped[v + 1] # -1

DrawPage ==
  /\ Running(Drawing) /\ fbPc = "draw"
  /\ \E v \in ToDraw :
       /\ \A w \in ToDraw : v <= w
       /\ \/ /\ Accessible(v)
             /\ drawn' = drawn \union {<<BufferBase + v, mapped[v + 1]>>}
             /\ UNCHANGED <<app, at, have, misused, life>>
          \/ ~Accessible(v) /\ Lives("faulted") /\ UNCHANGED drawn
  /\ UNCHANGED <<devices, mode, fbPc, pages, table, mapped, origin>>

(* ega unmaps its page.                                                     *)
FbEnds ==
  /\ Running(Drawing \ {"graphics3"}) /\ fbPc = "draw" /\ ToDraw = {}
  /\ mapped' = IF app = "ega" THEN <<>> ELSE mapped
  /\ life' = "done"
  /\ UNCHANGED <<devices, mode, fbPc, pages, table, drawn, origin>>

(* graphics3 copies the VBE interface into vbeTable, as many bytes as the   *)
(* boot info says: past the end of the table anything may happen. Mapping   *)
(* the interface is asserted.                                               *)
CopyInterface ==
  /\ Running({"graphics3"}) /\ fbPc = "draw" /\ ToDraw = {}
  /\ \/ fbPc' = "show" /\ UNCHANGED <<app, at, have, misused, life>>
     \/ \E fate \in {"halted"} \union (IF mode.fits THEN {} ELSE {"faulted"}) :
          Lives(fate) /\ UNCHANGED fbPc
  /\ UNCHANGED <<devices, mode, pages, table, mapped, drawn, origin>>

(* Faulty variant: the size of both images is halved.                       *)
HalfOfBoth == ((ScreenBytes * 2) \div 4) \div 2

(* Function 7 takes the new first byte divided by 4.                        *)
HalfOfFirst == (ScreenBytes \div 4) \div 2

ShowHalf ==
  /\ Running({"graphics3"}) /\ fbPc = "show"
  /\ origin' = HalfOfFirst * 4
  /\ fbPc' = "shown"
  /\ UNCHANGED <<life, devices, mode, pages, table, mapped, drawn>>

FbNext ==
  /\ \/ MakePages \/ MakeTable \/ MapPage \/ IoMap \/ IoMapFails
     \/ DrawPage \/ FbEnds \/ CopyInterface \/ ShowHalf
  /\ UNCHANGED <<app, at, have, misused>>

-----------------------------------------------------------------------------
FbTypeOK ==
  /\ devices \in DeviceLists
  /\ mode \in Modes
  /\ fbPc \in {"map", "table", "page", "draw", "show", "shown"}
  /\ \A j \in DOMAIN pages : pages[j] \in Nat
  /\ table \in BOOLEAN
  /\ \A v \in DOMAIN mapped : mapped[v] \in Nat \union {-1}
  /\ drawn \subseteq Nat \X Nat
  /\ origin \in Nat

(* Whatever is written into the buffer reaches the page of video memory it  *)
(* is meant for: the arithmetic that picks the untyped, the number of pages *)
(* and the capability may lead nowhere, and the write then faults, but      *)
(* never to other memory. Where the mapping was asserted no write faults.   *)
(* This rests on what ega and graphics say of the slots they use, "empty,   *)
(* hopefully": a slot that no call has filled holds nothing to map.         *)
WritesReachVideoRam ==
  /\ \A d \in drawn : d[2] = d[1]
  /\ app \in IoMapped /\ fbPc = "draw" /\ life = "faulted" => ToDraw = {}

(* What graphics3 draws: a white image and a gray one behind it. When it    *)
(* shows the buffer from half of the first image on, the screen is white    *)
(* above and gray below, but for at most 7 bytes that the divisions lose.   *)
ColorAt(o) == IF o < ScreenBytes THEN "white" ELSE "gray"
Shown(color) == Cardinality({o \in origin .. origin + ScreenBytes - 1 : ColorAt(o) = color})
HalfAndHalf == fbPc = "shown" => Shown("white") - Shown("gray") \in 0 .. 7
=============================================================================
