---------------------------- MODULE MCRootTasks -----------------------------
(* The machines on which TLC boots the root tasks.                          *)
EXTENDS RootTasks, KeyTables

(* Device memory of a PC below 1MB, in pages: one untyped from address 0 on, *)
(* untypeds that begin exactly at 0xA0000, with and without others below,   *)
(* only one above the video memory, and none.                               *)
U(page, bits) == [page |-> page, bits |-> bits]
PcDevices == {<<U(0, 8)>>, <<U(160, 5), U(192, 6)>>, <<U(16, 4), U(160, 5)>>,
              <<U(128, 4), U(144, 4), U(176, 4)>>, <<U(200, 3)>>, <<>>}

(* The first untyped above 1MB.                                             *)
PcMemory == U(256, 8)

M(yRes, linBytes, imagePages, fits) ==
  [page |-> 1024, yRes |-> yRes, linBytes |-> linBytes, imagePages |-> imagePages,
   fits |-> fits]
VbeModes == {M(3, 5, 2, TRUE), M(2, 8, 3, TRUE), M(1, 7, 2, FALSE), M(3, 9, 1, TRUE),
             M(3, 0, 2, TRUE)}

(* Free blocks of the allocator: up to three of each size that is larger    *)
(* than a page, and a page.                                                 *)
Block(b3, b4, b5) == [bits \in 0 .. 5 |-> CASE bits = 2 -> 1 [] bits = 3 -> b3
                                            [] bits = 4 -> b4 [] bits = 5 -> b5
                                            [] OTHER -> 0]
SomeMemories == {Block(b3, b4, b5) : b3 \in 0 .. 3, b4 \in 0 .. 1, b5 \in 0 .. 1}

Before == <<"page_directory", "tcb", "domain">>
Behind == <<"timer_irq", "io_port", "endpoint">>
Others == {Before[i] : i \in DOMAIN Before} \union {Behind[i] : i \in DOMAIN Behind}

Plain(code, means)    == [ext |-> FALSE, code |-> code, means |-> means]
Extended(code, means) == [ext |-> TRUE, code |-> code, means |-> means]
SomeKeys == {Plain(\h1C, "A"), Plain(\h02, "none"), Extended(\h75, "UP"),
             Extended(\h7C, "none")}

Answers == {<<>>, <<Mute(ACK), Mute(170)>>}

(* The hypotheses of RootTasksProofs about keyboard3 and the test driver.    *)
ASSUME KeysRight    == TableRight
ASSUME MemoryIsRoomy == Roomy
=============================================================================
