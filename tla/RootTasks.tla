----------------------------- MODULE RootTasks ------------------------------
(***************************************************************************)
(* The applications as root tasks: the kernel boots one of them, it goes   *)
(* through its set-up (Boot), with every library call that can fail        *)
(* failing or not, and then through its body, in whatever state the set-up *)
(* has left it. The bodies of keyboard, keyboard2, keyboard4 and multiirqs *)
(* are the subject of modules of their own (IrqDrivers, Keyboard4) and are *)
(* not entered here.                                                       *)
(***************************************************************************)
EXTENDS FrameBuffers, Threads, Timer, Untypeds, Keyboard3

bodyVars == <<fbVars, thVars, tmVars, utVars, k3Vars>>
vars     == <<bootVars, bodyVars>>

Init ==
  /\ BootInit
  /\ FbInit /\ ThInit /\ TmInit /\ UtInit /\ K3Init
  (* What the environment chooses for a body matters only if it is entered. *)
  /\ app \notin Raw => devices = CHOOSE list \in DeviceLists : TRUE
  /\ app \notin IoMapped => mode = CHOOSE m \in Modes : TRUE
  /\ app # "timer" => ~latch /\ ~unmask /\ ~word
  /\ app # "driver" => pool = CHOOSE m \in Memories : TRUE
  /\ app # "keyboard3" => wire = CHOOSE w \in Leftovers : TRUE

Next ==
  \/ BootNext /\ UNCHANGED bodyVars
  \/ FbNext   /\ UNCHANGED <<thVars, tmVars, utVars, k3Vars>>
  \/ ThNext   /\ UNCHANGED <<fbVars, tmVars, utVars, k3Vars>>
  \/ TmNext   /\ UNCHANGED <<fbVars, thVars, utVars, k3Vars>>
  \/ UtNext   /\ UNCHANGED <<fbVars, thVars, tmVars, k3Vars>>
  \/ K3Next   /\ UNCHANGED <<fbVars, thVars, tmVars, utVars>>

Spec     == Init /\ [][Next]_vars
FairSpec == Spec /\ ThFairness /\ TmFairness /\ K3Fairness

TypeOK == BootTypeOK /\ FbTypeOK /\ ThTypeOK /\ TmTypeOK /\ UtTypeOK /\ K3TypeOK
=============================================================================
