---------------------------- MODULE MCIrqDrivers ----------------------------
(* The instances of IrqDrivers that TLC checks. *)
EXTENDS IrqDrivers
SerialPorts == {1, 2}
Keyboard    == {3}
Single      == {1}
=============================================================================
