--------------------------------- MODULE MCArm ---------------------------------
(* An instance of the AArch64 machine for TLC. *)
EXTENDS ArmVirt
=============================================================================
