-------------------------------- MODULE MCCpu --------------------------------
(***************************************************************************)
(* Small instances of Cpu for TLC.                                         *)
(***************************************************************************)
EXTENDS Cpu

CONSTANTS a
==============================================================================
