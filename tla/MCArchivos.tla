------------------------------ MODULE MCArchivos ------------------------------
(***************************************************************************)
(* Small instances of Archivos for TLC.                                    *)
(***************************************************************************)
EXTENDS Archivos

CONSTANTS a, b

Pedidos == [p \in Pid |-> IF p = 1 THEN 3 ELSE 2]
=============================================================================
