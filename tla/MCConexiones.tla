---------------------------- MODULE MCConexiones ----------------------------
(***************************************************************************)
(* A small instance of Conexiones for TLC.                                 *)
(***************************************************************************)
EXTENDS Conexiones, TLC

CONSTANTS k1, k2, c1, h1, h2

Simetria == Permutations(Mensaje)

\* After a lost update nothing is promised.
SinPisar == ~ pisado
=============================================================================
