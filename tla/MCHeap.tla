------------------------------- MODULE MCHeap ---------------------------------
(***************************************************************************)
(* Small instances of Heap for TLC.                                        *)
(***************************************************************************)
EXTENDS Heap

CONSTANTS p1, p2, h1, h2

Mucho == [p \in Pid |-> IF p = p1 THEN 7 ELSE 1]
Poco  == [p \in Pid |-> 3]
=============================================================================
