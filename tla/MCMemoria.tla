------------------------------ MODULE MCMemoria -------------------------------
(***************************************************************************)
(* Small instances of Memoria for TLC.                                     *)
(***************************************************************************)
EXTENDS Memoria

CONSTANTS p1, p2, c1, c2

\* The CPU reads both pages of p1, one after the other, or p2's; the kernel
\* writes the first page of p1.
LeeLaCpu == [h \in Hilo |-> IF h = Kernel THEN {} ELSE {<<p1, 0, 2>>, <<p2, 0, 1>>}]
GrabaElKernel == [h \in Hilo |-> IF h = Kernel THEN {<<p1, 0, 1>>} ELSE {}]

\* Each CPU reads its own program.
CadaUnoElSuyo == [h \in Hilo |-> IF h = c1 THEN {<<p1, 0, 1>>} ELSE IF h \in Cpu THEN {<<p2, 0, 1>>} ELSE {}]
Nada == [h \in Hilo |-> {}]

DosYDos == [p \in Pid |-> 1]

\* The last frame but one for the pages of p1, the last one for p2's.
Choca == [p \in Pid |-> [k \in Pagina(p) |-> IF p = p1 THEN Marcos - 2 ELSE Marcos - 1]]

\* The entries past the end of the table lie in the frame p1's first page takes,
\* and the first of them looks free when the page has a 1.
EnEseMarco == [i \in PasadoElFin |-> Marcos - 2]
UnMenosUno == [i \in PasadoElFin |-> IF i = Marcos THEN {1} ELSE {}]
=============================================================================
