------------------------------ MODULE Asignador -------------------------------
(***************************************************************************)
(* What the kernel's heap promises to programs: regions of a program's     *)
(* memory that do not overlap. No pages, no metadata, no messages.         *)
(***************************************************************************)
EXTENDS Integers

CONSTANTS Pid, Posicion, Tamano

VARIABLE regiones    \* of every program, the regions it holds: [desde, cant]

Celdas(r) == r.desde .. (r.desde + r.cant - 1)

Separada(r, S) == \A s \in S : Celdas(r) \cap Celdas(s) = {}

Init == regiones = [p \in Pid |-> {}]

Dar(p) ==
  \E d \in Posicion, t \in Tamano :
    LET r == [desde |-> d, cant |-> t] IN
    /\ Separada(r, regiones[p])
    /\ regiones' = [regiones EXCEPT ![p] = @ \cup {r}]

Devolver(p) == \E r \in regiones[p] : regiones' = [regiones EXCEPT ![p] = @ \ {r}]

Soltar(p) == regiones' = [regiones EXCEPT ![p] = {}]

Next == \E p \in Pid : Dar(p) \/ Devolver(p) \/ Soltar(p)

Spec == Init /\ [][Next]_regiones
=============================================================================
