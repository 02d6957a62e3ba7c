------------------------------ MODULE Directorio ------------------------------
(***************************************************************************)
(* What the file system process promises whatever happens to it: files     *)
(* appear empty, grow, and disappear. No blocks, no bitmap, no crashes.    *)
(***************************************************************************)
EXTENDS Integers

CONSTANT Archivo

VARIABLE tamanio    \* of the files that exist

Existen == DOMAIN tamanio

Init == tamanio = << >>

Crear(f) ==
  /\ f \notin Existen
  /\ tamanio' = [a \in Existen \cup {f} |-> IF a = f THEN 0 ELSE tamanio[a]]

Borrar(f) == f \in Existen /\ tamanio' = [a \in Existen \ {f} |-> tamanio[a]]

Crecer(f) ==
  /\ f \in Existen
  /\ tamanio' \in [Existen -> Nat]
  /\ \A a \in Existen : IF a = f THEN tamanio'[a] > tamanio[a] ELSE tamanio'[a] = tamanio[a]

Next == \E f \in Archivo : Crear(f) \/ Borrar(f) \/ Crecer(f)

Spec == Init /\ [][Next]_tamanio
=============================================================================
