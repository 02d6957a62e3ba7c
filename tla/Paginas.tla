-------------------------------- MODULE Paginas --------------------------------
(***************************************************************************)
(* What the memory process promises: a store of the pages of programs.     *)
(* There are no frames, no table and no cache; of the threads, only what   *)
(* each one still has to write.                                            *)
(***************************************************************************)
EXTENDS Integers

CONSTANTS
  Pid, Hilo, Dato, MaxPag,
  Confunde     \* the contents a reservation may take for a free entry

VARIABLES
  contenido,   \* the content of every page that is assigned
  pendiente    \* what each thread has to write: a page and a datum, or nothing

Asignadas == DOMAIN contenido
De(p)     == {pg \in Asignadas : pg[1] = p}

\* k is the number after the last page of p.
Sigue(p, k) ==
  /\ \A pg \in De(p) : pg[2] < k
  /\ k = 0 \/ <<p, k - 1>> \in Asignadas

Init == contenido = << >> /\ pendiente = [h \in Hilo |-> {}]

\* A program gets one more page, with anything in it; the other pages, its own
\* and those of the others, keep what they have.  Numbers are left out only
\* where there is content to mistake for a free entry.
Reservar(p) ==
  /\ \E k \in 0..MaxPag[p], d \in Dato :
       /\ \A pg \in De(p) : pg[2] < k
       /\ Confunde = {} => Sigue(p, k)
       /\ contenido' = [pg \in Asignadas \cup {<<p, k>>} |->
                          IF pg \in Asignadas THEN contenido[pg] ELSE d]
  /\ UNCHANGED pendiente

\* A reservation is written over a page.
Pisar(pg) ==
  /\ contenido[pg] \in Confunde
  /\ \E d \in Dato : contenido' = [contenido EXCEPT ![pg] = d]
  /\ UNCHANGED pendiente

\* A thread is asked to write.
Pedir(h) ==
  /\ pendiente[h] = {}
  /\ \E p \in Pid : \E k \in 0..MaxPag[p], d \in Dato :
       pendiente' = [pendiente EXCEPT ![h] = {<<<<p, k>>, d>>}]
  /\ UNCHANGED contenido

\* It writes that page and no other, and only once.
Escribir(h) ==
  /\ \E w \in pendiente[h] :
       w[1] \in Asignadas /\ contenido' = [contenido EXCEPT ![w[1]] = w[2]]
  /\ pendiente' = [pendiente EXCEPT ![h] = {}]

\* Or the page is not there.
Rechazar(h) ==
  /\ \E w \in pendiente[h] : w[1] \notin Asignadas
  /\ pendiente' = [pendiente EXCEPT ![h] = {}]
  /\ UNCHANGED contenido

Quitar(S) ==
  /\ contenido' = [pg \in Asignadas \ S |-> contenido[pg]]
  /\ UNCHANGED pendiente

Next ==
  \/ \E p \in Pid : Reservar(p) \/ Quitar(De(p))
  \/ \E pg \in Asignadas : Pisar(pg) \/ Quitar({pg})
  \/ \E h \in Hilo : Pedir(h) \/ Escribir(h) \/ Rechazar(h)

Spec == Init /\ [][Next]_<<contenido, pendiente>>
=============================================================================
