--------------------------- MODULE ArchivosProofs ---------------------------
(***************************************************************************)
(* Theorems about Archivos, for any programs, files and requests. The      *)
(* answers of the file system never reach another thread: the thread that  *)
(* waits for one is the holder of mutex_fs, and there is one message at    *)
(* most. And the tables: their types, the counts of descriptors, and the   *)
(* entry of each, from one invariant (ArInv) that says what the steps of   *)
(* an open and of a close leave half done.                                 *)
(***************************************************************************)
EXTENDS Archivos, Extremos

EnLinea(mensajes) == mensajes = << >> \/ \E m : mensajes = <<m>> /\ m.de = mutex_fs

HilosFirmes ==
  /\ hilo = [p \in Pid |-> hilo[p]]
  /\ \A p \in Pid : hilo[p] = [x \in DOMAIN hilo[p] |-> hilo[p][x]] /\ "pc" \in DOMAIN hilo[p]

Linea ==
  /\ \A p \in Pid : En(p, "espera") <=> mutex_fs = p
  /\ EnLinea(consultas) /\ EnLinea(respuestas)
  /\ consultas = << >> \/ respuestas = << >>
  /\ mutex_fs = Nadie => consultas = << >> /\ respuestas = << >>

ConvInv == HilosFirmes /\ Linea

\* One message at most, and of the holder.
LEMMA ConvPropia == ConvInv => ConversacionPropia
<1> SUFFICES ASSUME ConvInv PROVE ConversacionPropia
  OBVIOUS
<1>1. Len(consultas) + Len(respuestas) <= 1
  <2>1. \A m : Len(<<m>>) = 1
    OBVIOUS
  <2>2. Len(consultas) \in {0, 1} /\ Len(respuestas) \in {0, 1}
    BY <2>1 DEF ConvInv, Linea, EnLinea
  <2>3. Len(consultas) = 0 \/ Len(respuestas) = 0
    BY DEF ConvInv, Linea
  <2>4. ASSUME NEW a \in {0, 1}, NEW b \in {0, 1}, a = 0 \/ b = 0 PROVE a + b <= 1
    BY <2>4
  <2> HIDE DEF ConvInv
  <2> QED BY <2>2, <2>3, <2>4
<1>2. \A i \in DOMAIN consultas : consultas[i].de = mutex_fs
  BY DEF ConvInv, Linea, EnLinea
<1>3. \A i \in DOMAIN respuestas : respuestas[i].de = mutex_fs
  BY DEF ConvInv, Linea, EnLinea
<1> QED BY <1>1, <1>2, <1>3 DEF ConversacionPropia

\* No thread has the line at first.
LEMMA ConvInicio == Init => ConvInv
<1> SUFFICES ASSUME Init PROVE ConvInv
  OBVIOUS
<1>1. \A p \in Pid : hilo[p] = Libre
  BY DEF Init
<1>2. HilosFirmes
  BY <1>1 DEF Init, HilosFirmes, Libre
<1>3. \A p \in Pid : ~En(p, "espera") /\ mutex_fs # p
  BY <1>1, ArchivosAssumption DEF Init, En, Libre
<1> QED BY <1>2, <1>3 DEF ConvInv, Linea, EnLinea, Init

-----------------------------------------------------------------------------
\* A step that leaves the line and the threads alone.
LEMMA ConvQuieta ==
  ASSUME ConvInv, UNCHANGED <<mutex_fs, consultas, respuestas, hilo>>
  PROVE  ConvInv'
BY DEF ConvInv, HilosFirmes, Linea, EnLinea, En

\* A thread that is not on the line goes somewhere else that is not the line.
LEMMA ConvFuera ==
  ASSUME ConvInv, NEW p \in Pid, ~En(p, "espera"),
         NEW r, Pasa(p, r), r = [x \in DOMAIN r |-> r[x]], "pc" \in DOMAIN r, r.pc # "espera",
         UNCHANGED <<mutex_fs, consultas, respuestas>>
  PROVE  ConvInv'
<1>1. HilosFirmes'
  BY DEF ConvInv, HilosFirmes, Pasa
<1>2. \A q \in Pid : En(q, "espera")' <=> En(q, "espera")
  BY DEF ConvInv, HilosFirmes, Pasa, En
<1>3. Linea'
  BY <1>2 DEF ConvInv, Linea, EnLinea
<1> QED BY <1>1, <1>3 DEF ConvInv

\* The two places a request goes to from the tables: its end, and the mutex.
LEMMA ConvContesta ==
  ASSUME ConvInv, NEW p \in Pid, NEW bien, ~En(p, "espera"), Contesta(p, bien),
         UNCHANGED <<mutex_fs, consultas, respuestas>>
  PROVE  ConvInv'
<1>1. Libre = [x \in DOMAIN Libre |-> Libre[x]] /\ "pc" \in DOMAIN Libre /\ Libre.pc # "espera"
  BY DEF Libre
<1> QED BY <1>1, ConvFuera DEF Contesta

\* ConFS: to the mutex.
LEMMA ConvConFS ==
  ASSUME ConvInv, NEW p \in Pid, NEW op, NEW r, ~En(p, "espera"), ConFS(p, op, r),
         UNCHANGED <<mutex_fs, consultas, respuestas>>
  PROVE  ConvInv'
<1> DEFINE s == [hilo[p] EXCEPT !.pc = "tomar", !.op = op, !.ruta = r]
<1>1. s = [x \in DOMAIN s |-> s[x]] /\ "pc" \in DOMAIN s /\ s.pc # "espera"
  BY DEF ConvInv, HilosFirmes
<1>2. Pasa(p, s)
  BY DEF ConFS
<1> HIDE DEF s
<1> QED BY <1>1, <1>2, ConvFuera

-----------------------------------------------------------------------------
\* The requests of a program, and the threads in the tables.
LEMMA ConvPrograma ==
  ASSUME ConvInv, NEW p \in Pid, Programa(p)
  PROVE  ConvInv'
<1>1. CASE \E r \in Ruta, c \in BOOLEAN : AbrirArchivo(p, r, c)
  <2>1. PICK r \in Ruta, c \in BOOLEAN : AbrirArchivo(p, r, c)
    BY <1>1
  <2>2. PICK e : Pasa(p, [Libre EXCEPT !.pc = "agregar", !.ruta = r, !.creacion = c,
                           !.hay = HayEntrada(p), !.dir = e.dir, !.ubicacion = e.ubicacion])
    BY <2>1 DEF AbrirArchivo
  <2> DEFINE s == [Libre EXCEPT !.pc = "agregar", !.ruta = r, !.creacion = c,
                           !.hay = HayEntrada(p), !.dir = e.dir, !.ubicacion = e.ubicacion]
  <2>3. s = [x \in DOMAIN s |-> s[x]] /\ "pc" \in DOMAIN s /\ s.pc # "espera"
    BY DEF Libre
  <2>4. Pasa(p, s) /\ ~En(p, "espera") /\ UNCHANGED <<mutex_fs, consultas, respuestas>>
    BY <2>1, <2>2 DEF AbrirArchivo, Pide, En, socket
  <2> HIDE DEF s
  <2> QED BY <2>3, <2>4, ConvFuera
<1>2. ASSUME NEW fd \in Descriptor, BorrarArchivo(p, fd)
      PROVE  ConvInv'
  <2>1. ~En(p, "espera") /\ UNCHANGED <<mutex_fs, consultas, respuestas>>
    BY <1>2 DEF BorrarArchivo, Pide, En, socket
  <2>2. \/ UNCHANGED hilo \/ Contesta(p, FALSE)
        \/ \E e \in EntradaDe(p, fd) : ConFS(p, "borrar", e.archivo)
    BY <1>2 DEF BorrarArchivo
  <2> QED BY <2>1, <2>2, ConvQuieta, ConvContesta, ConvConFS
<1>3. ASSUME NEW fd, NEW op, Transferir(p, fd, op)
      PROVE  ConvInv'
  <2>1. ~En(p, "espera") /\ UNCHANGED <<mutex_fs, consultas, respuestas>>
    BY <1>3 DEF Transferir, Pide, En, socket
  <2>2. \/ UNCHANGED hilo \/ Contesta(p, FALSE)
        \/ \E e \in EntradaDe(p, fd) : ConFS(p, op, e.archivo)
    BY <1>3 DEF Transferir
  <2> QED BY <2>1, <2>2, ConvQuieta, ConvContesta, ConvConFS
<1>4. ASSUME NEW fd \in Descriptor, CerrarArchivo(p, fd)
      PROVE  ConvInv'
  <2>1. ~En(p, "espera") /\ UNCHANGED <<mutex_fs, consultas, respuestas>>
    BY <1>4 DEF CerrarArchivo, Pide, En, socket
  <2>2. CASE UNCHANGED hilo
    BY <2>1, <2>2, ConvQuieta
  <2>3. CASE Contesta(p, FALSE)
    BY <2>1, <2>3, ConvContesta
  <2>4. ASSUME NEW e \in EntradaDe(p, fd), Pasa(p, [Libre EXCEPT !.pc = "cerrar", !.ruta = e.archivo])
        PROVE  ConvInv'
    <3> DEFINE s == [Libre EXCEPT !.pc = "cerrar", !.ruta = e.archivo]
    <3>1. s = [x \in DOMAIN s |-> s[x]] /\ "pc" \in DOMAIN s /\ s.pc # "espera"
      BY DEF Libre
    <3>2. Pasa(p, s)
      BY <2>4
    <3> HIDE DEF s
    <3> QED BY <2>1, <3>1, <3>2, ConvFuera
  <2> QED BY <1>4, <2>2, <2>3, <2>4 DEF CerrarArchivo
<1>5. ASSUME NEW fd \in Descriptor, NEW pos \in Posicion, MoverCursor(p, fd, pos)
      PROVE  ConvInv'
  <2>1. ~En(p, "espera") /\ UNCHANGED <<mutex_fs, consultas, respuestas>>
    BY <1>5 DEF MoverCursor, Pide, En, socket
  <2> QED BY <1>5, <2>1, ConvContesta DEF MoverCursor
<1>6. CASE Imprimir(p)
  <2>1. ~En(p, "espera") /\ UNCHANGED <<mutex_fs, consultas, respuestas>>
    BY <1>6 DEF Imprimir, Pide, En, socket
  <2> QED BY <1>6, <2>1, ConvContesta DEF Imprimir
<1>7. CASE Terminar(p)
  BY <1>7, ConvQuieta DEF Terminar, socket
<1> QED BY <1>1, <1>2, <1>3, <1>4, <1>5, <1>6, <1>7 DEF Programa, Escribir, LeerArchivo

\* agregarArchivo_aProceso.
LEMMA ConvAgregar ==
  ASSUME ConvInv, NEW p \in Pid, AgregarArchivo(p)
  PROVE  ConvInv'
<1>1. ~En(p, "espera") /\ UNCHANGED <<mutex_fs, consultas, respuestas>>
  BY DEF AgregarArchivo, En, socket
<1>2. \E fd, g : Anotar(p, fd, g)
  BY DEF AgregarArchivo
<1>3. UNCHANGED hilo \/ \E op : ConFS(p, op, hilo[p].ruta)
  BY <1>2 DEF Anotar
<1> QED BY <1>1, <1>3, ConvQuieta, ConvConFS

\* eliminarFd.
LEMMA ConvDescontar ==
  ASSUME ConvInv, NEW p \in Pid, DescontarArchivo(p)
  PROVE  ConvInv'
<1>1. ~En(p, "espera") /\ UNCHANGED <<mutex_fs, consultas, respuestas>>
  BY DEF DescontarArchivo, En, socket
<1> QED BY <1>1, ConvContesta DEF DescontarArchivo

-----------------------------------------------------------------------------
\* The exchange: the free mutex means an empty line, and its new holder is the
\* one that waits.
LEMMA ConvEnviar ==
  ASSUME ConvInv, NEW p \in Pid, EnviarFS(p)
  PROVE  ConvInv'
<1> DEFINE s == [hilo[p] EXCEPT !.pc = "espera"]
           m == [de |-> p, op |-> hilo[p].op, ruta |-> hilo[p].ruta]
<1>1. s = [x \in DOMAIN s |-> s[x]] /\ "pc" \in DOMAIN s /\ s.pc = "espera" /\ Pasa(p, s)
  BY DEF ConvInv, HilosFirmes, EnviarFS
<1>2. mutex_fs = Nadie /\ mutex_fs' = p /\ UNCHANGED respuestas
  BY DEF EnviarFS, TomarFS
<1>3. consultas' = <<m>> /\ respuestas' = << >> /\ m.de = p
  BY <1>2 DEF EnviarFS, ConvInv, Linea
<1>4. \A q \in Pid : ~En(q, "espera")
  BY <1>2, ArchivosAssumption DEF ConvInv, Linea
<1> HIDE DEF s, m
<1>5. HilosFirmes'
  BY <1>1 DEF ConvInv, HilosFirmes, Pasa
<1>6. \A q \in Pid : En(q, "espera")' <=> q = p
  BY <1>1, <1>4 DEF ConvInv, HilosFirmes, Pasa, En
<1>7. mutex_fs' # Nadie
  BY <1>2, ArchivosAssumption
<1>8. Linea'
  BY <1>2, <1>3, <1>6, <1>7 DEF Linea, EnLinea
<1> QED BY <1>5, <1>8 DEF ConvInv

\* The answer carries the name of the request.
LEMMA ConvAtender ==
  ASSUME ConvInv, AtenderFS
  PROVE  ConvInv'
<1>1. PICK m : consultas = <<m>> /\ m.de = mutex_fs
  BY DEF AtenderFS, ConvInv, Linea, EnLinea
<1>2. respuestas = << >> /\ mutex_fs # Nadie
  BY <1>1 DEF ConvInv, Linea
<1>. /\ Head(<<m>>) = m /\ Tail(<<m>>) = << >>
     /\ \A x : Append(<< >>, x) = <<x>>
  OBVIOUS
<1>3. consultas' = << >>
  BY <1>1 DEF AtenderFS
<1>4. PICK bien : respuestas' = <<[de |-> m.de, bien |-> bien]>>
  BY <1>1, <1>2 DEF AtenderFS
<1>5. UNCHANGED <<mutex_fs, hilo>>
  BY DEF AtenderFS
<1> DEFINE n == [de |-> m.de, bien |-> bien]
<1>6. n.de = mutex_fs' /\ respuestas' = <<n>>
  BY <1>1, <1>4, <1>5
<1> HIDE DEF n
<1>7. EnLinea(respuestas)'
  BY <1>6 DEF EnLinea
<1> QED BY <1>2, <1>3, <1>5, <1>7 DEF ConvInv, HilosFirmes, Linea, EnLinea, En

\* The one that waits reads the only message, and the mutex is free again.
LEMMA ConvRecibir ==
  ASSUME ConvInv, NEW p \in Pid, RecibirFS(p)
  PROVE  ConvInv'
<1>1. mutex_fs = p /\ mutex_fs' = Nadie /\ p # Nadie
  BY ArchivosAssumption DEF RecibirFS, DevolverFS, ConvInv, Linea
<1>2. consultas' = << >> /\ respuestas' = << >>
  BY DEF RecibirFS, ConvInv, Linea, EnLinea
<1>3. \E r : Pasa(p, r) /\ r = [x \in DOMAIN r |-> r[x]] /\ "pc" \in DOMAIN r /\ r.pc # "espera"
  <2>1. CASE ConFS(p, "crear", hilo[p].ruta)
    <3> DEFINE s == [hilo[p] EXCEPT !.pc = "tomar", !.op = "crear", !.ruta = hilo[p].ruta]
    <3>1. s = [x \in DOMAIN s |-> s[x]] /\ "pc" \in DOMAIN s /\ s.pc # "espera"
      BY DEF ConvInv, HilosFirmes
    <3>2. Pasa(p, s)
      BY <2>1 DEF ConFS
    <3> HIDE DEF s
    <3> QED BY <3>1, <3>2
  <2>2. CASE Contesta(p, Head(respuestas).bien)
    <3>1. Libre = [x \in DOMAIN Libre |-> Libre[x]] /\ "pc" \in DOMAIN Libre /\ Libre.pc # "espera"
      BY DEF Libre
    <3> QED BY <2>2, <3>1 DEF Contesta
  <2> QED BY <2>1, <2>2 DEF RecibirFS
<1>4. PICK r : Pasa(p, r) /\ r = [x \in DOMAIN r |-> r[x]] /\ "pc" \in DOMAIN r /\ r.pc # "espera"
  BY <1>3
<1>5. HilosFirmes'
  BY <1>4 DEF ConvInv, HilosFirmes, Pasa
<1>6. \A q \in Pid : ~En(q, "espera")'
  BY <1>1, <1>4 DEF ConvInv, HilosFirmes, Linea, Pasa, En
<1>7. \A q \in Pid : mutex_fs' # q
  BY <1>1, ArchivosAssumption
<1>8. Linea'
  BY <1>2, <1>6, <1>7 DEF Linea, EnLinea
<1> QED BY <1>5, <1>8 DEF ConvInv

-----------------------------------------------------------------------------
\* One case per action of Next.
LEMMA ConvPaso == ConvInv /\ [Next]_vars => ConvInv'
<1> SUFFICES ASSUME ConvInv, [Next]_vars PROVE ConvInv'
  OBVIOUS
<1>1. ASSUME NEW p \in Pid, CrearEntradaArchivoProceso(p) PROVE ConvInv'
  BY <1>1, ConvQuieta DEF CrearEntradaArchivoProceso, socket
<1>2. ASSUME NEW p \in Pid, Avanza(p) PROVE ConvInv'
  BY <1>2, ConvAgregar, ConvDescontar, ConvEnviar, ConvRecibir DEF Avanza
<1>3. CASE UNCHANGED vars
  BY <1>3, ConvQuieta DEF vars, socket
<1> QED BY <1>1, <1>2, <1>3, ConvPrograma, ConvAtender DEF Next

\* Each answer of the file system is read by the thread that asked for it,
\* whatever the programs open, close, delete, read and write: the five handlers
\* keep mutex_fs for the whole exchange (operaciones.c).
THEOREM ConversacionSegura == Spec => []ConversacionPropia
<1>1. ConvInv /\ [Next]_vars => ConvInv'
  BY ConvPaso
<1> QED BY ConvInicio, <1>1, ConvPropia, PTL DEF Spec

-----------------------------------------------------------------------------
(***************************************************************************)
(* What the tables promise. The numbers of a program's descriptors differ, *)
(* because its own opens come one after another: max_archivo_fd grows      *)
(* before each of them. While no two entries share a path or a ubicacion   *)
(* every descriptor, open or being closed, has the entry of its file, and  *)
(* the entry counts them all.                                              *)
(***************************************************************************)
DeUbicacion(g) == {x \in Abiertos : AbiertoDe(x).globalFD = g}
Cerrando(r) == {p \in Pid : En(p, "cerrar") /\ hilo[p].ruta = r}

ManosInv == \A p \in Pid : ~En(p, "libre") => hilo[p].ruta \in Ruta

NumerosDe(A, m) == /\ \A i, j \in DOMAIN A : A[i].fd = A[j].fd => i = j
                   /\ \A i \in DOMAIN A : A[i].fd <= m
NumerosInv == \A p \in Pid :
  /\ NumerosDe(processFileTable[p].archivos, max_archivo_fd)
  /\ En(p, "agregar") => \A i \in DOMAIN processFileTable[p].archivos :
                           processFileTable[p].archivos[i].fd # max_archivo_fd

Distintas(s) == \A i, j \in DOMAIN s :
  s[i].archivo = s[j].archivo \/ s[i].ubicacion = s[j].ubicacion => i = j

CuentaBien(e) ==
  e.vecesAbierto = Cardinality(DeUbicacion(e.ubicacion)) + Cardinality(Cerrando(e.archivo))

Cuentas == \A i \in DOMAIN globalFileTable : CuentaBien(globalFileTable[i])

ConEntrada == \A x \in Abiertos : \E i \in DOMAIN globalFileTable :
  /\ globalFileTable[i].ubicacion = AbiertoDe(x).globalFD
  /\ globalFileTable[i].archivo = AbiertoDe(x).ruta

CerrandoConEntrada == \A p \in Pid : En(p, "cerrar") =>
  \E i \in DOMAIN globalFileTable : globalFileTable[i].archivo = hilo[p].ruta

Firme == Distintas(globalFileTable) /\ Cuentas /\ ConEntrada /\ CerrandoConEntrada

ArInv == TypeOK /\ ManosInv /\ NumerosInv /\ (~enredado /\ kernel = "vivo" => Firme)

-----------------------------------------------------------------------------
(***************************************************************************)
(* The operators of the tables.                                            *)
(***************************************************************************)

\* The first of the places of a list for which something holds.
LEMMA MenorEs ==
  ASSUME NEW S, S \subseteq Nat, S # {}
  PROVE  Menor(S) \in S /\ \A y \in S : Menor(S) <= y
BY HayPrimero DEF Menor

\* A number of elements of Q, each with a number of them up to it, from 1 to that one.
LEMMA EnesimoEs ==
  ASSUME NEW n \in Nat, NEW Q, Q \subseteq 1..n, NEW k \in 1..Cardinality(Q)
  PROVE  /\ Enesimo(Q, k) \in Q
         /\ Cardinality({j \in Q : j <= Enesimo(Q, k)}) = k
<1> DEFINE H(i) == {j \in Q : j <= i}
           S == {i \in 0..n : Cardinality(H(i)) >= k}
<1>0. \A j \in Q : j \in Int /\ 1 <= j /\ j <= n
  OBVIOUS
<1>1. IsFiniteSet(Q) /\ Cardinality(Q) \in Nat
  <2>1. IsFiniteSet(1..n)
    BY FS_Interval
  <2> QED BY <2>1, FS_Subset, FS_CardinalityType
<1>2. \A i : IsFiniteSet(H(i)) /\ Cardinality(H(i)) \in Nat
  BY <1>1, FS_Subset, FS_CardinalityType
<1>3. n \in S
  <2>1. H(n) = Q
    BY <1>0
  <2> QED BY <1>1, <2>1
<1>4. PICK i \in S : \A c \in S : i <= c
  <2>1. S \subseteq Nat /\ S # {}
    BY <1>3
  <2> HIDE DEF S
  <2> QED BY <2>1, HayPrimero
<1>5. i # 0
  <2>0. \A j \in Q : ~(j <= 0)
    BY <1>0
  <2>1. H(0) = {}
    BY <2>0
  <2>2. Cardinality(H(0)) = 0
    BY <2>1, FS_EmptySet
  <2> HIDE DEF H
  <2>3. \A c : c \in S => Cardinality(H(c)) >= k
    BY DEF S
  <2> HIDE DEF S
  <2> QED BY <1>1, <2>2, <2>3, <1>4
<1>6. i - 1 \in 0..n /\ ~(Cardinality(H(i - 1)) >= k)
  <2>1. i \in 0..n /\ i - 1 \in 0..n /\ ~(i <= i - 1)
    BY <1>4, <1>5
  <2>2. i - 1 \notin S
    <3> HIDE DEF S
    <3> QED BY <1>4, <2>1
  <2> HIDE DEF H
  <2> QED BY <2>1, <2>2
<1>7. i \in Q
  <2>1. ASSUME i \notin Q PROVE FALSE
    <3>0. \A j \in Q : j <= i <=> j <= i - 1
      BY <1>0, <1>4, <2>1
    <3>1. H(i) = H(i - 1)
      BY <3>0
    <3>2. Cardinality(H(i)) >= k
      BY <1>4
    <3> HIDE DEF H, S
    <3> QED BY <1>6, <3>1, <3>2
  <2> QED BY <2>1
<1>8. H(i) = H(i - 1) \cup {i} /\ i \notin H(i - 1)
  <2>1. \A j \in Q : j <= i <=> (j <= i - 1 \/ j = i)
    BY <1>0, <1>4
  <2>2. ~(i <= i - 1) /\ i <= i
    BY <1>4
  <2> QED BY <1>7, <2>1, <2>2
<1>9. Cardinality(H(i)) = Cardinality(H(i - 1)) + 1
  <2> HIDE DEF H
  <2> QED BY <1>2, <1>8, FS_AddElement
<1>10. Cardinality(H(i)) = k
  <2>1. Cardinality(H(i)) >= k
    BY <1>4
  <2> HIDE DEF H
  <2> QED BY <1>1, <1>2, <1>6, <1>9, <2>1
<1> QED BY <1>7, <1>10 DEF Enesimo

\* Every element of Q is one of those.
LEMMA EnesimoTodos ==
  ASSUME NEW n \in Nat, NEW Q, Q \subseteq 1..n, NEW i \in Q
  PROVE  \E k \in 1..Cardinality(Q) : Enesimo(Q, k) = i
<1> DEFINE H(a) == {j \in Q : j <= a}
           k == Cardinality(H(i))
<1>0. \A j \in Q : j \in Int /\ 1 <= j /\ j <= n
  OBVIOUS
<1>1. IsFiniteSet(Q) /\ Cardinality(Q) \in Nat
  <2>1. IsFiniteSet(1..n)
    BY FS_Interval
  <2> QED BY <2>1, FS_Subset, FS_CardinalityType
<1>2. \A a : IsFiniteSet(H(a)) /\ Cardinality(H(a)) \in Nat /\ Cardinality(H(a)) <= Cardinality(Q)
  BY <1>1, FS_Subset, FS_CardinalityType
<1>3. k # 0
  <2>1. i \in H(i)
    OBVIOUS
  <2> HIDE DEF H
  <2> QED BY <1>2, <2>1, FS_EmptySet
<1>4. k \in 1..Cardinality(Q)
  <2> HIDE DEF H
  <2> QED BY <1>1, <1>2, <1>3
<1> DEFINE e == Enesimo(Q, k)
<1>5. e \in Q /\ Cardinality(H(e)) = k
  <2> HIDE DEF k
  <2> QED BY <1>4, EnesimoEs
<1>6. ASSUME NEW a \in Q, NEW b \in Q, a < b PROVE Cardinality(H(a)) < Cardinality(H(b))
  <2>1. H(a) \subseteq H(b) /\ b \in H(b) /\ b \notin H(a)
    <3>1. \A j \in Q : j <= a => j <= b
      BY <1>0, <1>6
    <3>2. b <= b /\ ~(b <= a)
      BY <1>0, <1>6
    <3> QED BY <3>1, <3>2
  <2>2. Cardinality(H(a) \cup {b}) = Cardinality(H(a)) + 1
    <3> HIDE DEF H
    <3> QED BY <1>2, <2>1, FS_AddElement
  <2>3. Cardinality(H(a) \cup {b}) <= Cardinality(H(b))
    <3>1. H(a) \cup {b} \subseteq H(b)
      BY <2>1
    <3> HIDE DEF H
    <3> QED BY <1>2, <3>1, FS_Subset
  <2> HIDE DEF H
  <2> QED BY <1>2, <2>2, <2>3
<1>7. e = i
  <2>1. e \in Int /\ i \in Int
    BY <1>0, <1>5
  <2>2. ~(Cardinality(H(e)) < Cardinality(H(i))) /\ ~(Cardinality(H(i)) < Cardinality(H(e)))
    <3> HIDE DEF H, e
    <3> QED BY <1>2, <1>5
  <2>3. ~(e < i) /\ ~(i < e)
    <3> HIDE DEF H, e
    <3> QED BY <1>5, <1>6, <2>2
  <2> HIDE DEF e
  <2> QED BY <2>1, <2>3
<1> QED BY <1>4, <1>7

\* The list of the elements at the places of Q: which places those are, one by one.
LEMMA SoloEs ==
  ASSUME NEW T, NEW s \in Seq(T), NEW Q, Q \subseteq DOMAIN s
  PROVE  /\ Solo(s, Q) \in Seq(T)
         /\ IsFiniteSet(Q) /\ DOMAIN Solo(s, Q) = 1..Cardinality(Q)
         /\ \A k \in DOMAIN Solo(s, Q) : Enesimo(Q, k) \in Q /\ Solo(s, Q)[k] = s[Enesimo(Q, k)]
         /\ \A k, l \in DOMAIN Solo(s, Q) : Enesimo(Q, k) = Enesimo(Q, l) => k = l
         /\ \A i \in Q : \E k \in DOMAIN Solo(s, Q) : Enesimo(Q, k) = i
<1>1. Len(s) \in Nat /\ DOMAIN s = 1..Len(s) /\ \A i \in DOMAIN s : s[i] \in T
  OBVIOUS
<1>2. Q \subseteq 1..Len(s)
  BY <1>1
<1>3. IsFiniteSet(Q) /\ Cardinality(Q) \in Nat
  <2>1. IsFiniteSet(1..Len(s))
    BY <1>1, FS_Interval
  <2> QED BY <1>2, <2>1, FS_Subset, FS_CardinalityType
<1>4. \A k \in 1..Cardinality(Q) :
        Enesimo(Q, k) \in Q /\ Cardinality({j \in Q : j <= Enesimo(Q, k)}) = k
  BY <1>1, <1>2, EnesimoEs
<1>5. DOMAIN Solo(s, Q) = 1..Cardinality(Q)
      /\ \A k \in 1..Cardinality(Q) : Solo(s, Q)[k] = s[Enesimo(Q, k)]
  BY DEF Solo
<1>6. Solo(s, Q) \in [1..Cardinality(Q) -> T]
  BY <1>1, <1>4 DEF Solo
<1>7. Solo(s, Q) \in Seq(T)
  BY <1>3, <1>6
<1>8. \A k, l \in 1..Cardinality(Q) : Enesimo(Q, k) = Enesimo(Q, l) => k = l
  BY <1>4
<1>9. \A i \in Q : \E k \in 1..Cardinality(Q) : Enesimo(Q, k) = i
  BY <1>1, <1>2, EnesimoTodos
<1> QED BY <1>3, <1>4, <1>5, <1>7, <1>8, <1>9

\* The first entry found is one of those looked for, and there is one if there is any.
LEMMA PrimeraRuta ==
  ASSUME globalFileTable \in Seq(Entrada), NEW r
  PROVE  /\ \A e \in BuscarPorRuta(r) :
              \E i \in DOMAIN globalFileTable : e = globalFileTable[i] /\ e.archivo = r
         /\ BuscarPorRuta(r) = {} => \A i \in DOMAIN globalFileTable : globalFileTable[i].archivo # r
<1> DEFINE S == {i \in DOMAIN globalFileTable : globalFileTable[i].archivo = r}
<1>1. S \subseteq Nat
  OBVIOUS
<1>2. BuscarPorRuta(r) = IF S = {} THEN {} ELSE {globalFileTable[Menor(S)]}
  BY DEF BuscarPorRuta, Primera
<1>3. S # {} => Menor(S) \in S
  <2> HIDE DEF S
  <2> QED BY <1>1, MenorEs
<1> QED BY <1>2, <1>3

LEMMA PrimeraUbicacion ==
  ASSUME globalFileTable \in Seq(Entrada), NEW g
  PROVE  /\ \A e \in BuscarPorUbicacion(g) :
              \E i \in DOMAIN globalFileTable : e = globalFileTable[i] /\ e.ubicacion = g
         /\ BuscarPorUbicacion(g) = {} =>
              \A i \in DOMAIN globalFileTable : globalFileTable[i].ubicacion # g
<1> DEFINE S == {i \in DOMAIN globalFileTable : globalFileTable[i].ubicacion = g}
<1>1. S \subseteq Nat
  OBVIOUS
<1>2. BuscarPorUbicacion(g) = IF S = {} THEN {} ELSE {globalFileTable[Menor(S)]}
  BY DEF BuscarPorUbicacion, Primera
<1>3. S # {} => Menor(S) \in S
  <2> HIDE DEF S
  <2> QED BY <1>1, MenorEs
<1> QED BY <1>2, <1>3

LEMMA PrimerArchivo ==
  ASSUME NEW p, NEW fd, processFileTable[p].archivos \in Seq(Archivo)
  PROVE  \/ BuscarArchivo(p, fd) = {}
         \/ \E i \in DOMAIN processFileTable[p].archivos :
              /\ BuscarArchivo(p, fd) = {processFileTable[p].archivos[i]}
              /\ processFileTable[p].archivos[i].fd = fd
<1> DEFINE A == processFileTable[p].archivos
           S == {i \in DOMAIN A : A[i].fd = fd}
<1>1. S \subseteq Nat
  OBVIOUS
<1>2. BuscarArchivo(p, fd) = {} \/ (S # {} /\ BuscarArchivo(p, fd) = {A[Menor(S)]})
  <2>1. CASE HayEntrada(p)
    <3>1. BuscarArchivo(p, fd) = IF S = {} THEN {} ELSE {A[Menor(S)]}
      BY <2>1 DEF BuscarArchivo, Primera
    <3> HIDE DEF S
    <3> QED BY <3>1
  <2>2. CASE ~HayEntrada(p)
    BY <2>2 DEF BuscarArchivo
  <2> QED BY <2>1, <2>2
<1>3. S # {} => Menor(S) \in S
  <2> HIDE DEF S
  <2> QED BY <1>1, MenorEs
<1> QED BY <1>2, <1>3

\* There is an address that no entry has: one more address than entries was looked at.
LEMMA NuevaDirTipo ==
  ASSUME globalFileTable \in Seq(Entrada)
  PROVE  NuevaDir \in Nat \ {0}
<1> DEFINE n == Len(globalFileTable)
           D == {e.dir : e \in Entradas}
           S == (1..(n + 1)) \ D
<1>1. n \in Nat /\ DOMAIN globalFileTable = 1..n
  OBVIOUS
<1>2. S # {}
  <2>1. SUFFICES ASSUME S = {} PROVE FALSE
    OBVIOUS
  <2> DEFINE f == [d \in 1..(n + 1) |-> CHOOSE i \in 1..n : globalFileTable[i].dir = d]
  <2>2. \A d \in 1..(n + 1) : \E i \in 1..n : globalFileTable[i].dir = d
    BY <2>1, <1>1 DEF Entradas
  <2>3. \A d \in 1..(n + 1) : f[d] \in 1..n /\ globalFileTable[f[d]].dir = d
    BY <2>2
  <2>4. f \in [1..(n + 1) -> 1..n]
    BY <2>3
  <2>5. /\ IsFiniteSet(1..n) /\ Cardinality(1..n) = n
        /\ IsFiniteSet(1..(n + 1)) /\ Cardinality(1..(n + 1)) = n + 1
    <3> HIDE DEF n
    <3>1. 1 \in Int /\ n \in Int /\ n + 1 \in Int /\ ~(1 > n + 1) /\ (1 > n => n = 0)
      BY <1>1
    <3>2. IsFiniteSet(1..n) /\ Cardinality(1..n) = IF 1 > n THEN 0 ELSE n - 1 + 1
      BY <3>1, FS_Interval
    <3>3. IsFiniteSet(1..(n + 1)) /\ Cardinality(1..(n + 1)) = IF 1 > n + 1 THEN 0 ELSE n + 1 - 1 + 1
      BY <3>1, FS_Interval
    <3> QED BY <1>1, <3>1, <3>2, <3>3
  <2>6. Cardinality(1..n) < Cardinality(1..(n + 1))
    BY <1>1, <2>5
  <2> HIDE DEF f, n
  <2>7. \E x, y \in 1..(n + 1) : x # y /\ f[x] = f[y]
    BY <2>4, <2>5, <2>6, FS_PigeonHole
  <2> QED BY <2>3, <2>7
<1>3. S \subseteq Nat \ {0}
  BY <1>1
<1>4. Menor(S) \in S
  <2> HIDE DEF S
  <2> QED BY <1>2, <1>3, MenorEs
<1>5. NuevaDir = Menor(S)
  BY DEF NuevaDir
<1> HIDE DEF S
<1> QED BY <1>3, <1>4, <1>5

\* The entries removed: whether one is depends on the one before, so they are found
\* from the first to the last.
LEMMA QuitadasSon ==
  ASSUME NEW T, NEW s \in Seq(T), NEW r
  PROVE  /\ Quitadas(s, r) \subseteq DOMAIN s
         /\ \A i \in DOMAIN s : i \in Quitadas(s, r) <=>
              (i - 1 \notin Quitadas(s, r) /\ s[i].archivo = r /\ s[i].vecesAbierto = 1)
<1> DEFINE n == Len(s)
           Ultima(i) == s[i].archivo = r /\ s[i].vecesAbierto = 1
           Hasta(k, Q) == \A i \in 1..k : i \in Q <=> (i - 1 \notin Q /\ Ultima(i))
           Malos == {k \in 0..n : ~ \E Q \in SUBSET (1..k) : Hasta(k, Q)}
<1>1. n \in Nat /\ DOMAIN s = 1..n
  OBVIOUS
<1>2. Malos = {}
  <2>1. SUFFICES ASSUME Malos # {} PROVE FALSE
    OBVIOUS
  <2>2. PICK b \in Malos : \A c \in Malos : b <= c
    <3>1. Malos \subseteq Nat
      BY <1>1
    <3> HIDE DEF Malos
    <3> QED BY <2>1, <3>1, HayPrimero
  <2>3. b \in 0..n /\ ~ \E Q \in SUBSET (1..b) : Hasta(b, Q)
    BY <2>2
  <2>4. b # 0
    <3>1. 1..0 = {}
      OBVIOUS
    <3> HIDE DEF Ultima
    <3>2. Hasta(0, {})
      BY <3>1
    <3> HIDE DEF Hasta
    <3> QED BY <2>3, <3>1, <3>2
  <2>5. b - 1 \in 0..n /\ ~(b <= b - 1)
    BY <1>1, <2>3, <2>4
  <2>6. PICK Q \in SUBSET (1..(b - 1)) : Hasta(b - 1, Q)
    <3>1. b - 1 \notin Malos
      <4> HIDE DEF Malos
      <4> QED BY <2>2, <2>5
    <3> HIDE DEF Hasta
    <3> QED BY <2>5, <3>1
  <2> DEFINE U == IF b - 1 \notin Q /\ Ultima(b) THEN Q \cup {b} ELSE Q
  <2> HIDE DEF Ultima
  <2>7. U \in SUBSET (1..b)
    <3>1. \A i \in 1..(b - 1) : i \in 1..b
      BY <2>3
    <3>2. b \in 1..b
      BY <2>3, <2>4
    <3> QED BY <2>6, <3>1, <3>2
  <2>8. ASSUME NEW i \in 1..b PROVE i \in U <=> (i - 1 \notin U /\ Ultima(i))
    <3>1. b \in Int /\ i \in Int /\ i <= b /\ \A j \in Q : j \in Int /\ j <= b - 1
      BY <2>3, <2>6
    <3>2. i - 1 # b /\ b \notin Q
      BY <3>1
    <3>3. CASE i = b
      BY <3>2, <3>3
    <3>4. CASE i # b
      <4>1. i \in 1..(b - 1)
        BY <3>1, <3>4
      <4>2. i \in Q <=> (i - 1 \notin Q /\ Ultima(i))
        BY <2>6, <4>1
      <4> QED BY <3>2, <3>4, <4>2
    <3> QED BY <3>3, <3>4
  <2>9. Hasta(b, U)
    <3> HIDE DEF U
    <3> QED BY <2>8
  <2> HIDE DEF U, Hasta
  <2> QED BY <2>3, <2>7, <2>9
<1>3. \E Q \in SUBSET (1..n) : Hasta(n, Q)
  <2>1. n \in 0..n
    BY <1>1
  <2> HIDE DEF Hasta, n
  <2> QED BY <1>2, <2>1
<1>4. \E Q \in SUBSET (DOMAIN s) : \A i \in DOMAIN s :
        i \in Q <=> (i - 1 \notin Q /\ s[i].archivo = r /\ s[i].vecesAbierto = 1)
  <2> HIDE DEF n
  <2> QED BY <1>1, <1>3
<1> QED BY <1>4 DEF Quitadas

\* What is left of one entry that is looked at when the path r is closed.
MenosUno(e, r) == IF e.archivo = r THEN [e EXCEPT !.vecesAbierto = @ - 1] ELSE e

\* No entry is left with nobody that has it open.
LEMMA DescontadaTipo ==
  ASSUME NEW s \in Seq(Entrada), NEW r
  PROVE  Descontada(s, r) \in Seq(Entrada)
<1> DEFINE Q == Quitadas(s, r)
           Menos(i) == IF s[i].archivo = r /\ i - 1 \notin Q
                       THEN [s[i] EXCEPT !.vecesAbierto = @ - 1] ELSE s[i]
           m == [i \in DOMAIN s |-> Menos(i)]
           T == [dir : Nat \ {0}, archivo : Ruta, vecesAbierto : Nat, ubicacion : Nat]
           D == Solo(m, DOMAIN s \ Q)
<1>1. Descontada(s, r) = D
  BY DEF Descontada
<1>2. \A i \in DOMAIN s : s[i] \in Entrada
  OBVIOUS
<1>3. \A i \in DOMAIN s : i \in Q <=> (i - 1 \notin Q /\ s[i].archivo = r /\ s[i].vecesAbierto = 1)
  BY QuitadasSon
<1>4. \A e \in Entrada : e \in T /\ [e EXCEPT !.vecesAbierto = @ - 1] \in T
  <2>1. \A e \in Entrada : e.vecesAbierto - 1 \in Nat
    BY DEF Entrada
  <2> QED BY <2>1 DEF Entrada
<1>5. \A e \in Entrada : e.vecesAbierto # 1 => [e EXCEPT !.vecesAbierto = @ - 1] \in Entrada
  <2>1. \A e \in Entrada : e.vecesAbierto # 1 => e.vecesAbierto - 1 \in Nat \ {0}
    BY DEF Entrada
  <2> QED BY <2>1 DEF Entrada
<1> HIDE DEF Q, T
<1>6. m \in Seq(T) /\ DOMAIN m = DOMAIN s /\ \A i \in DOMAIN s : m[i] = Menos(i)
  <2>1. Len(s) \in Nat /\ DOMAIN s = 1..Len(s)
    OBVIOUS
  <2>2. \A i \in DOMAIN s : Menos(i) \in T
    BY <1>2, <1>4
  <2> HIDE DEF Menos
  <2>3. m \in [1..Len(s) -> T]
    BY <2>1, <2>2
  <2> QED BY <2>1, <2>3
<1>7. \A i \in DOMAIN s \ Q : m[i] \in Entrada
  <2>1. \A i \in DOMAIN s \ Q : Menos(i) \in Entrada
    BY <1>2, <1>3, <1>5
  <2> HIDE DEF Menos
  <2> QED BY <1>6, <2>1
<1> HIDE DEF m
<1>8. D \in Seq(T) /\ \A k \in DOMAIN D : Enesimo(DOMAIN s \ Q, k) \in DOMAIN s \ Q
                                          /\ D[k] = m[Enesimo(DOMAIN s \ Q, k)]
  <2>1. DOMAIN s \ Q \subseteq DOMAIN m
    BY <1>6
  <2> QED BY <1>6, <2>1, SoloEs
<1>9. \A k \in DOMAIN D : D[k] \in Entrada
  BY <1>7, <1>8
<1> HIDE DEF D
<1>10. D \in Seq(Entrada)
  BY <1>8, <1>9
<1> QED BY <1>1, <1>10

\* With one entry per path, the entry of r loses one descriptor or goes, and the
\* others stay as they are.
LEMMA DescontadaEs ==
  ASSUME NEW s \in Seq(Entrada), NEW r, Distintas(s)
  PROVE  /\ \A k \in DOMAIN Descontada(s, r) : \E i \in DOMAIN s :
              Descontada(s, r)[k] = MenosUno(s[i], r)
         /\ \A i \in DOMAIN s : s[i].archivo # r \/ s[i].vecesAbierto # 1 =>
              \E k \in DOMAIN Descontada(s, r) : Descontada(s, r)[k] = MenosUno(s[i], r)
         /\ Distintas(Descontada(s, r))
<1> DEFINE Q == Quitadas(s, r)
           Menos(i) == IF s[i].archivo = r /\ i - 1 \notin Q
                       THEN [s[i] EXCEPT !.vecesAbierto = @ - 1] ELSE s[i]
           m == [i \in DOMAIN s |-> Menos(i)]
           D == Solo(m, DOMAIN s \ Q)
           n(k) == Enesimo(DOMAIN s \ Q, k)
<1>1. Descontada(s, r) = D
  BY DEF Descontada
<1>2. /\ Q \subseteq DOMAIN s
      /\ \A i \in DOMAIN s : i \in Q <=> (i - 1 \notin Q /\ s[i].archivo = r /\ s[i].vecesAbierto = 1)
  BY QuitadasSon
<1>3. \A i \in DOMAIN s : i \in Int /\ i - 1 # i
  OBVIOUS
<1> HIDE DEF Q
<1>4. \A i \in DOMAIN s : s[i].archivo = r => i - 1 \notin Q
  BY <1>2, <1>3 DEF Distintas
<1>5. \A i \in DOMAIN s : i \in Q <=> s[i].archivo = r /\ s[i].vecesAbierto = 1
  BY <1>2, <1>4
<1>6. \A i \in DOMAIN s : m[i] = MenosUno(s[i], r)
  BY <1>4 DEF MenosUno
<1>7. \A i \in DOMAIN s : s[i] \in Entrada
  OBVIOUS
<1>8. \A e \in Entrada : /\ MenosUno(e, r).archivo = e.archivo
                         /\ MenosUno(e, r).ubicacion = e.ubicacion
  BY DEF MenosUno, Entrada
<1>9. m \in Seq({m[i] : i \in DOMAIN s}) /\ DOMAIN m = DOMAIN s
  <2>1. Len(s) \in Nat /\ DOMAIN s = 1..Len(s)
    OBVIOUS
  <2>2. DOMAIN m = 1..Len(s) /\ m = [i \in 1..Len(s) |-> m[i]]
    BY <2>1
  <2> HIDE DEF m
  <2>3. m \in [1..Len(s) -> {m[i] : i \in 1..Len(s)}]
    BY <2>2
  <2> QED BY <2>1, <2>2, <2>3
<1> HIDE DEF m, D
<1>10. /\ \A k \in DOMAIN D : n(k) \in DOMAIN s \ Q /\ D[k] = m[n(k)]
       /\ \A k, l \in DOMAIN D : n(k) = n(l) => k = l
       /\ \A i \in DOMAIN s \ Q : \E k \in DOMAIN D : n(k) = i
  <2>1. DOMAIN s \ Q \subseteq DOMAIN m
    BY <1>9
  <2> DEFINE T == {m[i] : i \in DOMAIN s}
             W == DOMAIN s \ Q
  <2>2. m \in Seq(T) /\ W \subseteq DOMAIN m
    BY <1>9, <2>1
  <2> HIDE DEF T, W
  <2>3. /\ \A k \in DOMAIN Solo(m, W) : Enesimo(W, k) \in W /\ Solo(m, W)[k] = m[Enesimo(W, k)]
        /\ \A k, l \in DOMAIN Solo(m, W) : Enesimo(W, k) = Enesimo(W, l) => k = l
        /\ \A i \in W : \E k \in DOMAIN Solo(m, W) : Enesimo(W, k) = i
    BY <2>2, SoloEs
  <2> QED BY <2>3 DEF D, W
<1> HIDE DEF n
<1>11. \A k \in DOMAIN D : n(k) \in DOMAIN s /\ D[k] = MenosUno(s[n(k)], r)
  BY <1>6, <1>10
<1>12. \A k \in DOMAIN D : \E i \in DOMAIN s : D[k] = MenosUno(s[i], r)
  BY <1>11
<1>13. \A i \in DOMAIN s : s[i].archivo # r \/ s[i].vecesAbierto # 1 =>
         \E k \in DOMAIN D : D[k] = MenosUno(s[i], r)
  <2> TAKE i \in DOMAIN s
  <2> HAVE s[i].archivo # r \/ s[i].vecesAbierto # 1
  <2>1. i \in DOMAIN s \ Q
    BY <1>5
  <2>2. PICK k \in DOMAIN D : n(k) = i
    BY <1>10, <2>1
  <2> QED BY <1>11, <2>2
<1>14. ASSUME NEW k \in DOMAIN D, NEW l \in DOMAIN D,
              D[k].archivo = D[l].archivo \/ D[k].ubicacion = D[l].ubicacion
       PROVE  k = l
  <2>1. /\ D[k].archivo = s[n(k)].archivo /\ D[k].ubicacion = s[n(k)].ubicacion
        /\ D[l].archivo = s[n(l)].archivo /\ D[l].ubicacion = s[n(l)].ubicacion
        /\ n(k) \in DOMAIN s /\ n(l) \in DOMAIN s
    BY <1>7, <1>8, <1>11
  <2>2. n(k) = n(l)
    BY <1>14, <2>1 DEF Distintas
  <2> QED BY <1>10, <2>2
<1>15. Distintas(D)
  BY <1>14 DEF Distintas
<1> QED BY <1>1, <1>12, <1>13, <1>15

-----------------------------------------------------------------------------
(***************************************************************************)
(* The invariant of the tables, step by step.                              *)
(***************************************************************************)
TipoTablas ==
  /\ globalFileTable \in Seq(Entrada) /\ processFileTable \in [Pid -> EntradaProceso]
  /\ max_archivo_fd \in Nat /\ enredado \in BOOLEAN
TipoResto ==
  /\ mutex_fs \in Pid \cup {Nadie} /\ kernel \in {"vivo", "caido"}
  /\ estado \in [Pid -> {"corre", "fin"}] /\ pedidos \in [Pid -> Nat]
  /\ consultas \in Seq([de : Pid, op : Operacion, ruta : Ruta])
  /\ respuestas \in Seq([de : Pid, bien : BOOLEAN]) /\ existen \subseteq Ruta

LEMMA TipoPartes == TypeOK <=> TipoTablas /\ hilo \in [Pid -> Hilo] /\ TipoResto
BY DEF TypeOK, TipoTablas, TipoResto

\* Nothing is open at first.
LEMMA ArInicio == Init => ArInv
<1> SUFFICES ASSUME Init PROVE ArInv
  OBVIOUS
<1>0. Libre \in Hilo /\ [entrada |-> "no", archivos |-> << >>] \in EntradaProceso
  BY DEF Libre, Hilo, Operacion, EntradaProceso
<1>1. Libre.pc = "libre"
  BY DEF Libre
<1>2. \A p \in Pid : hilo[p] = Libre /\ processFileTable[p].archivos = << >>
                     /\ processFileTable[p] \in EntradaProceso
  BY <1>0 DEF Init
<1>3. TypeOK
  <2>1. hilo \in [Pid -> Hilo] /\ processFileTable \in [Pid -> EntradaProceso]
    <3>1. PICK v \in EntradaProceso : processFileTable = [p \in Pid |-> v]
      BY <1>0 DEF Init
    <3>2. PICK h \in Hilo : hilo = [p \in Pid |-> h]
      BY <1>0 DEF Init
    <3> QED BY <3>1, <3>2
  <2>5. \A S : << >> \in Seq(S)
    OBVIOUS
  <2>2. TipoTablas
    <3>1. globalFileTable = << >> /\ max_archivo_fd = 3 /\ enredado = FALSE
      BY DEF Init
    <3>2. max_archivo_fd \in Nat /\ enredado \in BOOLEAN /\ globalFileTable \in Seq(Entrada)
      BY <2>5, <3>1
    <3> QED BY <2>1, <3>2 DEF TipoTablas
  <2>3. estado \in [Pid -> {"corre", "fin"}] /\ pedidos \in [Pid -> Nat]
    BY DEF Init
  <2>4. mutex_fs \in Pid \cup {Nadie} /\ kernel \in {"vivo", "caido"} /\ existen \subseteq Ruta
    BY DEF Init
  <2>6. TipoResto
    BY <2>3, <2>4, <2>5 DEF TipoResto, Init
  <2> QED BY <2>1, <2>2, <2>6, TipoPartes
<1>4. ManosInv /\ CerrandoConEntrada
  BY <1>1, <1>2 DEF ManosInv, CerrandoConEntrada, En
<1>5. NumerosInv
  <2>1. DOMAIN << >> = {}
    OBVIOUS
  <2> QED BY <1>2, <2>1 DEF NumerosInv, NumerosDe
<1>6. Distintas(globalFileTable) /\ Cuentas /\ ConEntrada
  <2>1. DOMAIN << >> = {}
    OBVIOUS
  <2>2. DOMAIN globalFileTable = {}
    BY <2>1 DEF Init
  <2>3. Abiertos = {}
    BY <1>2, <2>1 DEF Abiertos
  <2> QED BY <2>2, <2>3 DEF Distintas, Cuentas, ConEntrada
<1> QED BY <1>3, <1>4, <1>5, <1>6 DEF ArInv, Firme

\* A thread that neither begins to add an entry nor to close one.
Ajeno(p) ==
  \/ UNCHANGED hilo
  \/ \E h \in Hilo : /\ p \in Pid /\ ~En(p, "cerrar")
                     /\ Pasa(p, h) /\ h.pc \in {"libre", "tomar", "espera"}
                     /\ h.pc # "libre" => h.ruta \in Ruta

MismosArchivos == \A q \in Pid :
  /\ DOMAIN processFileTable'[q].archivos = DOMAIN processFileTable[q].archivos
  /\ \A i \in DOMAIN processFileTable[q].archivos :
       /\ processFileTable'[q].archivos[i].fd = processFileTable[q].archivos[i].fd
       /\ processFileTable'[q].archivos[i].globalFD = processFileTable[q].archivos[i].globalFD
       /\ processFileTable'[q].archivos[i].ruta = processFileTable[q].archivos[i].ruta

LEMMA HilosTrasAjeno ==
  ASSUME hilo \in [Pid -> Hilo], ManosInv, NEW p, Ajeno(p)
  PROVE  /\ hilo' \in [Pid -> Hilo] /\ ManosInv'
         /\ \A q \in Pid : q # p => hilo'[q] = hilo[q]
         /\ \A q \in Pid : En(q, "agregar")' => En(q, "agregar")
         /\ \A q \in Pid : En(q, "cerrar")' <=> En(q, "cerrar")
         /\ \A q \in Pid : En(q, "cerrar") => hilo'[q].ruta = hilo[q].ruta
<1>1. CASE UNCHANGED hilo
  BY <1>1 DEF ManosInv, En
<1>2. ASSUME p \in Pid, NEW h \in Hilo, ~En(p, "cerrar"),
             Pasa(p, h), h.pc \in {"libre", "tomar", "espera"},
             h.pc # "libre" => h.ruta \in Ruta
      PROVE  /\ hilo' \in [Pid -> Hilo] /\ ManosInv'
             /\ \A q \in Pid : q # p => hilo'[q] = hilo[q]
             /\ \A q \in Pid : En(q, "agregar")' => En(q, "agregar")
             /\ \A q \in Pid : En(q, "cerrar")' <=> En(q, "cerrar")
             /\ \A q \in Pid : En(q, "cerrar") => hilo'[q].ruta = hilo[q].ruta
  <2>1. hilo' \in [Pid -> Hilo] /\ hilo'[p] = h /\ \A q \in Pid : q # p => hilo'[q] = hilo[q]
    BY <1>2 DEF Pasa
  <2>2. ManosInv'
    BY <1>2, <2>1 DEF ManosInv, En
  <2>3. h.pc # "agregar" /\ h.pc # "cerrar"
    BY <1>2
  <2> QED BY <1>2, <2>1, <2>2, <2>3 DEF En
<1> QED BY <1>1, <1>2 DEF Ajeno

\* While the tables and those that are closing stay, so does what the tables promise.
LEMMA FirmeQuieta ==
  ASSUME Firme, UNCHANGED globalFileTable, MismosArchivos,
         \A q \in Pid : En(q, "cerrar")' <=> En(q, "cerrar"),
         \A q \in Pid : En(q, "cerrar") => hilo'[q].ruta = hilo[q].ruta
  PROVE  Firme'
<1>1. Abiertos' = Abiertos
  BY DEF Abiertos, MismosArchivos
<1>2. \A x \in Abiertos : /\ AbiertoDe(x)'.globalFD = AbiertoDe(x).globalFD
                          /\ AbiertoDe(x)'.ruta = AbiertoDe(x).ruta
  BY DEF Abiertos, AbiertoDe, MismosArchivos
<1>3. \A g : DeUbicacion(g)' = DeUbicacion(g)
  BY <1>1, <1>2 DEF DeUbicacion
<1>4. \A r : Cerrando(r)' = Cerrando(r)
  BY DEF Cerrando
<1>5. Cuentas'
  BY <1>3, <1>4 DEF Firme, Cuentas, CuentaBien
<1>6. ConEntrada'
  BY <1>1, <1>2 DEF Firme, ConEntrada
<1>7. CerrandoConEntrada'
  BY DEF Firme, CerrandoConEntrada
<1> QED BY <1>5, <1>6, <1>7 DEF Firme, Distintas

LEMMA PasoAjeno ==
  ASSUME ArInv, kernel = "vivo", NEW p, Ajeno(p), MismosArchivos,
         UNCHANGED <<globalFileTable, max_archivo_fd, enredado>>,
         processFileTable' \in [Pid -> EntradaProceso], TipoResto'
  PROVE  ArInv'
<1>1. TipoTablas /\ hilo \in [Pid -> Hilo] /\ ManosInv /\ NumerosInv
  BY TipoPartes DEF ArInv
<1>2. /\ hilo' \in [Pid -> Hilo] /\ ManosInv'
      /\ \A q \in Pid : q # p => hilo'[q] = hilo[q]
      /\ \A q \in Pid : En(q, "agregar")' => En(q, "agregar")
      /\ \A q \in Pid : En(q, "cerrar")' <=> En(q, "cerrar")
      /\ \A q \in Pid : En(q, "cerrar") => hilo'[q].ruta = hilo[q].ruta
  BY <1>1, HilosTrasAjeno
<1>3. TypeOK'
  <2>1. TipoTablas'
    BY <1>1 DEF TipoTablas
  <2>2. TypeOK' <=> TipoTablas' /\ hilo' \in [Pid -> Hilo] /\ TipoResto'
    BY DEF TypeOK, TipoTablas, TipoResto
  <2> QED BY <1>2, <2>1, <2>2
<1>4. NumerosInv'
  BY <1>1, <1>2 DEF NumerosInv, NumerosDe, MismosArchivos
<1>5. ~enredado' /\ kernel' = "vivo" => Firme'
  <2>1. SUFFICES ASSUME ~enredado' PROVE Firme'
    OBVIOUS
  <2>2. Firme
    BY <2>1 DEF ArInv
  <2> QED BY <1>2, <2>2, FirmeQuieta
<1> QED BY <1>2, <1>3, <1>4, <1>5 DEF ArInv

-----------------------------------------------------------------------------
\* The two places a thread goes to from outside the tables: its end, and the mutex.
LEMMA AjenoContesta ==
  ASSUME NEW p \in Pid, NEW b, ~En(p, "cerrar"), Contesta(p, b)
  PROVE  Ajeno(p)
<1>1. Libre \in Hilo /\ Libre.pc = "libre"
  BY DEF Libre, Hilo, Operacion
<1> QED BY <1>1 DEF Ajeno, Contesta

LEMMA AjenoConFS ==
  ASSUME hilo \in [Pid -> Hilo], NEW p \in Pid, NEW op \in Operacion, NEW r \in Ruta,
         ~En(p, "cerrar"), ConFS(p, op, r)
  PROVE  Ajeno(p)
<1> DEFINE h == [hilo[p] EXCEPT !.pc = "tomar", !.op = op, !.ruta = r]
<1>1. h \in Hilo /\ h.pc = "tomar" /\ h.ruta = r
  BY DEF Hilo
<1>2. Pasa(p, h)
  BY DEF ConFS
<1> HIDE DEF h
<1> QED BY <1>1, <1>2 DEF Ajeno

\* What a program leads to through a descriptor is an entry of the table.
LEMMA EntradaDeEs ==
  ASSUME globalFileTable \in Seq(Entrada), NEW p, NEW fd, NEW e \in EntradaDe(p, fd)
  PROVE  \E a \in BuscarArchivo(p, fd), i \in DOMAIN globalFileTable :
           e = globalFileTable[i] /\ e \in Entrada /\ e.ubicacion = a.globalFD
<1>1. PICK a \in BuscarArchivo(p, fd) : e \in BuscarPorUbicacion(a.globalFD)
  BY DEF EntradaDe
<1>2. PICK i \in DOMAIN globalFileTable : e = globalFileTable[i] /\ e.ubicacion = a.globalFD
  BY <1>1, PrimeraUbicacion
<1>3. globalFileTable[i] \in Entrada
  OBVIOUS
<1> QED BY <1>1, <1>2, <1>3

\* What the types are, for a step of a thread.
LEMMA ArTipos ==
  ASSUME ArInv
  PROVE  /\ TipoTablas /\ hilo \in [Pid -> Hilo] /\ TipoResto /\ ManosInv /\ NumerosInv
         /\ \A p \in Pid : /\ processFileTable[p] \in EntradaProceso
                           /\ processFileTable[p].archivos \in Seq(Archivo)
<1>1. TipoTablas /\ hilo \in [Pid -> Hilo] /\ TipoResto /\ ManosInv /\ NumerosInv
  BY TipoPartes DEF ArInv
<1>2. \A p \in Pid : processFileTable[p] \in EntradaProceso
  BY <1>1 DEF TipoTablas
<1> QED BY <1>1, <1>2 DEF EntradaProceso

LEMMA PasoSinTablas ==
  ASSUME ArInv, kernel = "vivo", NEW p, Ajeno(p), TipoResto',
         UNCHANGED <<globalFileTable, processFileTable, max_archivo_fd, enredado>>
  PROVE  ArInv'
<1>1. MismosArchivos
  BY DEF MismosArchivos
<1>2. processFileTable' \in [Pid -> EntradaProceso]
  BY ArTipos DEF TipoTablas
<1> QED BY <1>1, <1>2, PasoAjeno

\* Requests: one more of the program, and perhaps its end.
LEMMA RestoPide ==
  ASSUME TipoResto, NEW p \in Pid, Pide(p), kernel' \in {"vivo", "caido"},
         estado' = estado \/ \E b : Contesta(p, b),
         UNCHANGED <<mutex_fs, consultas, respuestas, existen>>
  PROVE  TipoResto'
<1>1. pedidos' \in [Pid -> Nat]
  BY DEF TipoResto, Pide
<1>2. estado' \in [Pid -> {"corre", "fin"}]
  BY DEF TipoResto, Contesta
<1> QED BY <1>1, <1>2 DEF TipoResto

LEMMA ArBorrar ==
  ASSUME ArInv, kernel = "vivo", NEW p \in Pid, NEW fd, BorrarArchivo(p, fd)
  PROVE  ArInv'
<1>1. ~En(p, "cerrar")
  BY DEF BorrarArchivo, Pide, En
<1>2. Ajeno(p)
  <2>1. CASE UNCHANGED hilo
    BY <2>1 DEF Ajeno
  <2>2. CASE Contesta(p, FALSE)
    BY <1>1, <2>2, AjenoContesta
  <2>3. ASSUME NEW e \in EntradaDe(p, fd), ConFS(p, "borrar", e.archivo) PROVE Ajeno(p)
    <3>1. e.archivo \in Ruta
      BY ArTipos, EntradaDeEs DEF TipoTablas, Entrada
    <3> QED BY <1>1, <2>3, <3>1, ArTipos, AjenoConFS DEF Operacion
  <2> QED BY <2>1, <2>2, <2>3 DEF BorrarArchivo
<1>3. TipoResto'
  <2>1. /\ Pide(p) /\ kernel' \in {"vivo", "caido"} /\ (estado' = estado \/ \E b : Contesta(p, b))
        /\ UNCHANGED <<mutex_fs, consultas, respuestas, existen>>
    BY DEF BorrarArchivo, Muere, Sigue, socket
  <2> QED BY <2>1, ArTipos, RestoPide
<1>4. UNCHANGED <<globalFileTable, processFileTable, max_archivo_fd, enredado>>
  BY DEF BorrarArchivo, tablas
<1> QED BY <1>2, <1>3, <1>4, PasoSinTablas

LEMMA ArTransferir ==
  ASSUME ArInv, kernel = "vivo", NEW p \in Pid, NEW fd, NEW op \in Operacion,
         Transferir(p, fd, op)
  PROVE  ArInv'
<1>1. ~En(p, "cerrar")
  BY DEF Transferir, Pide, En
<1>2. Ajeno(p)
  <2>1. CASE UNCHANGED hilo
    BY <2>1 DEF Ajeno
  <2>2. CASE Contesta(p, FALSE)
    BY <1>1, <2>2, AjenoContesta
  <2>3. ASSUME NEW e \in EntradaDe(p, fd), ConFS(p, op, e.archivo) PROVE Ajeno(p)
    <3>1. e.archivo \in Ruta
      BY ArTipos, EntradaDeEs DEF TipoTablas, Entrada
    <3> QED BY <1>1, <2>3, <3>1, ArTipos, AjenoConFS
  <2> QED BY <2>1, <2>2, <2>3 DEF Transferir
<1>3. TipoResto'
  <2>1. /\ Pide(p) /\ kernel' \in {"vivo", "caido"} /\ (estado' = estado \/ \E b : Contesta(p, b))
        /\ UNCHANGED <<mutex_fs, consultas, respuestas, existen>>
    BY DEF Transferir, Muere, Sigue, socket
  <2> QED BY <2>1, ArTipos, RestoPide
<1>4. UNCHANGED <<globalFileTable, processFileTable, max_archivo_fd, enredado>>
  BY DEF Transferir, tablas
<1> QED BY <1>2, <1>3, <1>4, PasoSinTablas

LEMMA ArImprimir ==
  ASSUME ArInv, kernel = "vivo", NEW p \in Pid, Imprimir(p)
  PROVE  ArInv'
<1>1. ~En(p, "cerrar")
  BY DEF Imprimir, Pide, En
<1>2. Ajeno(p)
  BY <1>1, AjenoContesta DEF Imprimir
<1>3. TipoResto'
  <2>1. /\ Pide(p) /\ kernel' \in {"vivo", "caido"} /\ (estado' = estado \/ \E b : Contesta(p, b))
        /\ UNCHANGED <<mutex_fs, consultas, respuestas, existen>>
    BY ArTipos DEF Imprimir, socket, TipoResto
  <2> QED BY <2>1, ArTipos, RestoPide
<1>4. UNCHANGED <<globalFileTable, processFileTable, max_archivo_fd, enredado>>
  BY DEF Imprimir, tablas
<1> QED BY <1>2, <1>3, <1>4, PasoSinTablas

LEMMA ArTerminar ==
  ASSUME ArInv, kernel = "vivo", NEW p \in Pid, Terminar(p)
  PROVE  ArInv'
<1>1. Ajeno(p)
  BY DEF Terminar, Ajeno
<1>2. TipoResto'
  BY ArTipos DEF Terminar, TipoResto, socket
<1>3. UNCHANGED <<globalFileTable, processFileTable, max_archivo_fd, enredado>>
  BY DEF Terminar, tablas
<1> QED BY <1>1, <1>2, <1>3, PasoSinTablas

-----------------------------------------------------------------------------
\* The exchange with the file system: nothing of the tables.
LEMMA ArEnviar ==
  ASSUME ArInv, kernel = "vivo", NEW p \in Pid, EnviarFS(p)
  PROVE  ArInv'
<1>1. ~En(p, "cerrar") /\ hilo[p] \in Hilo /\ hilo[p].ruta \in Ruta
  BY ArTipos DEF EnviarFS, En, ManosInv
<1>2. Ajeno(p)
  <2> DEFINE h == [hilo[p] EXCEPT !.pc = "espera"]
  <2>1. h \in Hilo /\ h.pc = "espera" /\ h.ruta \in Ruta
    BY <1>1 DEF Hilo
  <2>2. Pasa(p, h)
    BY DEF EnviarFS
  <2> HIDE DEF h
  <2> QED BY <1>1, <2>1, <2>2 DEF Ajeno
<1>3. TipoResto'
  <2>1. [de |-> p, op |-> hilo[p].op, ruta |-> hilo[p].ruta] \in [de : Pid, op : Operacion, ruta : Ruta]
    BY <1>1 DEF Hilo
  <2>2. consultas' \in Seq([de : Pid, op : Operacion, ruta : Ruta])
    BY <2>1, ArTipos DEF EnviarFS, TipoResto
  <2>3. mutex_fs' \in Pid \cup {Nadie}
    BY DEF EnviarFS, TomarFS
  <2> QED BY <2>2, <2>3, ArTipos DEF EnviarFS, TipoResto
<1>4. UNCHANGED <<globalFileTable, processFileTable, max_archivo_fd, enredado>>
  BY DEF EnviarFS, tablas
<1> QED BY <1>2, <1>3, <1>4, PasoSinTablas

LEMMA ArAtender ==
  ASSUME ArInv, kernel = "vivo", AtenderFS
  PROVE  ArInv'
<1>1. TipoResto'
  <2>1. Head(consultas) \in [de : Pid, op : Operacion, ruta : Ruta]
        /\ consultas' \in Seq([de : Pid, op : Operacion, ruta : Ruta])
    <3> DEFINE T == [de : Pid, op : Operacion, ruta : Ruta]
    <3>1. consultas \in Seq(T) /\ consultas # << >> /\ consultas' = Tail(consultas)
      BY ArTipos DEF AtenderFS, TipoResto
    <3> HIDE DEF T
    <3>2. Head(consultas) \in T /\ Tail(consultas) \in Seq(T)
      BY <3>1
    <3> QED BY <3>1, <3>2 DEF T
  <2>2. PICK b \in BOOLEAN : /\ respuestas' = Append(respuestas, [de |-> Head(consultas).de, bien |-> b])
                             /\ existen' \subseteq Ruta
    BY DEF AtenderFS
  <2>3. [de |-> Head(consultas).de, bien |-> b] \in [de : Pid, bien : BOOLEAN]
    BY <2>1
  <2>4. respuestas' \in Seq([de : Pid, bien : BOOLEAN])
    BY <2>2, <2>3, ArTipos DEF TipoResto
  <2> QED BY <2>1, <2>2, <2>4, ArTipos DEF AtenderFS, TipoResto
<1>2. Ajeno(Nadie)
  BY DEF AtenderFS, Ajeno
<1>3. UNCHANGED <<globalFileTable, processFileTable, max_archivo_fd, enredado>>
  BY DEF AtenderFS, tablas
<1> QED BY <1>1, <1>2, <1>3, PasoSinTablas

LEMMA ArRecibir ==
  ASSUME ArInv, kernel = "vivo", NEW p \in Pid, RecibirFS(p)
  PROVE  ArInv'
<1>1. ~En(p, "cerrar") /\ hilo[p].ruta \in Ruta
  BY ArTipos DEF RecibirFS, En, ManosInv
<1>2. \/ ConFS(p, "crear", hilo[p].ruta) /\ estado' = [estado EXCEPT ![p] = "fin"]
      \/ Contesta(p, Head(respuestas).bien)
  BY DEF RecibirFS
<1>3. Ajeno(p)
  BY <1>1, <1>2, ArTipos, AjenoConFS, AjenoContesta DEF Operacion
<1>4. TipoResto'
  <2>1. estado' \in [Pid -> {"corre", "fin"}]
    BY <1>2, ArTipos DEF TipoResto, Contesta
  <2>2. respuestas' \in Seq([de : Pid, bien : BOOLEAN])
    BY ArTipos DEF RecibirFS, TipoResto
  <2>3. mutex_fs' \in Pid \cup {Nadie}
    BY DEF RecibirFS, DevolverFS
  <2> QED BY <2>1, <2>2, <2>3, ArTipos DEF RecibirFS, TipoResto
<1>5. UNCHANGED <<globalFileTable, processFileTable, max_archivo_fd, enredado>>
  BY DEF RecibirFS, tablas
<1> QED BY <1>3, <1>4, <1>5, PasoSinTablas

-----------------------------------------------------------------------------
\* The tables of the processes, with the same descriptors in them.
LEMMA ArCrear ==
  ASSUME ArInv, kernel = "vivo", NEW p \in Pid, CrearEntradaArchivoProceso(p)
  PROVE  ArInv'
<1> DEFINE e == [processFileTable[p] EXCEPT !.entrada = "viva"]
<1>1. processFileTable' = [processFileTable EXCEPT ![p] = e]
  BY DEF CrearEntradaArchivoProceso
<1>2. e \in EntradaProceso /\ e.archivos = processFileTable[p].archivos
  BY ArTipos DEF EntradaProceso
<1> HIDE DEF e
<1>3. processFileTable' \in [Pid -> EntradaProceso]
      /\ \A q \in Pid : processFileTable'[q].archivos = processFileTable[q].archivos
  BY <1>1, <1>2, ArTipos DEF TipoTablas
<1>4. MismosArchivos
  BY <1>3 DEF MismosArchivos
<1>5. Ajeno(p) /\ UNCHANGED <<globalFileTable, max_archivo_fd, enredado>>
  BY DEF Ajeno, CrearEntradaArchivoProceso
<1>6. TipoResto'
  BY ArTipos DEF CrearEntradaArchivoProceso, TipoResto, socket
<1> QED BY <1>3, <1>4, <1>5, <1>6, PasoAjeno

LEMMA ArMover ==
  ASSUME ArInv, kernel = "vivo", NEW p \in Pid, NEW fd, NEW pos \in Posicion,
         MoverCursor(p, fd, pos)
  PROVE  ArInv'
<1> DEFINE A == processFileTable[p].archivos
           B == [i \in DOMAIN A |-> IF A[i] \in BuscarArchivo(p, fd)
                                    THEN [A[i] EXCEPT !.cursor = pos] ELSE A[i]]
           e == [processFileTable[p] EXCEPT !.archivos = B]
<1>1. A \in Seq(Archivo) /\ DOMAIN A = 1..Len(A) /\ Len(A) \in Nat
      /\ \A i \in DOMAIN A : A[i] \in Archivo
  BY ArTipos
<1>2. processFileTable' = [processFileTable EXCEPT ![p] = e]
  BY DEF MoverCursor
<1> HIDE DEF A
<1>3. \A i \in DOMAIN A : /\ B[i] \in Archivo /\ B[i].fd = A[i].fd
                          /\ B[i].globalFD = A[i].globalFD /\ B[i].ruta = A[i].ruta
  <2>1. \A a \in Archivo : LET c == [a EXCEPT !.cursor = pos] IN
          c \in Archivo /\ c.fd = a.fd /\ c.globalFD = a.globalFD /\ c.ruta = a.ruta
    BY DEF Archivo
  <2> QED BY <1>1, <2>1
<1>4. DOMAIN B = DOMAIN A
  OBVIOUS
<1> HIDE DEF B
<1>5. B \in Seq(Archivo)
  <2>1. B = [i \in 1..Len(A) |-> B[i]]
    BY <1>1, <1>4 DEF B
  <2>2. B \in [1..Len(A) -> Archivo]
    BY <1>1, <1>3, <2>1
  <2> QED BY <1>1, <2>2
<1>6. e \in EntradaProceso /\ e.archivos = B
  BY <1>5, ArTipos DEF EntradaProceso
<1> HIDE DEF e
<1>7. processFileTable' \in [Pid -> EntradaProceso]
      /\ processFileTable'[p].archivos = B
      /\ \A q \in Pid : q # p => processFileTable'[q].archivos = processFileTable[q].archivos
  BY <1>2, <1>6, ArTipos DEF TipoTablas
<1>8. MismosArchivos
  BY <1>3, <1>4, <1>7 DEF MismosArchivos, A
<1>9. ~En(p, "cerrar")
  BY DEF MoverCursor, Pide, En
<1>10. Ajeno(p) /\ UNCHANGED <<globalFileTable, max_archivo_fd, enredado>>
  BY <1>9, AjenoContesta DEF MoverCursor
<1>11. TipoResto'
  <2>1. /\ Pide(p) /\ kernel' \in {"vivo", "caido"} /\ (estado' = estado \/ \E b : Contesta(p, b))
        /\ UNCHANGED <<mutex_fs, consultas, respuestas, existen>>
    BY ArTipos DEF MoverCursor, socket, TipoResto
  <2> QED BY <2>1, ArTipos, RestoPide
<1> QED BY <1>7, <1>8, <1>10, <1>11, PasoAjeno

-----------------------------------------------------------------------------
\* abrirArchivo: the number is a new one, and the thread will add the entry.
LEMMA ArAbrir ==
  ASSUME ArInv, kernel = "vivo", NEW p \in Pid, NEW r \in Ruta, NEW c \in BOOLEAN,
         AbrirArchivo(p, r, c)
  PROVE  ArInv'
<1>1. PICK d \in Nat, u \in Nat :
        Pasa(p, [Libre EXCEPT !.pc = "agregar", !.ruta = r, !.creacion = c,
                              !.hay = HayEntrada(p), !.dir = d, !.ubicacion = u])
  <2>1. PICK e \in IF BuscarPorRuta(r) = {} THEN {[dir |-> 0, ubicacion |-> 0]} ELSE BuscarPorRuta(r) :
          Pasa(p, [Libre EXCEPT !.pc = "agregar", !.ruta = r, !.creacion = c,
                                !.hay = HayEntrada(p), !.dir = e.dir, !.ubicacion = e.ubicacion])
    BY DEF AbrirArchivo
  <2>2. e.dir \in Nat /\ e.ubicacion \in Nat
    <3>1. CASE BuscarPorRuta(r) = {}
      BY <2>1, <3>1
    <3>2. CASE e \in BuscarPorRuta(r)
      <4>1. PICK i \in DOMAIN globalFileTable : e = globalFileTable[i]
        BY <3>2, ArTipos, PrimeraRuta DEF TipoTablas
      <4>2. e \in Entrada
        BY <4>1, ArTipos DEF TipoTablas
      <4> QED BY <4>2 DEF Entrada
    <3> QED BY <2>1, <3>1, <3>2
  <2> QED BY <2>1, <2>2
<1> DEFINE h == [Libre EXCEPT !.pc = "agregar", !.ruta = r, !.creacion = c,
                              !.hay = HayEntrada(p), !.dir = d, !.ubicacion = u]
<1>2. h \in Hilo /\ h.pc = "agregar" /\ h.ruta = r
  <2>1. HayEntrada(p) \in BOOLEAN
    BY DEF HayEntrada
  <2>2. \A y \in BOOLEAN : LET g == [Libre EXCEPT !.pc = "agregar", !.ruta = r, !.creacion = c,
                                                !.hay = y, !.dir = d, !.ubicacion = u] IN
          g \in Hilo /\ g.pc = "agregar" /\ g.ruta = r
    BY DEF Libre, Hilo, Operacion
  <2> QED BY <2>1, <2>2
<1>3. Pasa(p, h)
  BY <1>1
<1> HIDE DEF h
<1>4. hilo' \in [Pid -> Hilo] /\ hilo'[p] = h /\ \A q \in Pid : q # p => hilo'[q] = hilo[q]
  BY <1>2, <1>3, ArTipos DEF Pasa
<1>5. ManosInv'
  BY <1>2, <1>4, ArTipos DEF ManosInv, En
<1>6. ~En(p, "cerrar")
  BY DEF AbrirArchivo, Pide, En
<1>7. /\ \A q \in Pid : En(q, "cerrar")' <=> En(q, "cerrar")
      /\ \A q \in Pid : En(q, "cerrar") => hilo'[q].ruta = hilo[q].ruta
  BY <1>2, <1>4, <1>6 DEF En
<1>8. max_archivo_fd \in Nat /\ max_archivo_fd' = max_archivo_fd + 1
      /\ UNCHANGED <<globalFileTable, processFileTable, enredado>>
  BY ArTipos DEF AbrirArchivo, TipoTablas
<1>9. NumerosInv'
  <2>1. ASSUME NEW q \in Pid, NEW i \in DOMAIN processFileTable[q].archivos
        PROVE  LET n == processFileTable[q].archivos[i].fd IN
               n <= max_archivo_fd + 1 /\ n # max_archivo_fd + 1
    <3>1. processFileTable[q].archivos[i].fd <= max_archivo_fd
      BY ArTipos DEF NumerosInv, NumerosDe
    <3>2. processFileTable[q].archivos[i].fd \in Nat
      <4>1. processFileTable[q].archivos[i] \in Archivo
        BY ArTipos
      <4> QED BY <4>1 DEF Archivo
    <3> QED BY <1>8, <3>1, <3>2
  <2>2. \A q \in Pid : \A i, j \in DOMAIN processFileTable[q].archivos :
          processFileTable[q].archivos[i].fd = processFileTable[q].archivos[j].fd => i = j
    BY ArTipos DEF NumerosInv, NumerosDe
  <2> QED BY <1>8, <2>1, <2>2 DEF NumerosInv, NumerosDe
<1>10. TipoResto'
  <2>1. /\ Pide(p) /\ kernel' \in {"vivo", "caido"} /\ (estado' = estado \/ \E b : Contesta(p, b))
        /\ UNCHANGED <<mutex_fs, consultas, respuestas, existen>>
    BY ArTipos DEF AbrirArchivo, socket, TipoResto
  <2> QED BY <2>1, ArTipos, RestoPide
<1>11. TypeOK'
  <2>1. TipoTablas'
    BY <1>8, ArTipos DEF TipoTablas
  <2>2. TypeOK' <=> TipoTablas' /\ hilo' \in [Pid -> Hilo] /\ TipoResto'
    BY DEF TypeOK, TipoTablas, TipoResto
  <2> QED BY <1>4, <1>10, <2>1, <2>2
<1>12. ~enredado' /\ kernel' = "vivo" => Firme'
  <2>1. SUFFICES ASSUME ~enredado' PROVE Firme'
    OBVIOUS
  <2>2. Firme
    BY <1>8, <2>1 DEF ArInv
  <2>3. MismosArchivos
    BY <1>8 DEF MismosArchivos
  <2> QED BY <1>7, <1>8, <2>2, <2>3, FirmeQuieta
<1> QED BY <1>5, <1>9, <1>11, <1>12 DEF ArInv

-----------------------------------------------------------------------------
\* What a descriptor is, and who is counted: all finite.
LEMMA AbiertosFinitos ==
  ASSUME ArInv
  PROVE  /\ IsFiniteSet(Abiertos)
         /\ \A g : IsFiniteSet(DeUbicacion(g)) /\ Cardinality(DeUbicacion(g)) \in Nat
         /\ \A r : IsFiniteSet(Cerrando(r)) /\ Cardinality(Cerrando(r)) \in Nat
<1> DEFINE de == [q \in Pid |-> {<<q, i>> : i \in DOMAIN processFileTable[q].archivos}]
           T == {de[q] : q \in Pid}
<1>1. ASSUME NEW q \in Pid PROVE IsFiniteSet(de[q])
  <2> DEFINE n == Len(processFileTable[q].archivos)
             f == [i \in 1..n |-> <<q, i>>]
  <2>1. n \in Nat /\ DOMAIN processFileTable[q].archivos = 1..n
    BY ArTipos
  <2>2. de[q] = {<<q, i>> : i \in 1..n}
    BY <2>1
  <2> HIDE DEF n, de
  <2>3. f \in Surjection(1..n, de[q])
    BY <2>2 DEF Surjection
  <2>4. IsFiniteSet(1..n)
    BY <2>1, FS_Interval
  <2> HIDE DEF f
  <2> QED BY <2>3, <2>4, FS_Surjection
<1>2. de \in Surjection(Pid, T)
  BY DEF Surjection
<1>3. Abiertos = UNION T
  BY DEF Abiertos
<1>4. IsFiniteSet(Pid)
  BY ArchivosAssumption
<1>5. \A X \in T : IsFiniteSet(X)
  BY <1>1
<1> HIDE DEF T, de
<1>6. IsFiniteSet(T)
  BY <1>2, <1>4, FS_Surjection
<1>7. IsFiniteSet(Abiertos)
  BY <1>3, <1>5, <1>6, FS_UNION
<1>8. ASSUME NEW g PROVE IsFiniteSet(DeUbicacion(g)) /\ Cardinality(DeUbicacion(g)) \in Nat
  <2>1. DeUbicacion(g) \subseteq Abiertos
    BY DEF DeUbicacion
  <2> QED BY <1>7, <2>1, FS_Subset, FS_CardinalityType
<1>9. ASSUME NEW r PROVE IsFiniteSet(Cerrando(r)) /\ Cardinality(Cerrando(r)) \in Nat
  <2>1. Cerrando(r) \subseteq Pid
    BY DEF Cerrando
  <2> QED BY <1>4, <2>1, FS_Subset, FS_CardinalityType
<1> QED BY <1>7, <1>8, <1>9

-----------------------------------------------------------------------------
(***************************************************************************)
(* agregarArchivo_aProceso.                                                *)
(***************************************************************************)
\* A descriptor a is the last of the table of p, and the others stay.
Anotado(p, a) ==
  /\ processFileTable'[p].archivos = Append(processFileTable[p].archivos, a)
  /\ \A q \in Pid : q # p => processFileTable'[q].archivos = processFileTable[q].archivos

LEMMA AnotarTipos ==
  ASSUME ArInv, NEW p \in Pid, En(p, "agregar"), NEW g \in Nat, Anotar(p, max_archivo_fd, g),
         UNCHANGED max_archivo_fd
  PROVE  /\ processFileTable' \in [Pid -> EntradaProceso] /\ Ajeno(p) /\ NumerosInv'
         /\ kernel' \in {"vivo", "caido"} \cup {kernel}
         /\ kernel' = "vivo" => \E a \in Archivo : a.globalFD = g /\ a.ruta = hilo[p].ruta
                                                   /\ Anotado(p, a)
<1> DEFINE A == processFileTable[p].archivos
           a == [fd |-> max_archivo_fd, globalFD |-> g, cursor |-> 0, ruta |-> hilo[p].ruta]
           e == [processFileTable[p] EXCEPT !.archivos = Append(A, a)]
<1>1. hilo[p].ruta \in Ruta /\ max_archivo_fd \in Nat
  BY ArTipos DEF ManosInv, En, TipoTablas
<1>2. CASE ~hilo[p].hay
  <2>1. UNCHANGED <<processFileTable, hilo>> /\ kernel' = "caido"
    BY <1>2 DEF Anotar, Muere
  <2>2. NumerosInv'
    BY <2>1, ArTipos DEF NumerosInv, NumerosDe, En
  <2> QED BY <2>1, <2>2, ArTipos DEF Ajeno, TipoTablas
<1>3. CASE hilo[p].hay
  <2>1. processFileTable' = [processFileTable EXCEPT ![p] = e] /\ kernel' = kernel
    BY <1>3 DEF Anotar, Sigue
  <2>2. a \in Archivo /\ a.globalFD = g /\ a.ruta = hilo[p].ruta /\ a.fd = max_archivo_fd
    BY <1>1, ArchivosAssumption DEF Archivo
  <2>3. A \in Seq(Archivo)
    BY ArTipos
  <2> HIDE DEF a, A
  <2>4. e \in EntradaProceso /\ e.archivos = Append(A, a)
    <3>1. Append(A, a) \in Seq(Archivo)
      BY <2>2, <2>3
    <3> QED BY <3>1, ArTipos DEF EntradaProceso
  <2> HIDE DEF e
  <2>5. processFileTable' \in [Pid -> EntradaProceso] /\ Anotado(p, a)
    BY <2>1, <2>4, ArTipos DEF TipoTablas, Anotado, A
  <2>6. Ajeno(p)
    <3>1. ConFS(p, "crear", hilo[p].ruta) \/ ConFS(p, "validar", hilo[p].ruta)
      BY <1>3 DEF Anotar
    <3>2. ~En(p, "cerrar")
      BY DEF En
    <3> QED BY <1>1, <3>1, <3>2, ArTipos, AjenoConFS DEF Operacion
  <2>7. NumerosInv'
    <3>1. \A q \in Pid : En(q, "agregar")' => En(q, "agregar") /\ q # p
      <4>1. hilo'[p].pc = "tomar" /\ \A q \in Pid : q # p => hilo'[q] = hilo[q]
        <5>1. PICK op : ConFS(p, op, hilo[p].ruta)
          BY <1>3 DEF Anotar
        <5> DEFINE h == [hilo[p] EXCEPT !.pc = "tomar", !.op = op, !.ruta = hilo[p].ruta]
        <5>2. h.pc = "tomar"
          BY ArTipos DEF Hilo
        <5>3. hilo' = [hilo EXCEPT ![p] = h]
          BY <5>1 DEF ConFS, Pasa
        <5> HIDE DEF h
        <5> QED BY <5>2, <5>3, ArTipos
      <4> QED BY <4>1 DEF En
    <3>2. \A q \in Pid : q # p => NumerosDe(processFileTable'[q].archivos, max_archivo_fd)
      BY <2>5, ArTipos DEF NumerosInv, Anotado
    <3>3. \A q \in Pid : En(q, "agregar")' => \A i \in DOMAIN processFileTable'[q].archivos :
                          processFileTable'[q].archivos[i].fd # max_archivo_fd
      BY <2>5, <3>1, ArTipos DEF NumerosInv, Anotado
    <3>4. NumerosDe(Append(A, a), max_archivo_fd)
      <4>1. \A i \in DOMAIN A : A[i].fd # max_archivo_fd /\ A[i].fd <= max_archivo_fd
        BY ArTipos DEF NumerosInv, NumerosDe, A
      <4>2. \A i, j \in DOMAIN A : A[i].fd = A[j].fd => i = j
        BY ArTipos DEF NumerosInv, NumerosDe, A
      <4>3. /\ DOMAIN Append(A, a) = DOMAIN A \cup {Len(A) + 1}
            /\ \A i \in DOMAIN A : Append(A, a)[i] = A[i] /\ i # Len(A) + 1
            /\ Append(A, a)[Len(A) + 1] = a
        BY <2>2, <2>3
      <4> QED BY <1>1, <2>2, <4>1, <4>2, <4>3 DEF NumerosDe
    <3> QED BY <2>5, <3>2, <3>3, <3>4 DEF NumerosInv, Anotado, A
  <2> QED BY <2>1, <2>2, <2>5, <2>6, <2>7
<1> QED BY <1>2, <1>3

\* The descriptors that are open then: those that were, and the new one.
LEMMA AnotadoAbre ==
  ASSUME ArInv, NEW p \in Pid, NEW a, Anotado(p, a)
  PROVE  \E x :
         /\ Abiertos' = Abiertos \cup {x} /\ x \notin Abiertos
         /\ AbiertoDe(x)' = a /\ \A y \in Abiertos : AbiertoDe(y)' = AbiertoDe(y)
         /\ \A g : g # a.globalFD => DeUbicacion(g)' = DeUbicacion(g)
         /\ DeUbicacion(a.globalFD)' = DeUbicacion(a.globalFD) \cup {x}
<1> DEFINE A == processFileTable[p].archivos
<1>1. A \in Seq(Archivo)
  BY ArTipos
<1>2. /\ DOMAIN processFileTable'[p].archivos = DOMAIN A \cup {Len(A) + 1}
      /\ \A i \in DOMAIN A : processFileTable'[p].archivos[i] = A[i] /\ i # Len(A) + 1
      /\ processFileTable'[p].archivos[Len(A) + 1] = a
  <2> HIDE DEF A
  <2>1. /\ DOMAIN Append(A, a) = DOMAIN A \cup {Len(A) + 1}
        /\ \A i \in DOMAIN A : Append(A, a)[i] = A[i] /\ i # Len(A) + 1
        /\ Append(A, a)[Len(A) + 1] = a
    BY <1>1
  <2> QED BY <2>1 DEF Anotado, A
<1>3. Len(A) + 1 \notin DOMAIN A
  BY <1>2
<1>0. PICK x : x = <<p, Len(A) + 1>>
  OBVIOUS
<1> HIDE DEF A
<1>4. Abiertos' = Abiertos \cup {x} /\ x \notin Abiertos
  <2>1. \A q, i : <<q, i>> \in Abiertos <=> q \in Pid /\ i \in DOMAIN processFileTable[q].archivos
    BY DEF Abiertos
  <2>2. \A q, i : <<q, i>> \in Abiertos' <=> q \in Pid /\ i \in DOMAIN processFileTable'[q].archivos
    BY DEF Abiertos
  <2>3. \A q, i : <<q, i>> \in Abiertos' <=> <<q, i>> \in Abiertos \/ <<q, i>> = x
    BY <1>0, <1>2, <2>1, <2>2 DEF Anotado, A
  <2>4. /\ \A y \in Abiertos : \E q, i : y = <<q, i>>
        /\ \A y \in Abiertos' : \E q, i : y = <<q, i>>
    BY DEF Abiertos
  <2>5. x \notin Abiertos
    BY <1>0, <1>3, <2>1 DEF A
  <2> QED BY <1>0, <2>3, <2>4, <2>5
<1>5. AbiertoDe(x)' = a /\ \A y \in Abiertos : AbiertoDe(y)' = AbiertoDe(y)
  <2>1. AbiertoDe(x)' = a
    BY <1>0, <1>2 DEF AbiertoDe
  <2>2. ASSUME NEW q \in Pid, NEW i \in DOMAIN processFileTable[q].archivos
        PROVE  processFileTable'[q].archivos[i] = processFileTable[q].archivos[i]
    BY <1>2 DEF Anotado, A
  <2> QED BY <2>1, <2>2 DEF Abiertos, AbiertoDe
<1>6. \A g : g # a.globalFD => DeUbicacion(g)' = DeUbicacion(g)
  BY <1>4, <1>5 DEF DeUbicacion
<1>7. DeUbicacion(a.globalFD)' = DeUbicacion(a.globalFD) \cup {x}
  BY <1>4, <1>5 DEF DeUbicacion
<1> QED BY <1>4, <1>5, <1>6, <1>7

\* Each entry that the table has then counts its descriptors.
LEMMA CuentasDespues ==
  ASSUME \A f : (\E i \in DOMAIN globalFileTable' : f = globalFileTable'[i]) => CuentaBien(f)'
  PROVE  Cuentas'
BY DEF Cuentas, CuentaBien, DeUbicacion, Cerrando

\* A new entry, of a path and a ubicacion that no other has.
LEMMA FirmeNueva ==
  ASSUME ArInv, Firme, NEW p \in Pid, NEW a \in Archivo, Anotado(p, a),
         NEW e \in Entrada, globalFileTable' = Append(globalFileTable, e),
         e.archivo = a.ruta, e.ubicacion = a.globalFD, e.vecesAbierto = 1,
         \A f \in Entradas : f.archivo # e.archivo /\ f.ubicacion # e.ubicacion,
         \A q \in Pid : En(q, "cerrar")' <=> En(q, "cerrar"),
         \A q \in Pid : En(q, "cerrar") => hilo'[q].ruta = hilo[q].ruta
  PROVE  Firme'
<1> DEFINE n == Len(globalFileTable) + 1
           G == globalFileTable'
<1>1. /\ DOMAIN G = DOMAIN globalFileTable \cup {n} /\ n \notin DOMAIN globalFileTable
      /\ \A i \in DOMAIN globalFileTable : G[i] = globalFileTable[i]
      /\ G[n] = e
  BY ArTipos DEF TipoTablas
<1> HIDE DEF n, G
<1>2. \A i \in DOMAIN globalFileTable : /\ globalFileTable[i].archivo # e.archivo
                                       /\ globalFileTable[i].ubicacion # e.ubicacion
  BY DEF Entradas
<1>3. Distintas(G)
  BY <1>1, <1>2 DEF Firme, Distintas
<1>4. PICK x :
      /\ Abiertos' = Abiertos \cup {x} /\ x \notin Abiertos
      /\ AbiertoDe(x)' = a /\ \A y \in Abiertos : AbiertoDe(y)' = AbiertoDe(y)
      /\ \A g : g # a.globalFD => DeUbicacion(g)' = DeUbicacion(g)
      /\ DeUbicacion(a.globalFD)' = DeUbicacion(a.globalFD) \cup {x}
  BY AnotadoAbre
<1>5. \A r : Cerrando(r)' = Cerrando(r)
  BY DEF Cerrando
<1>6. DeUbicacion(e.ubicacion) = {} /\ Cerrando(e.archivo) = {}
  <2>1. \A y \in Abiertos : AbiertoDe(y).globalFD # e.ubicacion
    BY <1>2 DEF Firme, ConEntrada
  <2>2. \A q \in Pid : En(q, "cerrar") => hilo[q].ruta # e.archivo
    BY <1>2 DEF Firme, CerrandoConEntrada
  <2> QED BY <2>1, <2>2 DEF DeUbicacion, Cerrando
<1>7. Cuentas'
  <2>1. CuentaBien(e)'
    <3>1. DeUbicacion(e.ubicacion)' = {x} /\ Cerrando(e.archivo)' = {}
      BY <1>4, <1>5, <1>6
    <3>2. Cardinality({x}) = 1 /\ Cardinality({}) = 0
      BY FS_EmptySet, FS_Singleton
    <3> QED BY <3>1, <3>2 DEF CuentaBien
  <2>2. \A i \in DOMAIN globalFileTable : CuentaBien(globalFileTable[i])
    BY DEF Firme, Cuentas
  <2>3. ASSUME NEW i \in DOMAIN globalFileTable, NEW f, f = globalFileTable[i] PROVE CuentaBien(f)'
    <3>1. f.ubicacion # a.globalFD /\ CuentaBien(f)
      BY <1>2, <2>2, <2>3
    <3> QED BY <1>4, <1>5, <3>1 DEF CuentaBien
  <2>4. \A f : (\E i \in DOMAIN globalFileTable' : f = globalFileTable'[i]) => CuentaBien(f)'
    BY <1>1, <2>1, <2>3 DEF G
  <2> QED BY <2>4, CuentasDespues
<1>8. ConEntrada'
  <2>1. \A y \in Abiertos : \E i \in DOMAIN G : /\ G[i].ubicacion = AbiertoDe(y).globalFD
                                                /\ G[i].archivo = AbiertoDe(y).ruta
    BY <1>1 DEF Firme, ConEntrada
  <2> QED BY <1>1, <1>4, <2>1 DEF ConEntrada, G
<1>9. CerrandoConEntrada'
  BY <1>1 DEF Firme, CerrandoConEntrada, G
<1> QED BY <1>3, <1>7, <1>8, <1>9 DEF Firme, G

\* One more descriptor of the entry of its path.
LEMMA FirmeUnaMas ==
  ASSUME ArInv, Firme, NEW p \in Pid, NEW a \in Archivo, Anotado(p, a),
         NEW k \in DOMAIN globalFileTable, globalFileTable' = UnaMas(k),
         globalFileTable[k].archivo = a.ruta, globalFileTable[k].ubicacion = a.globalFD,
         \A q \in Pid : En(q, "cerrar")' <=> En(q, "cerrar"),
         \A q \in Pid : En(q, "cerrar") => hilo'[q].ruta = hilo[q].ruta
  PROVE  Firme'
<1> DEFINE G == globalFileTable'
<1>1. /\ DOMAIN G = DOMAIN globalFileTable
      /\ \A i \in DOMAIN globalFileTable : i # k => G[i] = globalFileTable[i]
      /\ G[k] = [globalFileTable[k] EXCEPT !.vecesAbierto = @ + 1]
  BY ArTipos DEF TipoTablas, UnaMas
<1>2. \A i \in DOMAIN globalFileTable : globalFileTable[i] \in Entrada
  BY ArTipos DEF TipoTablas
<1>3. /\ G[k].archivo = globalFileTable[k].archivo /\ G[k].ubicacion = globalFileTable[k].ubicacion
      /\ G[k].vecesAbierto = globalFileTable[k].vecesAbierto + 1
  BY <1>1, <1>2 DEF Entrada
<1> HIDE DEF G
<1>4. \A i \in DOMAIN G : /\ G[i].archivo = globalFileTable[i].archivo
                          /\ G[i].ubicacion = globalFileTable[i].ubicacion
  BY <1>1, <1>3
<1>5. Distintas(G)
  BY <1>1, <1>4 DEF Firme, Distintas
<1>6. PICK x :
      /\ Abiertos' = Abiertos \cup {x} /\ x \notin Abiertos
      /\ AbiertoDe(x)' = a /\ \A y \in Abiertos : AbiertoDe(y)' = AbiertoDe(y)
      /\ \A g : g # a.globalFD => DeUbicacion(g)' = DeUbicacion(g)
      /\ DeUbicacion(a.globalFD)' = DeUbicacion(a.globalFD) \cup {x}
  BY AnotadoAbre
<1>7. \A r : Cerrando(r)' = Cerrando(r)
  BY DEF Cerrando
<1>8. Cuentas'
  <2>1. \A i \in DOMAIN globalFileTable : CuentaBien(globalFileTable[i])
    BY DEF Firme, Cuentas
  <2>2. ASSUME NEW f, f = G[k] PROVE CuentaBien(f)'
    <3> DEFINE U == DeUbicacion(a.globalFD)
    <3>1. Cardinality(U \cup {x}) = Cardinality(U) + 1
      <4>1. x \notin U
        BY <1>6 DEF DeUbicacion
      <4>2. IsFiniteSet(U)
        BY AbiertosFinitos
      <4> HIDE DEF U
      <4> QED BY <4>1, <4>2, FS_AddElement
    <3>2. globalFileTable[k].vecesAbierto = Cardinality(U) + Cardinality(Cerrando(a.ruta))
      BY <2>1 DEF CuentaBien
    <3>3. Cardinality(U) \in Nat /\ Cardinality(Cerrando(a.ruta)) \in Nat
      BY AbiertosFinitos
    <3>4. f.vecesAbierto = Cardinality(U) + 1 + Cardinality(Cerrando(a.ruta))
      BY <1>3, <2>2, <3>2, <3>3
    <3>5. f.archivo = a.ruta /\ f.ubicacion = a.globalFD
      BY <1>3, <2>2
    <3>6. DeUbicacion(f.ubicacion)' = U \cup {x} /\ Cerrando(f.archivo)' = Cerrando(a.ruta)
      BY <1>6, <1>7, <3>5
    <3> HIDE DEF U
    <3> QED BY <3>1, <3>4, <3>6 DEF CuentaBien
  <2>3. ASSUME NEW i \in DOMAIN globalFileTable, i # k, NEW f, f = globalFileTable[i]
        PROVE CuentaBien(f)'
    <3>1. f.ubicacion # a.globalFD /\ CuentaBien(f)
      BY <2>1, <2>3 DEF Firme, Distintas
    <3> QED BY <1>6, <1>7, <3>1 DEF CuentaBien
  <2>4. \A f : (\E i \in DOMAIN globalFileTable' : f = globalFileTable'[i]) => CuentaBien(f)'
    BY <1>1, <2>2, <2>3 DEF G
  <2> QED BY <2>4, CuentasDespues
<1>9. ConEntrada'
  <2>1. \A y \in Abiertos : \E i \in DOMAIN G : /\ G[i].ubicacion = AbiertoDe(y).globalFD
                                                /\ G[i].archivo = AbiertoDe(y).ruta
    BY <1>1, <1>4 DEF Firme, ConEntrada
  <2>2. k \in DOMAIN G /\ G[k].ubicacion = a.globalFD /\ G[k].archivo = a.ruta
    BY <1>1, <1>3
  <2>3. \A y \in Abiertos' : \E i \in DOMAIN G : /\ G[i].ubicacion = AbiertoDe(y)'.globalFD
                                                 /\ G[i].archivo = AbiertoDe(y)'.ruta
    BY <1>6, <2>1, <2>2
  <2> QED BY <2>3 DEF ConEntrada, AbiertoDe, G
<1>10. CerrandoConEntrada'
  BY <1>1, <1>4 DEF Firme, CerrandoConEntrada, G
<1> QED BY <1>5, <1>8, <1>9, <1>10 DEF Firme, G

LEMMA ArAgregar ==
  ASSUME ArInv, kernel = "vivo", NEW p \in Pid, AgregarArchivo(p)
  PROVE  ArInv'
<1> DEFINE r == hilo[p].ruta
           u == p + max_archivo_fd
           nueva == [dir |-> NuevaDir, archivo |-> r, vecesAbierto |-> 1, ubicacion |-> u]
<1>1. /\ En(p, "agregar") /\ UNCHANGED max_archivo_fd
      /\ UNCHANGED <<mutex_fs, estado, pedidos, consultas, respuestas, existen>>
  BY DEF AgregarArchivo, socket
<1>2. r \in Ruta /\ u \in Nat
  BY <1>1, ArTipos, ArchivosAssumption DEF ManosInv, En, TipoTablas
<1>3. globalFileTable \in Seq(Entrada) /\ max_archivo_fd \in Nat
  BY ArTipos DEF TipoTablas
<1>4. ASSUME NEW g \in Nat, Anotar(p, max_archivo_fd, g), NEW G \in Seq(Entrada),
             globalFileTable' = G, enredado' \in BOOLEAN,
             ASSUME NEW a \in Archivo, a.globalFD = g, a.ruta = r, Anotado(p, a),
                    \A q \in Pid : En(q, "cerrar")' <=> En(q, "cerrar"),
                    \A q \in Pid : En(q, "cerrar") => hilo'[q].ruta = hilo[q].ruta,
                    ~enredado'
             PROVE  Firme'
      PROVE  ArInv'
  <2>1. /\ processFileTable' \in [Pid -> EntradaProceso] /\ Ajeno(p) /\ NumerosInv'
        /\ kernel' \in {"vivo", "caido"} \cup {kernel}
        /\ kernel' = "vivo" => \E a \in Archivo : a.globalFD = g /\ a.ruta = r /\ Anotado(p, a)
    BY <1>1, <1>4, AnotarTipos
  <2>2. /\ hilo' \in [Pid -> Hilo] /\ ManosInv'
        /\ \A q \in Pid : En(q, "cerrar")' <=> En(q, "cerrar")
        /\ \A q \in Pid : En(q, "cerrar") => hilo'[q].ruta = hilo[q].ruta
    BY <2>1, ArTipos, HilosTrasAjeno
  <2>3. TipoTablas' /\ TipoResto'
    BY <1>1, <1>3, <1>4, <2>1, ArTipos DEF TipoTablas, TipoResto
  <2>4. TypeOK' <=> TipoTablas' /\ hilo' \in [Pid -> Hilo] /\ TipoResto'
    BY DEF TypeOK, TipoTablas, TipoResto
  <2>5. ~enredado' /\ kernel' = "vivo" => Firme'
    <3>1. SUFFICES ASSUME ~enredado', kernel' = "vivo" PROVE Firme'
      OBVIOUS
    <3>2. PICK a \in Archivo : a.globalFD = g /\ a.ruta = r /\ Anotado(p, a)
      BY <2>1, <3>1
    <3> QED BY <1>4, <2>2, <3>1, <3>2
  <2> QED BY <2>1, <2>2, <2>3, <2>4, <2>5 DEF ArInv
<1>5. \/ /\ globalFileTable' = Append(globalFileTable, nueva)
         /\ enredado' = (enredado \/ \E e \in Entradas : e.archivo = r \/ e.ubicacion = u)
         /\ Anotar(p, max_archivo_fd, u)
      \/ \E i \in DOMAIN globalFileTable :
           /\ globalFileTable' = UnaMas(i)
           /\ enredado' = (enredado \/ globalFileTable[i].archivo # r)
           /\ Anotar(p, max_archivo_fd, globalFileTable[i].ubicacion)
      \/ /\ \E g \in {hilo[p].ubicacion, 0} : Anotar(p, max_archivo_fd, g)
         /\ enredado' = TRUE /\ UNCHANGED globalFileTable
  BY DEF AgregarArchivo
<1>6. CASE /\ globalFileTable' = Append(globalFileTable, nueva)
           /\ enredado' = (enredado \/ \E e \in Entradas : e.archivo = r \/ e.ubicacion = u)
           /\ Anotar(p, max_archivo_fd, u)
  <2>1. nueva \in Entrada /\ nueva.archivo = r /\ nueva.ubicacion = u /\ nueva.vecesAbierto = 1
    BY <1>2, <1>3, NuevaDirTipo DEF Entrada
  <2> HIDE DEF nueva, u, r
  <2>2. Append(globalFileTable, nueva) \in Seq(Entrada)
    BY <1>3, <2>1
  <2>3. enredado' \in BOOLEAN
    BY <1>6
  <2>4. ASSUME NEW a \in Archivo, a.globalFD = u, a.ruta = r, Anotado(p, a),
               \A q \in Pid : En(q, "cerrar")' <=> En(q, "cerrar"),
               \A q \in Pid : En(q, "cerrar") => hilo'[q].ruta = hilo[q].ruta,
               ~enredado'
        PROVE  Firme'
    <3>1. ~enredado /\ \A e \in Entradas : e.archivo # r /\ e.ubicacion # u
      BY <1>6, <2>4
    <3>2. Firme
      BY <3>1 DEF ArInv
    <3> QED BY <1>6, <2>1, <2>4, <3>1, <3>2, FirmeNueva
  <2> QED BY <1>2, <1>4, <1>6, <2>2, <2>3, <2>4
<1>7. ASSUME NEW i \in DOMAIN globalFileTable, globalFileTable' = UnaMas(i),
             enredado' = (enredado \/ globalFileTable[i].archivo # r),
             Anotar(p, max_archivo_fd, globalFileTable[i].ubicacion)
      PROVE  ArInv'
  <2>1. globalFileTable[i] \in Entrada
    BY <1>3
  <2>2. UnaMas(i) \in Seq(Entrada)
    <3>1. [globalFileTable[i] EXCEPT !.vecesAbierto = @ + 1] \in Entrada
      BY <2>1 DEF Entrada
    <3> QED BY <1>3, <3>1 DEF UnaMas
  <2>3. enredado' \in BOOLEAN /\ globalFileTable[i].ubicacion \in Nat
    BY <1>7, <2>1, ArTipos DEF TipoTablas, Entrada
  <2> HIDE DEF r
  <2>4. ASSUME NEW a \in Archivo, a.globalFD = globalFileTable[i].ubicacion, a.ruta = r,
               Anotado(p, a),
               \A q \in Pid : En(q, "cerrar")' <=> En(q, "cerrar"),
               \A q \in Pid : En(q, "cerrar") => hilo'[q].ruta = hilo[q].ruta,
               ~enredado'
        PROVE  Firme'
    <3>1. ~enredado /\ globalFileTable[i].archivo = r
      BY <1>7, <2>4
    <3>2. Firme
      BY <3>1 DEF ArInv
    <3> QED BY <1>7, <2>4, <3>1, <3>2, FirmeUnaMas
  <2> QED BY <1>4, <1>7, <2>2, <2>3, <2>4
<1>8. CASE /\ \E g \in {hilo[p].ubicacion, 0} : Anotar(p, max_archivo_fd, g)
           /\ enredado' = TRUE /\ UNCHANGED globalFileTable
  <2>1. PICK g \in {hilo[p].ubicacion, 0} : Anotar(p, max_archivo_fd, g)
    BY <1>8
  <2>2. g \in Nat
    BY <2>1, ArTipos DEF Hilo
  <2> HIDE DEF r
  <2> QED BY <1>3, <1>4, <1>8, <2>1, <2>2
<1> QED BY <1>5, <1>6, <1>7, <1>8

-----------------------------------------------------------------------------
(***************************************************************************)
(* eliminarFd: the table of the process.                                   *)
(***************************************************************************)
\* The descriptor at place k of p's list leaves it.
Quitado(p, k) ==
  LET W == DOMAIN processFileTable[p].archivos \ {k} IN
  /\ processFileTable'[p].archivos = Solo(processFileTable[p].archivos, W)
  /\ \A q \in Pid : q # p => processFileTable'[q].archivos = processFileTable[q].archivos

\* The descriptors that are open then: all but that one, under other places.
LEMMA QuitadoCierra ==
  ASSUME ArInv, NEW p \in Pid, NEW k \in DOMAIN processFileTable[p].archivos, Quitado(p, k)
  PROVE  /\ \A y \in Abiertos' : \E x \in Abiertos : AbiertoDe(y)' = AbiertoDe(x)
         /\ \A g : /\ IsFiniteSet(DeUbicacion(g)')
                   /\ Cardinality(DeUbicacion(g)') = Cardinality(DeUbicacion(g) \ {<<p, k>>})
<1> DEFINE A == processFileTable[p].archivos
           B == processFileTable'[p].archivos
           W == DOMAIN A \ {k}
           lugar(y) == IF y[1] = p THEN <<p, Enesimo(W, y[2])>> ELSE y
<1>1. A \in Seq(Archivo) /\ W \subseteq DOMAIN A /\ B = Solo(A, W)
  BY ArTipos DEF Quitado
<1> HIDE DEF A, B, W
<1>2. /\ \A l \in DOMAIN B : Enesimo(W, l) \in W /\ B[l] = A[Enesimo(W, l)]
      /\ \A l, m \in DOMAIN B : Enesimo(W, l) = Enesimo(W, m) => l = m
      /\ \A i \in W : \E l \in DOMAIN B : Enesimo(W, l) = i
  BY <1>1, SoloEs
<1>3. /\ \A y : y \in Abiertos <=>
           \E q \in Pid : \E i \in DOMAIN processFileTable[q].archivos : y = <<q, i>>
      /\ \A y : y \in Abiertos' <=>
           \E q \in Pid : \E i \in DOMAIN processFileTable'[q].archivos : y = <<q, i>>
  BY DEF Abiertos
<1>4. \A q, i : /\ AbiertoDe(<<q, i>>) = processFileTable[q].archivos[i]
                /\ AbiertoDe(<<q, i>>)' = processFileTable'[q].archivos[i]
  BY DEF AbiertoDe
<1>5. \A i : i \in W <=> i \in DOMAIN A /\ i # k
  BY DEF W
<1>6. \A l : lugar(<<p, l>>) = <<p, Enesimo(W, l)>>
  OBVIOUS
<1>7. \A q, l : q # p => lugar(<<q, l>>) = <<q, l>>
  OBVIOUS
<1> HIDE DEF lugar
<1>8. ASSUME NEW y \in Abiertos'
      PROVE  lugar(y) \in Abiertos \ {<<p, k>>} /\ AbiertoDe(y)' = AbiertoDe(lugar(y))
  <2>1. PICK q \in Pid : \E i \in DOMAIN processFileTable'[q].archivos : y = <<q, i>>
    BY <1>3
  <2>1a. PICK i \in DOMAIN processFileTable'[q].archivos : y = <<q, i>>
    BY <2>1
  <2>2. CASE q = p
    <3>1. i \in DOMAIN B /\ lugar(y) = <<p, Enesimo(W, i)>>
      BY <1>6, <2>1a, <2>2 DEF B
    <3>2. Enesimo(W, i) \in DOMAIN A /\ Enesimo(W, i) # k /\ B[i] = A[Enesimo(W, i)]
      BY <1>2, <1>5, <3>1
    <3>3. lugar(y) \in Abiertos /\ lugar(y) # <<p, k>>
      BY <1>3, <3>1, <3>2 DEF A
    <3>4. AbiertoDe(y)' = B[i]
      BY <1>4, <2>1a, <2>2 DEF B
    <3>5. AbiertoDe(lugar(y)) = A[Enesimo(W, i)]
      BY <1>4, <3>1 DEF A
    <3> QED BY <3>2, <3>3, <3>4, <3>5
  <2>3. CASE q # p
    <3>1. processFileTable'[q].archivos = processFileTable[q].archivos
      BY <2>3 DEF Quitado
    <3>2. lugar(y) = y
      BY <1>7, <2>1a, <2>3
    <3>3. y \in Abiertos
      BY <1>3, <2>1a, <3>1
    <3>4. AbiertoDe(y)' = AbiertoDe(y)
      BY <1>4, <2>1a, <3>1
    <3> QED BY <2>1a, <2>3, <3>2, <3>3, <3>4
  <2> QED BY <2>2, <2>3
<1>9. ASSUME NEW y \in Abiertos', NEW z \in Abiertos', lugar(y) = lugar(z) PROVE y = z
  <2>1. PICK q \in Pid : \E i \in DOMAIN processFileTable'[q].archivos : y = <<q, i>>
    BY <1>3
  <2>1a. PICK i \in DOMAIN processFileTable'[q].archivos : y = <<q, i>>
    BY <2>1
  <2>2. PICK r \in Pid : \E j \in DOMAIN processFileTable'[r].archivos : z = <<r, j>>
    BY <1>3
  <2>2a. PICK j \in DOMAIN processFileTable'[r].archivos : z = <<r, j>>
    BY <2>2
  <2>3. CASE q = p /\ r = p
    BY <1>2, <1>6, <1>9, <2>1a, <2>2a, <2>3 DEF B
  <2>4. CASE q # p /\ r # p
    BY <1>7, <1>9, <2>1a, <2>2a, <2>4
  <2>5. CASE q = p /\ r # p
    <3>1. lugar(y) = <<p, Enesimo(W, i)>> /\ lugar(z) = <<r, j>>
      BY <1>6, <1>7, <2>1a, <2>2a, <2>5
    <3>2. <<p, Enesimo(W, i)>> = <<r, j>>
      BY <1>9, <3>1
    <3> QED BY <2>5, <3>2
  <2>6. CASE q # p /\ r = p
    <3>1. lugar(z) = <<p, Enesimo(W, j)>> /\ lugar(y) = <<q, i>>
      BY <1>6, <1>7, <2>1a, <2>2a, <2>6
    <3> QED BY <1>9, <2>6, <3>1
  <2> QED BY <2>3, <2>4, <2>5, <2>6
<1>10. ASSUME NEW x \in Abiertos, x # <<p, k>> PROVE \E y \in Abiertos' : lugar(y) = x
  <2>1. PICK q \in Pid : \E i \in DOMAIN processFileTable[q].archivos : x = <<q, i>>
    BY <1>3
  <2>1a. PICK i \in DOMAIN processFileTable[q].archivos : x = <<q, i>>
    BY <2>1
  <2>2. CASE q = p
    <3>1. i \in W
      BY <1>5, <1>10, <2>1a, <2>2 DEF A
    <3>2. PICK l \in DOMAIN B : Enesimo(W, l) = i
      BY <1>2, <3>1
    <3>3. <<p, l>> \in Abiertos'
      BY <1>3, <3>2 DEF B
    <3>4. lugar(<<p, l>>) = x
      BY <1>6, <2>1a, <2>2, <3>2
    <3> QED BY <3>3, <3>4
  <2>3. CASE q # p
    <3>1. processFileTable'[q].archivos = processFileTable[q].archivos
      BY <2>3 DEF Quitado
    <3>2. x \in Abiertos' /\ lugar(x) = x
      BY <1>3, <1>7, <2>1a, <2>3, <3>1
    <3> QED BY <3>2
  <2> QED BY <2>2, <2>3
<1>11. ASSUME NEW g
       PROVE  /\ IsFiniteSet(DeUbicacion(g)')
              /\ Cardinality(DeUbicacion(g)') = Cardinality(DeUbicacion(g) \ {<<p, k>>})
  <2> DEFINE D == DeUbicacion(g)'
             C == DeUbicacion(g) \ {<<p, k>>}
             f == [y \in D |-> lugar(y)]
  <2>1. /\ \A y : y \in D <=> y \in Abiertos' /\ AbiertoDe(y)'.globalFD = g
        /\ \A y : y \in C <=> y \in Abiertos /\ AbiertoDe(y).globalFD = g /\ y # <<p, k>>
    BY DEF DeUbicacion
  <2> HIDE DEF D, C
  <2>2. \A y \in D : f[y] = lugar(y) /\ lugar(y) \in C
    BY <1>8, <2>1
  <2>3. \A y, z \in D : f[y] = f[z] => y = z
    BY <1>9, <2>1, <2>2
  <2>4. \A x \in C : \E y \in D : f[y] = x
    <3> TAKE x \in C
    <3>1. PICK y \in Abiertos' : lugar(y) = x
      BY <1>10, <2>1
    <3>2. y \in D
      BY <1>8, <2>1, <3>1
    <3> QED BY <2>2, <3>1, <3>2
  <2>5. f \in [D -> C]
    BY <2>2
  <2> HIDE DEF f
  <2>7. IsFiniteSet(C)
    <3>1. IsFiniteSet(DeUbicacion(g))
      BY AbiertosFinitos
    <3> QED BY <3>1, FS_RemoveElement DEF C
  <2>6. f \in Injection(D, C)
    BY <2>3, <2>5 DEF Injection, IsInjective
  <2>8. f \in Surjection(D, C)
    BY <2>4, <2>5 DEF Surjection
  <2>9. IsFiniteSet(D) /\ Cardinality(D) = Cardinality(C)
    BY <2>6, <2>7, <2>8, FS_Injection
  <2> QED BY <2>9 DEF D, C
<1> QED BY <1>8, <1>11

\* The descriptor that left is counted among those being closed.
LEMMA FirmeCerrar ==
  ASSUME ArInv, Firme, NEW p \in Pid, NEW k \in DOMAIN processFileTable[p].archivos,
         Quitado(p, k), UNCHANGED globalFileTable,
         NEW j \in DOMAIN globalFileTable, NEW e, e = globalFileTable[j],
         e.ubicacion = processFileTable[p].archivos[k].globalFD,
         ~En(p, "cerrar"), En(p, "cerrar")', hilo'[p].ruta = e.archivo,
         \A q \in Pid : q # p => hilo'[q] = hilo[q]
  PROVE  Firme'
<1>1. /\ \A y \in Abiertos' : \E x \in Abiertos : AbiertoDe(y)' = AbiertoDe(x)
      /\ \A g : /\ IsFiniteSet(DeUbicacion(g)')
                /\ Cardinality(DeUbicacion(g)') = Cardinality(DeUbicacion(g) \ {<<p, k>>})
  BY QuitadoCierra
<1>2. /\ \A r : r # e.archivo => Cerrando(r)' = Cerrando(r)
      /\ Cerrando(e.archivo)' = Cerrando(e.archivo) \cup {p} /\ p \notin Cerrando(e.archivo)
  BY DEF Cerrando, En
<1>3. Cardinality(Cerrando(e.archivo)') = Cardinality(Cerrando(e.archivo)) + 1
  BY <1>2, AbiertosFinitos, FS_AddElement
<1>4. Cardinality(DeUbicacion(e.ubicacion)') = Cardinality(DeUbicacion(e.ubicacion)) - 1
  <2>1. <<p, k>> \in DeUbicacion(e.ubicacion)
    BY DEF DeUbicacion, Abiertos, AbiertoDe
  <2> QED BY <1>1, <2>1, AbiertosFinitos, FS_RemoveElement
<1>5. \A g : g # e.ubicacion => Cardinality(DeUbicacion(g)') = Cardinality(DeUbicacion(g))
  <2> TAKE g
  <2> HAVE g # e.ubicacion
  <2>1. <<p, k>> \notin DeUbicacion(g)
    BY DEF DeUbicacion, AbiertoDe
  <2>2. DeUbicacion(g) \ {<<p, k>>} = DeUbicacion(g)
    BY <2>1
  <2> QED BY <1>1, <2>2
<1>6. \A f : (\E i \in DOMAIN globalFileTable' : f = globalFileTable'[i]) => CuentaBien(f)'
  <2> SUFFICES ASSUME NEW i \in DOMAIN globalFileTable, NEW f, f = globalFileTable[i]
               PROVE  CuentaBien(f)'
    OBVIOUS
  <2>1. f.vecesAbierto = Cardinality(DeUbicacion(f.ubicacion)) + Cardinality(Cerrando(f.archivo))
    BY DEF Firme, Cuentas, CuentaBien
  <2>2. CASE i = j
    <3>1. f = e
      BY <2>2
    <3>2. Cardinality(DeUbicacion(e.ubicacion)) \in Nat /\ Cardinality(Cerrando(e.archivo)) \in Nat
      BY AbiertosFinitos
    <3>3. e.vecesAbierto = Cardinality(DeUbicacion(e.ubicacion)') + Cardinality(Cerrando(e.archivo)')
      BY <1>3, <1>4, <2>1, <3>1, <3>2
    <3> QED BY <3>1, <3>3 DEF CuentaBien
  <2>3. CASE i # j
    <3>1. f.ubicacion # e.ubicacion /\ f.archivo # e.archivo
      BY <2>3 DEF Firme, Distintas
    <3>2. f.vecesAbierto = Cardinality(DeUbicacion(f.ubicacion)') + Cardinality(Cerrando(f.archivo)')
      BY <1>2, <1>5, <2>1, <3>1
    <3> QED BY <3>2 DEF CuentaBien
  <2> QED BY <2>2, <2>3
<1>7. Cuentas'
  BY <1>6, CuentasDespues
<1>8. ConEntrada'
  <2>1. \A x \in Abiertos : \E i \in DOMAIN globalFileTable :
          /\ globalFileTable[i].ubicacion = AbiertoDe(x).globalFD
          /\ globalFileTable[i].archivo = AbiertoDe(x).ruta
    BY DEF Firme, ConEntrada
  <2>2. \A y \in Abiertos' : \E i \in DOMAIN globalFileTable' :
          /\ globalFileTable'[i].ubicacion = AbiertoDe(y)'.globalFD
          /\ globalFileTable'[i].archivo = AbiertoDe(y)'.ruta
    BY <1>1, <2>1
  <2> QED BY <2>2 DEF ConEntrada, AbiertoDe
<1>9. CerrandoConEntrada'
  BY DEF Firme, CerrandoConEntrada, En
<1> QED BY <1>7, <1>8, <1>9 DEF Firme, Distintas

LEMMA ArCerrar ==
  ASSUME ArInv, kernel = "vivo", NEW p \in Pid, NEW fd, CerrarArchivo(p, fd)
  PROVE  ArInv'
<1> DEFINE A == processFileTable[p].archivos
           W == {i \in DOMAIN A : A[i] \notin BuscarArchivo(p, fd)}
<1>1. /\ ~En(p, "cerrar") /\ ~En(p, "agregar") /\ Pide(p)
      /\ UNCHANGED <<globalFileTable, max_archivo_fd, enredado>>
      /\ UNCHANGED <<mutex_fs, consultas, respuestas, existen>>
  BY DEF CerrarArchivo, Pide, En, socket
<1>2. CASE /\ UNCHANGED processFileTable /\ kernel' \in {"vivo", "caido"}
           /\ Contesta(p, FALSE) \/ UNCHANGED <<hilo, estado>>
  <2>1. Ajeno(p)
    BY <1>1, <1>2, AjenoContesta DEF Ajeno
  <2>2. TipoResto'
    BY <1>1, <1>2, ArTipos, RestoPide
  <2> QED BY <1>1, <1>2, <2>1, <2>2, PasoSinTablas
<1>3. ASSUME NEW e \in EntradaDe(p, fd),
             processFileTable' = [processFileTable EXCEPT ![p].archivos = Solo(@, W)],
             Pasa(p, [Libre EXCEPT !.pc = "cerrar", !.ruta = e.archivo]),
             kernel' \in {"vivo", "caido"}, UNCHANGED estado
      PROVE  ArInv'
  <2>1. PICK a \in BuscarArchivo(p, fd), j \in DOMAIN globalFileTable :
          e = globalFileTable[j] /\ e \in Entrada /\ e.ubicacion = a.globalFD
    BY ArTipos, EntradaDeEs DEF TipoTablas
  <2>2. PICK k \in DOMAIN A : BuscarArchivo(p, fd) = {A[k]} /\ A[k].fd = fd
    BY <2>1, ArTipos, PrimerArchivo
  <2>3. W = DOMAIN A \ {k}
    <3>1. \A i \in DOMAIN A : A[i] = A[k] => i = k
      BY ArTipos DEF NumerosInv, NumerosDe
    <3> QED BY <2>2, <3>1
  <2> DEFINE s == [processFileTable[p] EXCEPT !.archivos = Solo(A, W)]
             h == [Libre EXCEPT !.pc = "cerrar", !.ruta = e.archivo]
  <2>4. processFileTable' = [processFileTable EXCEPT ![p] = s]
    BY <1>3
  <2>5. /\ Solo(A, W) \in Seq(Archivo)
        /\ \A l \in DOMAIN Solo(A, W) : Enesimo(W, l) \in W /\ Solo(A, W)[l] = A[Enesimo(W, l)]
        /\ \A l, m \in DOMAIN Solo(A, W) : Enesimo(W, l) = Enesimo(W, m) => l = m
    <3>1. A \in Seq(Archivo) /\ W \subseteq DOMAIN A
      BY ArTipos
    <3> HIDE DEF A, W
    <3> QED BY <3>1, SoloEs
  <2>6. W \subseteq DOMAIN A
    OBVIOUS
  <2>7. /\ h \in Hilo /\ h.pc = "cerrar" /\ h.ruta = e.archivo /\ e.archivo \in Ruta
    BY <2>1 DEF Libre, Hilo, Operacion, Entrada
  <2>8. Pasa(p, h)
    BY <1>3
  <2> HIDE DEF h, W
  <2>9. s \in EntradaProceso /\ s.archivos = Solo(A, W)
    BY <2>5, ArTipos DEF EntradaProceso
  <2> HIDE DEF s
  <2>10. processFileTable' \in [Pid -> EntradaProceso] /\ Quitado(p, k)
    BY <2>3, <2>4, <2>9, ArTipos DEF TipoTablas, Quitado
  <2>11. hilo' \in [Pid -> Hilo] /\ hilo'[p] = h /\ \A q \in Pid : q # p => hilo'[q] = hilo[q]
    BY <2>7, <2>8, ArTipos DEF Pasa
  <2>12. ManosInv'
    BY <2>7, <2>11, ArTipos DEF ManosInv, En
  <2>13. NumerosInv'
    <3>1. NumerosDe(processFileTable'[p].archivos, max_archivo_fd)
      <4>1. processFileTable'[p].archivos = Solo(A, W)
        BY <2>4, <2>9, ArTipos DEF TipoTablas
      <4>2. NumerosDe(A, max_archivo_fd)
        BY ArTipos DEF NumerosInv
      <4> HIDE DEF A
      <4>3. NumerosDe(Solo(A, W), max_archivo_fd)
        BY <2>5, <2>6, <4>2 DEF NumerosDe
      <4> QED BY <4>1, <4>3
    <3>2. \A q \in Pid : q # p => /\ processFileTable'[q].archivos = processFileTable[q].archivos
                                  /\ En(q, "agregar")' <=> En(q, "agregar")
      BY <2>10, <2>11 DEF Quitado, En
    <3>3. ~En(p, "agregar")'
      BY <2>7, <2>11 DEF En
    <3> QED BY <1>1, <3>1, <3>2, <3>3, ArTipos DEF NumerosInv
  <2>14. TypeOK'
    <3>1. TipoTablas'
      BY <1>1, <2>10, ArTipos DEF TipoTablas
    <3>2. TipoResto'
      BY <1>1, <1>3, ArTipos, RestoPide
    <3>3. TypeOK' <=> TipoTablas' /\ hilo' \in [Pid -> Hilo] /\ TipoResto'
      BY DEF TypeOK, TipoTablas, TipoResto
    <3> QED BY <2>11, <3>1, <3>2, <3>3
  <2>15. ~enredado' /\ kernel' = "vivo" => Firme'
    <3>1. SUFFICES ASSUME ~enredado' PROVE Firme'
      OBVIOUS
    <3>2. Firme
      BY <1>1, <3>1 DEF ArInv
    <3>3. e.ubicacion = processFileTable[p].archivos[k].globalFD
      BY <2>1, <2>2
    <3>4. En(p, "cerrar")' /\ hilo'[p].ruta = e.archivo
      BY <2>7, <2>11 DEF En
    <3> QED BY <1>1, <2>1, <2>10, <2>11, <3>2, <3>3, <3>4, FirmeCerrar
  <2> QED BY <2>12, <2>13, <2>14, <2>15 DEF ArInv
<1>4. \/ /\ UNCHANGED processFileTable /\ kernel' \in {"vivo", "caido"}
         /\ Contesta(p, FALSE) \/ UNCHANGED <<hilo, estado>>
      \/ \E e \in EntradaDe(p, fd) :
           /\ processFileTable' = [processFileTable EXCEPT ![p].archivos = Solo(@, W)]
           /\ Pasa(p, [Libre EXCEPT !.pc = "cerrar", !.ruta = e.archivo])
           /\ kernel' \in {"vivo", "caido"} /\ UNCHANGED estado
  BY DEF CerrarArchivo, Muere, Sigue
<1> QED BY <1>2, <1>3, <1>4

-----------------------------------------------------------------------------
(***************************************************************************)
(* eliminarFd: the global table.                                           *)
(***************************************************************************)
LEMMA AlMenosUno ==
  ASSUME NEW S, IsFiniteSet(S), NEW x \in S
  PROVE  Cardinality(S) \in Nat /\ Cardinality(S) >= 1
BY FS_CardinalityType, FS_EmptySet

\* An entry goes only when the close under way was all it counted.
LEMMA FirmeDescontar ==
  ASSUME ArInv, Firme, NEW p \in Pid, En(p, "cerrar"), NEW r, r = hilo[p].ruta,
         globalFileTable' = Descontada(globalFileTable, r), MismosArchivos,
         ~En(p, "cerrar")', \A q \in Pid : q # p => hilo'[q] = hilo[q]
  PROVE  Firme'
<1> DEFINE s == globalFileTable
           D == Descontada(s, r)
<1>1. s \in Seq(Entrada) /\ \A i \in DOMAIN s : s[i] \in Entrada
  BY ArTipos DEF TipoTablas
<1>2. /\ \A l \in DOMAIN D : \E i \in DOMAIN s : D[l] = MenosUno(s[i], r)
      /\ \A i \in DOMAIN s : s[i].archivo # r \/ s[i].vecesAbierto # 1 =>
           \E l \in DOMAIN D : D[l] = MenosUno(s[i], r)
      /\ Distintas(D)
  <2>1. Distintas(s)
    BY DEF Firme
  <2> HIDE DEF s
  <2> QED BY <1>1, <2>1, DescontadaEs
<1>3. \A e \in Entrada : /\ MenosUno(e, r).archivo = e.archivo
                         /\ MenosUno(e, r).ubicacion = e.ubicacion
                         /\ e.archivo = r => MenosUno(e, r).vecesAbierto = e.vecesAbierto - 1
                         /\ e.archivo # r => MenosUno(e, r).vecesAbierto = e.vecesAbierto
  BY DEF MenosUno, Entrada
<1>4. globalFileTable' = D
  OBVIOUS
<1> HIDE DEF D
<1>5. /\ Abiertos' = Abiertos
      /\ \A x \in Abiertos : /\ AbiertoDe(x)'.globalFD = AbiertoDe(x).globalFD
                             /\ AbiertoDe(x)'.ruta = AbiertoDe(x).ruta
  <2>1. Abiertos' = Abiertos
    BY DEF Abiertos, MismosArchivos
  <2>2. \A x \in Abiertos : /\ AbiertoDe(x)'.globalFD = AbiertoDe(x).globalFD
                            /\ AbiertoDe(x)'.ruta = AbiertoDe(x).ruta
    BY DEF Abiertos, AbiertoDe, MismosArchivos
  <2> QED BY <2>1, <2>2
<1>6. \A g : DeUbicacion(g)' = DeUbicacion(g)
  BY <1>5 DEF DeUbicacion
<1>7. /\ p \in Cerrando(r) /\ Cerrando(r)' = Cerrando(r) \ {p}
      /\ \A t : t # r => Cerrando(t)' = Cerrando(t)
  BY DEF Cerrando, En
<1>8. Cardinality(Cerrando(r)') = Cardinality(Cerrando(r)) - 1
  <2>1. IsFiniteSet(Cerrando(r))
    BY AbiertosFinitos
  <2>2. Cardinality(Cerrando(r) \ {p}) = Cardinality(Cerrando(r)) - 1
    BY <1>7, <2>1, FS_RemoveElement
  <2> QED BY <1>7, <2>2
<1>9. \A i \in DOMAIN s : s[i].vecesAbierto = Cardinality(DeUbicacion(s[i].ubicacion))
                                              + Cardinality(Cerrando(s[i].archivo))
  BY DEF Firme, Cuentas, CuentaBien
<1>10. \A g, t : Cardinality(DeUbicacion(g)) \in Nat /\ Cardinality(Cerrando(t)) \in Nat
  BY AbiertosFinitos
<1>11. Cuentas'
  <2>1. ASSUME NEW i \in DOMAIN s, NEW f, f = MenosUno(s[i], r) PROVE CuentaBien(f)'
    <3>1. f.archivo = s[i].archivo /\ f.ubicacion = s[i].ubicacion
      BY <1>1, <1>3, <2>1
    <3>2. CASE s[i].archivo = r
      <4>1. f.vecesAbierto = s[i].vecesAbierto - 1
        BY <1>1, <1>3, <2>1, <3>2
      <4>2. f.vecesAbierto = Cardinality(DeUbicacion(f.ubicacion)) + Cardinality(Cerrando(r)')
        BY <1>8, <1>9, <1>10, <3>1, <3>2, <4>1
      <4> QED BY <1>6, <3>1, <3>2, <4>2 DEF CuentaBien
    <3>3. CASE s[i].archivo # r
      <4>1. f.vecesAbierto = s[i].vecesAbierto
        BY <1>1, <1>3, <2>1, <3>3
      <4>2. f.vecesAbierto = Cardinality(DeUbicacion(f.ubicacion)) + Cardinality(Cerrando(f.archivo))
        BY <1>9, <3>1, <4>1
      <4> QED BY <1>6, <1>7, <3>1, <3>3, <4>2 DEF CuentaBien
    <3> QED BY <3>2, <3>3
  <2>2. \A f : (\E i \in DOMAIN globalFileTable' : f = globalFileTable'[i]) => CuentaBien(f)'
    BY <1>2, <1>4, <2>1
  <2> QED BY <2>2, CuentasDespues
<1>12. ASSUME NEW i \in DOMAIN s,
              s[i].archivo = r => DeUbicacion(s[i].ubicacion) # {} \/ Cerrando(r) \ {p} # {}
       PROVE  \E l \in DOMAIN D : D[l].archivo = s[i].archivo /\ D[l].ubicacion = s[i].ubicacion
  <2>1. s[i].archivo # r \/ s[i].vecesAbierto # 1
    <3>1. SUFFICES ASSUME s[i].archivo = r PROVE s[i].vecesAbierto # 1
      OBVIOUS
    <3>2. Cardinality(Cerrando(r)) >= 1
      BY <1>7, AbiertosFinitos, AlMenosUno
    <3>3. CASE DeUbicacion(s[i].ubicacion) # {}
      <4>1. Cardinality(DeUbicacion(s[i].ubicacion)) >= 1
        BY <3>3, AbiertosFinitos, AlMenosUno
      <4> QED BY <1>9, <1>10, <3>1, <3>2, <4>1
    <3>4. CASE Cerrando(r) \ {p} # {}
      <4>1. IsFiniteSet(Cerrando(r) \ {p}) /\ Cardinality(Cerrando(r) \ {p}) = Cardinality(Cerrando(r)) - 1
        BY <1>7, AbiertosFinitos, FS_RemoveElement
      <4>2. Cardinality(Cerrando(r) \ {p}) >= 1
        BY <3>4, <4>1, AlMenosUno
      <4> QED BY <1>9, <1>10, <3>1, <4>1, <4>2
    <3> QED BY <1>12, <3>1, <3>3, <3>4
  <2>2. PICK l \in DOMAIN D : D[l] = MenosUno(s[i], r)
    BY <1>2, <2>1
  <2> QED BY <1>1, <1>3, <2>2
<1>13. ConEntrada'
  <2>1. ASSUME NEW x \in Abiertos
        PROVE  \E l \in DOMAIN D : /\ D[l].ubicacion = AbiertoDe(x).globalFD
                                   /\ D[l].archivo = AbiertoDe(x).ruta
    <3>1. PICK i \in DOMAIN s : s[i].ubicacion = AbiertoDe(x).globalFD /\ s[i].archivo = AbiertoDe(x).ruta
      BY DEF Firme, ConEntrada
    <3>2. x \in DeUbicacion(s[i].ubicacion)
      BY <3>1 DEF DeUbicacion
    <3> QED BY <1>12, <3>1, <3>2
  <2>2. \A x \in Abiertos' : \E l \in DOMAIN globalFileTable' :
          /\ globalFileTable'[l].ubicacion = AbiertoDe(x)'.globalFD
          /\ globalFileTable'[l].archivo = AbiertoDe(x)'.ruta
    BY <1>4, <1>5, <2>1
  <2> QED BY <2>2 DEF ConEntrada, AbiertoDe
<1>14. CerrandoConEntrada'
  <2>1. ASSUME NEW q \in Pid, En(q, "cerrar")'
        PROVE  \E l \in DOMAIN D : D[l].archivo = hilo'[q].ruta
    <3>1. q # p /\ hilo'[q] = hilo[q] /\ En(q, "cerrar")
      BY <2>1 DEF En
    <3>2. PICK i \in DOMAIN s : s[i].archivo = hilo[q].ruta
      BY <3>1 DEF Firme, CerrandoConEntrada
    <3>3. s[i].archivo = r => q \in Cerrando(r) \ {p}
      BY <3>1, <3>2 DEF Cerrando
    <3> QED BY <1>12, <3>1, <3>2, <3>3
  <2> QED BY <1>4, <2>1 DEF CerrandoConEntrada
<1> QED BY <1>2, <1>4, <1>11, <1>13, <1>14 DEF Firme

LEMMA ArDescontar ==
  ASSUME ArInv, kernel = "vivo", NEW p \in Pid, DescontarArchivo(p)
  PROVE  ArInv'
<1>1. /\ En(p, "cerrar") /\ kernel' \in {"vivo", "caido"}
      /\ globalFileTable' = Descontada(globalFileTable, hilo[p].ruta) /\ Contesta(p, TRUE)
      /\ UNCHANGED <<max_archivo_fd, enredado, mutex_fs, pedidos, consultas, respuestas, existen>>
  BY DEF DescontarArchivo, socket
<1>2. PICK b \in Intacto : processFileTable' =
        [processFileTable EXCEPT ![p].entrada = IF b THEN "intacta" ELSE "pisada"]
  BY DEF DescontarArchivo
<1> DEFINE s == [processFileTable[p] EXCEPT !.entrada = IF b THEN "intacta" ELSE "pisada"]
<1>3. s \in EntradaProceso /\ s.archivos = processFileTable[p].archivos
  BY ArTipos DEF EntradaProceso
<1>4. processFileTable' = [processFileTable EXCEPT ![p] = s]
  BY <1>2
<1> HIDE DEF s
<1>5. /\ processFileTable' \in [Pid -> EntradaProceso]
      /\ \A q \in Pid : processFileTable'[q].archivos = processFileTable[q].archivos
  BY <1>3, <1>4, ArTipos DEF TipoTablas
<1>6. MismosArchivos
  BY <1>5 DEF MismosArchivos
<1>7. Libre \in Hilo /\ Libre.pc = "libre"
  BY DEF Libre, Hilo, Operacion
<1>8. /\ hilo' \in [Pid -> Hilo] /\ hilo'[p] = Libre
      /\ \A q \in Pid : q # p => hilo'[q] = hilo[q]
  BY <1>1, <1>7, ArTipos DEF Contesta, Pasa
<1>9. ManosInv'
  BY <1>7, <1>8, ArTipos DEF ManosInv, En
<1>10. NumerosInv'
  <2>1. \A q \in Pid : En(q, "agregar")' => En(q, "agregar")
    BY <1>7, <1>8 DEF En
  <2> QED BY <1>1, <1>5, <2>1, ArTipos DEF NumerosInv
<1>11. TypeOK'
  <2>1. globalFileTable' \in Seq(Entrada)
    BY <1>1, ArTipos, DescontadaTipo DEF TipoTablas
  <2>2. TipoTablas'
    BY <1>1, <1>5, <2>1, ArTipos DEF TipoTablas
  <2>3. TipoResto'
    BY <1>1, ArTipos DEF TipoResto, Contesta
  <2>4. TypeOK' <=> TipoTablas' /\ hilo' \in [Pid -> Hilo] /\ TipoResto'
    BY DEF TypeOK, TipoTablas, TipoResto
  <2> QED BY <1>8, <2>2, <2>3, <2>4
<1>12. ~enredado' /\ kernel' = "vivo" => Firme'
  <2>1. SUFFICES ASSUME ~enredado' PROVE Firme'
    OBVIOUS
  <2>2. Firme
    BY <1>1, <2>1 DEF ArInv
  <2>3. ~En(p, "cerrar")'
    BY <1>7, <1>8 DEF En
  <2> QED BY <1>1, <1>6, <1>8, <2>2, <2>3, FirmeDescontar
<1> QED BY <1>9, <1>10, <1>11, <1>12 DEF ArInv

-----------------------------------------------------------------------------
\* One case per action of Next.
LEMMA ArPaso == ArInv /\ [Next]_vars => ArInv'
<1> SUFFICES ASSUME ArInv, [Next]_vars PROVE ArInv'
  OBVIOUS
<1>1. CASE UNCHANGED vars
  <2>1. UNCHANGED <<globalFileTable, processFileTable, max_archivo_fd, enredado, mutex_fs, hilo,
                    kernel, estado, pedidos, consultas, respuestas, existen>>
    BY <1>1 DEF vars, tablas, socket
  <2>2. TypeOK' /\ ManosInv' /\ NumerosInv'
    BY <2>1 DEF ArInv, TypeOK, ManosInv, NumerosInv, En
  <2>3. MismosArchivos /\ \A q \in Pid : En(q, "cerrar")' <=> En(q, "cerrar")
    BY <2>1 DEF MismosArchivos, En
  <2>4. ~enredado' /\ kernel' = "vivo" => Firme'
    BY <2>1, <2>3, FirmeQuieta DEF ArInv
  <2> QED BY <2>2, <2>4 DEF ArInv
<1>2. CASE Next
  <2>1. kernel = "vivo"
    BY <1>2 DEF Next
  <2>2. ASSUME NEW p \in Pid, Programa(p) PROVE ArInv'
    <3>1. ASSUME NEW fd, Escribir(p, fd) PROVE ArInv'
      BY <2>1, <3>1, ArTransferir DEF Escribir, Operacion
    <3>2. ASSUME NEW fd, LeerArchivo(p, fd) PROVE ArInv'
      BY <2>1, <3>2, ArTransferir DEF LeerArchivo, Operacion
    <3> QED BY <2>1, <2>2, <3>1, <3>2, ArAbrir, ArBorrar, ArCerrar, ArMover, ArImprimir, ArTerminar
            DEF Programa
  <2>3. ASSUME NEW p \in Pid, Avanza(p) PROVE ArInv'
    BY <2>1, <2>3, ArAgregar, ArDescontar, ArEnviar, ArRecibir DEF Avanza
  <2> QED BY <1>2, <2>1, <2>2, <2>3, ArCrear, ArAtender DEF Next
<1> QED BY <1>1, <1>2

\* The variables keep their types, and no entry of the global table stays when the
\* last descriptor of its file is closed, whatever happened before (eliminarFd).
THEOREM TiposDeLasTablas == Spec => []TypeOK
<1>1. ArInv => TypeOK
  BY DEF ArInv
<1> QED BY ArInicio, ArPaso, <1>1, PTL DEF Spec

\* vecesAbierto counts every descriptor of the file, and the closes under way, through
\* any interleaving of agregarArchivo_aProceso and eliminarFd that does not mix entries.
THEOREM CuentasExactas == Spec => []CuentaExacta
<1>1. ArInv => CuentaExacta
  <2> SUFFICES ASSUME ArInv, ~enredado, kernel = "vivo", NEW e \in Entradas
               PROVE  CuentaBien(e)
    BY DEF CuentaExacta, CuentaBien, DeUbicacion, Cerrando
  <2> QED BY DEF ArInv, Firme, Cuentas, Entradas
<1> QED BY ArInicio, ArPaso, <1>1, PTL DEF Spec

\* A descriptor leads to the file it was opened with for as long as it is open
\* (buscarPathDeArchivo).
THEOREM DescriptoresFirmes == Spec => []DescriptorFirme
<1>1. ArInv => DescriptorFirme
  <2> SUFFICES ASSUME ArInv, ~enredado, kernel = "vivo", NEW x \in Abiertos
               PROVE  {e.archivo : e \in BuscarPorUbicacion(AbiertoDe(x).globalFD)}
                      = {AbiertoDe(x).ruta}
    BY DEF DescriptorFirme
  <2> DEFINE g == AbiertoDe(x).globalFD
  <2>1. Firme
    BY DEF ArInv
  <2>2. PICK i \in DOMAIN globalFileTable :
          globalFileTable[i].ubicacion = g /\ globalFileTable[i].archivo = AbiertoDe(x).ruta
    BY <2>1 DEF Firme, ConEntrada
  <2> HIDE DEF g
  <2>3. /\ \A e \in BuscarPorUbicacion(g) :
             \E k \in DOMAIN globalFileTable : e = globalFileTable[k] /\ e.ubicacion = g
        /\ BuscarPorUbicacion(g) # {}
    BY <2>2, ArTipos, PrimeraUbicacion DEF TipoTablas
  <2>4. \A e \in BuscarPorUbicacion(g) : e.archivo = AbiertoDe(x).ruta
    BY <2>1, <2>2, <2>3 DEF Firme, Distintas
  <2> QED BY <2>3, <2>4 DEF g
<1> QED BY ArInicio, ArPaso, <1>1, PTL DEF Spec
=============================================================================
