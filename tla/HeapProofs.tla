------------------------------ MODULE HeapProofs ------------------------------
(***************************************************************************)
(* Theorems about Heap, for any programs, requests, sizes and pages, with  *)
(* one handler: two at once read each other's answers (solicitudBytes).    *)
(***************************************************************************)
EXTENDS Heap, Extremos

\* The blocks that start at S cover the page g one after the other.
Cubre(g, S) ==
  /\ S \subseteq 0..(Pag - Meta) /\ 0 \in S
  /\ \A o \in S : Fin(g, o) = Pag \/ Fin(g, o) \in S
  /\ \A o, x \in S : o < x => Fin(g, o) <= x

\* The last one is free, and two free ones are not side by side.
Compacta(g, S) ==
  \A o \in S : /\ Fin(g, o) = Pag => ~Usado(g, o)
               /\ Fin(g, o) # Pag => Usado(g, o) \/ Usado(g, Fin(g, o))

Usados(g, S)  == {o \in S : Usado(g, o)}
Datos(g, o)   == (o + Meta)..(Fin(g, o) - 1)
Sueltas(g, S) == UNION {Datos(g, o) : o \in S \ Usados(g, S)}

\* A page of the heap with n used blocks and t free cells.
HojaBien(g, n, t) ==
  LET S == Inicios(g) IN
  /\ g \in [Celda -> Nat]
  /\ Cubre(g, S) /\ Compacta(g, S)
  /\ n = Cardinality(Usados(g, S)) /\ t = Cardinality(Sueltas(g, S))

\* The used blocks of the page number n, as the program knows them.
Region(n, g, o) == [desde |-> n * Pag + o + Meta, cant |-> Tam(g, o)]
EnPagina(n, g)  == {Region(n, g, o) : o \in Usados(g, Inicios(g))}

-----------------------------------------------------------------------------
(* The heap of one program: O are its reservas, G its pages.               *)

DirsDe(Ob, p)    == {a \in DOMAIN Ob : Ob[a].pid = p}
ReservaDe(Ob, p) == [a \in DirsDe(Ob, p) |-> Ob[a]]
PaginasDe(C, p)  == [n \in {pg[2] : pg \in {x \in DOMAIN C : x[1] = p}} |-> C[<<p, n>>]]

Dirs(p) == DirsDe(objeto, p)
O(p)    == ReservaDe(objeto, p)
G(p)    == PaginasDe(contenido, p)

Reserva == {"buscar", "espacio", "grabada", "nueva", "asignada", "cabecera", "segunda"}
EnMano  == {"tomar", "hoja", "grabada", "segunda"}

\* The reservas whose page has its headers.
Hechas(R, e, r) == {a \in DOMAIN R : e = "cabecera" => R[a].pag # r.pag}
Bloques(R, F, A) == UNION {EnPagina(R[a].pag, F[R[a].pag]) : a \in A}

Mapa(R, F, c) ==
  /\ \A a, b \in DOMAIN R : R[a].pag = R[b].pag => a = b
  /\ \A a \in DOMAIN R : R[a].pag \in Nat /\ Base <= R[a].pag /\ R[a].pag < Base + c
  /\ \A m \in DOMAIN F : m \in Nat /\ m < Base + c

Llena(F, v) == v.pag \in DOMAIN F /\ HojaBien(F[v.pag], v.cant, v.size)

\* Where the handler is with the request of the program.
Pagina(r) == r.pos \div Pag
Inicio(r) == (r.pos % Pag) - Meta

Reservando(R, F, n, e, r) ==
  /\ e \in Reserva => r.cant \in Cant /\ r.cant <= Pag - 2 * Meta
  /\ e = "espacio" => r.dir \in DOMAIN R /\ R[r.dir].size >= r.cant + Meta
  /\ e \in {"grabada", "segunda"} =>
       [desde |-> r.pos, cant |-> r.cant] \in Bloques(R, F, DOMAIN R)
  /\ e = "asignada" => \A a \in DOMAIN R : R[a].pag < Base + n
  /\ e \in {"cabecera", "segunda"} => r.pag = Base + n
  /\ e = "cabecera" =>
       /\ r.pos = r.pag * Pag + Meta
       /\ \E a \in DOMAIN R : R[a].pag = r.pag /\ R[a].cant = 1 /\ R[a].size = Pag - 2 * Meta - r.cant
       /\ r.pag \in DOMAIN F => F[r.pag][0] = 1 /\ F[r.pag][1] = r.cant

Liberando(R, F, e, r) ==
  /\ e \in {"tomar", "hoja"} =>
       /\ r.pos % Pag >= Meta
       /\ \E a \in DOMAIN R : R[a].pag = Pagina(r)
       /\ Usado(F[Pagina(r)], Inicio(r)) => Inicio(r) \in Inicios(F[Pagina(r)])
  /\ e = "hoja" => r.dir \in DOMAIN R /\ R[r.dir].pag = Pagina(r)
  /\ e = "vacia" => \A a \in DOMAIN R : R[a].pag # r.pag
  /\ e = "asignar" => Pagina(r) \in DOMAIN F /\ AsignacionOk(F[Pagina(r)], r.pos % Pag, 1)

Tipos(R, F) ==
  /\ \A a \in DOMAIN R : R[a].size \in 0..Pag /\ R[a].cant \in Nat
  /\ \A m \in DOMAIN F : F[m] \in [Celda -> Nat]

\* n is the kernel's count of pages, k the requests, P what the program holds, V what
\* it has freed.
Sano(R, F, n, k, P, V, e, r) ==
  /\ Mapa(R, F, IF e \in {"asignada", "cabecera", "segunda"} THEN n + 1 ELSE n)
  /\ (IF e \in Reserva THEN n + 1 ELSE n) <= k
  /\ \A a \in Hechas(R, e, r) : Llena(F, R[a])
  /\ P = {x \in Bloques(R, F, Hechas(R, e, r)) : e \in EnMano => x.desde # r.pos}
  /\ \A v \in V : v \in Nat /\ v % Pag >= Meta
  /\ Reservando(R, F, n, e, r)
  /\ Liberando(R, F, e, r)
  /\ r.pos \in Nat

-----------------------------------------------------------------------------
(* The inductive invariant, with h the only thread.                        *)

Firme(h, p) == Sana(p) /\ ~(hilo[h].pid = p /\ hilo[h].pc = "terminar")
En_(h, p)   == IF hilo[h].pid = p THEN hilo[h].pc ELSE "libre"
Con(h, p)   == IF hilo[h].pid = p THEN hilo[h] ELSE Libre

UnaReserva(x) ==
  /\ x.pid \in Pid /\ x.pag \in Nat /\ x.pag >= Base
  /\ x = [pid |-> x.pid, pag |-> x.pag, size |-> x.size, cant |-> x.cant]

\* The list L has the addresses of Ob, each one once.
ListaBien(L, Ob) ==
  /\ L \in Seq(Nat \ {0})
  /\ \A i, j \in DOMAIN L : L[i] = L[j] => i = j
  /\ DOMAIN Ob = {L[i] : i \in DOMAIN L}
  /\ Ob = [a \in DOMAIN Ob |-> Ob[a]]
  /\ \A a \in DOMAIN Ob : UnaReserva(Ob[a])
ListaInv == ListaBien(mem_dinamica, objeto)

Paginado(C) == DOMAIN C \subseteq Pid \X Nat /\ C = [pg \in DOMAIN C |-> C[pg]]

ProgInv ==
  /\ Paginado(contenido)
  /\ cantPagReservar \in [Pid -> Nat]
  /\ pedidos \in [Pid -> Nat] /\ \A p \in Pid : pedidos[p] <= MaxPedidos[p]
  /\ estado \in [Pid -> {"corre", "fallo", "sale", "fin"}]
  /\ punteros = [p \in Pid |-> punteros[p]]
  /\ viejos = [p \in Pid |-> viejos[p]]

Lee     == {"espacio", "hoja", "verificar"}
Recoge  == {"grabada", "asignada", "cabecera", "segunda", "devuelta", "liberada"}
Andando == {"negada", "buscar", "nueva", "tomar", "nunca", "vacia", "asignar", "terminar"}

\* What memory answers to a read of the page n of p.
Lectura(h, p, n) ==
  IF <<p, n>> \in DOMAIN contenido THEN [de |-> h, tipo |-> "bytes", hoja |-> contenido[<<p, n>>]]
  ELSE Respuesta(h, FALSE)
PaginaLeida(r) == IF r.pc = "espacio" THEN objeto[r.dir].pag ELSE Pagina(r)

Buzon(h) ==
  LET r == hilo[h] IN
  IF r.pc \in Lee THEN respuestas = <<Lectura(h, r.pid, PaginaLeida(r))>>
  ELSE IF r.pc \in Recoge
  THEN \E b \in BOOLEAN : /\ respuestas = <<Respuesta(h, b)>>
                          /\ r.pc = "cabecera" => (b <=> <<r.pid, r.pag>> \in DOMAIN contenido)
  ELSE respuestas = << >>

UnHilo(r) ==
  r = [pc |-> r.pc, pid |-> r.pid, cant |-> r.cant, dir |-> r.dir, ind |-> r.ind,
       pag |-> r.pag, pos |-> r.pos]

HiloInv(h) ==
  LET r == hilo[h] IN
  /\ hilo = [x \in {h} |-> r] /\ UnHilo(r)
  /\ r.pc \in Lee \cup Recoge \cup Andando \cup {"libre"}
  /\ IF r.pc = "libre" THEN r = Libre ELSE r.pid \in Pid
  /\ r.pc = "terminar" => r.pos = 0
  /\ r.pc = "espacio" => r.dir \in Dirs(r.pid)
  /\ r.pc \in {"tomar", "hoja"} => r.ind \in ReservasDe(r.pid)
  /\ r.pc = "tomar" => objeto[mem_dinamica[r.ind]].pag = Pagina(r)
  /\ r.pc = "hoja" => r.dir = mem_dinamica[r.ind]
  /\ kernel \in {"vivo", "caido"} /\ (kernel = "vivo" => Buzon(h))
  /\ mutex_memoria_fd \in {h, Nadie}

UnSano(h, p) ==
  /\ Sana(p) => Tipos(O(p), G(p))
  /\ Firme(h, p) => Sano(O(p), G(p), cantPagReservar[p], pedidos[p], punteros[p], viejos[p],
                         En_(h, p), Con(h, p))

HeapInv(h) == ListaInv /\ ProgInv /\ HiloInv(h) /\ \A p \in Pid : UnSano(h, p)

-----------------------------------------------------------------------------
(* The blocks of a page.                                                   *)

\* What Inicios computes at each place.
Camina(g, f) ==
  f = [o \in 0..Pag |->
         IF o > Pag - Meta THEN {}
         ELSE {o} \cup (IF Fin(g, o) <= Pag THEN f[Fin(g, o)] ELSE {})]

\* There is such a walk on a page that is covered: from each start, the starts
\* that follow.
LEMMA HayCamino ==
  ASSUME NEW g \in [Celda -> Nat]
  PROVE  \E f : Camina(g, f)
<1> DEFINE Cerrado(C) == /\ C \subseteq 0..(Pag - Meta)
                         /\ \A x \in C : Fin(g, x) <= Pag - Meta => Fin(g, x) \in C
           Todos == {C \in SUBSET (0..(Pag - Meta)) : Cerrado(C)}
           f == [o \in 0..Pag |-> {x \in 0..(Pag - Meta) :
                    o <= Pag - Meta /\ \A C \in Todos : o \in C => x \in C}]
<1>1. Pag \in Nat /\ Meta = 2
  BY HeapAssumption DEF Meta
<1>2. \A x \in 0..(Pag - Meta) : Fin(g, x) \in Nat /\ Fin(g, x) > x
  BY <1>1 DEF Fin, Tam, Celda
<1>3. 0..(Pag - Meta) \in Todos
  BY <1>1, <1>2
<1>4. ASSUME NEW o \in 0..Pag
      PROVE  f[o] = IF o > Pag - Meta THEN {}
                    ELSE {o} \cup (IF Fin(g, o) <= Pag THEN f[Fin(g, o)] ELSE {})
  <2>1. CASE o > Pag - Meta
    BY <1>1, <2>1
  <2>2. CASE o <= Pag - Meta
    <3>1. o \in 0..(Pag - Meta)
      BY <1>1, <2>2
    <3>2. o \in f[o]
      BY <1>1, <3>1
    <3>3. CASE ~ Fin(g, o) <= Pag - Meta
      <4>1. {o} \in Todos
        BY <1>1, <3>1, <3>3
      <4>2. f[o] = {o}
        BY <1>1, <3>1, <3>2, <4>1
      <4>3. Fin(g, o) <= Pag => f[Fin(g, o)] = {}
        <5>1. Fin(g, o) <= Pag => Fin(g, o) \in 0..Pag /\ ~ Fin(g, o) <= Pag - Meta
          BY <1>1, <1>2, <3>1, <3>3
        <5> QED BY <1>1, <5>1
      <4>4. ~ o > Pag - Meta
        BY <1>1, <2>2
      <4> HIDE DEF f
      <4> QED BY <4>2, <4>3, <4>4
    <3>4. CASE Fin(g, o) <= Pag - Meta
      <4> DEFINE b == Fin(g, o)
      <4>1. b \in 0..(Pag - Meta) /\ b \in 0..Pag
        BY <1>1, <1>2, <3>1, <3>4
      <4>2. ASSUME NEW x \in f[b] PROVE x \in f[o]
        <5>1. \A C \in Todos : o \in C => b \in C
          BY <3>4
        <5> QED BY <1>1, <2>2, <3>1, <4>1, <5>1, <4>2
      <4>3. ASSUME NEW x \in f[o] PROVE x \in {o} \cup f[b]
        <5>1. {o} \cup f[b] \in Todos
          <6>1. f[b] \subseteq 0..(Pag - Meta)
            BY <4>1
          <6>2. ASSUME NEW y \in f[b], Fin(g, y) <= Pag - Meta PROVE Fin(g, y) \in f[b]
            <7>1. y \in 0..(Pag - Meta) /\ \A C \in Todos : b \in C => y \in C
              BY <4>1, <6>2
            <7>2. \A C \in Todos : b \in C => Fin(g, y) \in C
              BY <6>2, <7>1
            <7>3. Fin(g, y) \in 0..(Pag - Meta)
              BY <1>1, <1>2, <6>2, <7>1
            <7> QED BY <4>1, <7>2, <7>3
          <6>3. b \in f[b]
            BY <1>1, <4>1
          <6> QED BY <3>1, <6>1, <6>2, <6>3
        <5>2. \A C \in Todos : o \in C => x \in C
          BY <3>1, <4>3
        <5> QED BY <5>1, <5>2
      <4>4. b <= Pag /\ ~ o > Pag - Meta
        BY <1>1, <2>2, <4>1
      <4> HIDE DEF f
      <4>5. f[o] = {o} \cup f[b]
        BY <3>2, <4>2, <4>3
      <4>6. b = Fin(g, o)
        OBVIOUS
      <4> HIDE DEF b
      <4> QED BY <4>4, <4>5, <4>6
    <3> QED BY <3>3, <3>4
  <2>3. o > Pag - Meta \/ o <= Pag - Meta
    BY <1>1
  <2> HIDE DEF f
  <2> QED BY <2>1, <2>2, <2>3
<1>5. Camina(g, f)
  BY <1>4 DEF Camina
<1> QED BY <1>5

\* It goes through the starts of a page that is covered.
LEMMA CaminoCubre ==
  ASSUME NEW g \in [Celda -> Nat], NEW S, Cubre(g, S), NEW f, Camina(g, f)
  PROVE  f[0] = S
<1>1. Pag \in Nat /\ Meta = 2
  BY HeapAssumption DEF Meta
<1>2. S \subseteq 0..(Pag - Meta) /\ 0 \in S /\ (\A o \in S : Fin(g, o) = Pag \/ Fin(g, o) \in S)
      /\ \A o, x \in S : o < x => Fin(g, o) <= x
  BY DEF Cubre
<1>3. \A x \in 0..(Pag - Meta) : Fin(g, x) \in Nat /\ Fin(g, x) > x
  BY <1>1 DEF Fin, Tam, Celda
<1> DEFINE Malos == {n \in Nat : \E o \in S : n = Pag - o /\ f[o] # {x \in S : x >= o}}
<1>4. ASSUME Malos # {} PROVE FALSE
  <2>1. PICK n \in Malos : \A m \in Malos : n <= m
    <3>1. Malos \subseteq Nat
      OBVIOUS
    <3> QED BY <1>4, <3>1, HayPrimero
  <2>2. PICK o \in S : n = Pag - o /\ f[o] # {x \in S : x >= o}
    BY <2>1
  <2>3. o \in 0..Pag /\ ~ o > Pag - Meta /\ Fin(g, o) <= Pag /\ Fin(g, o) > o /\ Fin(g, o) \in Nat
    BY <1>1, <1>2, <1>3
  <2>4. f[o] = {o} \cup f[Fin(g, o)]
    BY <2>3 DEF Camina
  <2>5. CASE Fin(g, o) = Pag
    <3>1. f[Pag] = {}
      BY <1>1 DEF Camina
    <3>2. \A x \in S : x >= o <=> x = o
      BY <1>1, <1>2, <2>3, <2>5
    <3> QED BY <2>2, <2>4, <2>5, <3>1, <3>2
  <2>6. CASE Fin(g, o) \in S
    <3> DEFINE b == Fin(g, o)
    <3>1. Pag - b \in Nat /\ Pag - b < n
      BY <1>1, <2>2, <2>3
    <3>2. f[b] = {x \in S : x >= b}
      BY <2>1, <2>6, <3>1
    <3>3. \A x \in S : x >= o <=> (x = o \/ x >= b)
      <4>1. \A x \in S : x \in Nat
        BY <1>1, <1>2
      <4>2. o \in Nat /\ b \in Nat /\ o < b
        BY <1>1, <2>3
      <4>3. (\A x \in S : o < x => b <= x) /\ b \in S
        BY <1>2, <2>6
      <4> HIDE DEF b
      <4> QED BY <4>1, <4>2, <4>3
    <3>4. b = Fin(g, o)
      OBVIOUS
    <3> HIDE DEF b
    <3>5. {x \in S : x >= o} = {o} \cup {x \in S : x >= b}
      BY <3>3
    <3> QED BY <2>2, <2>4, <3>2, <3>4, <3>5
  <2> QED BY <1>2, <2>5, <2>6
<1>5. f[0] = {x \in S : x >= 0}
  <2>1. Pag \in Nat /\ Pag \notin Malos /\ Pag = Pag - 0
    BY <1>1, <1>4
  <2>2. ~ \E o \in S : Pag = Pag - o /\ f[o] # {x \in S : x >= o}
    BY <2>1
  <2>3. ~ (Pag = Pag - 0 /\ f[0] # {x \in S : x >= 0})
    BY <1>2, <2>2, Zenon
  <2>4. Pag = Pag - 0
    BY <2>1
  <2> QED BY <2>3, <2>4, Zenon
<1>6. \A x \in S : x >= 0
  BY <1>1, <1>2
<1>7. {x \in S : x >= 0} = S
  BY <1>6
<1> QED BY <1>5, <1>7

LEMMA IniciosSon ==
  ASSUME NEW g \in [Celda -> Nat], NEW S, Cubre(g, S)
  PROVE  Inicios(g) = S
<1> DEFINE desde == CHOOSE f : Camina(g, f)
<1>1. Camina(g, desde)
  BY HayCamino
<1>2. Inicios(g) = desde[0]
  BY DEF Inicios, Camina
<1> QED BY <1>1, <1>2, CaminoCubre

LEMMA Enteros == Pag \in Nat /\ Meta = 2
BY HeapAssumption DEF Meta

LEMMA PrimeroDe ==
  ASSUME NEW S, S \subseteq Nat, S # {}
  PROVE  Primero(S) \in S /\ \A y \in S : Primero(S) <= y
BY HayPrimero DEF Primero

LEMMA UltimoDe ==
  ASSUME NEW S, S \subseteq Int, S # {}, IsFiniteSet(S)
  PROVE  Ultimo(S) \in S /\ \A y \in S : Ultimo(S) >= y
BY HayUltimo DEF Ultimo

\* A block has its header and its data in the page.
LEMMA Bloque ==
  ASSUME NEW g \in [Celda -> Nat], NEW S, Cubre(g, S), NEW o \in S
  PROVE  /\ o \in Nat /\ o \in Celda /\ o + 1 \in Celda /\ o <= Pag - 2
         /\ Tam(g, o) \in Nat /\ Fin(g, o) \in Nat /\ Fin(g, o) = o + 2 + Tam(g, o)
         /\ Fin(g, o) <= Pag /\ (Fin(g, o) # Pag => Fin(g, o) \in S)
<1>1. o \in 0..(Pag - Meta) /\ (Fin(g, o) = Pag \/ Fin(g, o) \in S) /\ S \subseteq 0..(Pag - Meta)
  BY DEF Cubre
<1>2. o \in Nat /\ o \in Celda /\ o + 1 \in Celda /\ o <= Pag - 2
  BY <1>1, Enteros DEF Celda
<1>3. Tam(g, o) \in Nat
  BY <1>2 DEF Tam
<1>4. Fin(g, o) = o + 2 + Tam(g, o) /\ Fin(g, o) \in Nat
  BY <1>2, <1>3, Enteros DEF Fin
<1>5. Fin(g, o) <= Pag
  BY <1>1, <1>4, Enteros
<1> QED BY <1>1, <1>2, <1>3, <1>4, <1>5

LEMMA Aparte ==
  ASSUME NEW S, NEW g, Cubre(g, S), NEW o \in S, NEW x \in S, o < x
  PROVE  Fin(g, o) <= x
BY DEF Cubre

\* Every cell is in a block.
LEMMA CubreTodo ==
  ASSUME NEW g \in [Celda -> Nat], NEW S, Cubre(g, S), NEW c \in Celda
  PROVE  \E o \in S : o <= c /\ c < Fin(g, o)
<1> DEFINE A == {o \in S : o <= c}
<1>1. S \subseteq Nat /\ 0 \in S /\ c \in Nat /\ c < Pag
  <2>1. S \subseteq Nat
    BY Bloque
  <2>2. c \in Nat /\ c < Pag
    BY Enteros DEF Celda
  <2> QED BY <2>1, <2>2 DEF Cubre
<1>2. A \subseteq Nat /\ 0 \in A /\ \A o \in A : o <= c
  <2>1. 0 <= c
    BY <1>1
  <2> QED BY <1>1, <2>1
<1>3. IsFiniteSet(A)
  BY <1>1, <1>2, FS_BoundedSetOfNaturals
<1>4. PICK o \in A : \A x \in A : o >= x
  <2> HIDE DEF A
  <2>1. A \subseteq Int /\ A # {}
    BY <1>2
  <2> QED BY <1>3, <2>1, HayUltimo
<1>5. o \in S /\ o <= c
  BY <1>4
<1>6. Fin(g, o) \in Nat /\ Fin(g, o) > o /\ (Fin(g, o) # Pag => Fin(g, o) \in S)
  BY <1>5, Bloque
<1>7. c < Fin(g, o)
  <2>1. CASE Fin(g, o) = Pag
    BY <2>1, <1>1
  <2>2. CASE Fin(g, o) \in S /\ Fin(g, o) <= c
    <3>1. Fin(g, o) \in A
      BY <2>2
    <3> QED BY <1>1, <1>4, <1>5, <1>6, <3>1
  <2> QED BY <1>1, <1>6, <2>1, <2>2
<1> QED BY <1>5, <1>7

\* Before a block there is one that ends where it starts.
LEMMA HayAnterior ==
  ASSUME NEW g \in [Celda -> Nat], NEW S, Cubre(g, S), NEW o \in S, o # 0
  PROVE  \E x \in S : x < o /\ Fin(g, x) = o
<1>1. o - 1 \in Celda /\ o \in Nat
  <2>1. o \in Nat /\ o <= Pag - 2
    BY Bloque
  <2> QED BY <2>1, Enteros DEF Celda
<1>2. PICK x \in S : x <= o - 1 /\ o - 1 < Fin(g, x)
  BY <1>1, CubreTodo
<1>3. x \in Nat /\ Fin(g, x) \in Nat
  BY Bloque
<1>4. x < o
  BY <1>1, <1>2, <1>3
<1>5. Fin(g, x) <= o
  BY <1>4, Aparte
<1> QED BY <1>1, <1>2, <1>3, <1>4, <1>5

LEMMA Anterior ==
  ASSUME NEW g \in [Celda -> Nat], Cubre(g, Inicios(g)), NEW o \in Inicios(g), o # 0
  PROVE  /\ PosAnterior(g, o) \in Inicios(g) /\ PosAnterior(g, o) < o
         /\ Fin(g, PosAnterior(g, o)) = o
<1> DEFINE S == Inicios(g)
           A == {x \in S : x < o}
<1>1. S \subseteq Nat /\ o \in Nat
  BY Bloque
<1>2. PICK x \in S : x < o /\ Fin(g, x) = o
  BY HayAnterior
<1>3. A # {} /\ A \subseteq Nat /\ \A y \in A : y <= o
  BY <1>1, <1>2
<1>4. IsFiniteSet(A)
  BY <1>1, <1>3, FS_BoundedSetOfNaturals
<1>5. PosAnterior(g, o) = Ultimo(A)
  BY DEF PosAnterior
<1> DEFINE u == Ultimo(A)
<1>6. u \in A /\ \A y \in A : u >= y
  <2> HIDE DEF A
  <2>1. A \subseteq Int /\ A # {}
    BY <1>3
  <2> QED BY <1>4, <2>1, UltimoDe
<1>7. u \in S /\ u < o /\ u >= x /\ u \in Nat
  BY <1>1, <1>2, <1>6
<1>8. x \in Nat /\ u > x => Fin(g, x) <= u
  BY <1>2, <1>7, Aparte
<1>9. u = x
  <2>1. x \in Nat
    BY <1>1
  <2> HIDE DEF u
  <2> QED BY <1>1, <1>2, <1>7, <1>8, <2>1
<1> QED BY <1>2, <1>5, <1>9

-----------------------------------------------------------------------------
(* What the handlers do to a page.                                         *)

\* A page under way: U are its used blocks, of sizes T, and t its free cells; the
\* starts in X may be followed by a second free block.
CompactaSalvo(g, S, X) ==
  \A o \in S : /\ Fin(g, o) = Pag => ~Usado(g, o)
               /\ Fin(g, o) # Pag /\ o \notin X => Usado(g, o) \/ Usado(g, Fin(g, o))

Forma(g, S, X, U, T, t) ==
  /\ g \in [Celda -> Nat] /\ Cubre(g, S) /\ CompactaSalvo(g, S, X)
  /\ U = Usados(g, S) /\ \A u \in U : Tam(g, u) = T[u]
  /\ t = Cardinality(Sueltas(g, S))

MismaCabecera(g, h, o) == h[o] = g[o] /\ h[o + 1] = g[o + 1]

LEMMA CabeceraIgual ==
  ASSUME NEW g, NEW h, NEW o, MismaCabecera(g, h, o)
  PROVE  /\ Usado(h, o) = Usado(g, o) /\ Tam(h, o) = Tam(g, o) /\ Fin(h, o) = Fin(g, o)
         /\ Datos(h, o) = Datos(g, o)
BY DEF MismaCabecera, Usado, Tam, Fin, Datos

LEMMA SueltasFinitas ==
  ASSUME NEW g \in [Celda -> Nat], NEW S, Cubre(g, S)
  PROVE  /\ Sueltas(g, S) \subseteq Celda /\ IsFiniteSet(Sueltas(g, S))
         /\ Cardinality(Sueltas(g, S)) \in 0..Pag
         /\ IsFiniteSet(S) /\ IsFiniteSet(Usados(g, S)) /\ Cardinality(Usados(g, S)) \in Nat
<1>1. ASSUME NEW o \in S PROVE Datos(g, o) \subseteq Celda
  <2>1. o \in Nat /\ Fin(g, o) \in Nat /\ Fin(g, o) <= Pag
    BY Bloque
  <2> QED BY <2>1, Enteros DEF Datos, Celda
<1>2. Sueltas(g, S) \subseteq Celda
  BY <1>1 DEF Sueltas
<1>3. IsFiniteSet(Celda) /\ Cardinality(Celda) = Pag
  <2>1. IsFiniteSet(0..(Pag - 1)) /\ Cardinality(0..(Pag - 1)) = IF 0 > Pag - 1 THEN 0 ELSE Pag - 1 - 0 + 1
    BY Enteros, FS_Interval
  <2> QED BY <2>1, Enteros DEF Celda
<1>4. IsFiniteSet(Sueltas(g, S)) /\ Cardinality(Sueltas(g, S)) <= Pag
  BY <1>2, <1>3, FS_Subset
<1>5. Cardinality(Sueltas(g, S)) \in Nat
  BY <1>4, FS_CardinalityType
<1>6. S \subseteq Celda /\ Usados(g, S) \subseteq S
  BY Bloque DEF Usados
<1>7. IsFiniteSet(S) /\ IsFiniteSet(Usados(g, S))
  BY <1>3, <1>6, FS_Subset
<1> QED BY <1>2, <1>4, <1>5, <1>7, Enteros, FS_CardinalityType

\* The data of a block, and where they are.
LEMMA DatosSon ==
  ASSUME NEW g \in [Celda -> Nat], NEW S, Cubre(g, S), NEW o \in S
  PROVE  /\ Datos(g, o) = (o + 2)..(Fin(g, o) - 1) /\ IsFiniteSet(Datos(g, o))
         /\ Cardinality(Datos(g, o)) = Tam(g, o)
         /\ \A x \in S : x \notin Datos(g, o) /\ x + 1 \notin Datos(g, o)
         /\ \A x \in S : x # o => Datos(g, x) \cap Datos(g, o) = {}
         /\ \A x \in S : x # o => {o, o + 1} \cap Datos(g, x) = {}
         /\ \A x \in S : x # o => x # o + 1
<1>1. Datos(g, o) = (o + 2)..(Fin(g, o) - 1)
  BY Enteros DEF Datos
<1>2. o \in Nat /\ Fin(g, o) \in Nat /\ Fin(g, o) = o + 2 + Tam(g, o) /\ Tam(g, o) \in Nat
  BY Bloque
<1>3. IsFiniteSet((o + 2)..(Fin(g, o) - 1)) /\ Cardinality((o + 2)..(Fin(g, o) - 1)) = Tam(g, o)
  <2>1. o + 2 \in Int /\ Fin(g, o) - 1 \in Int
    BY <1>2
  <2>2. /\ IsFiniteSet((o + 2)..(Fin(g, o) - 1))
        /\ Cardinality((o + 2)..(Fin(g, o) - 1)) =
             IF o + 2 > Fin(g, o) - 1 THEN 0 ELSE Fin(g, o) - 1 - (o + 2) + 1
    BY <2>1, FS_Interval
  <2> QED BY <1>2, <2>2
<1>4. ASSUME NEW x \in S, x # o
      PROVE  /\ x \notin Datos(g, o) /\ x + 1 \notin Datos(g, o) /\ Datos(g, x) \cap Datos(g, o) = {}
             /\ {o, o + 1} \cap Datos(g, x) = {} /\ x # o + 1
  <2>1. /\ x \in Nat /\ Fin(g, x) \in Nat /\ Fin(g, x) = x + 2 + Tam(g, x) /\ Tam(g, x) \in Nat
    BY Bloque
  <2>2. Datos(g, x) = (x + 2)..(Fin(g, x) - 1)
    BY Enteros DEF Datos
  <2>3. (x < o => Fin(g, x) <= o) /\ (o < x => Fin(g, o) <= x)
    BY Aparte
  <2>4. x < o \/ o < x
    BY <1>2, <1>4, <2>1
  <2>5. CASE x < o
    BY <1>1, <1>2, <2>1, <2>2, <2>3, <2>5
  <2>6. CASE o < x
    BY <1>1, <1>2, <2>1, <2>2, <2>3, <2>6
  <2> QED BY <2>4, <2>5, <2>6
<1>5. o \notin Datos(g, o) /\ o + 1 \notin Datos(g, o)
  BY <1>1, <1>2
<1> QED BY <1>1, <1>3, <1>4, <1>5

\* The free data of a page do not meet the data of a block in use.
LEMMA SueltasAparte ==
  ASSUME NEW g \in [Celda -> Nat], NEW S, Cubre(g, S), NEW o \in S
  PROVE  /\ o \in Usados(g, S) => Sueltas(g, S) \cap Datos(g, o) = {}
         /\ o \notin Sueltas(g, S) /\ o + 1 \notin Sueltas(g, S)
         /\ o \notin Usados(g, S) => Datos(g, o) \subseteq Sueltas(g, S)
BY DatosSon DEF Sueltas, Usados

LEMMA CubreIgual ==
  ASSUME NEW g, NEW h, NEW S, Cubre(g, S), \A x \in S : Fin(h, x) = Fin(g, x)
  PROVE  Cubre(h, S)
BY DEF Cubre

\* Two sets that do not meet.
LEMMA CuentaJuntos ==
  ASSUME NEW A, NEW B, IsFiniteSet(A), IsFiniteSet(B), A \cap B = {}
  PROVE  Cardinality(A \cup B) = Cardinality(A) + Cardinality(B)
<1>1. Cardinality(A \cup B) = Cardinality(A) + Cardinality(B) - Cardinality(A \cap B)
  BY FS_Union
<1>2. Cardinality(A \cap B) = 0
  BY FS_EmptySet
<1>3. Cardinality(A) \in Nat /\ Cardinality(B) \in Nat
  BY FS_CardinalityType
<1> QED BY <1>1, <1>2, <1>3

\* Freeing a block: it may then stay before or after a free one.
LEMMA VaciarForma ==
  ASSUME NEW g, NEW S, NEW U, NEW T, NEW t, Forma(g, S, {}, U, T, t), NEW o \in U
  PROVE  /\ Forma(Vaciar(g, o), S, {x \in S : x = o \/ Fin(g, x) = o}, U \ {o}, T, t + Tam(g, o))
         /\ \A x \in S : Fin(Vaciar(g, o), x) = Fin(g, x)
<1> DEFINE h == Vaciar(g, o)
           X == {x \in S : x = o \/ Fin(g, x) = o}
<1>1. /\ g \in [Celda -> Nat] /\ Cubre(g, S) /\ o \in S /\ Usado(g, o) /\ U = Usados(g, S)
  BY DEF Forma, Usados
<1>2. h = [c \in Celda |-> IF c = o \/ c \in Datos(g, o) THEN 0 ELSE g[c]]
  <2>1. Datos(g, o) = (o + Meta)..(o + Meta + Tam(g, o) - 1)
    <3>1. Fin(g, o) = o + Meta + Tam(g, o) /\ o \in Nat /\ Tam(g, o) \in Nat
      BY <1>1, Bloque DEF Fin
    <3>2. Fin(g, o) - 1 = o + Meta + Tam(g, o) - 1
      BY <3>1, Enteros
    <3> QED BY <3>2, Zenon DEF Datos
  <2> QED BY <2>1, Zenon DEF Vaciar
<1>3. h \in [Celda -> Nat]
  BY <1>1, <1>2
<1>4. ASSUME NEW x \in S, x # o PROVE MismaCabecera(g, h, x)
  <2>1. x \in Celda /\ x + 1 \in Celda
    BY <1>1, Bloque
  <2>2. x \notin Datos(g, o) /\ x + 1 \notin Datos(g, o)
    BY <1>1, DatosSon
  <2>3. o # x + 1
    BY <1>1, <1>4, DatosSon
  <2> QED BY <1>2, <1>4, <2>1, <2>2, <2>3 DEF MismaCabecera
<1>5. h[o] = 0 /\ h[o + 1] = g[o + 1]
  <2>1. o \in Celda /\ o + 1 \in Celda /\ o + 1 # o /\ o + 1 \notin Datos(g, o)
    BY <1>1, Bloque, DatosSon
  <2> QED BY <1>2, <2>1
<1>6. ~Usado(h, o) /\ Tam(h, o) = Tam(g, o) /\ Fin(h, o) = Fin(g, o) /\ Datos(h, o) = Datos(g, o)
  BY <1>5 DEF Usado, Tam, Fin, Datos
<1>7. \A x \in S : Tam(h, x) = Tam(g, x) /\ Fin(h, x) = Fin(g, x) /\ Datos(h, x) = Datos(g, x)
  BY <1>4, <1>6, CabeceraIgual
<1>8. \A x \in S : Usado(h, x) <=> (Usado(g, x) /\ x # o)
  BY <1>4, <1>6, CabeceraIgual
<1>9. Cubre(h, S)
  BY <1>1, <1>7, CubreIgual
<1>10. Usados(h, S) = U \ {o}
  BY <1>1, <1>8 DEF Usados
<1>11. CompactaSalvo(h, S, X)
  <2>1. ASSUME NEW x \in S, Fin(h, x) = Pag PROVE ~Usado(h, x)
    BY <1>7, <1>8, <2>1 DEF Forma, CompactaSalvo
  <2>2. ASSUME NEW x \in S, Fin(h, x) # Pag, x \notin X PROVE Usado(h, x) \/ Usado(h, Fin(h, x))
    <3>1. Fin(g, x) \in S /\ Fin(g, x) # o /\ x # o
      BY <1>1, <1>7, <2>2, Bloque
    <3>2. Usado(g, x) \/ Usado(g, Fin(g, x))
      BY <1>7, <2>2 DEF Forma, CompactaSalvo
    <3> QED BY <1>7, <1>8, <3>1, <3>2
  <2> QED BY <2>1, <2>2 DEF CompactaSalvo
<1>12. Sueltas(h, S) = Sueltas(g, S) \cup Datos(g, o)
  BY <1>1, <1>7, <1>10 DEF Sueltas
<1>13. Cardinality(Sueltas(h, S)) = t + Tam(g, o)
  <2>1. Sueltas(g, S) \cap Datos(g, o) = {}
    BY <1>1, SueltasAparte
  <2>2. IsFiniteSet(Sueltas(g, S)) /\ IsFiniteSet(Datos(g, o)) /\ Cardinality(Datos(g, o)) = Tam(g, o)
    BY <1>1, SueltasFinitas, DatosSon
  <2>3. t = Cardinality(Sueltas(g, S))
    BY DEF Forma
  <2> QED BY <1>12, <2>1, <2>2, <2>3, CuentaJuntos
<1>14. \A u \in U \ {o} : Tam(h, u) = T[u]
  BY <1>1, <1>7 DEF Forma, Usados
<1> QED BY <1>3, <1>7, <1>9, <1>10, <1>11, <1>13, <1>14 DEF Forma

\* Merging a free block with the free one after it.
LEMMA UnirForma ==
  ASSUME NEW g, NEW S, NEW X, NEW Y, NEW U, NEW T, NEW t, Forma(g, S, X, U, T, t),
         NEW a \in S \ U, NEW b \in S \ U, b = Fin(g, a),
         X \ {a, b} \subseteq Y, b \in X => a \in Y
  PROVE  /\ Forma(Unir(g, a, b), S \ {b}, Y, U, T, t + Meta)
         /\ Fin(Unir(g, a, b), a) = Fin(g, b)
         /\ \A x \in S \ {a, b} : Usado(Unir(g, a, b), x) = Usado(g, x)
         /\ ~Usado(Unir(g, a, b), a)
<1> DEFINE h == Unir(g, a, b)
           Z == S \ {b}
<1>1. /\ g \in [Celda -> Nat] /\ Cubre(g, S) /\ ~Usado(g, a) /\ ~Usado(g, b) /\ U = Usados(g, S)
      /\ a \in S /\ b \in S
  BY DEF Forma, Usados
<1>2. /\ a \in Nat /\ a \in Celda /\ a + 1 \in Celda /\ Tam(g, a) \in Nat /\ b = a + 2 + Tam(g, a)
      /\ b \in Nat /\ b \in Celda /\ b + 1 \in Celda /\ Tam(g, b) \in Nat
      /\ Fin(g, b) = b + 2 + Tam(g, b) /\ Fin(g, b) \in Nat /\ b # a /\ a < b
  BY <1>1, Bloque
<1>3. h = [g EXCEPT ![a] = 0, ![a + 1] = 2 + Tam(g, a) + Tam(g, b)]
  <2>1. Meta = 2
    BY Enteros
  <2> QED BY <2>1 DEF Unir, Cabecera
<1>4. h \in [Celda -> Nat]
  <2>1. 2 + Tam(g, a) + Tam(g, b) \in Nat
    BY <1>2
  <2> HIDE DEF h
  <2> QED BY <1>1, <1>2, <1>3, <2>1
<1>5. h[a] = 0 /\ h[a + 1] = 2 + Tam(g, a) + Tam(g, b)
  <2>1. a # a + 1
    BY <1>2
  <2> HIDE DEF h
  <2> QED BY <1>1, <1>2, <1>3, <2>1
<1>6. ASSUME NEW x \in S, x # a PROVE MismaCabecera(g, h, x)
  <2>1. x # a + 1 /\ a # x + 1 /\ x + 1 # a + 1
    <3>1. x \in Nat
      BY <1>1, Bloque
    <3>2. x # a + 1 /\ a # x + 1
      BY <1>1, <1>6, DatosSon
    <3> QED BY <1>2, <1>6, <3>1, <3>2
  <2>2. x \in Celda /\ x + 1 \in Celda
    BY <1>1, Bloque
  <2> QED BY <1>1, <1>3, <1>6, <2>1, <2>2 DEF MismaCabecera
<1>7. ~Usado(h, a) /\ Tam(h, a) = 2 + Tam(g, a) + Tam(g, b) /\ Fin(h, a) = Fin(g, b)
  <2>1. ~Usado(h, a) /\ Tam(h, a) = 2 + Tam(g, a) + Tam(g, b)
    BY <1>5 DEF Usado, Tam
  <2>2. Fin(h, a) = a + 2 + Tam(h, a)
    BY Enteros DEF Fin
  <2> QED BY <1>2, <2>1, <2>2
<1>8. \A x \in S : x # a => /\ Usado(h, x) = Usado(g, x) /\ Tam(h, x) = Tam(g, x)
                           /\ Fin(h, x) = Fin(g, x) /\ Datos(h, x) = Datos(g, x)
  BY <1>6, CabeceraIgual
<1>9. ASSUME NEW x \in Z, x # a PROVE Fin(g, x) # b
  <2>1. x \in Nat /\ Fin(g, x) \in Nat /\ x < Fin(g, x)
    BY <1>1, Bloque
  <2>2. x < a => Fin(g, x) <= a
    BY <1>1, Aparte
  <2>3. a < x => b <= x
    BY <1>1, Aparte
  <2> QED BY <1>2, <1>9, <2>1, <2>2, <2>3
<1>10. Cubre(h, Z)
  <2>1. Z \subseteq 0..(Pag - Meta) /\ 0 \in Z
    <3>1. b # 0
      BY <1>2
    <3> QED BY <1>1, <3>1 DEF Cubre
  <2>2. ASSUME NEW x \in Z PROVE Fin(h, x) = Pag \/ Fin(h, x) \in Z
    <3>1. CASE x = a
      BY <1>1, <1>2, <1>7, <3>1, Bloque
    <3>2. CASE x # a
      BY <1>1, <1>8, <1>9, <3>2, Bloque
    <3> QED BY <3>1, <3>2
  <2>3. ASSUME NEW x \in Z, NEW y \in Z, x < y PROVE Fin(h, x) <= y
    <3>1. CASE x = a
      <4>1. b <= y
        BY <1>1, <2>3, <3>1, Aparte
      <4>2. y \in Nat /\ b < y
        BY <1>1, <1>2, <4>1, Bloque
      <4> QED BY <1>1, <1>7, <3>1, <4>2, Aparte
    <3>2. CASE x # a
      BY <1>1, <1>8, <2>3, <3>2, Aparte
    <3> QED BY <3>1, <3>2
  <2> QED BY <2>1, <2>2, <2>3 DEF Cubre
<1>11. Usados(h, Z) = U
  BY <1>1, <1>7, <1>8 DEF Usados
<1>12. CompactaSalvo(h, Z, Y)
  <2>1. ASSUME NEW x \in Z, Fin(h, x) = Pag PROVE ~Usado(h, x)
    BY <1>7, <1>8, <2>1 DEF Forma, CompactaSalvo
  <2>2. ASSUME NEW x \in Z, Fin(h, x) # Pag, x \notin Y PROVE Usado(h, x) \/ Usado(h, Fin(h, x))
    <3>1. CASE x = a
      <4>1. b \notin X /\ Fin(g, b) # Pag /\ Fin(g, b) \in S /\ Fin(g, b) # a
        BY <1>1, <1>2, <1>7, <2>2, <3>1, Bloque
      <4>2. Usado(g, Fin(g, b))
        BY <1>1, <4>1 DEF Forma, CompactaSalvo
      <4> QED BY <1>7, <1>8, <3>1, <4>1, <4>2
    <3>2. CASE x # a
      <4>1. Fin(g, x) \in S /\ x \notin X /\ Fin(g, x) # Pag
        BY <1>1, <1>8, <2>2, <3>2, Bloque
      <4>2. Usado(g, x) \/ Usado(g, Fin(g, x))
        BY <4>1 DEF Forma, CompactaSalvo
      <4>3. CASE Usado(g, x)
        BY <1>8, <3>2, <4>3
      <4>4. CASE Usado(g, Fin(g, x))
        <5>1. Fin(g, x) # a
          BY <1>1, <4>4
        <5> QED BY <1>8, <3>2, <4>1, <4>4, <5>1
      <4> QED BY <4>2, <4>3, <4>4
    <3> QED BY <3>1, <3>2
  <2> QED BY <2>1, <2>2 DEF CompactaSalvo
<1>13. Datos(h, a) = Datos(g, a) \cup {b, b + 1} \cup Datos(g, b)
  <2>1. Datos(h, a) = (a + 2)..(Fin(g, b) - 1) /\ Datos(g, a) = (a + 2)..(b - 1) /\ Datos(g, b) = (b + 2)..(Fin(g, b) - 1)
    BY <1>7, Enteros DEF Datos
  <2>2. PICK f \in Nat, s \in Nat, q \in Nat : f = Fin(g, b) /\ s = Tam(g, a) /\ q = Tam(g, b)
    BY <1>2
  <2>3. a \in Nat /\ b = a + 2 + s /\ f = b + 2 + q
    BY <1>2, <2>2
  <2>4. \A c : c \in (a + 2)..(f - 1) <=> c \in (a + 2)..(b - 1) \/ c \in {b, b + 1} \/ c \in (b + 2)..(f - 1)
    BY <2>2, <2>3
  <2> QED BY <2>1, <2>2, <2>4
<1>14. Sueltas(h, Z) = Sueltas(g, S) \cup {b, b + 1}
  <2>1. \A x \in S \ {a} : Datos(h, x) = Datos(g, x)
    BY <1>8
  <2>2. a \in Z \ U /\ b \in S \ U /\ a \in S \ U
    BY <1>1, <1>2
  <2>3. Sueltas(h, Z) = UNION {Datos(h, x) : x \in Z \ U}
    BY <1>11 DEF Sueltas
  <2>4. Sueltas(g, S) = UNION {Datos(g, x) : x \in S \ U}
    BY <1>1 DEF Sueltas
  <2>5. Sueltas(h, Z) \subseteq Sueltas(g, S) \cup {b, b + 1}
    <3>1. ASSUME NEW x \in Z \ U PROVE Datos(h, x) \subseteq Sueltas(g, S) \cup {b, b + 1}
      <4>1. CASE x = a
        BY <1>13, <2>2, <2>4, <4>1
      <4>2. CASE x # a
        BY <2>1, <2>4, <4>2
      <4> QED BY <4>1, <4>2
    <3> QED BY <2>3, <3>1
  <2>6. Sueltas(g, S) \cup {b, b + 1} \subseteq Sueltas(h, Z)
    <3>1. Datos(h, a) \subseteq Sueltas(h, Z)
      BY <2>2, <2>3
    <3>2. ASSUME NEW x \in S \ U PROVE Datos(g, x) \subseteq Sueltas(h, Z)
      <4>1. CASE x = a \/ x = b
        BY <1>13, <3>1, <4>1
      <4>2. CASE x # a /\ x # b
        BY <2>1, <2>3, <4>2
      <4> QED BY <4>1, <4>2
    <3>3. {b, b + 1} \subseteq Sueltas(h, Z)
      BY <1>13, <3>1
    <3>4. Sueltas(g, S) \subseteq Sueltas(h, Z)
      BY <2>4, <3>2
    <3> QED BY <3>3, <3>4
  <2> QED BY <2>5, <2>6
<1>15. Cardinality(Sueltas(h, Z)) = t + Meta
  <2>1. b \notin Sueltas(g, S) /\ b + 1 \notin Sueltas(g, S)
    BY <1>1, SueltasAparte
  <2>2. IsFiniteSet({b, b + 1}) /\ Cardinality({b, b + 1}) = 2
    <3>1. {b, b + 1} = {b} \cup {b + 1} /\ b + 1 \notin {b}
      BY <1>2
    <3>2. IsFiniteSet({b}) /\ Cardinality({b}) = 1
      BY FS_Singleton
    <3> QED BY <3>1, <3>2, FS_AddElement
  <2>3. IsFiniteSet(Sueltas(g, S)) /\ t = Cardinality(Sueltas(g, S))
    BY <1>1, SueltasFinitas DEF Forma
  <2>4. Sueltas(g, S) \cap {b, b + 1} = {}
    BY <2>1
  <2> QED BY <1>14, <2>2, <2>3, <2>4, CuentaJuntos, Enteros
<1>16. \A u \in U : Tam(h, u) = T[u]
  BY <1>1, <1>8 DEF Forma, Usados
<1> QED BY <1>4, <1>7, <1>8, <1>10, <1>11, <1>12, <1>15, <1>16 DEF Forma

LEMMA FormaDeHoja ==
  ASSUME NEW g, NEW n, NEW t, HojaBien(g, n, t)
  PROVE  /\ Forma(g, Inicios(g), {}, Usados(g, Inicios(g)), [u \in Inicios(g) |-> Tam(g, u)], t)
         /\ n = Cardinality(Usados(g, Inicios(g))) /\ n \in Nat /\ t \in 0..Pag
         /\ g \in [Celda -> Nat] /\ Cubre(g, Inicios(g))
<1> DEFINE S == Inicios(g)
<1>1. /\ g \in [Celda -> Nat] /\ Cubre(g, S) /\ Compacta(g, S)
      /\ n = Cardinality(Usados(g, S)) /\ t = Cardinality(Sueltas(g, S))
  BY DEF HojaBien
<1>2. n \in Nat /\ t \in 0..Pag
  BY <1>1, SueltasFinitas
<1>3. CompactaSalvo(g, S, {})
  BY <1>1 DEF Compacta, CompactaSalvo
<1>4. \A u \in Usados(g, S) : Tam(g, u) = [v \in S |-> Tam(g, v)][u]
  BY DEF Usados
<1> QED BY <1>1, <1>2, <1>3, <1>4 DEF Forma

LEMMA HojaDeForma ==
  ASSUME NEW g, NEW S, NEW U, NEW T, NEW t, Forma(g, S, {}, U, T, t)
  PROVE  /\ Inicios(g) = S /\ Usados(g, S) = U /\ HojaBien(g, Cardinality(U), t)
         /\ \A n : EnPagina(n, g) = {[desde |-> n * Pag + u + Meta, cant |-> T[u]] : u \in U}
<1>1. g \in [Celda -> Nat] /\ Cubre(g, S) /\ U = Usados(g, S) /\ t = Cardinality(Sueltas(g, S))
  BY DEF Forma
<1>2. Inicios(g) = S
  BY <1>1, IniciosSon
<1>3. Compacta(g, S)
  BY DEF Forma, Compacta, CompactaSalvo
<1>4. HojaBien(g, Cardinality(U), t)
  BY <1>1, <1>2, <1>3 DEF HojaBien
<1>5. ASSUME NEW n
      PROVE  EnPagina(n, g) = {[desde |-> n * Pag + u + Meta, cant |-> T[u]] : u \in U}
  <2>1. \A u \in U : Region(n, g, u) = [desde |-> n * Pag + u + Meta, cant |-> T[u]]
    BY DEF Region, Forma
  <2>2. EnPagina(n, g) = {Region(n, g, u) : u \in U}
    BY <1>1, <1>2 DEF EnPagina
  <2> QED BY <2>1, <2>2
<1> QED BY <1>1, <1>2, <1>4, <1>5

\* Only one block ends where another starts.
LEMMA UnaAntes ==
  ASSUME NEW g \in [Celda -> Nat], NEW S, Cubre(g, S), NEW x \in S, NEW y \in S, Fin(g, x) = Fin(g, y)
  PROVE  x = y
<1>1. x \in Nat /\ y \in Nat /\ x < Fin(g, x) /\ y < Fin(g, y) /\ Fin(g, x) \in Nat
  BY Bloque
<1>2. (x < y => Fin(g, x) <= y) /\ (y < x => Fin(g, y) <= x)
  BY Aparte
<1> QED BY <1>1, <1>2

\* The block that was just freed, with the free one before it.
LEMMA ConAnterior ==
  ASSUME NEW g, NEW S, NEW U, NEW T, NEW t, NEW o \in S \ U,
         Forma(g, S, {x \in S : x = o \/ Fin(g, x) = o}, U, T, t),
         NEW a, a = IF AnteriorLibre(g, o) THEN PosAnterior(g, o) ELSE o,
         NEW h, h = IF AnteriorLibre(g, o) THEN Unir(g, a, o) ELSE g
  PROVE  \E R \in SUBSET S :
           /\ Forma(h, R, {a}, U, T, IF AnteriorLibre(g, o) THEN t + Meta ELSE t)
           /\ a \in R \ U /\ Fin(h, a) = Fin(g, o)
<1>1. g \in [Celda -> Nat] /\ Cubre(g, S) /\ U = Usados(g, S)
  BY DEF Forma
<1>2. Inicios(g) = S
  BY <1>1, IniciosSon
<1>3. CASE AnteriorLibre(g, o)
  <2>1. a = PosAnterior(g, o) /\ h = Unir(g, a, o) /\ a # -1 /\ ~Usado(g, a) /\ o # 0
    BY <1>3 DEF AnteriorLibre, PosAnterior
  <2>2. a \in S /\ Fin(g, a) = o
    BY <1>1, <1>2, <2>1, Anterior
  <2>3. a \in S \ U
    BY <1>1, <2>1, <2>2 DEF Usados
  <2>4. {x \in S : x = o \/ Fin(g, x) = o} \ {a, o} \subseteq {a}
    BY <1>1, <2>2, UnaAntes
  <2>5. Forma(h, S \ {o}, {a}, U, T, t + Meta) /\ Fin(h, a) = Fin(g, o)
    BY <2>1, <2>2, <2>3, <2>4, UnirForma
  <2>6. a # o
    <3>1. a \in Nat /\ Fin(g, a) \in Nat /\ Fin(g, a) = a + 2 + Tam(g, a) /\ Tam(g, a) \in Nat
      BY <1>1, <2>2, Bloque
    <3> QED BY <2>2, <3>1
  <2> QED BY <1>3, <2>3, <2>5, <2>6
<1>4. CASE ~AnteriorLibre(g, o)
  <2>1. a = o /\ h = g
    BY <1>4
  <2>2. CompactaSalvo(g, S, {o})
    <3>1. ASSUME NEW x \in S, Fin(g, x) = o PROVE Usado(g, x)
      <4>1. x \in Nat /\ o \in Nat /\ x < o
        BY <1>1, <3>1, Bloque
      <4>2. o # 0
        BY <4>1
      <4>3. PosAnterior(g, o) \in S /\ Fin(g, PosAnterior(g, o)) = o
        BY <1>1, <1>2, <4>2, Anterior
      <4>4. PosAnterior(g, o) = x
        BY <1>1, <3>1, <4>3, UnaAntes
      <4>5. x # -1
        BY <4>1
      <4> QED BY <1>4, <4>4, <4>5 DEF AnteriorLibre
    <3> QED BY <3>1 DEF Forma, CompactaSalvo
  <2> QED BY <1>4, <2>1, <2>2 DEF Forma
<1> QED BY <1>3, <1>4

\* And with the free one after it.
LEMMA ConSiguiente ==
  ASSUME NEW g, NEW S, NEW U, NEW T, NEW t, NEW a \in S \ U, Forma(g, S, {a}, U, T, t),
         Fin(g, a) # Pag, NEW h, h = IF SiguienteLibre(g, a) THEN Unir(g, a, Fin(g, a)) ELSE g
  PROVE  \E R \in SUBSET S : Forma(h, R, {}, U, T, IF SiguienteLibre(g, a) THEN t + Meta ELSE t)
<1>1. g \in [Celda -> Nat] /\ Cubre(g, S) /\ U = Usados(g, S)
  BY DEF Forma
<1> DEFINE b == Fin(g, a)
<1>2. b \in S /\ b # a
  BY <1>1, Bloque
<1>3. CASE SiguienteLibre(g, a)
  <2>1. b \in S \ U
    BY <1>1, <1>2, <1>3 DEF SiguienteLibre, Usados
  <2>2. {a} \ {a, b} \subseteq {} /\ b \notin {a}
    BY <1>2
  <2>3. Forma(Unir(g, a, b), S \ {b}, {}, U, T, t + Meta)
    BY <2>1, <2>2, UnirForma
  <2> QED BY <1>3, <2>3
<1>4. CASE ~SiguienteLibre(g, a)
  <2>1. Usado(g, b)
    BY <1>4 DEF SiguienteLibre
  <2>2. CompactaSalvo(g, S, {})
    BY <2>1 DEF Forma, CompactaSalvo
  <2> QED BY <1>4, <2>2 DEF Forma
<1> QED BY <1>3, <1>4

\* liberarMemoria: the block leaves the used ones, and the page stays in order.
LEMMA LiberarBien ==
  ASSUME NEW g, NEW n, NEW t, HojaBien(g, n, t), NEW o \in Usados(g, Inicios(g)),
         NEW c, c = Compactar(Vaciar(g, o), o)
  PROVE  /\ HojaBien(c.hoja, n - 1, t + Tam(g, o) + Meta * c.veces)
         /\ \A k \in Nat : EnPagina(k, c.hoja) = EnPagina(k, g) \ {Region(k, g, o)}
<1> DEFINE S == Inicios(g)
           U == Usados(g, S)
           T == [u \in S |-> Tam(g, u)]
           v == Vaciar(g, o)
           W == U \ {o}
           s == t + Tam(g, o)
           ant == AnteriorLibre(v, o)
           a == IF ant THEN PosAnterior(v, o) ELSE o
           g1 == IF ant THEN Unir(v, a, o) ELSE v
           sig == SiguienteLibre(g1, a)
           h == IF sig THEN Unir(g1, a, Fin(g1, a)) ELSE g1
<1>1. /\ Forma(g, S, {}, U, T, t) /\ n = Cardinality(U) /\ n \in Nat /\ t \in 0..Pag
      /\ g \in [Celda -> Nat] /\ Cubre(g, S)
  BY FormaDeHoja
<1>2. o \in S /\ Usado(g, o) /\ U \subseteq S /\ o \in U
  BY DEF Usados
<1>3. Tam(g, o) \in Nat /\ s \in Nat /\ Fin(g, o) # Pag
  <2>1. Tam(g, o) \in Nat
    BY <1>1, <1>2, Bloque
  <2>2. s \in Nat
    BY <1>1, <2>1, Enteros
  <2>3. Fin(g, o) # Pag
    BY <1>1, <1>2 DEF Forma, CompactaSalvo
  <2> QED BY <2>1, <2>2, <2>3
<1>4. Forma(v, S, {x \in S : x = o \/ Fin(v, x) = o}, W, T, s) /\ Fin(v, o) = Fin(g, o)
  <2>1. /\ Forma(v, S, {x \in S : x = o \/ Fin(g, x) = o}, W, T, s)
        /\ \A x \in S : Fin(v, x) = Fin(g, x)
    BY <1>1, VaciarForma
  <2> HIDE DEF v
  <2> QED BY <1>2, <2>1
<1>5. PICK R \in SUBSET S : /\ Forma(g1, R, {a}, W, T, IF ant THEN s + Meta ELSE s)
                            /\ a \in R \ W /\ Fin(g1, a) = Fin(v, o)
  <2>1. o \in S \ W
    BY <1>2
  <2> HIDE DEF v, W, T, s
  <2> QED BY <1>4, <2>1, ConAnterior
<1> DEFINE s1 == IF ant THEN s + Meta ELSE s
           s2 == IF sig THEN s1 + Meta ELSE s1
<1>6. PICK Q \in SUBSET R : Forma(h, Q, {}, W, T, s2)
  <2>1. Fin(g1, a) # Pag /\ a \in R \ W /\ Forma(g1, R, {a}, W, T, s1)
    BY <1>3, <1>4, <1>5
  <2> HIDE DEF g1, a, W, T, s1
  <2> QED BY <2>1, ConSiguiente
<1>7. c.hoja = h /\ c.veces = Cardinality({x \in {1, 2} : (x = 1 /\ ant) \/ (x = 2 /\ sig)})
  BY DEF Compactar
<1>8. s2 = t + Tam(g, o) + Meta * c.veces
  <2>1. Cardinality({1, 2}) = 2 /\ Cardinality({1}) = 1 /\ Cardinality({2}) = 1 /\ Cardinality({}) = 0
    <3>1. {1, 2} = {1} \cup {2} /\ 2 \notin {1}
      OBVIOUS
    <3>2. \A x : IsFiniteSet({x}) /\ Cardinality({x}) = 1
      BY FS_Singleton
    <3>3. IsFiniteSet({1}) /\ Cardinality({1}) = 1 /\ Cardinality({2}) = 1
      BY <3>2
    <3>4. Cardinality({1} \cup {2}) = Cardinality({1}) + 1
      BY <3>1, <3>3, FS_AddElement
    <3>5. Cardinality({1, 2}) = 2
      BY <3>1, <3>3, <3>4
    <3>6. Cardinality({}) = 0
      BY FS_EmptySet
    <3> QED BY <3>3, <3>5, <3>6
  <2> DEFINE A == {x \in {1, 2} : (x = 1 /\ ant) \/ (x = 2 /\ sig)}
  <2>2. s = t + Tam(g, o) /\ Tam(g, o) \in Nat /\ t \in Nat
    BY <1>1, <1>3, Enteros
  <2> HIDE DEF ant, sig, s
  <2>3. CASE ant /\ sig
    <3>1. A = {1, 2}
      BY <2>3
    <3>2. c.veces = 2
      BY <1>7, <2>1, <3>1
    <3>3. s2 = s + 2 + 2
      BY <2>3, Enteros
    <3> QED BY <2>2, <3>2, <3>3, Enteros
  <2>4. CASE ant /\ ~sig
    <3>1. A = {1}
      BY <2>4
    <3>2. c.veces = 1
      BY <1>7, <2>1, <3>1
    <3>3. s2 = s + 2
      BY <2>4, Enteros
    <3> QED BY <2>2, <3>2, <3>3, Enteros
  <2>5. CASE ~ant /\ sig
    <3>1. A = {2}
      BY <2>5
    <3>2. c.veces = 1
      BY <1>7, <2>1, <3>1
    <3>3. s2 = s + 2
      BY <2>5, Enteros
    <3> QED BY <2>2, <3>2, <3>3, Enteros
  <2>6. CASE ~ant /\ ~sig
    <3>1. A = {}
      BY <2>6
    <3>2. c.veces = 0
      BY <1>7, <2>1, <3>1
    <3>3. s2 = s
      BY <2>6, Enteros
    <3> QED BY <2>2, <3>2, <3>3, Enteros
  <2> QED BY <2>3, <2>4, <2>5, <2>6
<1>9. Cardinality(W) = n - 1
  <2>1. IsFiniteSet(U)
    BY <1>1, SueltasFinitas
  <2> HIDE DEF U
  <2> QED BY <1>1, <1>2, <2>1, FS_RemoveElement
<1>10. HojaBien(c.hoja, n - 1, t + Tam(g, o) + Meta * c.veces)
  <2>1. HojaBien(h, Cardinality(W), s2)
    <3> HIDE DEF h, W, T, s2
    <3> QED BY <1>6, HojaDeForma
  <2> HIDE DEF h, W, s2
  <2> QED BY <1>7, <1>8, <1>9, <2>1
<1>11. ASSUME NEW k \in Nat
       PROVE  EnPagina(k, c.hoja) = EnPagina(k, g) \ {Region(k, g, o)}
  <2> DEFINE E(u) == [desde |-> k * Pag + u + Meta, cant |-> T[u]]
  <2>1. EnPagina(k, h) = {E(u) : u \in W}
    <3> HIDE DEF h, W, T
    <3> QED BY <1>6, HojaDeForma
  <2>2. EnPagina(k, g) = {E(u) : u \in U}
    <3> HIDE DEF U, T
    <3> QED BY <1>1, HojaDeForma
  <2>3. Region(k, g, o) = E(o)
    BY <1>2 DEF Region
  <2>4. ASSUME NEW u \in U, E(u) = E(o) PROVE u = o
    <3>1. k * Pag + u + Meta = k * Pag + o + Meta
      BY <2>4
    <3>2. k * Pag \in Int /\ u \in Int /\ o \in Int
      BY <1>1, <1>2, Enteros, Bloque
    <3> QED BY <3>1, <3>2, Enteros
  <2> HIDE DEF E, h, U, T
  <2>5. EnPagina(k, h) = EnPagina(k, g) \ {E(o)}
    BY <1>2, <2>1, <2>2, <2>4
  <2> QED BY <1>7, <2>3, <2>5
<1> QED BY <1>10, <1>11

\* reservarMemoria: the first free block with room is split, and what is left of it
\* is free.
LEMMA PartirBien ==
  ASSUME NEW g, NEW n, NEW t, HojaBien(g, n, t), NEW c \in Nat, NEW d, d = VerificarEspacio(g, c), d # 0
  PROVE  /\ HojaBien(Partir(g, d, c), n + 1, t - c - Meta) /\ c + Meta <= t /\ d \in Celda
         /\ \A k \in Nat : EnPagina(k, Partir(g, d, c)) =
                             EnPagina(k, g) \cup {[desde |-> k * Pag + d, cant |-> c]}
<1> DEFINE S == Inicios(g)
           U == Usados(g, S)
           B == {x \in S : ~Usado(g, x) /\ Tam(g, x) >= c + Meta}
           o == Primero(B)
           e == d + c
           q == Tam(g, o) - c - 2
           h == Partir(g, d, c)
           Z == S \cup {e}
           T == [u \in Z |-> IF u = o THEN c ELSE Tam(g, u)]
<1>1. /\ Forma(g, S, {}, U, [u \in S |-> Tam(g, u)], t) /\ n = Cardinality(U) /\ n \in Nat /\ t \in 0..Pag
      /\ g \in [Celda -> Nat] /\ Cubre(g, S)
  BY FormaDeHoja
<1>2. B # {} /\ d = o + Meta
  BY DEF VerificarEspacio
<1>3. o \in S /\ ~Usado(g, o) /\ Tam(g, o) >= c + 2
  <2>1. B \subseteq Nat
    BY <1>1, Bloque
  <2>2. o \in B
    <3> HIDE DEF B
    <3> QED BY <1>2, <2>1, PrimeroDe
  <2> QED BY <2>2, Enteros
<1>4. /\ o \in Nat /\ o \in Celda /\ o + 1 \in Celda /\ Tam(g, o) \in Nat
      /\ Fin(g, o) \in Nat /\ Fin(g, o) = o + 2 + Tam(g, o) /\ Fin(g, o) <= Pag
      /\ (Fin(g, o) # Pag => Fin(g, o) \in S)
  BY <1>1, <1>3, Bloque
<1>5. /\ d = o + 2 /\ e = o + 2 + c /\ q \in Nat /\ Fin(g, o) = e + 2 + q
      /\ e \in Celda /\ e + 1 \in Celda /\ e \in Nat /\ e \in 0..(Pag - 2) /\ d \in Celda
  <2>1. d = o + 2 /\ e = o + 2 + c
    BY <1>2, <1>4, Enteros
  <2> QED BY <1>3, <1>4, <2>1, Enteros DEF Celda
<1> HIDE DEF o, q, e
<1>6. h = [[[[g EXCEPT ![o] = 1] EXCEPT ![o + 1] = c] EXCEPT ![e] = 0] EXCEPT ![e + 1] = q]
  <2>1. d - Meta = o /\ Meta = 2 /\ d + c = e /\ Tam(g, d - Meta) - c - Meta = q
    BY <1>4, <1>5, Enteros DEF q, e
  <2>2. h = Cabecera(Cabecera(g, o, 1, c), e, 0, q)
    BY <2>1 DEF Partir
  <2> QED BY <2>2 DEF Cabecera
<1> HIDE DEF h
<1>7. h \in [Celda -> Nat]
  BY <1>1, <1>5, <1>6
<1>8. h[o] = 1 /\ h[o + 1] = c /\ h[e] = 0 /\ h[e + 1] = q
  <2>1. o # o + 1 /\ o # e /\ o # e + 1 /\ o + 1 # e /\ o + 1 # e + 1 /\ e # e + 1
    BY <1>4, <1>5
  <2> QED BY <1>1, <1>4, <1>5, <1>6, <2>1
<1>9. ASSUME NEW x \in S, x # o
      PROVE  MismaCabecera(g, h, x) /\ x \in Nat /\ (x < o \/ Fin(g, o) <= x)
  <2>1. x \in Nat /\ x \in Celda /\ x + 1 \in Celda /\ Fin(g, x) \in Nat /\ Fin(g, x) = x + 2 + Tam(g, x)
        /\ Tam(g, x) \in Nat
    BY <1>1, Bloque
  <2>2. (x < o /\ Fin(g, x) <= o) \/ (o < x /\ Fin(g, o) <= x)
    BY <1>1, <1>3, <1>4, <1>9, <2>1, Aparte
  <2>3. /\ x # o + 1 /\ x # e /\ x # e + 1
        /\ x + 1 # o /\ x + 1 # o + 1 /\ x + 1 # e /\ x + 1 # e + 1
    BY <1>4, <1>5, <2>1, <2>2
  <2>4. MismaCabecera(g, h, x)
    BY <1>1, <1>6, <1>9, <2>1, <2>3 DEF MismaCabecera
  <2> QED BY <2>1, <2>2, <2>4
<1>10. /\ Usado(h, o) /\ Tam(h, o) = c /\ Fin(h, o) = e
       /\ ~Usado(h, e) /\ Tam(h, e) = q /\ Fin(h, e) = Fin(g, o) /\ e \notin S
  <2>1. e \notin S
    BY <1>4, <1>5, <1>9
  <2> QED BY <1>4, <1>5, <1>8, <2>1, Enteros DEF Usado, Tam, Fin
<1>11. \A x \in S : x # o => /\ Usado(h, x) = Usado(g, x) /\ Tam(h, x) = Tam(g, x)
                             /\ Fin(h, x) = Fin(g, x) /\ Datos(h, x) = Datos(g, x)
  BY <1>9, CabeceraIgual
<1>12. Cubre(h, Z)
  <2>1. Z \subseteq 0..(Pag - Meta) /\ 0 \in Z
    BY <1>1, <1>5, Enteros DEF Cubre
  <2>2. ASSUME NEW x \in Z PROVE Fin(h, x) = Pag \/ Fin(h, x) \in Z
    BY <1>1, <1>4, <1>10, <1>11, <2>2 DEF Cubre
  <2>3. ASSUME NEW x \in Z, NEW y \in Z, x < y PROVE Fin(h, x) <= y
    <3>1. CASE x = o /\ y = e
      BY <1>5, <1>10, <3>1
    <3>2. CASE x = o /\ y # e
      BY <1>4, <1>5, <1>9, <1>10, <2>3, <3>2
    <3>3. CASE x = e
      BY <1>4, <1>5, <1>9, <1>10, <2>3, <3>3
    <3>4. CASE x # o /\ x # e /\ y = e
      <4>1. x \in S /\ x < o
        BY <1>4, <1>5, <1>9, <2>3, <3>4
      <4>2. Fin(g, x) <= o /\ Fin(g, x) \in Nat
        BY <1>1, <1>3, <4>1, Aparte, Bloque
      <4> QED BY <1>4, <1>5, <1>11, <3>4, <4>1, <4>2
    <3>5. CASE x # o /\ x # e /\ y # e
      BY <1>1, <1>11, <2>3, <3>5, Aparte
    <3> QED BY <3>1, <3>2, <3>3, <3>4, <3>5
  <2> QED BY <2>1, <2>2, <2>3 DEF Cubre
<1>13. Usados(h, Z) = U \cup {o} /\ o \notin U
  BY <1>3, <1>10, <1>11 DEF Usados
<1>14. CompactaSalvo(h, Z, {})
  <2>1. ASSUME NEW x \in Z, Fin(h, x) = Pag PROVE ~Usado(h, x)
    <3>1. CASE x = o
      BY <1>4, <1>5, <1>10, <2>1, <3>1
    <3>2. CASE x # o
      BY <1>1, <1>10, <1>11, <2>1, <3>2 DEF Forma, CompactaSalvo
    <3> QED BY <3>1, <3>2
  <2>2. ASSUME NEW x \in Z, Fin(h, x) # Pag PROVE Usado(h, x) \/ Usado(h, Fin(h, x))
    <3>1. CASE x = o
      BY <1>10, <3>1
    <3>2. CASE x = e
      <4>1. Fin(g, o) \in S /\ Fin(g, o) # o /\ Fin(g, o) # Pag
        BY <1>4, <1>10, <2>2, <3>2
      <4>2. Usado(g, Fin(g, o))
        BY <1>1, <1>3, <4>1 DEF Forma, CompactaSalvo
      <4> QED BY <1>10, <1>11, <3>2, <4>1, <4>2
    <3>3. CASE x # o /\ x # e
      <4>1. x \in S /\ Fin(h, x) = Fin(g, x) /\ Fin(g, x) \in S
        BY <1>1, <1>11, <2>2, <3>3 DEF Cubre
      <4>2. Usado(g, x) \/ Usado(g, Fin(g, x))
        BY <1>1, <2>2, <4>1 DEF Forma, CompactaSalvo
      <4> QED BY <1>3, <1>11, <3>3, <4>1, <4>2
    <3> QED BY <3>1, <3>2, <3>3
  <2> QED BY <2>1, <2>2 DEF CompactaSalvo
<1>15. Sueltas(h, Z) = Sueltas(g, S) \ (d..(e + 1)) /\ d..(e + 1) \subseteq Datos(g, o)
  <2>1. Datos(g, o) = (o + 2)..(Fin(g, o) - 1) /\ Datos(h, e) = (e + 2)..(Fin(g, o) - 1)
    BY <1>10, Enteros DEF Datos
  <2>2. Datos(h, e) = Datos(g, o) \ (d..(e + 1)) /\ d..(e + 1) \subseteq Datos(g, o)
    <3>1. \A y : y \in (e + 2)..(Fin(g, o) - 1) <=> y \in (o + 2)..(Fin(g, o) - 1) /\ y \notin d..(e + 1)
      BY <1>4, <1>5
    <3>2. \A y : y \in d..(e + 1) => y \in (o + 2)..(Fin(g, o) - 1)
      BY <1>4, <1>5
    <3> QED BY <2>1, <3>1, <3>2
  <2>3. \A x \in S : x # o => Datos(g, x) \cap Datos(g, o) = {}
    BY <1>1, <1>3, DatosSon
  <2>4. Sueltas(h, Z) = UNION {Datos(h, x) : x \in Z \ (U \cup {o})}
    BY <1>13 DEF Sueltas
  <2>5. Sueltas(g, S) = UNION {Datos(g, x) : x \in S \ U}
    BY DEF Sueltas
  <2>6. Z \ (U \cup {o}) = (S \ (U \cup {o})) \cup {e}
    BY <1>10 DEF Usados
  <2>7. ASSUME NEW y \in Sueltas(h, Z) PROVE y \in Sueltas(g, S) /\ y \notin d..(e + 1)
    <3>1. PICK x \in Z \ (U \cup {o}) : y \in Datos(h, x)
      BY <2>4
    <3>2. CASE x = e
      BY <1>3, <1>13, <2>2, <2>5, <3>1, <3>2
    <3>3. CASE x # e
      BY <1>11, <2>2, <2>3, <2>5, <2>6, <3>1, <3>3
    <3> QED BY <3>2, <3>3
  <2>8. ASSUME NEW y \in Sueltas(g, S), y \notin d..(e + 1) PROVE y \in Sueltas(h, Z)
    <3>1. PICK x \in S \ U : y \in Datos(g, x)
      BY <2>5
    <3>2. CASE x = o
      BY <2>2, <2>4, <2>6, <2>8, <3>1, <3>2
    <3>3. CASE x # o
      BY <1>11, <2>4, <2>6, <3>1, <3>3
    <3> QED BY <3>2, <3>3
  <2> QED BY <2>2, <2>7, <2>8
<1>16. Cardinality(Sueltas(h, Z)) = t - c - 2 /\ c + 2 <= t
  <2> DEFINE I == d..(e + 1)
  <2>1. IsFiniteSet(I) /\ Cardinality(I) = c + 2
    <3>1. d \in Int /\ e + 1 \in Int
      BY <1>4, <1>5
    <3>2. IsFiniteSet(I) /\ Cardinality(I) = IF d > e + 1 THEN 0 ELSE (e + 1) - d + 1
      BY <3>1, FS_Interval
    <3>3. ~(d > e + 1) /\ (e + 1) - d + 1 = c + 2
      BY <1>4, <1>5
    <3> HIDE DEF I
    <3> QED BY <3>2, <3>3
  <2>2. I \subseteq Sueltas(g, S)
    <3>1. Datos(g, o) \subseteq Sueltas(g, S)
      BY <1>1, <1>3, SueltasAparte DEF Usados
    <3> QED BY <1>15, <3>1
  <2>3. IsFiniteSet(Sueltas(g, S)) /\ t = Cardinality(Sueltas(g, S))
    BY <1>1, SueltasFinitas DEF Forma
  <2>4. Sueltas(g, S) = Sueltas(h, Z) \cup I /\ Sueltas(h, Z) \cap I = {}
    BY <1>15, <2>2
  <2>5. IsFiniteSet(Sueltas(h, Z)) /\ Cardinality(Sueltas(h, Z)) \in Nat
    BY <1>7, <1>12, SueltasFinitas, FS_CardinalityType
  <2>6. t = Cardinality(Sueltas(h, Z)) + Cardinality(I)
    <3> HIDE DEF I
    <3> QED BY <2>1, <2>3, <2>4, <2>5, CuentaJuntos
  <2> HIDE DEF I
  <2> QED BY <2>1, <2>5, <2>6
<1>17. Forma(h, Z, {}, U \cup {o}, T, t - c - 2)
  <2>1. ASSUME NEW u \in U \cup {o} PROVE Tam(h, u) = T[u]
    BY <1>3, <1>10, <1>11 DEF Usados
  <2> QED BY <1>7, <1>12, <1>13, <1>14, <1>16, <2>1 DEF Forma
<1>18. Cardinality(U \cup {o}) = n + 1
  <2>1. IsFiniteSet(U)
    BY <1>1, SueltasFinitas
  <2> HIDE DEF U
  <2> QED BY <1>1, <1>13, <2>1, FS_AddElement
<1>19. HojaBien(h, n + 1, t - c - Meta) /\ c + Meta <= t /\ d \in Celda
  <2>1. HojaBien(h, Cardinality(U \cup {o}), t - c - 2)
    <3> HIDE DEF U, T, Z
    <3> QED BY <1>17, HojaDeForma
  <2>2. Meta = 2
    BY Enteros
  <2> HIDE DEF U
  <2> QED BY <1>5, <1>16, <1>18, <2>1, <2>2
<1>20. ASSUME NEW k \in Nat
       PROVE  EnPagina(k, h) = EnPagina(k, g) \cup {[desde |-> k * Pag + d, cant |-> c]}
  <2> DEFINE E(u, w) == [desde |-> k * Pag + u + Meta, cant |-> w]
  <2>1. EnPagina(k, h) = {E(u, T[u]) : u \in U \cup {o}}
    <3> HIDE DEF U, T, Z
    <3> QED BY <1>17, HojaDeForma
  <2>2. EnPagina(k, g) = {E(u, Tam(g, u)) : u \in U}
    BY DEF EnPagina, Region
  <2>3. \A u \in U : T[u] = Tam(g, u)
    BY <1>13 DEF Usados
  <2>4. T[o] = c
    BY <1>3
  <2>5. E(o, c) = [desde |-> k * Pag + d, cant |-> c]
    <3>1. k * Pag \in Int
      BY Enteros
    <3>2. k * Pag + o + Meta = k * Pag + d
      BY <1>4, <1>5, <3>1, Enteros
    <3> QED BY <3>2
  <2> HIDE DEF E, T, U
  <2> QED BY <2>1, <2>2, <2>3, <2>4, <2>5
<1> QED BY <1>19, <1>20 DEF h

\* A page with the headers of another one.
LEMMA MismaHoja ==
  ASSUME NEW g, NEW n, NEW t, HojaBien(g, n, t), NEW h \in [Celda -> Nat],
         \A x \in Inicios(g) : MismaCabecera(g, h, x)
  PROVE  HojaBien(h, n, t) /\ \A k : EnPagina(k, h) = EnPagina(k, g)
<1> DEFINE S == Inicios(g)
           U == Usados(g, S)
           T == [u \in S |-> Tam(g, u)]
<1>1. /\ Forma(g, S, {}, U, T, t) /\ n = Cardinality(U) /\ g \in [Celda -> Nat] /\ Cubre(g, S)
  BY FormaDeHoja
<1>2. \A x \in S : /\ Usado(h, x) = Usado(g, x) /\ Tam(h, x) = Tam(g, x)
                   /\ Fin(h, x) = Fin(g, x) /\ Datos(h, x) = Datos(g, x)
  BY CabeceraIgual
<1>3. Cubre(h, S) /\ Usados(h, S) = U
  BY <1>1, <1>2, CubreIgual DEF Usados
<1>4. CompactaSalvo(h, S, {})
  <2>1. \A x \in S : Fin(g, x) # Pag => Fin(g, x) \in S
    BY <1>1 DEF Cubre
  <2> QED BY <1>1, <1>2, <2>1 DEF Forma, CompactaSalvo
<1>5. Sueltas(h, S) = Sueltas(g, S)
  BY <1>2, <1>3 DEF Sueltas
<1>6. Forma(h, S, {}, U, T, t)
  <2>1. \A u \in U : Tam(h, u) = T[u]
    BY <1>2 DEF Usados
  <2> QED BY <1>1, <1>3, <1>4, <1>5, <2>1 DEF Forma
<1>7. HojaBien(h, n, t) /\ \A k : EnPagina(k, h) = {[desde |-> k * Pag + u + Meta, cant |-> T[u]] : u \in U}
  <2> HIDE DEF T, U, S
  <2> QED BY <1>1, <1>6, HojaDeForma
<1>8. \A k : EnPagina(k, g) = {[desde |-> k * Pag + u + Meta, cant |-> T[u]] : u \in U}
  <2> HIDE DEF T, U, S
  <2> QED BY <1>1, HojaDeForma
<1> QED BY <1>7, <1>8

\* verificarAsignar lets a program write in the data of a block only.
LEMMA AsignarBien ==
  ASSUME NEW g, NEW n, NEW t, HojaBien(g, n, t), NEW off \in Celda, AsignacionOk(g, off, 1),
         NEW h \in [Celda -> Nat], \A c \in Celda \ {off} : h[c] = g[c]
  PROVE  HojaBien(h, n, t) /\ \A k : EnPagina(k, h) = EnPagina(k, g)
<1> DEFINE S == Inicios(g)
           A == {x \in S : x = 0 \/ x < off}
           o == Ultimo(A)
           fin == IF Tam(g, o) = 0 THEN o ELSE Fin(g, o)
<1>1. g \in [Celda -> Nat] /\ Cubre(g, S)
  BY FormaDeHoja
<1>2. S \subseteq Nat /\ 0 \in S /\ IsFiniteSet(S)
  BY <1>1, Bloque, SueltasFinitas DEF Cubre
<1>3. o \in S
  <2>1. IsFiniteSet(A) /\ A # {} /\ A \subseteq Int /\ A \subseteq S
    BY <1>2, FS_Subset
  <2> HIDE DEF A
  <2> QED BY <2>1, UltimoDe
<1>4. off >= o + Meta /\ off + 1 <= fin
  BY DEF AsignacionOk
<1>5. /\ o \in Nat /\ Tam(g, o) \in Nat /\ Fin(g, o) \in Nat /\ Datos(g, o) = (o + 2)..(Fin(g, o) - 1)
  BY <1>1, <1>3, Bloque, DatosSon
<1>6. off \in Datos(g, o)
  <2>1. off \in Nat
    BY Enteros DEF Celda
  <2> HIDE DEF o
  <2>2. fin = Fin(g, o)
    BY <1>4, <1>5, <2>1, Enteros
  <2> QED BY <1>4, <1>5, <2>1, <2>2, Enteros
<1>7. ASSUME NEW x \in S PROVE MismaCabecera(g, h, x)
  <2>1. x \notin Datos(g, o) /\ x + 1 \notin Datos(g, o)
    BY <1>1, <1>3, DatosSon
  <2>2. x \in Celda /\ x + 1 \in Celda
    BY <1>1, Bloque
  <2> QED BY <1>6, <2>1, <2>2 DEF MismaCabecera
<1> QED BY <1>7, MismaHoja

\* A page as reservarMemoria leaves it when it is new.
LEMMA HojaNueva ==
  ASSUME NEW h \in [Celda -> Nat], NEW c \in Nat, c <= Pag - 4,
         h[0] = 1, h[1] = c, h[2 + c] = 0, h[3 + c] = Pag - 4 - c
  PROVE  HojaBien(h, 1, Pag - 4 - c) /\ \A k : EnPagina(k, h) = {[desde |-> k * Pag + 0 + Meta, cant |-> c]}
<1> DEFINE e == 2 + c
           S == {0, e}
           T == [u \in {0} |-> c]
<1>1. /\ Usado(h, 0) /\ Tam(h, 0) = c /\ Fin(h, 0) = e /\ ~Usado(h, e)
      /\ Tam(h, e) = Pag - 4 - c /\ Fin(h, e) = Pag
  BY Enteros DEF Usado, Tam, Fin
<1>2. e \in 0..(Pag - Meta) /\ 0 < e /\ e < Pag
  BY Enteros
<1>3. Cubre(h, S)
  BY <1>1, <1>2, Enteros DEF Cubre
<1>4. CompactaSalvo(h, S, {})
  BY <1>1, <1>2 DEF CompactaSalvo
<1>5. Usados(h, S) = {0}
  BY <1>1, <1>2 DEF Usados
<1>6. Cardinality(Sueltas(h, S)) = Pag - 4 - c
  <2>1. Sueltas(h, S) = Datos(h, e)
    BY <1>2, <1>5 DEF Sueltas
  <2> QED BY <1>1, <1>3, <2>1, DatosSon
<1>7. Forma(h, S, {}, {0}, T, Pag - 4 - c)
  BY <1>1, <1>3, <1>4, <1>5, <1>6 DEF Forma
<1>8. Cardinality({0}) = 1
  BY FS_Singleton
<1>9. /\ HojaBien(h, Cardinality({0}), Pag - 4 - c)
      /\ \A k : EnPagina(k, h) = {[desde |-> k * Pag + u + Meta, cant |-> T[u]] : u \in {0}}
  <2> HIDE DEF S, T
  <2> QED BY <1>7, HojaDeForma
<1> QED BY <1>8, <1>9

-----------------------------------------------------------------------------
(* Where the blocks are.                                                   *)

\* A position is so many pages and a rest, in one way.
LEMMA Lugar ==
  ASSUME NEW k \in Nat, NEW d \in Celda
  PROVE  /\ k * Pag \in Nat /\ k * Pag + d \in Nat
         /\ (k * Pag + d) \div Pag = k /\ (k * Pag + d) % Pag = d
<1>1. Pag \in Nat \ {0} /\ d \in Nat /\ d < Pag
  BY Enteros DEF Celda
<1>2. PICK y : y = k * Pag
  OBVIOUS
<1>3. y \in Nat /\ y + d \in Nat
  BY <1>1, <1>2
<1>4. PICK n, m : n = (y + d) \div Pag /\ m = (y + d) % Pag
  OBVIOUS
<1>5. n \in Nat /\ m \in 0..(Pag - 1) /\ y + d = Pag * n + m
  BY <1>1, <1>3, <1>4
<1>6. n = k
  <2>1. Pag * k + d = Pag * n + m
    <3>1. k * Pag = Pag * k
      BY <1>1
    <3> QED BY <1>2, <1>5, <3>1
  <2>2. ASSUME n < k PROVE FALSE
    <3>1. k = n + 1 + (k - n - 1) /\ k - n - 1 \in Nat
      BY <1>5, <2>2
    <3>2. PICK e \in Nat : k = n + 1 + e
      BY <3>1
    <3>3. Pag * k = Pag * n + Pag + Pag * e
      BY <1>1, <1>5, <3>2
    <3>4. Pag * e \in Nat /\ Pag * n \in Nat
      BY <1>1, <1>5
    <3> QED BY <1>1, <1>5, <2>1, <3>3, <3>4
  <2>3. ASSUME k < n PROVE FALSE
    <3>1. n = k + 1 + (n - k - 1) /\ n - k - 1 \in Nat
      BY <1>5, <2>3
    <3>2. PICK e \in Nat : n = k + 1 + e
      BY <3>1
    <3>3. Pag * n = Pag * k + Pag + Pag * e
      BY <1>1, <3>2
    <3>4. Pag * e \in Nat /\ Pag * k \in Nat
      BY <1>1
    <3> QED BY <1>1, <1>5, <2>1, <3>3, <3>4
  <2> QED BY <1>5, <2>2, <2>3
<1>7. m = d
  <2>1. y = Pag * n
    BY <1>1, <1>2, <1>6
  <2>2. Pag * n \in Nat
    BY <1>1, <1>5
  <2> QED BY <1>1, <1>5, <2>1, <2>2
<1> QED BY <1>2, <1>3, <1>4, <1>6, <1>7

\* Pages follow one another.
LEMMA PaginasEnFila ==
  ASSUME NEW j \in Nat, NEW k \in Nat, j < k
  PROVE  j * Pag + Pag <= k * Pag
<1>1. PICK e \in Nat : k = j + 1 + e
  <2>1. k - j - 1 \in Nat /\ k = j + 1 + (k - j - 1)
    OBVIOUS
  <2> QED BY <2>1
<1>2. k * Pag = j * Pag + Pag + e * Pag
  BY <1>1, Enteros
<1>3. e * Pag \in Nat /\ j * Pag \in Nat
  BY Enteros
<1> QED BY <1>2, <1>3, Enteros

\* A used block is in its page, after a header.
LEMMA RegionEn ==
  ASSUME NEW k \in Nat, NEW g, NEW n, NEW t, HojaBien(g, n, t), NEW o \in Usados(g, Inicios(g))
  PROVE  LET x == Region(k, g, o) IN
         /\ x.desde = k * Pag + o + 2 /\ x.cant = Tam(g, o) /\ x.cant \in Nat
         /\ x.desde \in Nat /\ x.desde \div Pag = k /\ x.desde % Pag = o + 2
         /\ o \in Nat /\ k * Pag \in Nat
         /\ x.desde + x.cant \in Nat /\ (x.desde + x.cant) \div Pag = k
         /\ o + 2 + x.cant < Pag
<1> DEFINE S == Inicios(g)
<1>1. g \in [Celda -> Nat] /\ Cubre(g, S) /\ o \in S /\ Usado(g, o) /\ Compacta(g, S)
  BY DEF HojaBien, Usados
<1>2. /\ o \in Nat /\ Tam(g, o) \in Nat /\ Fin(g, o) \in Nat /\ Fin(g, o) = o + 2 + Tam(g, o)
      /\ Fin(g, o) <= Pag
  BY <1>1, Bloque
<1>3. Fin(g, o) < Pag
  BY <1>1, <1>2, Enteros DEF Compacta
<1>4. o + 2 \in Celda /\ Fin(g, o) \in Celda
  BY <1>2, <1>3, Enteros DEF Celda
<1> DEFINE x == Region(k, g, o)
<1>5. /\ k * Pag \in Nat
      /\ k * Pag + (o + 2) \in Nat
      /\ (k * Pag + (o + 2)) \div Pag = k /\ (k * Pag + (o + 2)) % Pag = o + 2
      /\ (k * Pag + Fin(g, o)) \div Pag = k
  BY <1>4, Lugar
<1>6. x.desde = k * Pag + o + 2 /\ x.cant = Tam(g, o)
  BY Enteros DEF Region
<1>7. x.desde = k * Pag + (o + 2) /\ x.desde + x.cant = k * Pag + Fin(g, o)
  BY <1>2, <1>5, <1>6
<1>8. x.desde + x.cant \in Nat
  BY <1>2, <1>5, <1>7
<1> HIDE DEF x
<1> QED BY <1>2, <1>3, <1>5, <1>6, <1>7, <1>8 DEF x

-----------------------------------------------------------------------------
(* The blocks of a program.                                                *)

Todas(R, F) == \A a \in DOMAIN R : Llena(F, R[a])

LEMMA BloqueDe ==
  ASSUME NEW R, NEW F, NEW A, NEW x \in Bloques(R, F, A)
  PROVE  \E a \in A : \E o \in Usados(F[R[a].pag], Inicios(F[R[a].pag])) :
            x = Region(R[a].pag, F[R[a].pag], o)
BY DEF Bloques, EnPagina

\* Two blocks of one page share nothing.
LEMMA SeparadosEnPagina ==
  ASSUME NEW k \in Nat, NEW g, NEW n, NEW t, HojaBien(g, n, t),
         NEW o \in Usados(g, Inicios(g)), NEW u \in Usados(g, Inicios(g)), o < u
  PROVE  Region(k, g, o).desde + Region(k, g, o).cant <= Region(k, g, u).desde
<1>1. Cubre(g, Inicios(g)) /\ g \in [Celda -> Nat] /\ o \in Inicios(g) /\ u \in Inicios(g)
  BY DEF HojaBien, Usados
<1>2. Fin(g, o) <= u /\ Fin(g, o) = o + 2 + Tam(g, o) /\ Tam(g, o) \in Nat /\ o \in Nat /\ u \in Nat
  BY <1>1, Aparte, Bloque
<1>3. PICK x, y : x = Region(k, g, o) /\ y = Region(k, g, u)
  OBVIOUS
<1>4. /\ x.desde = k * Pag + o + 2 /\ x.cant = Tam(g, o) /\ y.desde = k * Pag + u + 2
      /\ k * Pag \in Nat
  BY <1>3, RegionEn
<1> QED BY <1>2, <1>3, <1>4

\* Two blocks of a program start at different places and share nothing.
LEMMA BloquesAparte ==
  ASSUME NEW R, NEW F, NEW c, Mapa(R, F, c), NEW A \in SUBSET (DOMAIN R),
         \A a \in A : Llena(F, R[a]),
         NEW x \in Bloques(R, F, A), NEW y \in Bloques(R, F, A), x # y
  PROVE  /\ x.desde \in Nat /\ x.cant \in Nat /\ y.desde \in Nat /\ y.cant \in Nat
         /\ x.desde # y.desde
         /\ x.desde + x.cant <= y.desde \/ y.desde + y.cant <= x.desde
<1>1. PICK a, o : a \in A /\ o \in Usados(F[R[a].pag], Inicios(F[R[a].pag])) /\ x = Region(R[a].pag, F[R[a].pag], o)
  BY BloqueDe
<1>2. PICK b, u : b \in A /\ u \in Usados(F[R[b].pag], Inicios(F[R[b].pag])) /\ y = Region(R[b].pag, F[R[b].pag], u)
  BY BloqueDe
<1>3. PICK j, k, g, h : j = R[a].pag /\ k = R[b].pag /\ g = F[j] /\ h = F[k]
  OBVIOUS
<1>4. j \in Nat /\ k \in Nat
  BY <1>1, <1>2, <1>3 DEF Mapa
<1>5. HojaBien(g, R[a].cant, R[a].size) /\ HojaBien(h, R[b].cant, R[b].size)
  BY <1>1, <1>2, <1>3 DEF Llena
<1>6. /\ x.desde = j * Pag + o + 2 /\ x.cant \in Nat /\ x.desde \in Nat /\ o \in Nat /\ j * Pag \in Nat
      /\ o + 2 + x.cant < Pag
  BY <1>1, <1>3, <1>4, <1>5, RegionEn
<1>7. /\ y.desde = k * Pag + u + 2 /\ y.cant \in Nat /\ y.desde \in Nat /\ u \in Nat /\ k * Pag \in Nat
      /\ u + 2 + y.cant < Pag
  BY <1>2, <1>3, <1>4, <1>5, RegionEn
<1>8. CASE j < k
  <2>1. j * Pag + Pag <= k * Pag
    BY <1>4, <1>8, PaginasEnFila
  <2> QED BY <1>6, <1>7, <2>1, Enteros
<1>9. CASE k < j
  <2>1. k * Pag + Pag <= j * Pag
    BY <1>4, <1>9, PaginasEnFila
  <2> QED BY <1>6, <1>7, <2>1, Enteros
<1>10. CASE j = k
  <2>1. g = h /\ o # u
    BY <1>1, <1>2, <1>3, <1>10
  <2>2. o < u => x.desde + x.cant <= y.desde
    BY <1>1, <1>2, <1>3, <1>4, <1>5, <1>10, <2>1, SeparadosEnPagina
  <2>3. u < o => y.desde + y.cant <= x.desde
    BY <1>1, <1>2, <1>3, <1>4, <1>5, <1>10, <2>1, SeparadosEnPagina
  <2> QED BY <1>6, <1>7, <1>10, <2>1, <2>2, <2>3
<1> QED BY <1>4, <1>6, <1>7, <1>8, <1>9, <1>10

\* Where a block of a program is.
LEMMA BloqueEn ==
  ASSUME NEW R, NEW F, NEW c, Mapa(R, F, c), NEW A \in SUBSET (DOMAIN R),
         \A a \in A : Llena(F, R[a]), NEW x \in Bloques(R, F, A)
  PROVE  /\ x = [desde |-> x.desde, cant |-> x.cant]
         /\ x.desde \in Nat /\ x.cant \in Nat /\ x.desde % Pag >= Meta
         /\ x.desde + x.cant \in Nat
         /\ \E a \in A : /\ x.desde \div Pag = R[a].pag /\ R[a].pag \in DOMAIN F
                         /\ (x.desde % Pag) - Meta \in Usados(F[R[a].pag], Inicios(F[R[a].pag]))
                         /\ x = Region(R[a].pag, F[R[a].pag], (x.desde % Pag) - Meta)
<1>1. PICK a, o : a \in A /\ o \in Usados(F[R[a].pag], Inicios(F[R[a].pag])) /\ x = Region(R[a].pag, F[R[a].pag], o)
  BY BloqueDe
<1>2. PICK j, g : j = R[a].pag /\ g = F[j]
  OBVIOUS
<1>3. j \in Nat /\ HojaBien(g, R[a].cant, R[a].size) /\ j \in DOMAIN F
  BY <1>1, <1>2 DEF Mapa, Llena
<1>4. /\ x.desde \in Nat /\ x.cant \in Nat /\ x.desde \div Pag = j /\ x.desde % Pag = o + 2
      /\ o \in Nat /\ x.desde + x.cant \in Nat
  BY <1>1, <1>2, <1>3, RegionEn
<1>5. (x.desde % Pag) - Meta = o /\ x.desde % Pag >= Meta
  BY <1>4, Enteros
<1>6. x = [desde |-> x.desde, cant |-> x.cant]
  BY <1>1 DEF Region
<1> QED BY <1>1, <1>2, <1>3, <1>4, <1>5, <1>6

\* The reserva a and its page k change.
Cambio(R, F, a, k, Q, H) ==
  /\ a \in DOMAIN R /\ k = R[a].pag
  /\ DOMAIN Q = DOMAIN R /\ Q[a].pag = k /\ \A b \in DOMAIN R \ {a} : Q[b] = R[b]
  /\ DOMAIN H = DOMAIN F /\ \A m \in DOMAIN F \ {k} : H[m] = F[m]
  /\ HojaBien(H[k], Q[a].cant, Q[a].size)

\* B are the blocks of the other pages.
Reparto(R, F, Q, H, k, B) ==
  /\ Bloques(R, F, DOMAIN R) = B \cup EnPagina(k, F[k])
  /\ Bloques(Q, H, DOMAIN Q) = B \cup EnPagina(k, H[k])
  /\ \A x \in B : x.desde \div Pag # k
  /\ \A x \in EnPagina(k, F[k]) : x.desde \div Pag = k

LEMMA CambiaUna ==
  ASSUME NEW R, NEW F, NEW c, Mapa(R, F, c), Todas(R, F), NEW a, NEW k, NEW Q, NEW H, Cambio(R, F, a, k, Q, H)
  PROVE  /\ Mapa(Q, H, c) /\ Todas(Q, H)
         /\ \E B : Reparto(R, F, Q, H, k, B)
<1> USE DEF Cambio
<1>1. \A b \in DOMAIN R : Q[b].pag = R[b].pag
  OBVIOUS
<1>2. Mapa(Q, H, c)
  BY <1>1 DEF Mapa
<1>3. \A b \in DOMAIN R \ {a} : R[b].pag \in DOMAIN F \ {k}
  BY DEF Mapa, Todas, Llena
<1>4. k \in DOMAIN F
  BY DEF Todas, Llena
<1>5. Todas(Q, H)
  BY <1>3, <1>4 DEF Todas, Llena
<1> DEFINE B == Bloques(R, F, DOMAIN R \ {a})
<1>6. Bloques(R, F, DOMAIN R) = B \cup EnPagina(k, F[k])
  BY DEF Bloques
<1>7. Bloques(Q, H, DOMAIN Q \ {a}) = B
  BY <1>3 DEF Bloques
<1>8. Bloques(Q, H, DOMAIN Q) = Bloques(Q, H, DOMAIN Q \ {a}) \cup EnPagina(k, H[k])
  BY DEF Bloques
<1>9. ASSUME NEW x \in B PROVE x.desde \div Pag # k
  <2>1. PICK b, o : b \in DOMAIN R \ {a} /\ o \in Usados(F[R[b].pag], Inicios(F[R[b].pag]))
                   /\ x = Region(R[b].pag, F[R[b].pag], o)
    BY BloqueDe
  <2>2. R[b].pag \in Nat
    BY <2>1 DEF Mapa
  <2>3. HojaBien(F[R[b].pag], R[b].cant, R[b].size)
    BY <2>1 DEF Todas, Llena
  <2>4. x.desde \div Pag = R[b].pag
    BY <2>1, <2>2, <2>3, RegionEn
  <2> QED BY <1>3, <2>1, <2>4
<1>10. ASSUME NEW x \in EnPagina(k, F[k]) PROVE x.desde \div Pag = k
  <2>1. PICK u \in Usados(F[k], Inicios(F[k])) : x = Region(k, F[k], u)
    BY DEF EnPagina
  <2>2. k \in Nat
    BY DEF Mapa
  <2>3. HojaBien(F[k], R[a].cant, R[a].size)
    BY DEF Todas, Llena
  <2> QED BY <2>1, <2>2, <2>3, RegionEn
<1>11. Reparto(R, F, Q, H, k, B)
  BY <1>6, <1>7, <1>8, <1>9, <1>10 DEF Reparto
<1> QED BY <1>2, <1>5, <1>11

-----------------------------------------------------------------------------
(* The list.                                                               *)

\* How many of K are not after i.
Puesto(K, i) == Cardinality({k \in K : k <= i})

\* Counting them goes through K one by one.
LEMMA Puestos ==
  ASSUME NEW K, K \subseteq Int, IsFiniteSet(K)
  PROVE  /\ Cardinality(K) \in Nat
         /\ \A i \in K : Puesto(K, i) \in 1..Cardinality(K)
         /\ \A i, j \in K : Puesto(K, i) = Puesto(K, j) => i = j
         /\ \A n \in 1..Cardinality(K) : \E i \in K : Puesto(K, i) = n
<1> DEFINE Hasta(i) == {k \in K : k <= i}
           f == [i \in K |-> Puesto(K, i)]
<1>1. \A i : IsFiniteSet(Hasta(i)) /\ Cardinality(Hasta(i)) <= Cardinality(K)
             /\ Cardinality(Hasta(i)) \in Nat
  <2>1. \A i : Hasta(i) \in SUBSET K
    OBVIOUS
  <2> HIDE DEF Hasta
  <2> QED BY <2>1, FS_Subset, FS_CardinalityType
<1>2. Cardinality(K) \in Nat
  BY FS_CardinalityType
<1>3. ASSUME NEW i \in K PROVE Puesto(K, i) \in 1..Cardinality(K)
  <2>1. Hasta(i) # {}
    OBVIOUS
  <2>2. Cardinality(Hasta(i)) # 0
    <3> HIDE DEF Hasta
    <3> QED BY <1>1, <2>1, FS_EmptySet
  <2>3. Puesto(K, i) = Cardinality(Hasta(i))
    BY DEF Puesto
  <2> HIDE DEF Hasta
  <2> QED BY <1>1, <1>2, <2>2, <2>3
<1>4. ASSUME NEW i \in K, NEW j \in K, i < j PROVE Puesto(K, i) # Puesto(K, j)
  <2>1. Hasta(i) \in SUBSET Hasta(j) /\ Hasta(i) # Hasta(j)
    <3>1. i \in Int /\ j \in Int /\ \A x \in K : x \in Int
      OBVIOUS
    <3>2. j \in Hasta(j) /\ j \notin Hasta(i)
      BY <1>4, <3>1
    <3>3. \A x \in Hasta(i) : x \in Hasta(j)
      BY <1>4, <3>1
    <3> HIDE DEF Hasta
    <3> QED BY <3>2, <3>3
  <2>2. Cardinality(Hasta(j)) # Cardinality(Hasta(i))
    <3> HIDE DEF Hasta
    <3> QED BY <1>1, <2>1, FS_Subset
  <2> QED BY <2>2 DEF Puesto
<1>5. \A i, j \in K : Puesto(K, i) = Puesto(K, j) => i = j
  BY <1>4
<1>6. f \in Injection(K, 1..Cardinality(K))
  BY <1>3, <1>5 DEF Injection, IsInjective
<1>7. IsFiniteSet(1..Cardinality(K)) /\ Cardinality(1..Cardinality(K)) = Cardinality(K)
  <2>1. 1 \in Int /\ Cardinality(K) \in Int
    BY <1>2
  <2>2. Cardinality(1..Cardinality(K)) = IF 1 > Cardinality(K) THEN 0 ELSE Cardinality(K) - 1 + 1
    BY <2>1, FS_Interval
  <2> QED BY <1>2, <2>1, <2>2, FS_Interval
<1>8. f \in Surjection(K, 1..Cardinality(K))
  <2> HIDE DEF f
  <2> QED BY <1>6, <1>7, FS_Injection
<1>9. \A n \in 1..Cardinality(K) : \E i \in K : f[i] = n
  <2> HIDE DEF f
  <2> QED BY <1>8 DEF Surjection
<1>10. \A n \in 1..Cardinality(K) : \E i \in K : Puesto(K, i) = n
  BY <1>9
<1> QED BY <1>2, <1>3, <1>5, <1>10

\* What is left keeps its elements and repeats none.
LEMMA SinIndicesEs ==
  ASSUME NEW T, NEW s \in Seq(T), NEW Q
  PROVE  LET K == {i \in DOMAIN s : i \notin Q}
             t == SinIndices(s, Q)
         IN
         /\ t \in Seq(T)
         /\ \A j \in DOMAIN t : \E i \in K : t[j] = s[i]
         /\ \A i \in K : \E j \in DOMAIN t : t[j] = s[i]
         /\ (\A i, j \in DOMAIN s : s[i] = s[j] => i = j) =>
              \A i, j \in DOMAIN t : t[i] = t[j] => i = j
<1> DEFINE K == {i \in DOMAIN s : i \notin Q}
           t == SinIndices(s, Q)
           N == Cardinality(K)
           Cual(j) == CHOOSE i \in K : Puesto(K, i) = j
<1>1. Len(s) \in Nat /\ DOMAIN s = 1..Len(s) /\ \A i \in DOMAIN s : s[i] \in T
  OBVIOUS
<1>2. K \subseteq Int /\ IsFiniteSet(K) /\ K \subseteq DOMAIN s
  <2>1. IsFiniteSet(1..Len(s))
    BY <1>1, FS_Interval
  <2>2. K \in SUBSET (1..Len(s))
    BY <1>1
  <2> QED BY <1>1, <2>1, <2>2, FS_Subset
<1>3. N \in Nat
  BY <1>2, Puestos
<1>4. t = [j \in 1..N |-> s[Cual(j)]]
  BY DEF SinIndices, Puesto
<1> HIDE DEF K, t
<1>5. ASSUME NEW j \in 1..N PROVE Cual(j) \in K /\ Puesto(K, Cual(j)) = j
  <2>1. \E i \in K : Puesto(K, i) = j
    BY <1>2, Puestos
  <2> QED BY <2>1
<1>6. \A i \in K : Puesto(K, i) \in 1..N /\ Cual(Puesto(K, i)) = i
  <2>1. \A i \in K : Puesto(K, i) \in 1..N
    BY <1>2, Puestos
  <2>2. \A i \in K : Cual(Puesto(K, i)) \in K /\ Puesto(K, Cual(Puesto(K, i))) = Puesto(K, i)
    BY <1>5, <2>1
  <2>3. \A i, j \in K : Puesto(K, i) = Puesto(K, j) => i = j
    BY <1>2, Puestos
  <2> HIDE DEF Cual
  <2> QED BY <2>1, <2>2, <2>3
<1> HIDE DEF N, Cual
<1>7. DOMAIN t = 1..N /\ \A j \in 1..N : t[j] = s[Cual(j)]
  BY <1>4
<1>8. t \in Seq(T)
  <2>1. \A j \in 1..N : s[Cual(j)] \in T
    BY <1>1, <1>2, <1>5
  <2>2. t \in [1..N -> T]
    BY <1>4, <2>1
  <2> QED BY <1>3, <2>2
<1>9. \A j \in DOMAIN t : \E i \in K : t[j] = s[i]
  BY <1>5, <1>7
<1>10. \A i \in K : \E j \in DOMAIN t : t[j] = s[i]
  BY <1>6, <1>7
<1>11. ASSUME \A i, j \in DOMAIN s : s[i] = s[j] => i = j, NEW i \in DOMAIN t, NEW j \in DOMAIN t, t[i] = t[j]
       PROVE  i = j
  <2>1. Cual(i) \in DOMAIN s /\ Cual(j) \in DOMAIN s
    BY <1>2, <1>5, <1>7
  <2>2. Cual(i) = Cual(j)
    BY <1>7, <1>11, <2>1
  <2> QED BY <1>5, <1>7, <2>2
<1> QED BY <1>8, <1>9, <1>10, <1>11 DEF K, t

LEMMA ListaSin ==
  ASSUME NEW L, NEW Ob, ListaBien(L, Ob), NEW Q \in SUBSET (DOMAIN L),
         NEW M, M = [a \in DOMAIN Ob \ {L[i] : i \in Q} |-> Ob[a]]
  PROVE  ListaBien(SinIndices(L, Q), M)
<1> DEFINE K == {i \in DOMAIN L : i \notin Q}
           t == SinIndices(L, Q)
<1>1. L \in Seq(Nat \ {0}) /\ (\A i, j \in DOMAIN L : L[i] = L[j] => i = j)
      /\ DOMAIN Ob = {L[i] : i \in DOMAIN L} /\ \A a \in DOMAIN Ob : UnaReserva(Ob[a])
  BY DEF ListaBien
<1>2. /\ t \in Seq(Nat \ {0})
      /\ \A j \in DOMAIN t : \E i \in K : t[j] = L[i]
      /\ \A i \in K : \E j \in DOMAIN t : t[j] = L[i]
      /\ \A i, j \in DOMAIN t : t[i] = t[j] => i = j
  <2> QED BY <1>1, SinIndicesEs
<1>3. DOMAIN M = {L[i] : i \in K}
  BY <1>1
<1> HIDE DEF t
<1>4. {L[i] : i \in K} = {t[j] : j \in DOMAIN t}
  <2> HIDE DEF K
  <2> QED BY <1>2
<1>5. DOMAIN M = {t[j] : j \in DOMAIN t}
  BY <1>3, <1>4
<1>6. \A a \in DOMAIN M : UnaReserva(M[a])
  BY <1>1
<1>7. M = [a \in DOMAIN M |-> M[a]]
  OBVIOUS
<1> QED BY <1>2, <1>5, <1>6, <1>7 DEF ListaBien, t

Agregada(Ob, d, x) == [a \in DOMAIN Ob \cup {d} |-> IF a \in DOMAIN Ob THEN Ob[a] ELSE x]

LEMMA ListaCon ==
  ASSUME NEW L, NEW Ob, ListaBien(L, Ob), NEW d \in Nat \ {0}, d \notin DOMAIN Ob,
         NEW x, UnaReserva(x), NEW M, M = Agregada(Ob, d, x)
  PROVE  ListaBien(Append(L, d), M)
<1>1. M = [a \in DOMAIN Ob \cup {d} |-> IF a \in DOMAIN Ob THEN Ob[a] ELSE x]
  BY DEF Agregada
<1>2. L \in Seq(Nat \ {0}) /\ (\A i, j \in DOMAIN L : L[i] = L[j] => i = j)
      /\ DOMAIN Ob = {L[i] : i \in DOMAIN L} /\ \A a \in DOMAIN Ob : UnaReserva(Ob[a])
  BY DEF ListaBien
<1>3. PICK n \in Nat : n = Len(L) /\ DOMAIN L = 1..n
  BY <1>2
<1>4. PICK t : t = Append(L, d)
  OBVIOUS
<1>5. t \in Seq(Nat \ {0}) /\ DOMAIN t = 1..(n + 1) /\ t[n + 1] = d /\ \A i \in 1..n : t[i] = L[i]
  BY <1>2, <1>3, <1>4
<1>6. \A i \in 1..n : t[i] \in DOMAIN Ob /\ t[i] # d
  BY <1>2, <1>3, <1>5
<1>7. \A i, j \in DOMAIN t : t[i] = t[j] => i = j
  <2>1. SUFFICES ASSUME NEW i \in 1..(n + 1), NEW j \in 1..(n + 1), t[i] = t[j] PROVE i = j
    BY <1>5
  <2>2. (i \in 1..n \/ i = n + 1) /\ (j \in 1..n \/ j = n + 1)
    OBVIOUS
  <2>3. CASE i \in 1..n /\ j \in 1..n
    <3>1. L[i] = L[j]
      BY <1>5, <2>1, <2>3
    <3> QED BY <1>2, <1>3, <2>3, <3>1
  <2> QED BY <1>5, <1>6, <2>1, <2>2, <2>3
<1>8. DOMAIN M = {t[i] : i \in DOMAIN t}
  <2>1. DOMAIN M = {L[i] : i \in 1..n} \cup {d}
    BY <1>1, <1>2, <1>3
  <2>2. 1..(n + 1) = 1..n \cup {n + 1}
    OBVIOUS
  <2>3. {t[i] : i \in 1..(n + 1)} = {t[i] : i \in 1..n} \cup {d}
    BY <1>5, <2>2
  <2> QED BY <1>5, <2>1, <2>3
<1>9. \A a \in DOMAIN M : UnaReserva(M[a])
  BY <1>1, <1>2
<1>10. M = [a \in DOMAIN M |-> M[a]]
  BY <1>1
<1>11. ListaBien(t, M)
  BY <1>5, <1>7, <1>8, <1>9, <1>10 DEF ListaBien
<1> QED BY <1>4, <1>11

Cambiada(Ob, a, t, c) == [Ob EXCEPT ![a].size = t, ![a].cant = c]

LEMMA CambiaReserva ==
  ASSUME NEW Ob, NEW a \in DOMAIN Ob, UnaReserva(Ob[a]), NEW t, NEW c,
         NEW M, M = Cambiada(Ob, a, t, c)
  PROVE  /\ DOMAIN M = DOMAIN Ob /\ M = [b \in DOMAIN Ob |-> M[b]]
         /\ \A b \in DOMAIN Ob \ {a} : M[b] = Ob[b]
         /\ M[a] = [pid |-> Ob[a].pid, pag |-> Ob[a].pag, size |-> t, cant |-> c]
BY DEF UnaReserva, Cambiada

LEMMA ListaCambia ==
  ASSUME NEW L, NEW Ob, ListaBien(L, Ob), NEW a \in DOMAIN Ob, NEW t, NEW c,
         NEW M, M = Cambiada(Ob, a, t, c)
  PROVE  /\ ListaBien(L, M) /\ DOMAIN M = DOMAIN Ob /\ \A b \in DOMAIN Ob \ {a} : M[b] = Ob[b]
         /\ M[a] = [pid |-> Ob[a].pid, pag |-> Ob[a].pag, size |-> t, cant |-> c]
         /\ \A b \in DOMAIN Ob : M[b].pid = Ob[b].pid /\ M[b].pag = Ob[b].pag
<1>1. \A b \in DOMAIN Ob : UnaReserva(Ob[b])
  BY DEF ListaBien
<1>2. /\ DOMAIN M = DOMAIN Ob /\ M = [b \in DOMAIN Ob |-> M[b]]
      /\ \A b \in DOMAIN Ob \ {a} : M[b] = Ob[b]
      /\ M[a] = [pid |-> Ob[a].pid, pag |-> Ob[a].pag, size |-> t, cant |-> c]
  BY <1>1, CambiaReserva
<1>3. \A b \in DOMAIN Ob : UnaReserva(M[b])
  BY <1>1, <1>2 DEF UnaReserva
<1>4. \A b \in DOMAIN Ob : M[b].pid = Ob[b].pid /\ M[b].pag = Ob[b].pag
  BY <1>2
<1>5. ListaBien(L, M)
  BY <1>2, <1>3 DEF ListaBien
<1> QED BY <1>2, <1>4, <1>5

\* There is always an address for one more.
LEMMA HayDir ==
  ASSUME ListaInv
  PROVE  NuevaDir \in Nat \ {0} /\ NuevaDir \notin DOMAIN objeto
<1> DEFINE D == DOMAIN objeto
           f == [i \in DOMAIN mem_dinamica |-> mem_dinamica[i]]
<1>1. mem_dinamica \in Seq(Nat \ {0}) /\ D = {mem_dinamica[i] : i \in DOMAIN mem_dinamica}
  BY DEF ListaInv, ListaBien
<1>2. IsFiniteSet(DOMAIN mem_dinamica)
  <2>1. DOMAIN mem_dinamica = 1..Len(mem_dinamica) /\ Len(mem_dinamica) \in Int
    BY <1>1
  <2> QED BY <2>1, FS_Interval
<1>3. f \in Surjection(DOMAIN mem_dinamica, D)
  BY <1>1 DEF Surjection
<1>4. IsFiniteSet(D)
  <2> HIDE DEF f, D
  <2> QED BY <1>2, <1>3, FS_Surjection
<1> HIDE DEF D
<1>5. PICK n \in Nat : n = Cardinality(D)
  BY <1>4, FS_CardinalityType
<1>6. Cardinality(1..(n + 1)) = n + 1
  <2>1. Cardinality(1..(n + 1)) = IF 1 > n + 1 THEN 0 ELSE (n + 1) - 1 + 1
    BY FS_Interval
  <2> QED BY <2>1
<1>7. 1..(n + 1) \ D # {}
  <2>1. ASSUME 1..(n + 1) \in SUBSET D PROVE FALSE
    <3>1. Cardinality(1..(n + 1)) <= Cardinality(D)
      BY <1>4, <2>1, FS_Subset
    <3> QED BY <1>5, <1>6, <3>1
  <2> QED BY <2>1
<1>8. NuevaDir = Primero(1..(n + 1) \ D)
  BY <1>5 DEF NuevaDir, D
<1>9. NuevaDir \in 1..(n + 1) \ D
  <2>1. 1..(n + 1) \ D \subseteq Nat
    OBVIOUS
  <2> QED BY <1>7, <1>8, <2>1, PrimeroDe
<1> QED BY <1>9 DEF D

\* Whether the loop of quitarDeMemoriaDinamica removes the element i.
Quita(S, n, f) == f = [i \in 0..n |-> i > 0 /\ i \in S /\ ~f[i - 1]]

LEMMA HayQuita ==
  ASSUME NEW S
  PROVE  \A n \in Nat : \E f : Quita(S, n, f)
<1> DEFINE Malos == {n \in Nat : ~ \E f : Quita(S, n, f)}
<1>1. ASSUME Malos # {} PROVE FALSE
  <2>1. Malos \subseteq Nat
    OBVIOUS
  <2>2. PICK n \in Malos : \A m \in Malos : n <= m
    <3> HIDE DEF Malos
    <3> QED BY <1>1, <2>1, HayPrimero
  <2>3. n \in Nat /\ ~ \E f : Quita(S, n, f)
    OBVIOUS
  <2>4. n # 0
    <3> DEFINE f == [i \in 0..0 |-> FALSE]
    <3>1. \A i \in 0..0 : (i > 0 /\ i \in S /\ ~f[i - 1]) = FALSE
      OBVIOUS
    <3>2. Quita(S, 0, f)
      BY <3>1 DEF Quita
    <3> QED BY <2>3, <3>2
  <2>5. n - 1 \in Nat /\ n - 1 \notin Malos
    BY <2>2, <2>3, <2>4
  <2>6. PICK e : Quita(S, n - 1, e)
    BY <2>5
  <2> DEFINE f == [i \in 0..n |-> IF i = n THEN i \in S /\ ~e[n - 1] ELSE e[i]]
  <2>7. \A i \in 0..(n - 1) : e[i] = (i > 0 /\ i \in S /\ ~e[i - 1])
    BY <2>6 DEF Quita
  <2>8. ASSUME NEW i \in 0..n PROVE f[i] = (i > 0 /\ i \in S /\ ~f[i - 1])
    <3>1. CASE i = n
      <4>1. i - 1 \in 0..n /\ i - 1 # n /\ i > 0
        BY <2>4, <3>1
      <4>2. f[i - 1] = e[i - 1] /\ f[i] = (i \in S /\ ~e[n - 1])
        BY <3>1, <4>1
      <4> HIDE DEF f
      <4> QED BY <3>1, <4>1, <4>2
    <3>2. CASE i # n /\ i # 0
      <4>1. i \in 0..(n - 1) /\ i - 1 \in 0..n /\ i - 1 # n
        BY <3>2
      <4>2. f[i - 1] = e[i - 1] /\ f[i] = e[i]
        BY <3>2, <4>1
      <4> HIDE DEF f
      <4> QED BY <2>7, <4>1, <4>2
    <3>3. CASE i = 0
      <4>1. i \in 0..(n - 1) /\ ~ i > 0 /\ i # n
        BY <2>3, <2>4, <3>3
      <4>2. f[i] = e[i]
        BY <4>1
      <4> HIDE DEF f
      <4> QED BY <2>7, <4>1, <4>2
    <3> QED BY <3>1, <3>2, <3>3
  <2>9. Quita(S, n, f)
    BY <2>8 DEF Quita
  <2> QED BY <2>3, <2>9
<1> QED BY <1>1

LEMMA QuitaSuyas ==
  ASSUME ListaInv, NEW p
  PROVE  Quitadas(p) \subseteq ReservasDe(p)
<1> DEFINE n == Len(mem_dinamica)
           f == CHOOSE x : Quita(ReservasDe(p), n, x)
<1>1. n \in Nat /\ DOMAIN mem_dinamica = 1..n
  BY DEF ListaInv, ListaBien
<1>2. Quita(ReservasDe(p), n, f)
  <2>1. \E x : Quita(ReservasDe(p), n, x)
    BY <1>1, HayQuita
  <2> QED BY <2>1
<1>3. Quitadas(p) = {i \in DOMAIN mem_dinamica : f[i]}
  BY DEF Quitadas, Quita
<1> HIDE DEF f, n
<1>4. \A i \in 0..n : f[i] = (i > 0 /\ i \in ReservasDe(p) /\ ~f[i - 1])
  BY <1>2 DEF Quita
<1>5. \A i \in DOMAIN mem_dinamica : i \in 0..n
  BY <1>1
<1> QED BY <1>3, <1>4, <1>5

-----------------------------------------------------------------------------
(* The pages and the reservas of one program.                              *)

LEMMA PaginasSon ==
  ASSUME NEW C, DOMAIN C \subseteq Pid \X Nat, NEW q
  PROVE  /\ \A n : n \in DOMAIN PaginasDe(C, q) <=> <<q, n>> \in DOMAIN C
         /\ \A n \in DOMAIN PaginasDe(C, q) : n \in Nat /\ PaginasDe(C, q)[n] = C[<<q, n>>]
         /\ PaginasDe(C, q) = [n \in DOMAIN PaginasDe(C, q) |-> PaginasDe(C, q)[n]]
<1> DEFINE D == {pg[2] : pg \in {x \in DOMAIN C : x[1] = q}}
<1>1. PaginasDe(C, q) = [n \in D |-> C[<<q, n>>]]
  BY DEF PaginasDe
<1>2. ASSUME NEW n \in D PROVE <<q, n>> \in DOMAIN C /\ n \in Nat
  <2>1. PICK pg \in DOMAIN C : pg[1] = q /\ n = pg[2]
    OBVIOUS
  <2> QED BY <2>1
<1>3. ASSUME NEW n, <<q, n>> \in DOMAIN C PROVE n \in D
  <2>1. <<q, n>>[1] = q /\ <<q, n>>[2] = n
    OBVIOUS
  <2> QED BY <1>3, <2>1
<1> HIDE DEF D
<1> QED BY <1>1, <1>2, <1>3

LEMMA PaginasIguales ==
  ASSUME NEW C, DOMAIN C \subseteq Pid \X Nat, NEW D, DOMAIN D \subseteq Pid \X Nat, NEW q,
         \A n \in Nat : <<q, n>> \in DOMAIN C <=> <<q, n>> \in DOMAIN D,
         \A n \in Nat : <<q, n>> \in DOMAIN C => D[<<q, n>>] = C[<<q, n>>]
  PROVE  PaginasDe(D, q) = PaginasDe(C, q)
<1> DEFINE c == PaginasDe(C, q)
           d == PaginasDe(D, q)
<1>1. /\ \A n : n \in DOMAIN c <=> <<q, n>> \in DOMAIN C
      /\ \A n \in DOMAIN c : n \in Nat /\ c[n] = C[<<q, n>>]
      /\ c = [n \in DOMAIN c |-> c[n]]
  BY PaginasSon
<1>2. /\ \A n : n \in DOMAIN d <=> <<q, n>> \in DOMAIN D
      /\ \A n \in DOMAIN d : n \in Nat /\ d[n] = D[<<q, n>>]
      /\ d = [n \in DOMAIN d |-> d[n]]
  BY PaginasSon
<1> HIDE DEF c, d
<1>3. DOMAIN c = DOMAIN d
  BY <1>1, <1>2
<1>4. \A n \in DOMAIN c : c[n] = d[n]
  BY <1>1, <1>2, <1>3
<1> QED BY <1>1, <1>2, <1>3, <1>4 DEF c, d

LEMMA ReservasIguales ==
  ASSUME NEW A, NEW B, NEW q, \A a : a \in DirsDe(A, q) <=> a \in DirsDe(B, q),
         \A a \in DirsDe(A, q) : B[a] = A[a]
  PROVE  ReservaDe(B, q) = ReservaDe(A, q)
<1>1. DirsDe(A, q) = DirsDe(B, q)
  OBVIOUS
<1> QED BY <1>1 DEF ReservaDe

\* A write reaches one page of one program.
LEMMA GrabadoEs ==
  ASSUME DOMAIN contenido \subseteq Pid \X Nat, NEW p, NEW n, NEW g, NEW S,
         NEW C, C = Grabado(p, n, g, S)
  PROVE  /\ Paginado(C)
         /\ \A q : q # p => PaginasDe(C, q) = G(q)
         /\ DOMAIN PaginasDe(C, p) = DOMAIN G(p)
         /\ \A m \in DOMAIN G(p) \ {n} : PaginasDe(C, p)[m] = G(p)[m]
         /\ n \in DOMAIN G(p) =>
              PaginasDe(C, p)[n] = [c \in Celda |-> IF c \in S THEN g[c] ELSE G(p)[n][c]]
<1>1. DOMAIN C = DOMAIN contenido
  BY DEF Grabado
<1>2. \A pg \in DOMAIN contenido : pg # <<p, n>> => C[pg] = contenido[pg]
  BY DEF Grabado
<1>3. <<p, n>> \in DOMAIN contenido =>
        C[<<p, n>>] = [c \in Celda |-> IF c \in S THEN g[c] ELSE contenido[<<p, n>>][c]]
  BY DEF Grabado
<1>4. C = [pg \in DOMAIN C |-> C[pg]]
  BY DEF Grabado
<1>5. Paginado(C)
  BY <1>1, <1>4 DEF Paginado
<1>6. ASSUME NEW q, q # p PROVE PaginasDe(C, q) = G(q)
  <2>1. \A m \in Nat : <<q, m>> \in DOMAIN contenido => C[<<q, m>>] = contenido[<<q, m>>]
    BY <1>2, <1>6
  <2> QED BY <1>1, <2>1, PaginasIguales DEF G
<1>7. /\ \A m : m \in DOMAIN G(p) <=> <<p, m>> \in DOMAIN contenido
      /\ \A m \in DOMAIN G(p) : G(p)[m] = contenido[<<p, m>>]
  BY PaginasSon DEF G
<1>8. /\ \A m : m \in DOMAIN PaginasDe(C, p) <=> <<p, m>> \in DOMAIN contenido
      /\ \A m \in DOMAIN PaginasDe(C, p) : PaginasDe(C, p)[m] = C[<<p, m>>]
  BY <1>1, PaginasSon
<1>9. DOMAIN PaginasDe(C, p) = DOMAIN G(p)
  BY <1>7, <1>8
<1>10. \A m \in DOMAIN G(p) \ {n} : PaginasDe(C, p)[m] = G(p)[m]
  BY <1>2, <1>7, <1>8
<1>11. n \in DOMAIN G(p) =>
         PaginasDe(C, p)[n] = [c \in Celda |-> IF c \in S THEN g[c] ELSE G(p)[n][c]]
  BY <1>3, <1>7, <1>8
<1> QED BY <1>5, <1>6, <1>9, <1>10, <1>11

Quedan(X) == [pg \in DOMAIN contenido \ X |-> contenido[pg]]

SinLasDe(C, p, X) ==
  /\ Paginado(C)
  /\ \A q : q # p => PaginasDe(C, q) = G(q)
  /\ \A n : n \in DOMAIN PaginasDe(C, p) <=> n \in DOMAIN G(p) /\ <<p, n>> \notin X
  /\ \A n \in DOMAIN PaginasDe(C, p) : PaginasDe(C, p)[n] = G(p)[n]

LEMMA SinPaginas ==
  ASSUME DOMAIN contenido \subseteq Pid \X Nat, NEW p, NEW X, \A x \in X : x[1] = p,
         NEW C, C = Quedan(X)
  PROVE  SinLasDe(C, p, X)
<1>1. DOMAIN C = DOMAIN contenido \ X /\ \A pg \in DOMAIN C : C[pg] = contenido[pg]
  BY DEF Quedan
<1>2. Paginado(C)
  BY DEF Paginado, Quedan
<1>3. ASSUME NEW q, q # p PROVE PaginasDe(C, q) = G(q)
  <2>1. \A m \in Nat : <<q, m>> \notin X
    BY <1>3
  <2> QED BY <1>1, <2>1, PaginasIguales DEF G
<1>4. /\ \A m : m \in DOMAIN G(p) <=> <<p, m>> \in DOMAIN contenido
      /\ \A m \in DOMAIN G(p) : G(p)[m] = contenido[<<p, m>>]
  BY PaginasSon DEF G
<1>5. /\ \A m : m \in DOMAIN PaginasDe(C, p) <=> <<p, m>> \in DOMAIN C
      /\ \A m \in DOMAIN PaginasDe(C, p) : PaginasDe(C, p)[m] = C[<<p, m>>]
  BY <1>1, PaginasSon
<1> QED BY <1>1, <1>2, <1>3, <1>4, <1>5 DEF SinLasDe

LEMMA ConPagina ==
  ASSUME DOMAIN contenido \subseteq Pid \X Nat, NEW p \in Pid, NEW k \in Nat, NEW x,
         NEW C, C = [pg \in DOMAIN contenido \cup {<<p, k>>} |->
                       IF pg = <<p, k>> THEN x ELSE contenido[pg]]
  PROVE  /\ Paginado(C)
         /\ \A q : q # p => PaginasDe(C, q) = G(q)
         /\ \A n : n \in DOMAIN PaginasDe(C, p) <=> n \in DOMAIN G(p) \/ n = k
         /\ \A n \in DOMAIN PaginasDe(C, p) : n # k => PaginasDe(C, p)[n] = G(p)[n]
         /\ PaginasDe(C, p)[k] = x
<1>1. /\ DOMAIN C = DOMAIN contenido \cup {<<p, k>>} /\ DOMAIN C \subseteq Pid \X Nat
      /\ \A pg \in DOMAIN C : pg # <<p, k>> => C[pg] = contenido[pg]
      /\ C[<<p, k>>] = x
  OBVIOUS
<1>2. Paginado(C)
  BY <1>1 DEF Paginado
<1>3. ASSUME NEW q, q # p PROVE PaginasDe(C, q) = G(q)
  <2>1. \A m \in Nat : <<q, m>> # <<p, k>>
    BY <1>3
  <2> QED BY <1>1, <2>1, PaginasIguales DEF G
<1>4. /\ \A m : m \in DOMAIN G(p) <=> <<p, m>> \in DOMAIN contenido
      /\ \A m \in DOMAIN G(p) : G(p)[m] = contenido[<<p, m>>]
  BY PaginasSon DEF G
<1>5. /\ \A m : m \in DOMAIN PaginasDe(C, p) <=> <<p, m>> \in DOMAIN C
      /\ \A m \in DOMAIN PaginasDe(C, p) : PaginasDe(C, p)[m] = C[<<p, m>>]
  BY <1>1, PaginasSon
<1>6. \A m : <<p, m>> = <<p, k>> <=> m = k
  OBVIOUS
<1> QED BY <1>1, <1>2, <1>3, <1>4, <1>5, <1>6

-----------------------------------------------------------------------------
(* What a step does to the heap of the program it serves.                  *)

Vale(R, F, n, k, P, V, e, r) == Tipos(R, F) /\ Sano(R, F, n, k, P, V, e, r)

\* When every page has its headers.
LEMMA ValeEs ==
  ASSUME NEW R, NEW F, NEW n, NEW k, NEW P, NEW V, NEW e, NEW r, e # "cabecera"
  PROVE  Vale(R, F, n, k, P, V, e, r) <=>
           /\ Tipos(R, F) /\ Todas(R, F)
           /\ Mapa(R, F, IF e \in {"asignada", "segunda"} THEN n + 1 ELSE n)
           /\ (IF e \in Reserva THEN n + 1 ELSE n) <= k
           /\ P = {x \in Bloques(R, F, DOMAIN R) : e \in EnMano => x.desde # r.pos}
           /\ \A v \in V : v \in Nat /\ v % Pag >= Meta
           /\ Reservando(R, F, n, e, r) /\ Liberando(R, F, e, r) /\ r.pos \in Nat
<1>1. Hechas(R, e, r) = DOMAIN R
  BY DEF Hechas
<1>2. (IF e \in {"asignada", "cabecera", "segunda"} THEN n + 1 ELSE n)
        = IF e \in {"asignada", "segunda"} THEN n + 1 ELSE n
  OBVIOUS
<1> QED BY <1>1, <1>2, Zenon DEF Vale, Sano, Todas

Limpias == {"negada", "buscar", "espacio", "nueva", "nunca", "vacia", "devuelta", "liberada",
            "verificar", "asignar", "libre"}

\* When there is no region between the program and its page either.
LEMMA ValeLimpia ==
  ASSUME NEW R, NEW F, NEW n, NEW k, NEW P, NEW V, NEW e \in Limpias, NEW r
  PROVE  Vale(R, F, n, k, P, V, e, r) <=>
           /\ Tipos(R, F) /\ Todas(R, F) /\ Mapa(R, F, n)
           /\ (IF e \in {"buscar", "espacio", "nueva"} THEN n + 1 ELSE n) <= k
           /\ P = Bloques(R, F, DOMAIN R)
           /\ \A v \in V : v \in Nat /\ v % Pag >= Meta
           /\ Reservando(R, F, n, e, r) /\ Liberando(R, F, e, r) /\ r.pos \in Nat
<1>1. /\ e # "cabecera" /\ e \notin EnMano /\ e \notin {"asignada", "segunda"}
      /\ e \in Reserva <=> e \in {"buscar", "espacio", "nueva"}
  BY DEF Limpias, EnMano, Reserva
<1>2. {x \in Bloques(R, F, DOMAIN R) : e \in EnMano => x.desde # r.pos} = Bloques(R, F, DOMAIN R)
  BY <1>1
<1>3. (IF e \in {"asignada", "segunda"} THEN n + 1 ELSE n) = n
  BY <1>1
<1>4. (IF e \in Reserva THEN n + 1 ELSE n) = IF e \in {"buscar", "espacio", "nueva"} THEN n + 1 ELSE n
  BY <1>1
<1>5. Vale(R, F, n, k, P, V, e, r) <=>
        /\ Tipos(R, F) /\ Todas(R, F)
        /\ Mapa(R, F, IF e \in {"asignada", "segunda"} THEN n + 1 ELSE n)
        /\ (IF e \in Reserva THEN n + 1 ELSE n) <= k
        /\ P = {x \in Bloques(R, F, DOMAIN R) : e \in EnMano => x.desde # r.pos}
        /\ \A v \in V : v \in Nat /\ v % Pag >= Meta
        /\ Reservando(R, F, n, e, r) /\ Liberando(R, F, e, r) /\ r.pos \in Nat
  BY <1>1, ValeEs
<1> QED BY <1>2, <1>3, <1>4, <1>5

LEMMA ValeQuieta ==
  ASSUME NEW R, NEW F, Tipos(R, F), Todas(R, F), NEW n, NEW k, Mapa(R, F, n), n <= k,
         NEW P, P = Bloques(R, F, DOMAIN R), NEW V, \A v \in V : v \in Nat /\ v % Pag >= Meta,
         NEW e \in Limpias \ {"buscar", "espacio", "nueva"}, NEW r,
         Reservando(R, F, n, e, r), Liberando(R, F, e, r), r.pos \in Nat
  PROVE  Vale(R, F, n, k, P, V, e, r)
<1>1. (IF e \in {"buscar", "espacio", "nueva"} THEN n + 1 ELSE n) <= k
  OBVIOUS
<1> QED BY <1>1, ValeLimpia

\* reservarMemoria and verificarAsignar begin, or the request is refused.
LEMMA ValePide ==
  ASSUME NEW R, NEW F, NEW n \in Nat, NEW k \in Nat, NEW P, NEW V, Vale(R, F, n, k, P, V, "libre", Libre),
         NEW e \in {"negada", "buscar", "verificar"}, NEW r, r.pos \in Nat,
         e = "buscar" => r.cant \in Cant /\ r.cant <= Pag - 2 * Meta
  PROVE  Vale(R, F, n, k + 1, P, V, e, r)
<1>1. /\ Mapa(R, F, n) /\ n <= k /\ Todas(R, F) /\ P = Bloques(R, F, DOMAIN R)
      /\ \A v \in V : v \in Nat /\ v % Pag >= Meta
      /\ Tipos(R, F)
  <2>1. "libre" \in Limpias
    BY DEF Limpias
  <2> QED BY <2>1, ValeLimpia
<1>2. Reservando(R, F, n, e, r) /\ Liberando(R, F, e, r)
  BY DEF Reservando, Liberando, Reserva
<1>3. e \in Limpias /\ n <= k + 1 /\ n + 1 <= k + 1
  BY <1>1 DEF Limpias
<1> QED BY <1>1, <1>2, <1>3, ValeLimpia

\* The search of a page goes on: a page with room, no page, or a page that had no
\* block that fits.
LEMMA ValeBusca ==
  ASSUME NEW R, NEW F, NEW n \in Nat, NEW k \in Nat, NEW P, NEW V,
         NEW d \in {"buscar", "espacio"}, NEW r, Vale(R, F, n, k, P, V, d, r),
         NEW e \in {"buscar", "espacio", "nueva"}, NEW x, x.cant = r.cant, x.pos = r.pos,
         e = "espacio" => x.dir \in DOMAIN R /\ R[x.dir].size >= r.cant + Meta
  PROVE  Vale(R, F, n, k, P, V, e, x)
<1>1. /\ Mapa(R, F, n) /\ n + 1 <= k /\ Todas(R, F) /\ P = Bloques(R, F, DOMAIN R)
      /\ \A v \in V : v \in Nat /\ v % Pag >= Meta
      /\ Reservando(R, F, n, d, r) /\ r.pos \in Nat /\ Tipos(R, F)
  <2>1. d \in Limpias
    BY DEF Limpias
  <2> QED BY <2>1, ValeLimpia
<1>2. Reservando(R, F, n, e, x) /\ Liberando(R, F, e, x)
  BY <1>1 DEF Reservando, Liberando, Reserva
<1>3. e \in Limpias
  BY DEF Limpias
<1> QED BY <1>1, <1>2, <1>3, ValeLimpia

\* The counts and the content of pages that are right.
LEMMA TiposDe ==
  ASSUME NEW R, NEW F, Tipos(R, F), NEW a, NEW k, NEW Q, NEW H, Cambio(R, F, a, k, Q, H)
  PROVE  Tipos(Q, H)
<1> USE DEF Cambio
<1>1. Q[a].cant \in Nat /\ Q[a].size \in 0..Pag /\ H[k] \in [Celda -> Nat]
  BY FormaDeHoja
<1> QED BY <1>1 DEF Tipos

\* The block that is split is free.
LEMMA EspacioLibre ==
  ASSUME NEW g, NEW n, NEW t, HojaBien(g, n, t), NEW c, NEW d, d = VerificarEspacio(g, c), d # 0
  PROVE  ~Usado(g, d - Meta)
<1> DEFINE B == {x \in Inicios(g) : ~Usado(g, x) /\ Tam(g, x) >= c + Meta}
<1>1. B # {} /\ d = Primero(B) + Meta
  BY DEF VerificarEspacio
<1>2. B \subseteq Nat
  BY Bloque DEF HojaBien
<1>3. Primero(B) \in B /\ Primero(B) \in Nat
  <2> HIDE DEF B
  <2> QED BY <1>1, <1>2, PrimeroDe
<1>4. d - Meta = Primero(B)
  <2> HIDE DEF B
  <2> QED BY <1>1, <1>3, Enteros
<1> QED BY <1>3, <1>4

\* A block of the page is split.
Parte(R, F, r, a, j, d, Q, H, x) ==
  /\ a = r.dir /\ j = R[a].pag /\ d = VerificarEspacio(F[j], r.cant) /\ d # 0
  /\ DOMAIN Q = DOMAIN R /\ \A b \in DOMAIN R \ {a} : Q[b] = R[b]
  /\ Q[a].pag = j /\ Q[a].size = R[a].size - r.cant - Meta /\ Q[a].cant = R[a].cant + 1
  /\ DOMAIN H = DOMAIN F /\ \A m \in DOMAIN F \ {j} : H[m] = F[m]
  /\ H[j] = Partir(F[j], d, r.cant)
  /\ x.cant = r.cant /\ x.pos = j * Pag + d

LEMMA ValeParte ==
  ASSUME NEW R, NEW F, NEW n \in Nat, NEW k \in Nat, NEW P, NEW V, NEW r, Vale(R, F, n, k, P, V, "espacio", r),
         NEW a, NEW j, NEW d, NEW Q, NEW H, NEW x, Parte(R, F, r, a, j, d, Q, H, x)
  PROVE  Vale(Q, H, n, k, P, V, "grabada", x)
<1> USE DEF Parte
<1> DEFINE y == [desde |-> x.pos, cant |-> x.cant]
<1>1. /\ Mapa(R, F, n) /\ n + 1 <= k /\ Todas(R, F) /\ P = Bloques(R, F, DOMAIN R)
      /\ \A v \in V : v \in Nat /\ v % Pag >= Meta
      /\ r.cant \in Nat /\ r.cant \in Cant /\ r.cant <= Pag - 2 * Meta /\ a \in DOMAIN R /\ Tipos(R, F)
  <2>1. "espacio" \in Limpias
    BY DEF Limpias
  <2>2. Reservando(R, F, n, "espacio", r)
    BY <2>1, ValeLimpia
  <2>3. r.cant \in Nat /\ r.cant \in Cant /\ r.cant <= Pag - 2 * Meta /\ a \in DOMAIN R
    BY <2>2, HeapAssumption DEF Reservando, Reserva
  <2> QED BY <2>1, <2>3, ValeLimpia
<1>2. HojaBien(F[j], R[a].cant, R[a].size) /\ j \in DOMAIN F /\ j \in Nat
  BY <1>1 DEF Todas, Llena, Mapa
<1>3. /\ HojaBien(H[j], R[a].cant + 1, R[a].size - r.cant - Meta) /\ d \in Celda
      /\ EnPagina(j, H[j]) = EnPagina(j, F[j]) \cup {y}
  BY <1>1, <1>2, PartirBien
<1>4. y \notin EnPagina(j, F[j])
  <2>1. ASSUME NEW o \in Usados(F[j], Inicios(F[j])), y = Region(j, F[j], o) PROVE FALSE
    <3>1. y.desde % Pag = o + 2 /\ o \in Nat
      BY <1>2, <2>1, RegionEn
    <3>2. y.desde % Pag = d
      BY <1>2, <1>3, Lugar
    <3>3. ~Usado(F[j], d - Meta)
      BY <1>1, <1>2, EspacioLibre
    <3>4. d - Meta = o /\ Usado(F[j], o)
      BY <3>1, <3>2, Enteros DEF Usados
    <3> QED BY <3>3, <3>4
  <2> QED BY <2>1 DEF EnPagina
<1>5. y.desde \div Pag = j /\ y.desde \in Nat
  BY <1>2, <1>3, Lugar
<1>6. Cambio(R, F, a, j, Q, H)
  <2>1. HojaBien(H[j], Q[a].cant, Q[a].size)
    BY <1>3
  <2> QED BY <1>1, <2>1 DEF Cambio
<1>7. Mapa(Q, H, n) /\ Todas(Q, H) /\ \E B : Reparto(R, F, Q, H, j, B)
  BY <1>1, <1>6, CambiaUna
<1>8. PICK B : /\ P = B \cup EnPagina(j, F[j])
               /\ Bloques(Q, H, DOMAIN Q) = B \cup EnPagina(j, H[j])
               /\ \A z \in B : z.desde \div Pag # j
  BY <1>1, <1>7 DEF Reparto
<1>9. y \notin P
  BY <1>4, <1>5, <1>8
<1>10. Bloques(Q, H, DOMAIN Q) = P \cup {y}
  BY <1>3, <1>8
<1>11. \A z \in P : z.desde # x.pos
  <2>1. ASSUME NEW z \in P PROVE z.desde # y.desde
    <3>1. z \in Bloques(Q, H, DOMAIN Q) /\ y \in Bloques(Q, H, DOMAIN Q) /\ z # y
      BY <1>9, <1>10
    <3> HIDE DEF y
    <3> QED BY <1>7, <3>1, BloquesAparte DEF Todas
  <2> QED BY <2>1
<1>12. P = {z \in Bloques(Q, H, DOMAIN Q) : "grabada" \in EnMano => z.desde # x.pos}
  <2>1. y.desde = x.pos /\ "grabada" \in EnMano
    BY DEF EnMano
  <2> HIDE DEF y
  <2> QED BY <1>10, <1>11, <2>1
<1>13. Reservando(Q, H, n, "grabada", x)
  <2>1. y \in Bloques(Q, H, DOMAIN Q)
    BY <1>10
  <2> QED BY <1>1, <2>1 DEF Reservando
<1>14. Liberando(Q, H, "grabada", x)
  BY DEF Liberando
<1>15. Tipos(Q, H)
  BY <1>1, <1>6, TiposDe
<1>16. x.pos \in Nat
  BY <1>5
<1> QED BY <1>1, <1>7, <1>12, <1>13, <1>14, <1>15, <1>16, ValeEs DEF Reserva

\* While the program has not got, or has given up, one region.
LEMMA ValeEnMano ==
  ASSUME NEW R, NEW F, NEW n, NEW k, NEW P, NEW V, NEW e \in EnMano, NEW r
  PROVE  Vale(R, F, n, k, P, V, e, r) <=>
           /\ Tipos(R, F) /\ Todas(R, F) /\ Mapa(R, F, IF e = "segunda" THEN n + 1 ELSE n)
           /\ (IF e \in {"grabada", "segunda"} THEN n + 1 ELSE n) <= k
           /\ P = {x \in Bloques(R, F, DOMAIN R) : x.desde # r.pos}
           /\ \A v \in V : v \in Nat /\ v % Pag >= Meta
           /\ Reservando(R, F, n, e, r) /\ Liberando(R, F, e, r) /\ r.pos \in Nat
<1>1. /\ e # "cabecera" /\ (e \in {"asignada", "segunda"} <=> e = "segunda")
      /\ e \in Reserva <=> e \in {"grabada", "segunda"}
  BY DEF EnMano, Reserva
<1>2. {x \in Bloques(R, F, DOMAIN R) : e \in EnMano => x.desde # r.pos}
        = {x \in Bloques(R, F, DOMAIN R) : x.desde # r.pos}
  OBVIOUS
<1>3. (IF e \in {"asignada", "segunda"} THEN n + 1 ELSE n) = IF e = "segunda" THEN n + 1 ELSE n
  BY <1>1
<1>4. (IF e \in Reserva THEN n + 1 ELSE n) = IF e \in {"grabada", "segunda"} THEN n + 1 ELSE n
  BY <1>1
<1>5. Vale(R, F, n, k, P, V, e, r) <=>
        /\ Tipos(R, F) /\ Todas(R, F)
        /\ Mapa(R, F, IF e \in {"asignada", "segunda"} THEN n + 1 ELSE n)
        /\ (IF e \in Reserva THEN n + 1 ELSE n) <= k
        /\ P = {x \in Bloques(R, F, DOMAIN R) : e \in EnMano => x.desde # r.pos}
        /\ \A v \in V : v \in Nat /\ v % Pag >= Meta
        /\ Reservando(R, F, n, e, r) /\ Liberando(R, F, e, r) /\ r.pos \in Nat
  BY <1>1, ValeEs
<1> QED BY <1>2, <1>3, <1>4, <1>5

\* One block starts at each place.
LEMMA UnBloque ==
  ASSUME NEW R, NEW F, NEW c, Mapa(R, F, c), Todas(R, F), NEW y \in Bloques(R, F, DOMAIN R)
  PROVE  {x \in Bloques(R, F, DOMAIN R) : x.desde # y.desde} = Bloques(R, F, DOMAIN R) \ {y}
<1>1. ASSUME NEW x \in Bloques(R, F, DOMAIN R), x # y PROVE x.desde # y.desde
  BY <1>1, BloquesAparte DEF Todas
<1> QED BY <1>1

LEMMA LibreVale ==
  ASSUME NEW R, NEW F, NEW n, NEW k, NEW P, NEW V
  PROVE  Vale(R, F, n, k, P, V, "libre", Libre) <=>
           /\ Tipos(R, F) /\ Todas(R, F) /\ Mapa(R, F, n) /\ n <= k
           /\ P = Bloques(R, F, DOMAIN R)
           /\ \A v \in V : v \in Nat /\ v % Pag >= Meta
<1>1. "libre" \in Limpias
  BY DEF Limpias
<1>2. Reservando(R, F, n, "libre", Libre) /\ Liberando(R, F, "libre", Libre) /\ Libre.pos \in Nat
  BY DEF Reservando, Liberando, Reserva, Libre
<1> QED BY <1>1, <1>2, ValeLimpia

\* The program gets its region.
LEMMA ValeEntrega ==
  ASSUME NEW R, NEW F, NEW n \in Nat, NEW k \in Nat, NEW P, NEW V,
         NEW e \in {"grabada", "segunda"}, NEW r, Vale(R, F, n, k, P, V, e, r)
  PROVE  Vale(R, F, IF e = "segunda" THEN n + 1 ELSE n, k,
              P \cup {[desde |-> r.pos, cant |-> r.cant]}, V, "libre", Libre)
<1> DEFINE y == [desde |-> r.pos, cant |-> r.cant]
           m == IF e = "segunda" THEN n + 1 ELSE n
<1>1. /\ Tipos(R, F) /\ Todas(R, F) /\ Mapa(R, F, m) /\ n + 1 <= k
      /\ P = {x \in Bloques(R, F, DOMAIN R) : x.desde # r.pos}
      /\ \A v \in V : v \in Nat /\ v % Pag >= Meta
      /\ Reservando(R, F, n, e, r)
  <2>1. e \in EnMano
    BY DEF EnMano
  <2> HIDE DEF y, m
  <2>2. Tipos(R, F) /\ Todas(R, F) /\ (\A v \in V : v \in Nat /\ v % Pag >= Meta) /\ Reservando(R, F, n, e, r)
    BY <2>1, ValeEnMano
  <2>3. Mapa(R, F, IF e = "segunda" THEN n + 1 ELSE n)
    BY <2>1, ValeEnMano
  <2>4. (IF e \in {"grabada", "segunda"} THEN n + 1 ELSE n) <= k
    BY <2>1, ValeEnMano
  <2>5. P = {x \in Bloques(R, F, DOMAIN R) : x.desde # r.pos}
    BY <2>1, ValeEnMano
  <2>6. n + 1 <= k
    BY <2>4
  <2> QED BY <2>2, <2>3, <2>5, <2>6, Zenon DEF m
<1>2. y \in Bloques(R, F, DOMAIN R) /\ y.desde = r.pos
  BY <1>1 DEF Reservando
<1>3. P = Bloques(R, F, DOMAIN R) \ {y}
  BY <1>1, <1>2, UnBloque
<1>4. P \cup {y} = Bloques(R, F, DOMAIN R)
  BY <1>2, <1>3
<1>5. m <= k
  BY <1>1
<1> HIDE DEF m, y
<1>6. Vale(R, F, m, k, P \cup {y}, V, "libre", Libre)
  BY <1>1, <1>4, <1>5, LibreVale
<1> QED BY <1>6 DEF m, y

\* The same pages have the same blocks.
LEMMA MismosBloques ==
  ASSUME NEW R, NEW F, NEW Q, NEW H, NEW A, \A a \in A : Q[a] = R[a] /\ H[R[a].pag] = F[R[a].pag]
  PROVE  Bloques(Q, H, A) = Bloques(R, F, A)
BY DEF Bloques

\* Memory gives the program a page, or does not.
LEMMA ValePagina ==
  ASSUME NEW R, NEW F, NEW n \in Nat, NEW k \in Nat, NEW P, NEW V, NEW r, Vale(R, F, n, k, P, V, "nueva", r),
         NEW H, \A m \in DOMAIN F : m \in DOMAIN H /\ H[m] = F[m],
         \A m \in DOMAIN H : /\ m \in Nat /\ H[m] \in [Celda -> Nat]
                             /\ m \in DOMAIN F \/ m = 0 \/ m - 1 \in DOMAIN F,
         NEW x, x.cant = r.cant, x.pos = r.pos
  PROVE  Vale(R, H, n, k, P, V, "asignada", x)
<1>1. /\ Tipos(R, F) /\ Todas(R, F) /\ Mapa(R, F, n) /\ n + 1 <= k
      /\ P = Bloques(R, F, DOMAIN R)
      /\ \A v \in V : v \in Nat /\ v % Pag >= Meta
      /\ Reservando(R, F, n, "nueva", r) /\ r.pos \in Nat
  <2>1. "nueva" \in Limpias
    BY DEF Limpias
  <2> QED BY <2>1, ValeLimpia
<1>2. \A a \in DOMAIN R : R[a].pag \in DOMAIN F
  BY <1>1 DEF Todas, Llena
<1>3. Todas(R, H)
  BY <1>1, <1>2 DEF Todas, Llena
<1>4. Bloques(R, H, DOMAIN R) = Bloques(R, F, DOMAIN R)
  BY <1>2, MismosBloques
<1>5. Tipos(R, H)
  BY <1>1 DEF Tipos
<1>6. Mapa(R, H, n + 1) /\ \A a \in DOMAIN R : R[a].pag < Base + n
  <2>1. Base \in Nat
    BY HeapAssumption
  <2>2. \A a \in DOMAIN R : R[a].pag \in Nat /\ Base <= R[a].pag /\ R[a].pag < Base + n
    BY <1>1 DEF Mapa
  <2>3. \A a \in DOMAIN R : R[a].pag < Base + (n + 1)
    BY <2>1, <2>2
  <2>4. \A m \in DOMAIN H : m < Base + (n + 1)
    <3>1. \A m \in DOMAIN F : m \in Nat /\ m < Base + n
      BY <1>1 DEF Mapa
    <3> QED BY <2>1, <3>1
  <2> QED BY <1>1, <2>2, <2>3, <2>4 DEF Mapa
<1>7. Reservando(R, H, n, "asignada", x) /\ Liberando(R, H, "asignada", x)
  BY <1>1, <1>6 DEF Reservando, Liberando, Reserva
<1>8. P = {y \in Bloques(R, H, DOMAIN R) : "asignada" \in EnMano => y.desde # x.pos}
  BY <1>1, <1>4 DEF EnMano
<1> QED BY <1>1, <1>3, <1>5, <1>6, <1>7, <1>8, ValeEs DEF Reserva

\* d is the reserva of the new page j, whose first header is written.
Estrena(R, F, r, d, j, Q, H, x) ==
  /\ d \notin DOMAIN R /\ DOMAIN Q = DOMAIN R \cup {d} /\ \A a \in DOMAIN R : Q[a] = R[a]
  /\ Q[d].pag = j /\ Q[d].size = Pag - 2 * Meta - r.cant /\ Q[d].cant = 1
  /\ DOMAIN H = DOMAIN F /\ \A m \in DOMAIN F \ {j} : H[m] = F[m]
  /\ j \in DOMAIN F => H[j] \in [Celda -> Nat] /\ H[j][0] = 1 /\ H[j][1] = r.cant
  /\ x.cant = r.cant /\ x.pag = j /\ x.pos = j * Pag + Meta

LEMMA ValeAsignada ==
  ASSUME NEW R, NEW F, NEW n \in Nat, NEW k \in Nat, NEW P, NEW V, NEW r, Vale(R, F, n, k, P, V, "asignada", r),
         NEW j, j = Base + n, NEW d, NEW Q, NEW H, NEW x, Estrena(R, F, r, d, j, Q, H, x)
  PROVE  Vale(Q, H, n, k, P, V, "cabecera", x)
<1> USE DEF Estrena
<1>1. /\ Tipos(R, F) /\ Todas(R, F) /\ Mapa(R, F, n + 1) /\ n + 1 <= k
      /\ P = Bloques(R, F, DOMAIN R)
      /\ \A v \in V : v \in Nat /\ v % Pag >= Meta
      /\ Reservando(R, F, n, "asignada", r)
  <2>1. "asignada" \notin EnMano /\ "asignada" \in Reserva /\ "asignada" # "cabecera"
    BY DEF EnMano, Reserva
  <2>2. /\ Tipos(R, F) /\ Todas(R, F)
        /\ Mapa(R, F, IF "asignada" \in {"asignada", "segunda"} THEN n + 1 ELSE n)
        /\ (IF "asignada" \in Reserva THEN n + 1 ELSE n) <= k
        /\ P = {y \in Bloques(R, F, DOMAIN R) : "asignada" \in EnMano => y.desde # r.pos}
        /\ \A v \in V : v \in Nat /\ v % Pag >= Meta
        /\ Reservando(R, F, n, "asignada", r)
    BY <2>1, ValeEs
  <2> QED BY <2>1, <2>2
<1>2. /\ r.cant \in Nat /\ r.cant \in Cant /\ r.cant <= Pag - 2 * Meta
      /\ \A a \in DOMAIN R : R[a].pag < Base + n
  BY <1>1, HeapAssumption DEF Reservando, Reserva
<1>3. Base \in Nat /\ j \in Nat
  BY HeapAssumption
<1>4. \A a \in DOMAIN R : R[a].pag \in DOMAIN F \ {j} /\ R[a].pag \in Nat /\ Base <= R[a].pag
  BY <1>1, <1>2, <1>3 DEF Todas, Llena, Mapa
<1>5. Hechas(Q, "cabecera", x) = DOMAIN R
  BY <1>4 DEF Hechas
<1>6. \A a \in DOMAIN R : Llena(H, Q[a])
  BY <1>1, <1>4 DEF Todas, Llena
<1>7. Bloques(Q, H, DOMAIN R) = Bloques(R, F, DOMAIN R)
  BY <1>4, MismosBloques
<1>8. Tipos(Q, H)
  <2>1. Pag - 2 * Meta - r.cant \in 0..Pag /\ 1 \in Nat
    BY <1>2, Enteros
  <2>2. \A a \in DOMAIN Q : Q[a].size \in 0..Pag /\ Q[a].cant \in Nat
    BY <1>1, <2>1 DEF Tipos
  <2>3. \A m \in DOMAIN H : H[m] \in [Celda -> Nat]
    BY <1>1 DEF Tipos
  <2> QED BY <2>2, <2>3 DEF Tipos
<1>9. Mapa(Q, H, n + 1)
  <2>1. \A a, b \in DOMAIN Q : Q[a].pag = Q[b].pag => a = b
    BY <1>1, <1>4 DEF Mapa
  <2>2. \A a \in DOMAIN Q : Q[a].pag \in Nat /\ Base <= Q[a].pag /\ Q[a].pag < Base + (n + 1)
    BY <1>1, <1>3 DEF Mapa
  <2>3. \A m \in DOMAIN H : m \in Nat /\ m < Base + (n + 1)
    BY <1>1 DEF Mapa
  <2> QED BY <2>1, <2>2, <2>3 DEF Mapa
<1>10. Reservando(Q, H, n, "cabecera", x)
  <2>1. d \in DOMAIN Q /\ Q[d].pag = x.pag /\ Q[d].cant = 1 /\ Q[d].size = Pag - 2 * Meta - x.cant
    OBVIOUS
  <2> QED BY <1>2, <2>1 DEF Reservando
<1>11. Liberando(Q, H, "cabecera", x)
  BY DEF Liberando
<1>12. x.pos \in Nat
  <2>1. j * Pag \in Nat
    BY <1>3, Enteros
  <2> QED BY <2>1, Enteros
<1>13. P = {y \in Bloques(Q, H, Hechas(Q, "cabecera", x)) : "cabecera" \in EnMano => y.desde # x.pos}
  <2>1. "cabecera" \notin EnMano
    BY DEF EnMano
  <2> QED BY <1>1, <1>5, <1>7, <2>1
<1>14. Mapa(Q, H, IF "cabecera" \in {"asignada", "cabecera", "segunda"} THEN n + 1 ELSE n)
  BY <1>9
<1>15. (IF "cabecera" \in Reserva THEN n + 1 ELSE n) <= k
  BY <1>1
<1> QED BY <1>1, <1>5, <1>6, <1>8, <1>10, <1>11, <1>12, <1>13, <1>14, <1>15 DEF Vale, Sano

\* Its second header is written: the page has its two blocks.
Completa(F, r, j, H, x) ==
  /\ DOMAIN H = DOMAIN F /\ \A m \in DOMAIN F \ {j} : H[m] = F[m]
  /\ H[j] \in [Celda -> Nat] /\ H[j][0] = F[j][0] /\ H[j][1] = F[j][1]
  /\ H[j][2 + r.cant] = 0 /\ H[j][3 + r.cant] = Pag - 4 - r.cant
  /\ x.cant = r.cant /\ x.pag = r.pag /\ x.pos = r.pos

LEMMA ValeCabecera ==
  ASSUME NEW R, NEW F, NEW n \in Nat, NEW k \in Nat, NEW P, NEW V, NEW r, Vale(R, F, n, k, P, V, "cabecera", r),
         NEW j, j = r.pag, j \in DOMAIN F, NEW H, NEW x, Completa(F, r, j, H, x)
  PROVE  Vale(R, H, n, k, P, V, "segunda", x)
<1> USE DEF Completa
<1> DEFINE A == Hechas(R, "cabecera", r)
           y == [desde |-> j * Pag + 0 + Meta, cant |-> r.cant]
<1>1. /\ Tipos(R, F) /\ (\A a \in A : Llena(F, R[a])) /\ Mapa(R, F, n + 1) /\ n + 1 <= k
      /\ P = Bloques(R, F, A)
      /\ \A v \in V : v \in Nat /\ v % Pag >= Meta
      /\ Reservando(R, F, n, "cabecera", r) /\ r.pos \in Nat
  <2>1. "cabecera" \notin EnMano /\ "cabecera" \in Reserva
    BY DEF EnMano, Reserva
  <2>2. /\ Tipos(R, F) /\ (\A a \in A : Llena(F, R[a]))
        /\ Mapa(R, F, IF "cabecera" \in {"asignada", "cabecera", "segunda"} THEN n + 1 ELSE n)
        /\ (IF "cabecera" \in Reserva THEN n + 1 ELSE n) <= k
        /\ P = {z \in Bloques(R, F, A) : "cabecera" \in EnMano => z.desde # r.pos}
        /\ \A v \in V : v \in Nat /\ v % Pag >= Meta
        /\ Reservando(R, F, n, "cabecera", r) /\ r.pos \in Nat
    BY DEF Vale, Sano
  <2> QED BY <2>1, <2>2
<1>2. /\ r.cant \in Nat /\ r.cant \in Cant /\ r.cant <= Pag - 2 * Meta
      /\ j = Base + n /\ r.pos = j * Pag + Meta
      /\ \E a \in DOMAIN R : R[a].pag = j /\ R[a].cant = 1 /\ R[a].size = Pag - 2 * Meta - r.cant
      /\ F[j][0] = 1 /\ F[j][1] = r.cant
  BY <1>1, HeapAssumption DEF Reservando, Reserva
<1>3. PICK a \in DOMAIN R : R[a].pag = j /\ R[a].cant = 1 /\ R[a].size = Pag - 2 * Meta - r.cant
  BY <1>2
<1>4. j \in Nat
  BY <1>2, HeapAssumption
<1>5. HojaBien(H[j], 1, Pag - 4 - r.cant) /\ EnPagina(j, H[j]) = {y}
  <2>1. r.cant <= Pag - 4
    BY <1>2, Enteros
  <2> QED BY <1>2, <2>1, HojaNueva
<1>6. DOMAIN R = A \cup {a} /\ \A b \in A : R[b].pag # j
  <2>1. \A b \in DOMAIN R : b \in A <=> R[b].pag # j
    BY DEF Hechas
  <2>2. A \subseteq DOMAIN R
    BY DEF Hechas
  <2>3. \A b \in DOMAIN R : R[b].pag = j => b = a
    BY <1>1, <1>3 DEF Mapa
  <2> HIDE DEF A
  <2> QED BY <2>1, <2>2, <2>3
<1> HIDE DEF A
<1>7. \A b \in A : R[b].pag \in DOMAIN F \ {j}
  BY <1>1, <1>6 DEF Llena
<1>8. Todas(R, H)
  <2>1. \A b \in A : Llena(H, R[b])
    BY <1>1, <1>7 DEF Llena
  <2>2. Pag - 4 - r.cant = Pag - 2 * Meta - r.cant
    BY Enteros
  <2>3. Llena(H, R[a])
    BY <1>3, <1>5, <2>2 DEF Llena
  <2> QED BY <1>6, <2>1, <2>3 DEF Todas
<1>9. Bloques(R, H, DOMAIN R) = P \cup {y}
  <2>1. Bloques(R, H, A) = P
    BY <1>1, <1>7, MismosBloques
  <2>2. Bloques(R, H, A \cup {a}) = Bloques(R, H, A) \cup EnPagina(R[a].pag, H[R[a].pag])
    BY DEF Bloques
  <2> QED BY <1>3, <1>5, <1>6, <2>1, <2>2
<1>10. y = [desde |-> x.pos, cant |-> x.cant] /\ y.desde = x.pos
  <2>1. j * Pag \in Nat
    BY <1>4, Enteros
  <2>2. j * Pag + 0 + Meta = j * Pag + Meta
    BY <2>1, Enteros
  <2> QED BY <1>2, <2>2
<1>11. y.desde \div Pag = j
  <2>1. Meta \in Celda
    BY <1>2, Enteros DEF Celda
  <2>2. (j * Pag + Meta) \div Pag = j
    BY <1>4, <2>1, Lugar
  <2> QED BY <1>2, <1>10, <2>2
<1>12. \A z \in P : z.desde # x.pos
  <2>1. ASSUME NEW z \in P PROVE z.desde \div Pag # j
    <3>1. A \in SUBSET (DOMAIN R) /\ z \in Bloques(R, F, A)
      BY <1>1, <1>6
    <3>2. PICK b \in A : z.desde \div Pag = R[b].pag
      BY <1>1, <3>1, BloqueEn
    <3> QED BY <1>6, <3>2
  <2> QED BY <1>10, <1>11, <2>1
<1>13. P = {z \in Bloques(R, H, DOMAIN R) : z.desde # x.pos}
  <2> HIDE DEF y
  <2> QED BY <1>9, <1>10, <1>12
<1>14. Tipos(R, H)
  BY <1>1 DEF Tipos
<1>15. Mapa(R, H, n + 1)
  BY <1>1 DEF Mapa
<1>16. Reservando(R, H, n, "segunda", x)
  <2>1. [desde |-> x.pos, cant |-> x.cant] \in Bloques(R, H, DOMAIN R)
    BY <1>9, <1>10
  <2> QED BY <1>2, <2>1 DEF Reservando
<1>17. Liberando(R, H, "segunda", x)
  BY DEF Liberando
<1>18. "segunda" \in EnMano
  BY DEF EnMano
<1> HIDE DEF y
<1> QED BY <1>1, <1>8, <1>13, <1>14, <1>15, <1>16, <1>17, <1>18, ValeEnMano

\* The program gives up what starts at v, a block of its own or one that is free.
Cede(R, F, P, V, r, v, e) ==
  /\ r.pos = v /\ e \in {"tomar", "negada"}
  /\ e = "tomar" <=> \E a \in DOMAIN R : R[a].pag = Pagina(r)
  /\ \/ \E x \in P : x.desde = v
     \/ v \in V /\ (Pagina(r) \in DOMAIN F => ~Usado(F[Pagina(r)], Inicio(r)))

\* liberarMemoria begins, with a region the program holds or one that its page shows
\* as free.
LEMMA ValeLibera ==
  ASSUME NEW R, NEW F, NEW n \in Nat, NEW k \in Nat, NEW P, NEW V, Vale(R, F, n, k, P, V, "libre", Libre),
         NEW r, NEW v, NEW e, Cede(R, F, P, V, r, v, e),
         NEW Z, Z = {x \in P : x.desde # v}, NEW W, W = V \cup {v}
  PROVE  Vale(R, F, n, k + 1, Z, W, e, r)
<1> USE DEF Cede
<1> DEFINE hay == \E a \in DOMAIN R : R[a].pag = Pagina(r)
<1>1. /\ Tipos(R, F) /\ Todas(R, F) /\ Mapa(R, F, n) /\ n <= k
      /\ P = Bloques(R, F, DOMAIN R)
      /\ \A w \in V : w \in Nat /\ w % Pag >= Meta
  BY LibreVale
<1>2. ASSUME NEW x \in P, x.desde = v
      PROVE  /\ v \in Nat /\ v % Pag >= Meta /\ hay
             /\ \E a \in DOMAIN R : R[a].pag = Pagina(r) /\ Inicio(r) \in Inicios(F[R[a].pag])
  <2>1. DOMAIN R \in SUBSET (DOMAIN R) /\ (\A a \in DOMAIN R : Llena(F, R[a])) /\ x \in Bloques(R, F, DOMAIN R)
    BY <1>1 DEF Todas
  <2>2. /\ x.desde \in Nat /\ x.desde % Pag >= Meta
        /\ \E a \in DOMAIN R :
             /\ x.desde \div Pag = R[a].pag
             /\ (x.desde % Pag) - Meta \in Usados(F[R[a].pag], Inicios(F[R[a].pag]))
    BY <1>1, <2>1, BloqueEn
  <2> QED BY <1>2, <2>2 DEF Pagina, Inicio, Usados
<1>3. v \in Nat /\ v % Pag >= Meta
  BY <1>1, <1>2
<1>4. \A w \in W : w \in Nat /\ w % Pag >= Meta
  BY <1>1, <1>3
<1>5. n <= k + 1
  BY <1>1
<1>6. CASE hay
  <2>1. Usado(F[Pagina(r)], Inicio(r)) => Inicio(r) \in Inicios(F[Pagina(r)])
    <3>1. Pagina(r) \in DOMAIN F
      BY <1>1, <1>6 DEF Todas, Llena
    <3> QED BY <1>2, <3>1
  <2>2. Liberando(R, F, "tomar", r)
    BY <1>3, <1>6, <2>1 DEF Liberando
  <2>3. Reservando(R, F, n, "tomar", r)
    BY DEF Reservando, Reserva
  <2>4. Z = {x \in Bloques(R, F, DOMAIN R) : x.desde # r.pos}
    BY <1>1
  <2>5. "tomar" \in EnMano
    BY DEF EnMano
  <2> HIDE DEF hay
  <2>6. Vale(R, F, n, k + 1, Z, W, "tomar", r)
    BY <1>1, <1>3, <1>4, <1>5, <2>2, <2>3, <2>4, <2>5, ValeEnMano
  <2> QED BY <1>6, <2>6 DEF hay
<1>7. CASE ~hay
  <2>1. Z = P
    BY <1>2, <1>7
  <2>2. Reservando(R, F, n, "negada", r) /\ Liberando(R, F, "negada", r)
    BY DEF Reservando, Liberando, Reserva
  <2>3. "negada" \in Limpias
    BY DEF Limpias
  <2> HIDE DEF hay
  <2>4. Vale(R, F, n, k + 1, Z, W, "negada", r)
    BY <1>1, <1>3, <1>4, <1>5, <2>1, <2>2, <2>3, ValeLimpia
  <2> QED BY <1>7, <2>4 DEF hay
<1> QED BY <1>6, <1>7

LEMMA TomarDice ==
  ASSUME NEW R, NEW F, NEW n, NEW k, NEW P, NEW V, NEW e \in {"tomar", "hoja"}, NEW r,
         Vale(R, F, n, k, P, V, e, r)
  PROVE  /\ Tipos(R, F) /\ Todas(R, F) /\ Mapa(R, F, n) /\ n <= k
         /\ P = {x \in Bloques(R, F, DOMAIN R) : x.desde # r.pos}
         /\ \A v \in V : v \in Nat /\ v % Pag >= Meta
         /\ Liberando(R, F, e, r) /\ r.pos \in Nat
<1>1. e \in EnMano
  BY DEF EnMano
<1>2. Mapa(R, F, IF e = "segunda" THEN n + 1 ELSE n) /\ (IF e \in {"grabada", "segunda"} THEN n + 1 ELSE n) <= k
  BY <1>1, ValeEnMano
<1>3. Mapa(R, F, n) /\ n <= k
  BY <1>2
<1>4. Tipos(R, F) /\ Todas(R, F) /\ (\A v \in V : v \in Nat /\ v % Pag >= Meta)
      /\ Liberando(R, F, e, r) /\ r.pos \in Nat
  BY <1>1, ValeEnMano
<1>5. P = {x \in Bloques(R, F, DOMAIN R) : x.desde # r.pos}
  BY <1>1, ValeEnMano
<1> QED BY <1>3, <1>4, <1>5

LEMMA ValeToma ==
  ASSUME NEW R, NEW F, NEW n \in Nat, NEW k \in Nat, NEW P, NEW V, NEW r, Vale(R, F, n, k, P, V, "tomar", r),
         NEW x, x.pos = r.pos, x.dir \in DOMAIN R, R[x.dir].pag = Pagina(r)
  PROVE  Vale(R, F, n, k, P, V, "hoja", x)
<1>1. /\ Tipos(R, F) /\ Todas(R, F) /\ Mapa(R, F, n) /\ n <= k
      /\ P = {y \in Bloques(R, F, DOMAIN R) : y.desde # r.pos}
      /\ \A v \in V : v \in Nat /\ v % Pag >= Meta
      /\ Liberando(R, F, "tomar", r) /\ r.pos \in Nat
  BY TomarDice
<1>2. Reservando(R, F, n, "hoja", x)
  BY DEF Reservando, Reserva
<1>3. Liberando(R, F, "hoja", x)
  BY <1>1 DEF Liberando, Pagina, Inicio
<1>4. "hoja" \in EnMano
  BY DEF EnMano
<1> QED BY <1>1, <1>2, <1>3, <1>4, ValeEnMano

\* The counter of the page says that it has no used block: nothing goes on.
LEMMA ValeNunca ==
  ASSUME NEW R, NEW F, NEW n \in Nat, NEW k \in Nat, NEW P, NEW V, NEW r, Vale(R, F, n, k, P, V, "tomar", r),
         NEW a \in DOMAIN R, R[a].pag = Pagina(r), ~ R[a].cant > 0, NEW x, x.pos = r.pos
  PROVE  Vale(R, F, n, k, P, V, "nunca", x)
<1>1. /\ Tipos(R, F) /\ Todas(R, F) /\ Mapa(R, F, n) /\ n <= k
      /\ P = {y \in Bloques(R, F, DOMAIN R) : y.desde # r.pos}
      /\ \A v \in V : v \in Nat /\ v % Pag >= Meta
      /\ Liberando(R, F, "tomar", r) /\ r.pos \in Nat
  BY TomarDice
<1>2. Usados(F[R[a].pag], Inicios(F[R[a].pag])) = {}
  <2>1. PICK g : g = F[R[a].pag]
    OBVIOUS
  <2>2. HojaBien(g, R[a].cant, R[a].size)
    BY <1>1, <2>1 DEF Todas, Llena
  <2>3. R[a].cant = Cardinality(Usados(g, Inicios(g))) /\ R[a].cant \in Nat
    BY <2>2, FormaDeHoja
  <2>4. IsFiniteSet(Usados(g, Inicios(g)))
    BY <2>2, SueltasFinitas DEF HojaBien
  <2>5. Cardinality(Usados(g, Inicios(g))) = 0
    BY <2>3
  <2> QED BY <2>1, <2>4, <2>5, FS_EmptySet
<1>3. ASSUME NEW y \in Bloques(R, F, DOMAIN R), y.desde = r.pos PROVE FALSE
  <2>1. DOMAIN R \in SUBSET (DOMAIN R) /\ \A b \in DOMAIN R : Llena(F, R[b])
    BY <1>1 DEF Todas
  <2>2. PICK b \in DOMAIN R : /\ y.desde \div Pag = R[b].pag
                              /\ (y.desde % Pag) - Meta \in Usados(F[R[b].pag], Inicios(F[R[b].pag]))
    BY <1>1, <2>1, BloqueEn
  <2>3. R[b].pag = R[a].pag
    BY <1>3, <2>2 DEF Pagina
  <2> QED BY <1>2, <2>2, <2>3
<1>4. P = Bloques(R, F, DOMAIN R)
  BY <1>1, <1>3
<1>5. Reservando(R, F, n, "nunca", x) /\ Liberando(R, F, "nunca", x)
  BY DEF Reservando, Liberando, Reserva
<1>6. "nunca" \in Limpias
  BY DEF Limpias
<1> QED BY <1>1, <1>4, <1>5, <1>6, ValeLimpia

\* The block o of the page j, the one of the reserva a, is what the program gives up.
Suelta(R, F, P, r, a, j, o) ==
  /\ a \in DOMAIN R /\ R[a].pag = j /\ j \in DOMAIN F /\ j \in Nat
  /\ HojaBien(F[j], R[a].cant, R[a].size)
  /\ o \in Usados(F[j], Inicios(F[j])) /\ Region(j, F[j], o).desde = r.pos
  /\ Region(j, F[j], o) \in Bloques(R, F, DOMAIN R)
  /\ P = Bloques(R, F, DOMAIN R) \ {Region(j, F[j], o)}

LEMMA HojaDice ==
  ASSUME NEW R, NEW F, NEW n \in Nat, NEW k \in Nat, NEW P, NEW V, NEW r, Vale(R, F, n, k, P, V, "hoja", r),
         NEW j, j = Pagina(r), NEW o, o = Inicio(r), Usado(F[j], o)
  PROVE  Suelta(R, F, P, r, r.dir, j, o)
<1> DEFINE a == r.dir
           g == F[j]
<1>1. /\ Tipos(R, F) /\ Todas(R, F) /\ Mapa(R, F, n) /\ n <= k
      /\ P = {y \in Bloques(R, F, DOMAIN R) : y.desde # r.pos}
      /\ \A v \in V : v \in Nat /\ v % Pag >= Meta
      /\ Liberando(R, F, "hoja", r) /\ r.pos \in Nat
  BY TomarDice
<1>2. a \in DOMAIN R /\ R[a].pag = j /\ r.pos % Pag >= Meta /\ o \in Inicios(g)
  BY <1>1 DEF Liberando
<1>3. j \in DOMAIN F /\ j \in Nat /\ HojaBien(g, R[a].cant, R[a].size)
  BY <1>1, <1>2 DEF Todas, Llena, Mapa
<1>4. o \in Usados(g, Inicios(g))
  BY <1>2 DEF Usados
<1>5. Region(j, g, o).desde = r.pos
  <2>1. o \in Nat /\ o <= Pag - 2
    BY <1>3, <1>2, Bloque DEF HojaBien
  <2>2. Pag \in Nat /\ Pag > 0
    BY <2>1, Enteros
  <2>3. PICK z \in Nat : z = r.pos
    BY <1>1
  <2> DEFINE d == z \div Pag
             m == z % Pag
  <2>4. d \in Nat /\ m \in 0..(Pag - 1) /\ z = Pag * d + m
    BY <2>2
  <2>5. d = j /\ o = m - 2
    BY <2>3, Enteros DEF Pagina, Inicio
  <2>6. Region(j, g, o).desde = j * Pag + o + 2
    BY <1>3, <1>4, RegionEn
  <2>7. j * Pag = Pag * d /\ j * Pag \in Nat
    BY <1>3, <2>2, <2>5
  <2> HIDE DEF d, m
  <2> QED BY <2>1, <2>3, <2>4, <2>5, <2>6, <2>7
<1>6. Region(j, g, o) \in Bloques(R, F, DOMAIN R)
  BY <1>2, <1>4 DEF Bloques, EnPagina
<1>7. P = Bloques(R, F, DOMAIN R) \ {Region(j, g, o)}
  <2>1. PICK y : y = Region(j, g, o)
    OBVIOUS
  <2> QED BY <1>1, <1>5, <1>6, <2>1, UnBloque
<1> QED BY <1>2, <1>3, <1>4, <1>5, <1>6, <1>7 DEF Suelta

\* The page had no other used block: it leaves the list.
QuedaVacia(R, a, r, Q, x) ==
  /\ R[a].cant = 1 /\ DOMAIN Q = DOMAIN R \ {a} /\ \A b \in DOMAIN Q : Q[b] = R[b]
  /\ x.pos = r.pos /\ x.pag = R[a].pag

LEMMA ValeVacia ==
  ASSUME NEW R, NEW F, NEW n \in Nat, NEW k \in Nat, NEW P, NEW V, NEW r, Vale(R, F, n, k, P, V, "hoja", r),
         NEW a, a = r.dir, NEW j, j = Pagina(r), NEW o, o = Inicio(r), Usado(F[j], o),
         NEW Q, NEW x, QuedaVacia(R, a, r, Q, x)
  PROVE  Vale(Q, F, n, k, P, V, "vacia", x)
<1> USE DEF QuedaVacia
<1> DEFINE g == F[j]
           y == Region(j, g, o)
<1>1. /\ Tipos(R, F) /\ Todas(R, F) /\ Mapa(R, F, n) /\ n <= k
      /\ P = {z \in Bloques(R, F, DOMAIN R) : z.desde # r.pos}
      /\ \A v \in V : v \in Nat /\ v % Pag >= Meta
      /\ Liberando(R, F, "hoja", r) /\ r.pos \in Nat
  BY TomarDice
<1>2. /\ a \in DOMAIN R /\ R[a].pag = j /\ j \in DOMAIN F /\ j \in Nat
      /\ HojaBien(g, R[a].cant, R[a].size)
      /\ o \in Usados(g, Inicios(g)) /\ y.desde = r.pos
      /\ P = Bloques(R, F, DOMAIN R) \ {y}
  <2>1. Suelta(R, F, P, r, a, j, o)
    BY HojaDice
  <2> QED BY <2>1 DEF Suelta
<1> HIDE DEF g
<1>3. Usados(g, Inicios(g)) = {o}
  <2> DEFINE U == Usados(g, Inicios(g))
  <2>1. IsFiniteSet(U) /\ Cardinality(U) = 1
    BY <1>2, SueltasFinitas DEF HojaBien
  <2> HIDE DEF U
  <2>2. \E u : U = {u}
    BY <2>1, FS_Singleton
  <2>3. o \in U
    BY <1>2 DEF U
  <2>4. U = {o}
    BY <2>2, <2>3
  <2> QED BY <2>4 DEF U
<1>4. Bloques(R, F, DOMAIN R) = Bloques(Q, F, DOMAIN Q) \cup {y}
  <2>1. Bloques(R, F, DOMAIN R) = Bloques(R, F, DOMAIN Q) \cup EnPagina(j, g)
    BY <1>2 DEF Bloques, g
  <2>2. EnPagina(j, g) = {y}
    BY <1>3 DEF EnPagina
  <2>3. Bloques(R, F, DOMAIN Q) = Bloques(Q, F, DOMAIN Q)
    BY DEF Bloques
  <2> QED BY <2>1, <2>2, <2>3
<1>5. y \notin Bloques(Q, F, DOMAIN Q)
  <2>1. DOMAIN Q \in SUBSET (DOMAIN R) /\ (\A b \in DOMAIN Q : Llena(F, R[b]))
        /\ Bloques(R, F, DOMAIN Q) = Bloques(Q, F, DOMAIN Q)
    BY <1>1 DEF Todas, Bloques
  <2>2. ASSUME y \in Bloques(R, F, DOMAIN Q) PROVE FALSE
    <3>1. PICK b \in DOMAIN Q : y.desde \div Pag = R[b].pag
      BY <1>1, <2>1, <2>2, BloqueEn
    <3>2. y.desde \div Pag = j
      BY <1>2 DEF Pagina
    <3>3. b = a
      BY <1>1, <1>2, <3>1, <3>2 DEF Mapa
    <3> QED BY <3>3
  <2> QED BY <2>1, <2>2
<1>6. P = Bloques(Q, F, DOMAIN Q)
  <2> HIDE DEF y
  <2> QED BY <1>2, <1>4, <1>5
<1>7. Tipos(Q, F) /\ Todas(Q, F) /\ Mapa(Q, F, n)
  BY <1>1 DEF Tipos, Todas, Mapa
<1>8. Liberando(Q, F, "vacia", x)
  BY <1>1, <1>2 DEF Liberando, Mapa
<1>9. Reservando(Q, F, n, "vacia", x)
  BY DEF Reservando, Reserva
<1>10. "vacia" \in Limpias \ {"buscar", "espacio", "nueva"} /\ x.pos \in Nat
  BY <1>1 DEF Limpias
<1> QED BY <1>1, <1>6, <1>7, <1>8, <1>9, <1>10, ValeQuieta

\* The block is free, and merged with its neighbours.
QuedaMenos(R, F, a, r, j, o, c, Q, H, x) ==
  /\ DOMAIN Q = DOMAIN R /\ \A b \in DOMAIN R \ {a} : Q[b] = R[b]
  /\ Q[a].pag = R[a].pag /\ Q[a].cant = R[a].cant - 1
  /\ Q[a].size = R[a].size + Tam(F[j], o) + Meta * c.veces
  /\ DOMAIN H = DOMAIN F /\ \A m \in DOMAIN F \ {j} : H[m] = F[m]
  /\ H[j] = c.hoja /\ x.pos = r.pos

LEMMA ValeLiberada ==
  ASSUME NEW R, NEW F, NEW n \in Nat, NEW k \in Nat, NEW P, NEW V, NEW r, Vale(R, F, n, k, P, V, "hoja", r),
         NEW a, a = r.dir, NEW j, j = Pagina(r), NEW o, o = Inicio(r), Usado(F[j], o),
         NEW c, c = Compactar(Vaciar(F[j], o), o),
         NEW Q, NEW H, NEW x, QuedaMenos(R, F, a, r, j, o, c, Q, H, x)
  PROVE  Vale(Q, H, n, k, P, V, "liberada", x)
<1> USE DEF QuedaMenos
<1> DEFINE g == F[j]
           y == Region(j, g, o)
<1>1. /\ Tipos(R, F) /\ Todas(R, F) /\ Mapa(R, F, n) /\ n <= k
      /\ P = {z \in Bloques(R, F, DOMAIN R) : z.desde # r.pos}
      /\ \A v \in V : v \in Nat /\ v % Pag >= Meta
      /\ Liberando(R, F, "hoja", r) /\ r.pos \in Nat
  BY TomarDice
<1>2. /\ a \in DOMAIN R /\ R[a].pag = j /\ j \in DOMAIN F /\ j \in Nat
      /\ HojaBien(g, R[a].cant, R[a].size)
      /\ o \in Usados(g, Inicios(g)) /\ y.desde = r.pos
      /\ P = Bloques(R, F, DOMAIN R) \ {y}
  <2>1. Suelta(R, F, P, r, a, j, o)
    BY HojaDice
  <2> QED BY <2>1 DEF Suelta
<1>3. /\ HojaBien(c.hoja, R[a].cant - 1, R[a].size + Tam(g, o) + Meta * c.veces)
      /\ EnPagina(j, c.hoja) = EnPagina(j, g) \ {y}
  BY <1>2, LiberarBien
<1>4. Cambio(R, F, a, j, Q, H)
  <2>1. HojaBien(H[j], Q[a].cant, Q[a].size)
    BY <1>3
  <2> QED BY <1>2, <2>1 DEF Cambio
<1>5. Mapa(Q, H, n) /\ Todas(Q, H) /\ Tipos(Q, H)
  BY <1>1, <1>4, CambiaUna, TiposDe
<1>6. PICK B : Reparto(R, F, Q, H, j, B)
  BY <1>1, <1>4, CambiaUna
<1> HIDE DEF y, g
<1>7. Bloques(Q, H, DOMAIN Q) = B \cup (EnPagina(j, g) \ {y}) /\ Bloques(R, F, DOMAIN R) = B \cup EnPagina(j, g)
  BY <1>3, <1>6 DEF Reparto, g
<1>8. y \notin B
  <2>1. y.desde \div Pag = j
    BY <1>2 DEF Pagina
  <2> QED BY <1>6, <2>1 DEF Reparto
<1>9. P = Bloques(Q, H, DOMAIN Q)
  BY <1>2, <1>7, <1>8
<1>10. Reservando(Q, H, n, "liberada", x) /\ Liberando(Q, H, "liberada", x)
  BY DEF Reservando, Liberando, Reserva
<1>11. "liberada" \in Limpias \ {"buscar", "espacio", "nueva"} /\ x.pos \in Nat
  BY <1>1 DEF Limpias
<1> QED BY <1>1, <1>5, <1>9, <1>10, <1>11, ValeQuieta

\* Memory takes back the page that has left the list, or one the heap does not use.
LEMMA ValeDevuelve ==
  ASSUME NEW R, NEW F, NEW n \in Nat, NEW k \in Nat, NEW P, NEW V, NEW r, Vale(R, F, n, k, P, V, "vacia", r),
         NEW m, m = r.pag \/ (m \in Nat /\ (m < Base \/ m >= Base + k)),
         NEW H, \A i : i \in DOMAIN H <=> i \in DOMAIN F /\ i # m, \A i \in DOMAIN H : H[i] = F[i],
         NEW x, x.pos = r.pos
  PROVE  Vale(R, H, n, k, P, V, "devuelta", x)
<1>1. "vacia" \in Limpias /\ "devuelta" \in Limpias
  BY DEF Limpias
<1>2. /\ Tipos(R, F) /\ Todas(R, F) /\ Mapa(R, F, n) /\ n <= k
      /\ P = Bloques(R, F, DOMAIN R)
      /\ \A v \in V : v \in Nat /\ v % Pag >= Meta
      /\ Liberando(R, F, "vacia", r) /\ r.pos \in Nat
  BY <1>1, ValeLimpia
<1>3. \A a \in DOMAIN R : R[a].pag # m
  <2>1. \A a \in DOMAIN R : R[a].pag \in Nat /\ Base <= R[a].pag /\ R[a].pag < Base + n /\ R[a].pag # r.pag
    BY <1>2 DEF Mapa, Liberando
  <2>2. Base \in Nat /\ n <= k
    BY <1>2, HeapAssumption
  <2> QED BY <2>1, <2>2
<1>4. Todas(R, H)
  BY <1>2, <1>3 DEF Todas, Llena
<1>5. Tipos(R, H) /\ Mapa(R, H, n)
  BY <1>2 DEF Tipos, Mapa
<1>6. Bloques(R, H, DOMAIN R) = Bloques(R, F, DOMAIN R)
  <2>1. \A a \in DOMAIN R : R[a].pag \in DOMAIN H
    BY <1>4 DEF Todas, Llena
  <2> QED BY <2>1, MismosBloques
<1>7. Reservando(R, H, n, "devuelta", x) /\ Liberando(R, H, "devuelta", x)
  BY DEF Reservando, Liberando, Reserva
<1> QED BY <1>1, <1>2, <1>4, <1>5, <1>6, <1>7, ValeLimpia

\* The request ends with nothing more to do.
LEMMA ValeTermina ==
  ASSUME NEW R, NEW F, NEW n \in Nat, NEW k \in Nat, NEW P, NEW V,
         NEW e \in {"devuelta", "liberada"}, NEW r, Vale(R, F, n, k, P, V, e, r)
  PROVE  Vale(R, F, n, k, P, V, "libre", Libre)
<1>1. e \in Limpias
  BY DEF Limpias
<1>2. /\ Tipos(R, F) /\ Todas(R, F) /\ Mapa(R, F, n) /\ n <= k
      /\ P = Bloques(R, F, DOMAIN R)
      /\ \A v \in V : v \in Nat /\ v % Pag >= Meta
  BY <1>1, ValeLimpia
<1> QED BY <1>2, LibreVale

\* verificarAsignar lets the CPU write.
LEMMA ValeVerifica ==
  ASSUME NEW R, NEW F, NEW n \in Nat, NEW k \in Nat, NEW P, NEW V, NEW r, Vale(R, F, n, k, P, V, "verificar", r),
         Pagina(r) \in DOMAIN F, AsignacionOk(F[Pagina(r)], r.pos % Pag, 1), NEW x, x.pos = r.pos
  PROVE  Vale(R, F, n, k, P, V, "asignar", x)
<1>1. "verificar" \in Limpias /\ "asignar" \in Limpias
  BY DEF Limpias
<1>2. /\ Tipos(R, F) /\ Todas(R, F) /\ Mapa(R, F, n) /\ n <= k
      /\ P = Bloques(R, F, DOMAIN R)
      /\ \A v \in V : v \in Nat /\ v % Pag >= Meta
      /\ r.pos \in Nat
  BY <1>1, ValeLimpia
<1>3. Reservando(R, F, n, "asignar", x) /\ Liberando(R, F, "asignar", x)
  BY DEF Reservando, Liberando, Reserva, Pagina
<1> QED BY <1>1, <1>2, <1>3, ValeLimpia

\* It writes in the data of a block: no header changes.
LEMMA ValeEscribe ==
  ASSUME NEW R, NEW F, NEW n \in Nat, NEW k \in Nat, NEW P, NEW V, NEW r, Vale(R, F, n, k, P, V, "asignar", r),
         NEW j, j = Pagina(r), NEW off, off = r.pos % Pag,
         NEW H, DOMAIN H = DOMAIN F, \A m \in DOMAIN F \ {j} : H[m] = F[m],
         j \in DOMAIN F => H[j] \in [Celda -> Nat] /\ \A c \in Celda \ {off} : H[j][c] = F[j][c]
  PROVE  Vale(R, H, n, k, P, V, "libre", Libre)
<1>1. "asignar" \in Limpias
  BY DEF Limpias
<1>2. /\ Tipos(R, F) /\ Todas(R, F) /\ Mapa(R, F, n) /\ n <= k
      /\ P = Bloques(R, F, DOMAIN R)
      /\ \A v \in V : v \in Nat /\ v % Pag >= Meta
      /\ Liberando(R, F, "asignar", r) /\ r.pos \in Nat
  BY <1>1, ValeLimpia
<1>3. j \in DOMAIN F /\ AsignacionOk(F[j], off, 1)
  BY <1>2 DEF Liberando
<1>4. Tipos(R, H) /\ Mapa(R, H, n)
  BY <1>2, <1>3 DEF Tipos, Mapa
<1>5. ASSUME NEW a \in DOMAIN R
      PROVE  Llena(H, R[a]) /\ EnPagina(R[a].pag, H[R[a].pag]) = EnPagina(R[a].pag, F[R[a].pag])
  <2>1. R[a].pag \in DOMAIN F /\ HojaBien(F[R[a].pag], R[a].cant, R[a].size)
    BY <1>2 DEF Todas, Llena
  <2>2. CASE R[a].pag # j
    BY <2>1, <2>2 DEF Llena
  <2>3. CASE R[a].pag = j
    <3>1. off \in Celda
      <4>1. F[j] \in [Celda -> Nat] /\ Cubre(F[j], Inicios(F[j]))
        BY <2>1, <2>3 DEF HojaBien
      <4>2. Pag \in Nat /\ Pag > 0
        BY <4>1, Enteros DEF Cubre
      <4>3. PICK z \in Nat : z = r.pos
        BY <1>2
      <4>4. z % Pag \in 0..(Pag - 1)
        BY <4>2
      <4> QED BY <4>3, <4>4 DEF Celda
    <3>2. HojaBien(H[j], R[a].cant, R[a].size) /\ \A i : EnPagina(i, H[j]) = EnPagina(i, F[j])
      BY <1>3, <2>1, <2>3, <3>1, AsignarBien
    <3> QED BY <2>1, <2>3, <3>2 DEF Llena
  <2> QED BY <2>2, <2>3
<1>6. Todas(R, H)
  BY <1>5 DEF Todas
<1>7. Bloques(R, H, DOMAIN R) = Bloques(R, F, DOMAIN R)
  BY <1>5 DEF Bloques
<1> QED BY <1>2, <1>4, <1>6, <1>7, LibreVale

-----------------------------------------------------------------------------
(* The thread.                                                             *)

\* A thread that waits for no answer.
LEMMA HiloQuieto ==
  ASSUME NEW h, hilo' = [x \in {h} |-> hilo'[h]], UnHilo(hilo'[h]),
         hilo'[h].pc \in {"negada", "buscar", "nueva", "nunca", "vacia", "asignar", "libre"},
         IF hilo'[h].pc = "libre" THEN hilo'[h] = Libre ELSE hilo'[h].pid \in Pid,
         kernel' \in {"vivo", "caido"}, respuestas' = << >>, mutex_memoria_fd' \in {h, Nadie}
  PROVE  HiloInv(h)'
BY DEF HiloInv, Buzon, Lee, Recoge, Andando

\* A thread that waits for an answer with no page.
LEMMA HiloEspera ==
  ASSUME NEW h, hilo' = [x \in {h} |-> hilo'[h]], UnHilo(hilo'[h]), hilo'[h].pid \in Pid,
         hilo'[h].pc \in {"grabada", "asignada", "segunda", "devuelta", "liberada"},
         NEW b \in BOOLEAN, respuestas' = <<Respuesta(h, b)>>,
         kernel' \in {"vivo", "caido"}, mutex_memoria_fd' \in {h, Nadie}
  PROVE  HiloInv(h)'
<1>1. Respuesta(h, b)' = Respuesta(h, b)
  BY DEF Respuesta
<1>2. Buzon(h)'
  BY <1>1 DEF Buzon, Lee, Recoge
<1> QED BY <1>2 DEF HiloInv, Lee, Recoge, Andando

LEMMA PasaEs ==
  ASSUME NEW h, hilo = [x \in {h} |-> hilo[h]], NEW r, Pasa(h, r)
  PROVE  hilo' = [x \in {h} |-> r] /\ hilo'[h] = r /\ hilo' = [x \in {h} |-> hilo'[h]]
<1>1. hilo' = [hilo EXCEPT ![h] = r]
  BY DEF Pasa
<1>2. DOMAIN hilo = {h}
  OBVIOUS
<1>3. hilo' = [x \in {h} |-> r]
  BY <1>1, <1>2
<1> QED BY <1>3

LEMMA LibreEs ==
  /\ UnHilo(Libre) /\ Libre.pc = "libre" /\ Libre.pid = Nadie /\ Libre.pos = 0 /\ Libre.dir = 0
BY DEF UnHilo, Libre

\* The answer that the thread has waited for.
LEMMA RecogeEs ==
  ASSUME NEW h, HiloInv(h), kernel = "vivo", hilo[h].pc \in Recoge
  PROVE  /\ Tail(respuestas) = << >> /\ hilo[h].pid \in Pid
         /\ hilo[h].pc = "cabecera" => (Bien <=> <<hilo[h].pid, hilo[h].pag>> \in DOMAIN contenido)
<1>1. Buzon(h)
  BY DEF HiloInv
<1>2. hilo[h].pc \notin Lee /\ hilo[h].pc # "libre"
  BY DEF Lee, Recoge
<1>3. PICK b \in BOOLEAN : /\ respuestas = <<Respuesta(h, b)>>
                           /\ hilo[h].pc = "cabecera" => (b <=> <<hilo[h].pid, hilo[h].pag>> \in DOMAIN contenido)
  BY <1>1, <1>2 DEF Buzon
<1>4. Tail(respuestas) = << >> /\ Head(respuestas) = Respuesta(h, b)
  BY <1>3
<1>5. Bien <=> b
  BY <1>4 DEF Bien, Respuesta
<1> QED BY <1>2, <1>3, <1>4, <1>5 DEF HiloInv

LEMMA LeeEs ==
  ASSUME NEW h, HiloInv(h), kernel = "vivo", hilo[h].pc \in Lee, NEW n, n = PaginaLeida(hilo[h])
  PROVE  /\ Tail(respuestas) = << >> /\ hilo[h].pid \in Pid
         /\ Bien => /\ <<hilo[h].pid, n>> \in DOMAIN contenido
                    /\ Leida = contenido[<<hilo[h].pid, n>>]
<1>1. respuestas = <<Lectura(h, hilo[h].pid, n)>>
  BY DEF HiloInv, Buzon
<1>2. Tail(respuestas) = << >> /\ Head(respuestas) = Lectura(h, hilo[h].pid, n)
  BY <1>1
<1>3. hilo[h].pid \in Pid
  BY DEF HiloInv, Lee
<1>4. ASSUME Bien PROVE <<hilo[h].pid, n>> \in DOMAIN contenido
  BY <1>2, <1>4 DEF Bien, Lectura, Respuesta
<1>5. ASSUME Bien PROVE Leida = contenido[<<hilo[h].pid, n>>]
  BY <1>2, <1>4, <1>5 DEF Leida, Lectura
<1> QED BY <1>2, <1>3, <1>4, <1>5

LEMMA NadieEspera ==
  ASSUME NEW h, HiloInv(h), kernel = "vivo", hilo[h].pc \in Andando \cup {"libre"}
  PROVE  respuestas = << >>
BY DEF HiloInv, Buzon, Lee, Recoge, Andando

\* What memory answers to a read.
LEMMA PedirHojaEs ==
  ASSUME NEW h, NEW p, NEW n, PedirHoja(h, p, n), respuestas = << >>
  PROVE  respuestas' = <<Lectura(h, p, n)>> /\ contenido' = contenido
<1>1. \A x : Append(<< >>, x) = <<x>>
  OBVIOUS
<1>2. CASE <<p, n>> \in DOMAIN contenido
  <2>1. respuestas' = Append(<< >>, Lectura(h, p, n)) /\ contenido' = contenido
    BY <1>2, Zenon DEF PedirHoja, Lectura
  <2> QED BY <1>1, <2>1
<1>3. CASE <<p, n>> \notin DOMAIN contenido
  <2>1. respuestas' = Append(<< >>, Lectura(h, p, n)) /\ contenido' = contenido
    BY <1>3, Zenon DEF PedirHoja, Responder, Lectura
  <2> QED BY <1>1, <2>1
<1> QED BY <1>2, <1>3

-----------------------------------------------------------------------------
(* What a step leaves alone.                                               *)

\* The program q is as it was.
Igual(q) ==
  /\ estado'[q] = estado[q] /\ O(q)' = O(q) /\ G(q)' = G(q)
  /\ cantPagReservar'[q] = cantPagReservar[q] /\ pedidos'[q] = pedidos[q]
  /\ punteros'[q] = punteros[q] /\ viejos'[q] = viejos[q]

\* A step that serves p keeps the invariant if it keeps it for p.
LEMMA Paso ==
  ASSUME NEW h, HeapInv(h), NEW p \in Pid, hilo[h].pid \in {p, Nadie}, hilo'[h].pid \in {p, Nadie},
         ListaInv', ProgInv', HiloInv(h)', \A q \in Pid \ {p} : Igual(q), Sana(p)' => UnSano(h, p)'
  PROVE  HeapInv(h)'
<1>1. ASSUME NEW q \in Pid, q # p PROVE UnSano(h, q)'
  <2>1. UnSano(h, q) /\ Igual(q) /\ hilo[h].pid # q /\ hilo'[h].pid # q
    BY <1>1, HeapAssumption DEF HeapInv
  <2>2. /\ Sana(q)' = Sana(q) /\ Firme(h, q)' = Firme(h, q) /\ En_(h, q)' = En_(h, q)
        /\ Con(h, q)' = Con(h, q)
    BY <2>1 DEF Igual, Sana, Firme, En_, Con, Libre
  <2> QED BY <2>1, <2>2 DEF UnSano, Igual
<1>2. UnSano(h, p)'
  BY DEF UnSano, Firme
<1> QED BY <1>1, <1>2 DEF HeapInv

Suyo(h, p) ==
  Vale(O(p), G(p), cantPagReservar[p], pedidos[p], punteros[p], viejos[p], En_(h, p), Con(h, p))

LEMMA SuyoAntes ==
  ASSUME NEW h, HeapInv(h), NEW p \in Pid, Sana(p), hilo[h].pc # "terminar"
  PROVE  /\ Suyo(h, p) /\ cantPagReservar[p] \in Nat /\ pedidos[p] \in Nat
         /\ hilo[h].pid = p => En_(h, p) = hilo[h].pc /\ Con(h, p) = hilo[h]
         /\ hilo[h].pid # p => En_(h, p) = "libre" /\ Con(h, p) = Libre
<1>1. Firme(h, p)
  BY DEF Firme
<1>2. Suyo(h, p)
  BY <1>1 DEF HeapInv, UnSano, Suyo, Vale
<1> QED BY <1>2 DEF HeapInv, ProgInv, En_, Con

LEMMA SuyoDespues ==
  ASSUME NEW h, NEW p, hilo'[h].pid = p,
         Vale(O(p)', G(p)', cantPagReservar'[p], pedidos'[p], punteros'[p], viejos'[p], hilo'[h].pc, hilo'[h])
  PROVE  UnSano(h, p)'
BY DEF UnSano, Vale, En_, Con

LEMMA LibreDespues ==
  ASSUME NEW h, NEW p \in Pid, hilo'[h] = Libre,
         Vale(O(p)', G(p)', cantPagReservar'[p], pedidos'[p], punteros'[p], viejos'[p], "libre", Libre)
  PROVE  UnSano(h, p)'
<1>1. hilo'[h].pid # p /\ Libre' = Libre
  BY LibreEs, HeapAssumption DEF Libre
<1> QED BY <1>1 DEF UnSano, Vale, En_, Con

-----------------------------------------------------------------------------
(* The steps.                                                              *)

LEMMA MismoHeap ==
  ASSUME objeto' = objeto, contenido' = contenido
  PROVE  \A q : O(q)' = O(q) /\ G(q)' = G(q)
BY DEF O, G

\* A step that changes neither the list nor the pages.
LEMMA PasoQuieto ==
  ASSUME NEW h, HeapInv(h), NEW p \in Pid, hilo[h].pid \in {p, Nadie}, hilo'[h].pid \in {p, Nadie},
         mem_dinamica' = mem_dinamica, objeto' = objeto, contenido' = contenido,
         ProgInv', HiloInv(h)',
         \A q \in Pid \ {p} : /\ estado'[q] = estado[q] /\ cantPagReservar'[q] = cantPagReservar[q]
                              /\ pedidos'[q] = pedidos[q] /\ punteros'[q] = punteros[q]
                              /\ viejos'[q] = viejos[q],
         Sana(p)' => UnSano(h, p)'
  PROVE  HeapInv(h)'
<1>1. \A q \in Pid \ {p} : Igual(q)
  BY MismoHeap DEF Igual
<1>2. ListaInv'
  BY DEF HeapInv, ListaInv
<1> QED BY <1>1, <1>2, Paso

\* The thread is free and p goes on with e.
Contestado(h, p, e) ==
  /\ p \in Pid
  /\ hilo' = [x \in {h} |-> hilo'[h]] /\ hilo'[h] = Libre /\ hilo'[h].pid = Nadie
  /\ estado' \in [Pid -> {"corre", "fallo", "sale", "fin"}]
  /\ \A q \in Pid \ {p} : estado'[q] = estado[q]
  /\ e = "corre" => estado' = estado
  /\ e # "corre" => ~Sana(p)'
  /\ Sana(p)' => Sana(p)

LEMMA ContestaEs ==
  ASSUME NEW h, HeapInv(h), hilo[h].pc # "libre", NEW p, p = hilo[h].pid,
         NEW e \in {"corre", "fallo", "sale", "fin"}, Contesta(h, e)
  PROVE  Contestado(h, p, e)
<1>1. p \in Pid /\ hilo = [x \in {h} |-> hilo[h]]
  BY DEF HeapInv, HiloInv
<1>2. hilo' = [x \in {h} |-> hilo'[h]] /\ hilo'[h] = Libre
  BY <1>1, PasaEs DEF Contesta
<1>3. estado \in [Pid -> {"corre", "fallo", "sale", "fin"}]
  BY DEF HeapInv, ProgInv
<1>4. estado' = [estado EXCEPT ![p] = IF e = "corre" THEN @ ELSE e]
  BY DEF Contesta
<1>5. estado' \in [Pid -> {"corre", "fallo", "sale", "fin"}] /\ \A q \in Pid \ {p} : estado'[q] = estado[q]
  BY <1>1, <1>3, <1>4
<1>6. e = "corre" => estado' = estado
  BY <1>1, <1>3, <1>4
<1>7. e # "corre" => ~Sana(p)'
  BY <1>1, <1>3, <1>4 DEF Sana
<1>8. Sana(p)' => Sana(p)
  BY <1>6, <1>7 DEF Sana
<1> QED BY <1>1, <1>2, <1>5, <1>6, <1>7, <1>8, LibreEs DEF Contestado

LEMMA PideEs ==
  ASSUME NEW h \in Hilo, HeapInv(h), NEW p \in Pid, NEW r, UnHilo(r), Pide(h, p, r)
  PROVE  /\ hilo[h] = Libre /\ hilo[h].pc = "libre" /\ hilo[h].pid = Nadie /\ hilo[h].pid # p
         /\ hilo' = [x \in {h} |-> hilo'[h]] /\ hilo'[h] = [r EXCEPT !.pid = p]
         /\ UnHilo(hilo'[h]) /\ hilo'[h].pid = p /\ hilo'[h].pc = r.pc /\ hilo'[h].pos = r.pos
         /\ hilo'[h].cant = r.cant /\ hilo'[h].ind = r.ind /\ hilo'[h].dir = r.dir
         /\ pedidos' \in [Pid -> Nat] /\ \A q \in Pid : pedidos'[q] <= MaxPedidos[q]
         /\ \A q \in Pid \ {p} : pedidos'[q] = pedidos[q]
         /\ pedidos'[p] = pedidos[p] + 1
<1>1. hilo[h].pc = "libre" /\ hilo = [x \in {h} |-> hilo[h]] /\ hilo[h] = Libre
  BY DEF HeapInv, HiloInv, Pide, En
<1>2. hilo'[h] = [r EXCEPT !.pid = p] /\ hilo' = [x \in {h} |-> hilo'[h]]
  BY <1>1, PasaEs DEF Pide
<1>3. /\ UnHilo(hilo'[h]) /\ hilo'[h].pid = p /\ hilo'[h].pc = r.pc /\ hilo'[h].pos = r.pos
      /\ hilo'[h].cant = r.cant /\ hilo'[h].ind = r.ind /\ hilo'[h].dir = r.dir
  BY <1>2 DEF UnHilo
<1>4. pedidos \in [Pid -> Nat] /\ (\A q \in Pid : pedidos[q] <= MaxPedidos[q]) /\ MaxPedidos \in [Pid -> Nat]
  BY HeapAssumption DEF HeapInv, ProgInv
<1>5. pedidos' = [pedidos EXCEPT ![p] = @ + 1] /\ pedidos[p] < MaxPedidos[p] /\ hilo[h].pid # p
  BY DEF Pide
<1>6. /\ pedidos' \in [Pid -> Nat] /\ pedidos'[p] = pedidos[p] + 1
      /\ \A q \in Pid \ {p} : pedidos'[q] = pedidos[q]
  BY <1>4, <1>5
<1>7. \A q \in Pid : pedidos'[q] <= MaxPedidos[q]
  BY <1>4, <1>5, <1>6
<1> QED BY <1>1, <1>2, <1>3, <1>5, <1>6, <1>7, LibreEs

LEMMA ReservarMemoriaPaso ==
  ASSUME NEW h \in Hilo, HeapInv(h), kernel = "vivo", NEW p \in Pid, NEW c \in Cant, ReservarMemoria(h, p, c)
  PROVE  HeapInv(h)'
<1>1. PICK e : e = IF c > Pag - 2 * Meta THEN "negada" ELSE "buscar"
  OBVIOUS
<1>2. PICK r : r = [Libre EXCEPT !.pc = e, !.cant = c]
  OBVIOUS
<1>3. UnHilo(r) /\ r.pc \in {"negada", "buscar"} /\ r.pos = 0 /\ r.cant = c
      /\ (r.pc = "buscar" => c <= Pag - 2 * Meta)
  <2>1. UnHilo(r) /\ r.pc = e /\ r.pos = 0 /\ r.cant = c
    BY <1>2 DEF Libre, UnHilo
  <2>2. e \in {"negada", "buscar"} /\ (e = "buscar" => c <= Pag - 2 * Meta)
    <3>1. c \in Nat
      BY HeapAssumption
    <3>2. c <= Pag - 2 * Meta \/ c > Pag - 2 * Meta
      BY <3>1, Enteros
    <3> QED BY <1>1, <3>2
  <2> QED BY <2>1, <2>2
<1>4. Pide(h, p, r) /\ UNCHANGED <<contenido, respuestas, mem_dinamica, objeto, cantPagReservar,
                                   mutex_memoria_fd, kernel, estado, punteros, viejos>>
  BY <1>1, <1>2 DEF ReservarMemoria, memoria, resto, lista
<1>5. /\ hilo[h] = Libre /\ hilo[h].pc = "libre" /\ hilo[h].pid = Nadie /\ hilo[h].pid # p
      /\ hilo' = [x \in {h} |-> hilo'[h]] /\ hilo'[h] = [r EXCEPT !.pid = p]
      /\ UnHilo(hilo'[h]) /\ hilo'[h].pid = p /\ hilo'[h].pc = r.pc /\ hilo'[h].pos = r.pos
      /\ hilo'[h].cant = r.cant /\ hilo'[h].ind = r.ind /\ hilo'[h].dir = r.dir
      /\ pedidos' \in [Pid -> Nat] /\ (\A q \in Pid : pedidos'[q] <= MaxPedidos[q])
      /\ (\A q \in Pid \ {p} : pedidos'[q] = pedidos[q])
      /\ pedidos'[p] = pedidos[p] + 1
  BY <1>3, <1>4, PideEs
<1>6. /\ hilo[h] = Libre /\ hilo[h].pc = "libre" /\ hilo[h].pid = Nadie /\ hilo[h].pid # p
      /\ hilo' = [x \in {h} |-> hilo'[h]]
      /\ UnHilo(hilo'[h]) /\ hilo'[h].pid = p /\ hilo'[h].pc = r.pc /\ hilo'[h].pos = 0
      /\ hilo'[h].cant = c
      /\ pedidos' \in [Pid -> Nat] /\ (\A q \in Pid : pedidos'[q] <= MaxPedidos[q])
      /\ (\A q \in Pid \ {p} : pedidos'[q] = pedidos[q])
      /\ pedidos'[p] = pedidos[p] + 1
  BY <1>3, <1>5
<1>7. ProgInv'
  BY <1>4, <1>6 DEF HeapInv, ProgInv
<1>8. HiloInv(h)'
  <2>1. respuestas = << >> /\ mutex_memoria_fd \in {h, Nadie}
    BY <1>6, NadieEspera DEF HeapInv, HiloInv
  <2> QED BY <1>3, <1>4, <1>6, <2>1, HiloQuieto
<1>9. ASSUME Sana(p)' PROVE UnSano(h, p)'
  <2>1. Sana(p)
    BY <1>4, <1>9 DEF Sana
  <2>2. /\ Vale(O(p), G(p), cantPagReservar[p], pedidos[p], punteros[p], viejos[p], "libre", Libre)
        /\ cantPagReservar[p] \in Nat /\ pedidos[p] \in Nat
    BY <1>6, <2>1, SuyoAntes DEF Suyo
  <2>3. Vale(O(p), G(p), cantPagReservar[p], pedidos[p] + 1, punteros[p], viejos[p], hilo'[h].pc, hilo'[h])
    <3>1. hilo'[h].pos \in Nat /\ hilo'[h].pc \in {"negada", "buscar", "verificar"}
          /\ (hilo'[h].pc = "buscar" => hilo'[h].cant \in Cant /\ hilo'[h].cant <= Pag - 2 * Meta)
      BY <1>3, <1>6
    <3> QED BY <2>2, <3>1, ValePide
  <2> QED BY <1>4, <1>6, <2>3, MismoHeap, SuyoDespues
<1> QED BY <1>4, <1>6, <1>7, <1>8, <1>9, PasoQuieto

LEMMA EnCurso ==
  ASSUME NEW h, HeapInv(h), hilo[h].pc # "libre", NEW p, p = hilo[h].pid
  PROVE  /\ p \in Pid /\ hilo = [x \in {h} |-> hilo[h]] /\ UnHilo(hilo[h])
         /\ mutex_memoria_fd \in {h, Nadie} /\ kernel \in {"vivo", "caido"}
         /\ cantPagReservar[p] \in Nat /\ pedidos[p] \in Nat
         /\ Sana(p) /\ hilo[h].pc # "terminar" =>
              Vale(O(p), G(p), cantPagReservar[p], pedidos[p], punteros[p], viejos[p], hilo[h].pc, hilo[h])
<1>1. p \in Pid /\ hilo = [x \in {h} |-> hilo[h]] /\ UnHilo(hilo[h])
      /\ mutex_memoria_fd \in {h, Nadie} /\ kernel \in {"vivo", "caido"}
  BY DEF HeapInv, HiloInv
<1>2. cantPagReservar[p] \in Nat /\ pedidos[p] \in Nat
  BY <1>1 DEF HeapInv, ProgInv
<1>3. ASSUME Sana(p), hilo[h].pc # "terminar"
      PROVE  Vale(O(p), G(p), cantPagReservar[p], pedidos[p], punteros[p], viejos[p], hilo[h].pc, hilo[h])
  BY <1>1, <1>3, SuyoAntes DEF Suyo
<1> QED BY <1>1, <1>2, <1>3

\* A thread that waits for a page.
LEMMA HiloLee ==
  ASSUME NEW h, hilo' = [x \in {h} |-> hilo'[h]], UnHilo(hilo'[h]), hilo'[h].pid \in Pid,
         hilo'[h].pc \in Lee,
         hilo'[h].pc = "espacio" => hilo'[h].dir \in Dirs(hilo[h].pid)',
         hilo'[h].pc = "hoja" => /\ hilo'[h].ind \in ReservasDe(hilo[h].pid)'
                                 /\ hilo'[h].dir = mem_dinamica'[hilo'[h].ind],
         NEW n, n = IF hilo'[h].pc = "espacio" THEN objeto'[hilo'[h].dir].pag ELSE Pagina(hilo'[h]),
         contenido' = contenido, respuestas' = <<Lectura(h, hilo'[h].pid, n)>>,
         kernel' \in {"vivo", "caido"}, mutex_memoria_fd' \in {h, Nadie}
  PROVE  HiloInv(h)'
<1>1. n = PaginaLeida(hilo[h])'
  BY DEF PaginaLeida, Pagina
<1>2. Lectura(h, hilo[h].pid, PaginaLeida(hilo[h]))' = Lectura(h, hilo'[h].pid, n)
  BY <1>1 DEF Lectura, Respuesta
<1>3. Buzon(h)'
  BY <1>2 DEF Buzon
<1> QED BY <1>3 DEF HiloInv, Lee, Recoge, Andando

\* A step of the thread alone.
LEMMA PasoFijo ==
  ASSUME NEW h, HeapInv(h), hilo[h].pc # "libre", NEW p, p = hilo[h].pid, hilo'[h].pid = p,
         mem_dinamica' = mem_dinamica, objeto' = objeto, contenido' = contenido,
         cantPagReservar' = cantPagReservar, estado' = estado, punteros' = punteros,
         viejos' = viejos, pedidos' = pedidos, HiloInv(h)',
         Sana(p) => Vale(O(p), G(p), cantPagReservar[p], pedidos[p], punteros[p], viejos[p],
                         hilo'[h].pc, hilo'[h])
  PROVE  HeapInv(h)'
<1>1. p \in Pid
  BY EnCurso
<1>2. ProgInv'
  BY DEF HeapInv, ProgInv
<1>3. Sana(p)' => UnSano(h, p)'
  <2>1. Sana(p)' = Sana(p)
    BY DEF Sana
  <2> QED BY <2>1, MismoHeap, SuyoDespues
<1> QED BY <1>1, <1>2, <1>3, PasoQuieto

\* The handler ends and the request has failed.
LEMMA PasoFalla ==
  ASSUME NEW h, HeapInv(h), kernel = "vivo", hilo[h].pc # "libre", NEW e \in {"fallo", "sale"}, Contesta(h, e),
         mem_dinamica' = mem_dinamica, objeto' = objeto, contenido' = contenido,
         cantPagReservar' = cantPagReservar, punteros' = punteros,
         viejos' = viejos, pedidos' = pedidos, kernel' = kernel,
         respuestas' = << >>, mutex_memoria_fd' \in {h, Nadie}
  PROVE  HeapInv(h)'
<1>1. PICK p : p = hilo[h].pid
  OBVIOUS
<1>2. /\ p \in Pid
      /\ hilo' = [x \in {h} |-> hilo'[h]] /\ hilo'[h] = Libre /\ hilo'[h].pid = Nadie
      /\ estado' \in [Pid -> {"corre", "fallo", "sale", "fin"}]
      /\ (\A q \in Pid \ {p} : estado'[q] = estado[q]) /\ ~Sana(p)'
  <2>1. e \in {"corre", "fallo", "sale", "fin"} /\ e # "corre"
    OBVIOUS
  <2>2. Contestado(h, p, e)
    BY <1>1, <2>1, ContestaEs
  <2> QED BY <2>1, <2>2 DEF Contestado
<1>3. ProgInv'
  BY <1>2 DEF HeapInv, ProgInv
<1>4. HiloInv(h)'
  BY <1>2, HiloQuieto, LibreEs
<1> QED BY <1>1, <1>2, <1>3, <1>4, PasoQuieto

\* The handler ends and the program goes on.
LEMMA PasoCorre ==
  ASSUME NEW h, HeapInv(h), kernel = "vivo", hilo[h].pc # "libre", Contesta(h, "corre"),
         NEW p, p = hilo[h].pid, ListaInv',
         Paginado(contenido'), cantPagReservar' \in [Pid -> Nat], punteros' = [q \in Pid |-> punteros'[q]],
         pedidos' = pedidos, viejos' = viejos, kernel' = kernel,
         respuestas' = << >>, mutex_memoria_fd' \in {h, Nadie},
         \A q \in Pid \ {p} : /\ O(q)' = O(q) /\ G(q)' = G(q) /\ cantPagReservar'[q] = cantPagReservar[q]
                              /\ punteros'[q] = punteros[q],
         Sana(p) => Vale(O(p)', G(p)', cantPagReservar'[p], pedidos[p], punteros'[p], viejos[p], "libre", Libre)
  PROVE  HeapInv(h)'
<1>1. /\ p \in Pid
      /\ hilo' = [x \in {h} |-> hilo'[h]] /\ hilo'[h] = Libre /\ hilo'[h].pid = Nadie
      /\ estado' = estado
  <2>1. Contestado(h, p, "corre")
    BY ContestaEs
  <2> QED BY <2>1 DEF Contestado
<1>2. ProgInv'
  BY <1>1 DEF HeapInv, ProgInv
<1>3. HiloInv(h)'
  BY <1>1, HiloQuieto, LibreEs
<1>4. Sana(p)' => UnSano(h, p)'
  <2>1. Sana(p)' = Sana(p)
    BY <1>1 DEF Sana
  <2> QED BY <1>1, <2>1, LibreDespues
<1>5. \A q \in Pid \ {p} : Igual(q)
  BY <1>1 DEF Igual
<1> QED BY <1>1, <1>2, <1>3, <1>4, <1>5, Paso

LEMMA NegarPaso ==
  ASSUME NEW h \in Hilo, HeapInv(h), kernel = "vivo", Negar(h)
  PROVE  HeapInv(h)'
<1>1. hilo[h].pc = "negada" /\ Contesta(h, "sale")
      /\ UNCHANGED <<contenido, respuestas, mem_dinamica, objeto, cantPagReservar,
                     mutex_memoria_fd, kernel, punteros, pedidos, viejos>>
  BY DEF Negar, En, memoria, resto, lista
<1>2. respuestas = << >> /\ mutex_memoria_fd \in {h, Nadie}
  BY <1>1, NadieEspera DEF HeapInv, HiloInv, Andando
<1> QED BY <1>1, <1>2, PasoFalla

LEMMA ObtenerReservaEs ==
  ASSUME ListaInv, NEW p, NEW c, NEW a, a = ObtenerReserva(p, c), a # 0
  PROVE  a \in Dirs(p) /\ objeto[a].size >= c + Meta
<1> DEFINE S == {i \in ReservasDe(p) : objeto[mem_dinamica[i]].size >= c + Meta}
<1>1. S # {} /\ a = mem_dinamica[Primero(S)]
  BY DEF ObtenerReserva
<1>2. S \subseteq Nat
  BY DEF ReservasDe, ListaInv, ListaBien
<1>3. Primero(S) \in S
  <2> HIDE DEF S
  <2> QED BY <1>1, <1>2, PrimeroDe
<1>4. PICK i : i = Primero(S) /\ i \in S
  BY <1>3
<1>5. a = mem_dinamica[i] /\ i \in DOMAIN mem_dinamica /\ objeto[a].pid = p /\ objeto[a].size >= c + Meta
  BY <1>1, <1>4 DEF ReservasDe
<1> QED BY <1>5 DEF Dirs, DirsDe, ListaInv, ListaBien

LEMMA BuscarPaso ==
  ASSUME NEW h \in Hilo, HeapInv(h), kernel = "vivo", Buscar(h)
  PROVE  HeapInv(h)'
<1>1. PICK p, a : p = hilo[h].pid /\ a = ObtenerReserva(p, hilo[h].cant)
  OBVIOUS
<1>2. /\ hilo[h].pc = "buscar"
      /\ UNCHANGED <<mem_dinamica, objeto, cantPagReservar, mutex_memoria_fd, kernel,
                     estado, punteros, viejos, pedidos>>
      /\ IF a # 0
         THEN /\ PedirHoja(h, p, objeto[a].pag)
              /\ Pasa(h, [hilo[h] EXCEPT !.pc = "espacio", !.dir = a])
         ELSE Pasa(h, [hilo[h] EXCEPT !.pc = "nueva"]) /\ UNCHANGED <<contenido, respuestas>>
  BY <1>1 DEF Buscar, En, PasaA, memoria, resto, lista, programa
<1>3. /\ p \in Pid /\ hilo = [x \in {h} |-> hilo[h]] /\ UnHilo(hilo[h])
      /\ mutex_memoria_fd \in {h, Nadie} /\ cantPagReservar[p] \in Nat /\ pedidos[p] \in Nat
      /\ Sana(p) => Vale(O(p), G(p), cantPagReservar[p], pedidos[p], punteros[p], viejos[p], "buscar", hilo[h])
  BY <1>1, <1>2, EnCurso
<1>4. respuestas = << >>
  BY <1>2, NadieEspera DEF HeapInv, Andando
<1>5. CASE a # 0
  <2>1. a \in Dirs(p) /\ objeto[a].size >= hilo[h].cant + Meta
    BY <1>1, <1>5, ObtenerReservaEs DEF HeapInv
  <2>2. Pasa(h, [hilo[h] EXCEPT !.pc = "espacio", !.dir = a]) /\ PedirHoja(h, p, objeto[a].pag)
    BY <1>2, <1>5
  <2>3. /\ hilo' = [x \in {h} |-> hilo'[h]] /\ hilo'[h] = [hilo[h] EXCEPT !.pc = "espacio", !.dir = a]
        /\ respuestas' = <<Lectura(h, p, objeto[a].pag)>> /\ contenido' = contenido
    <3>1. respuestas' = <<Lectura(h, p, objeto[a].pag)>> /\ contenido' = contenido
      BY <1>4, <2>2, PedirHojaEs
    <3> QED BY <1>3, <2>2, <3>1, PasaEs
  <2>4. /\ UnHilo(hilo'[h]) /\ hilo'[h].pc = "espacio" /\ hilo'[h].pid = p /\ hilo'[h].dir = a
        /\ hilo'[h].cant = hilo[h].cant /\ hilo'[h].pos = hilo[h].pos
    BY <1>1, <1>3, <2>3 DEF UnHilo
  <2>5. HiloInv(h)'
    <3>1. hilo'[h].dir \in Dirs(hilo[h].pid)'
      BY <1>2, <2>1, <2>4 DEF Dirs
    <3>2. objeto[a].pag = IF hilo'[h].pc = "espacio" THEN objeto'[hilo'[h].dir].pag ELSE Pagina(hilo'[h])
      BY <1>2, <2>4
    <3> QED BY <1>2, <1>3, <2>3, <2>4, <3>1, <3>2, HiloLee DEF Lee
  <2>6. ASSUME Sana(p)
        PROVE  Vale(O(p), G(p), cantPagReservar[p], pedidos[p], punteros[p], viejos[p], hilo'[h].pc, hilo'[h])
    <3>1. hilo'[h].dir \in DOMAIN O(p) /\ O(p)[hilo'[h].dir].size >= hilo[h].cant + Meta
      BY <2>1, <2>4 DEF O, ReservaDe, Dirs
    <3> QED BY <1>3, <2>4, <2>6, <3>1, ValeBusca
  <2> QED BY <1>1, <1>2, <2>3, <2>4, <2>5, <2>6, PasoFijo
<1>6. CASE a = 0
  <2>1. /\ hilo' = [x \in {h} |-> hilo'[h]] /\ hilo'[h] = [hilo[h] EXCEPT !.pc = "nueva"]
        /\ respuestas' = << >> /\ contenido' = contenido
    BY <1>2, <1>3, <1>4, <1>6, PasaEs
  <2>2. /\ UnHilo(hilo'[h]) /\ hilo'[h].pc = "nueva" /\ hilo'[h].pid = p
        /\ hilo'[h].cant = hilo[h].cant /\ hilo'[h].pos = hilo[h].pos
    BY <1>1, <1>3, <2>1 DEF UnHilo
  <2>3. HiloInv(h)'
    BY <1>2, <1>3, <2>1, <2>2, HiloQuieto
  <2>4. ASSUME Sana(p)
        PROVE  Vale(O(p), G(p), cantPagReservar[p], pedidos[p], punteros[p], viejos[p], hilo'[h].pc, hilo'[h])
    BY <1>3, <2>2, <2>4, ValeBusca
  <2> QED BY <1>1, <1>2, <2>1, <2>2, <2>3, <2>4, PasoFijo
<1> QED BY <1>5, <1>6

\* What memory answers to a write.
LEMMA GrabacionEs ==
  ASSUME NEW h, NEW p, NEW n
  PROVE  \E b \in BOOLEAN : /\ Append(<< >>, Grabacion(h, p, n)) = <<Respuesta(h, b)>>
                            /\ b <=> <<p, n>> \in DOMAIN contenido
<1>1. \A x : Append(<< >>, x) = <<x>>
  OBVIOUS
<1>2. CASE <<p, n>> \in DOMAIN contenido
  <2>1. Grabacion(h, p, n) = Respuesta(h, TRUE)
    BY <1>2, Zenon DEF Grabacion, Respuesta
  <2> QED BY <1>1, <1>2, <2>1
<1>3. CASE <<p, n>> \notin DOMAIN contenido
  <2>1. Grabacion(h, p, n) = Respuesta(h, FALSE)
    BY <1>3, Zenon DEF Grabacion, Respuesta
  <2> QED BY <1>1, <1>3, <2>1
<1> QED BY <1>2, <1>3

\* The counts of the reserva change.
LEMMA UnaCambia ==
  ASSUME ListaInv, NEW a \in DOMAIN objeto, NEW t, NEW c, objeto' = Cambiada(objeto, a, t, c),
         mem_dinamica' = mem_dinamica, NEW p, p = objeto[a].pid
  PROVE  /\ ListaInv' /\ \A q : q # p => O(q)' = O(q)
         /\ DOMAIN O(p)' = DOMAIN O(p) /\ \A b \in DOMAIN O(p) \ {a} : O(p)'[b] = O(p)[b]
         /\ a \in DOMAIN O(p) /\ O(p)[a] = objeto[a]
         /\ O(p)'[a].pag = O(p)[a].pag /\ O(p)'[a].size = t /\ O(p)'[a].cant = c
<1>1. /\ ListaBien(mem_dinamica, objeto') /\ DOMAIN objeto' = DOMAIN objeto
      /\ \A b \in DOMAIN objeto \ {a} : objeto'[b] = objeto[b]
      /\ objeto'[a] = [pid |-> objeto[a].pid, pag |-> objeto[a].pag, size |-> t, cant |-> c]
      /\ \A b \in DOMAIN objeto : objeto'[b].pid = objeto[b].pid /\ objeto'[b].pag = objeto[b].pag
  BY ListaCambia DEF ListaInv
<1>2. ListaInv'
  BY <1>1 DEF ListaInv
<1>3. \A q : DirsDe(objeto', q) = DirsDe(objeto, q)
  BY <1>1 DEF DirsDe
<1>4. ASSUME NEW q, q # p PROVE O(q)' = O(q)
  <2>1. \A b \in DirsDe(objeto, q) : objeto'[b] = objeto[b]
    BY <1>1, <1>4 DEF DirsDe
  <2>2. ReservaDe(objeto', q) = ReservaDe(objeto, q)
    BY <1>3, <2>1, ReservasIguales
  <2> QED BY <2>2 DEF O
<1>5. DOMAIN O(p) = DirsDe(objeto, p) /\ DOMAIN O(p)' = DirsDe(objeto, p)
      /\ (\A b \in DirsDe(objeto, p) : O(p)[b] = objeto[b] /\ O(p)'[b] = objeto'[b])
  BY <1>3 DEF O, ReservaDe
<1>6. a \in DirsDe(objeto, p) /\ DirsDe(objeto, p) \subseteq DOMAIN objeto
  BY DEF DirsDe
<1>7. \A b \in DOMAIN O(p) \ {a} : O(p)'[b] = O(p)[b]
  BY <1>1, <1>5, <1>6
<1>8. O(p)'[a].pag = O(p)[a].pag /\ O(p)'[a].size = t /\ O(p)'[a].cant = c /\ O(p)[a] = objeto[a]
  BY <1>1, <1>5, <1>6
<1> QED BY <1>2, <1>4, <1>5, <1>6, <1>7, <1>8

\* A step of the thread, with the list and the pages of its program.
LEMMA PasoSigue ==
  ASSUME NEW h, HeapInv(h), hilo[h].pc # "libre", NEW p, p = hilo[h].pid, hilo'[h].pid = p,
         ListaInv', Paginado(contenido'),
         \A q : q # p => O(q)' = O(q) /\ G(q)' = G(q),
         cantPagReservar' = cantPagReservar, estado' = estado, punteros' = punteros,
         viejos' = viejos, pedidos' = pedidos, HiloInv(h)',
         Sana(p) => Vale(O(p)', G(p)', cantPagReservar[p], pedidos[p], punteros[p], viejos[p],
                         hilo'[h].pc, hilo'[h])
  PROVE  HeapInv(h)'
<1>1. p \in Pid
  BY EnCurso
<1>2. ProgInv'
  BY DEF HeapInv, ProgInv
<1>3. Sana(p)' => UnSano(h, p)'
  <2>1. Sana(p)' = Sana(p)
    BY DEF Sana
  <2> QED BY <2>1, SuyoDespues
<1>4. \A q \in Pid \ {p} : Igual(q)
  BY DEF Igual
<1> QED BY <1>1, <1>2, <1>3, <1>4, Paso

\* What the thread has read, as a page of its program.
LEMMA HojaLeida ==
  ASSUME NEW h, HeapInv(h), kernel = "vivo", hilo[h].pc \in Lee, Bien, NEW p, p = hilo[h].pid,
         NEW n, n = PaginaLeida(hilo[h])
  PROVE  n \in DOMAIN G(p) /\ G(p)[n] = Leida /\ Tail(respuestas) = << >>
<1>1. /\ Tail(respuestas) = << >> /\ p \in Pid
      /\ <<p, n>> \in DOMAIN contenido /\ Leida = contenido[<<p, n>>]
  BY LeeEs DEF HeapInv
<1>2. DOMAIN contenido \subseteq Pid \X Nat
  BY DEF HeapInv, ProgInv, Paginado
<1> QED BY <1>1, <1>2, PaginasSon DEF G

LEMMA RecibirHojaPaso ==
  ASSUME NEW h \in Hilo, HeapInv(h), kernel = "vivo", RecibirHoja(h)
  PROVE  HeapInv(h)'
<1>1. PICK p, a, c, d, j : p = hilo[h].pid /\ a = hilo[h].dir /\ c = hilo[h].cant
                           /\ d = VerificarEspacio(Leida, c) /\ j = objeto[a].pag
  OBVIOUS
<1>2. /\ hilo[h].pc = "espacio" /\ Bien
      /\ UNCHANGED <<mem_dinamica, cantPagReservar, mutex_memoria_fd, kernel,
                     estado, punteros, viejos, pedidos>>
  BY DEF RecibirHoja, Espera, En, programa
<1>3. /\ p \in Pid /\ hilo = [x \in {h} |-> hilo[h]] /\ UnHilo(hilo[h])
      /\ mutex_memoria_fd \in {h, Nadie} /\ cantPagReservar[p] \in Nat /\ pedidos[p] \in Nat
      /\ Sana(p) => Vale(O(p), G(p), cantPagReservar[p], pedidos[p], punteros[p], viejos[p], "espacio", hilo[h])
  BY <1>1, <1>2, EnCurso
<1>4. a \in Dirs(p) /\ j = PaginaLeida(hilo[h])
  BY <1>1, <1>2 DEF HeapInv, HiloInv, PaginaLeida
<1>5. j \in DOMAIN G(p) /\ G(p)[j] = Leida /\ Tail(respuestas) = << >>
  BY <1>1, <1>2, <1>4, HojaLeida DEF Lee
<1>6. CASE d = 0
  <2>1. Pasa(h, [hilo[h] EXCEPT !.pc = "buscar"]) /\ respuestas' = << >> /\ UNCHANGED <<contenido, objeto>>
    BY <1>1, <1>5, <1>6 DEF RecibirHoja, PasaA, Recibe
  <2>2. /\ hilo' = [x \in {h} |-> hilo'[h]] /\ hilo'[h] = [hilo[h] EXCEPT !.pc = "buscar"]
    BY <1>3, <2>1, PasaEs
  <2>3. /\ UnHilo(hilo'[h]) /\ hilo'[h].pc = "buscar" /\ hilo'[h].pid = p
        /\ hilo'[h].cant = hilo[h].cant /\ hilo'[h].pos = hilo[h].pos
    BY <1>1, <1>3, <2>2 DEF UnHilo
  <2>4. HiloInv(h)'
    BY <1>2, <1>3, <2>1, <2>2, <2>3, HiloQuieto
  <2>5. ASSUME Sana(p)
        PROVE  Vale(O(p), G(p), cantPagReservar[p], pedidos[p], punteros[p], viejos[p], hilo'[h].pc, hilo'[h])
    BY <1>3, <2>3, <2>5, ValeBusca
  <2> QED BY <1>1, <1>2, <2>1, <2>3, <2>4, <2>5, PasoFijo
<1>7. CASE d # 0
  <2>1. /\ objeto' = [objeto EXCEPT ![a].size = @ - c - Meta, ![a].cant = @ + 1]
        /\ contenido' = Grabado(p, j, Partir(Leida, d, c), Celda)
        /\ respuestas' = Append(Tail(respuestas), Grabacion(h, p, j))
        /\ Pasa(h, [hilo[h] EXCEPT !.pc = "grabada", !.pos = j * Pag + d])
    BY <1>1, <1>7 DEF RecibirHoja
  <2>2. a \in DOMAIN objeto /\ objeto[a].pid = p /\ UnaReserva(objeto[a]) /\ ListaInv
    BY <1>4 DEF Dirs, DirsDe, HeapInv, ListaInv, ListaBien
  <2>3. objeto' = Cambiada(objeto, a, objeto[a].size - c - Meta, objeto[a].cant + 1)
    BY <2>1, <2>2 DEF Cambiada, UnaReserva
  <2>4. /\ ListaInv' /\ (\A q : q # p => O(q)' = O(q))
        /\ DOMAIN O(p)' = DOMAIN O(p) /\ (\A b \in DOMAIN O(p) \ {a} : O(p)'[b] = O(p)[b])
        /\ a \in DOMAIN O(p) /\ O(p)[a] = objeto[a]
        /\ O(p)'[a].pag = O(p)[a].pag /\ O(p)'[a].size = objeto[a].size - c - Meta
        /\ O(p)'[a].cant = objeto[a].cant + 1
    BY <1>2, <2>2, <2>3, UnaCambia
  <2>5. DOMAIN contenido \subseteq Pid \X Nat
    BY DEF HeapInv, ProgInv, Paginado
  <2>6. /\ Paginado(contenido') /\ (\A q : q # p => PaginasDe(contenido', q) = G(q))
        /\ DOMAIN PaginasDe(contenido', p) = DOMAIN G(p)
        /\ (\A m \in DOMAIN G(p) \ {j} : PaginasDe(contenido', p)[m] = G(p)[m])
        /\ j \in DOMAIN G(p) =>
             PaginasDe(contenido', p)[j] = [x \in Celda |-> IF x \in Celda THEN Partir(Leida, d, c)[x] ELSE G(p)[j][x]]
    BY <2>1, <2>5, GrabadoEs
  <2>7. hilo' = [x \in {h} |-> hilo'[h]] /\ hilo'[h] = [hilo[h] EXCEPT !.pc = "grabada", !.pos = j * Pag + d]
    BY <1>3, <2>1, PasaEs
  <2>8. /\ UnHilo(hilo'[h]) /\ hilo'[h].pc = "grabada" /\ hilo'[h].pid = p
        /\ hilo'[h].cant = hilo[h].cant /\ hilo'[h].pos = j * Pag + d
    BY <1>1, <1>3, <2>7 DEF UnHilo
  <2>9. HiloInv(h)'
    <3>1. PICK b \in BOOLEAN : Append(<< >>, Grabacion(h, p, j)) = <<Respuesta(h, b)>>
      BY GrabacionEs
    <3>2. respuestas' = <<Respuesta(h, b)>>
      BY <1>5, <2>1, <3>1
    <3> QED BY <1>2, <1>3, <2>7, <2>8, <3>2, HiloEspera DEF HeapInv, HiloInv
  <2>10. ASSUME Sana(p)
         PROVE  Vale(O(p)', G(p)', cantPagReservar[p], pedidos[p], punteros[p], viejos[p], hilo'[h].pc, hilo'[h])
    <3>1. Vale(O(p), G(p), cantPagReservar[p], pedidos[p], punteros[p], viejos[p], "espacio", hilo[h])
      BY <1>3, <2>10
    <3>2. /\ G(p)' = PaginasDe(contenido', p) /\ DOMAIN G(p)' = DOMAIN G(p)
          /\ \A m \in DOMAIN G(p) \ {j} : G(p)'[m] = G(p)[m]
      BY <2>6 DEF G
    <3>3. G(p)'[j] = Partir(G(p)[j], d, c)
      <4>1. Partir(Leida, d, c) = [x \in Celda |-> Partir(Leida, d, c)[x]]
        <5>1. HojaBien(G(p)[j], O(p)[a].cant, O(p)[a].size)
          <6>1. Todas(O(p), G(p)) /\ O(p)[a].pag = j
            BY <1>1, <2>4, <3>1, ValeEs
          <6> QED BY <2>4, <6>1 DEF Todas, Llena
        <5>2. Leida \in [Celda -> Nat]
          BY <1>5, <5>1 DEF HojaBien
        <5> QED BY <5>2 DEF Partir, Cabecera
      <4> QED BY <1>5, <2>6, <3>2, <4>1
    <3>4. O(p)[a].pag = j /\ O(p)'[a].pag = j /\ d = VerificarEspacio(G(p)[j], c)
      BY <1>1, <1>5, <2>4
    <3>5. /\ a = hilo[h].dir /\ j = O(p)[a].pag /\ d = VerificarEspacio(G(p)[j], hilo[h].cant) /\ d # 0
          /\ DOMAIN O(p)' = DOMAIN O(p) /\ (\A b \in DOMAIN O(p) \ {a} : O(p)'[b] = O(p)[b])
          /\ O(p)'[a].pag = j /\ O(p)'[a].size = O(p)[a].size - hilo[h].cant - Meta
          /\ O(p)'[a].cant = O(p)[a].cant + 1
          /\ G(p)'[j] = Partir(G(p)[j], d, hilo[h].cant)
          /\ hilo'[h].cant = hilo[h].cant /\ hilo'[h].pos = j * Pag + d
      BY <1>1, <1>7, <2>4, <2>8, <3>3, <3>4
    <3>6. PICK Q, H : Q = O(p)' /\ H = G(p)'
      OBVIOUS
    <3>7. PICK R, F, n, k, P, V, r, x :
             /\ R = O(p) /\ F = G(p) /\ n = cantPagReservar[p] /\ k = pedidos[p] /\ P = punteros[p]
             /\ V = viejos[p] /\ r = hilo[h] /\ x = hilo'[h]
      OBVIOUS
    <3>8. n \in Nat /\ k \in Nat /\ Vale(R, F, n, k, P, V, "espacio", r)
      BY <1>3, <3>1, <3>7
    <3>9. Parte(R, F, r, a, j, d, Q, H, x)
      <4>1. /\ a = r.dir /\ j = R[a].pag /\ d = VerificarEspacio(F[j], r.cant) /\ d # 0
            /\ H[j] = Partir(F[j], d, r.cant) /\ x.cant = r.cant /\ x.pos = j * Pag + d
        BY <3>5, <3>6, <3>7
      <4>2. /\ DOMAIN Q = DOMAIN R /\ (\A b \in DOMAIN R \ {a} : Q[b] = R[b])
            /\ Q[a].pag = j /\ Q[a].size = R[a].size - r.cant - Meta /\ Q[a].cant = R[a].cant + 1
        BY <3>5, <3>6, <3>7
      <4>3. DOMAIN H = DOMAIN F /\ (\A m \in DOMAIN F \ {j} : H[m] = F[m])
        BY <3>2, <3>6, <3>7
      <4> QED BY <4>1, <4>2, <4>3 DEF Parte
    <3>10. Vale(Q, H, n, k, P, V, "grabada", x)
      BY <3>8, <3>9, ValeParte
    <3> QED BY <2>8, <3>6, <3>7, <3>10
  <2> QED BY <1>1, <1>2, <2>4, <2>6, <2>8, <2>9, <2>10, PasoSigue DEF G
<1> QED BY <1>6, <1>7

\* The pointer is the program's.
LEMMA EntregarEs ==
  ASSUME NEW h, HeapInv(h), NEW p \in Pid, p = hilo[h].pid, Entregar(h)
  PROVE  /\ punteros' = [q \in Pid |-> punteros'[q]] /\ \A q \in Pid \ {p} : punteros'[q] = punteros[q]
         /\ punteros'[p] = punteros[p] \cup {[desde |-> hilo[h].pos, cant |-> hilo[h].cant]}
<1>1. punteros = [q \in Pid |-> punteros[q]]
  BY DEF HeapInv, ProgInv
<1>2. PICK x : x = {[desde |-> hilo[h].pos, cant |-> hilo[h].cant]}
  OBVIOUS
<1>3. punteros' = [punteros EXCEPT ![p] = @ \cup x]
  BY <1>2 DEF Entregar
<1>4. DOMAIN punteros = Pid
  BY <1>1
<1> QED BY <1>1, <1>2, <1>3, <1>4

LEMMA RecibirGrabadaPaso ==
  ASSUME NEW h \in Hilo, HeapInv(h), kernel = "vivo", RecibirGrabada(h)
  PROVE  HeapInv(h)'
<1>1. PICK p : p = hilo[h].pid
  OBVIOUS
<1>2. /\ hilo[h].pc = "grabada" /\ respuestas' = Tail(respuestas)
      /\ UNCHANGED <<contenido, mem_dinamica, objeto, cantPagReservar, mutex_memoria_fd, kernel, pedidos, viejos>>
      /\ IF Bien THEN Entregar(h) ELSE Contesta(h, "fallo") /\ UNCHANGED punteros
  BY DEF RecibirGrabada, Espera, En, Recibe, resto, lista
<1>3. /\ p \in Pid /\ mutex_memoria_fd \in {h, Nadie} /\ cantPagReservar[p] \in Nat /\ pedidos[p] \in Nat
      /\ Sana(p) => Vale(O(p), G(p), cantPagReservar[p], pedidos[p], punteros[p], viejos[p], "grabada", hilo[h])
  BY <1>1, <1>2, EnCurso
<1>4. respuestas' = << >>
  BY <1>2, RecogeEs DEF HeapInv, Recoge
<1>5. CASE Bien
  <2>1. Entregar(h) /\ Contesta(h, "corre")
    BY <1>2, <1>5 DEF Entregar
  <2>2. /\ punteros' = [q \in Pid |-> punteros'[q]] /\ (\A q \in Pid \ {p} : punteros'[q] = punteros[q])
        /\ punteros'[p] = punteros[p] \cup {[desde |-> hilo[h].pos, cant |-> hilo[h].cant]}
    BY <1>1, <1>3, <2>1, EntregarEs
  <2>3. ListaInv' /\ Paginado(contenido') /\ cantPagReservar' \in [Pid -> Nat]
    BY <1>2 DEF HeapInv, ListaInv, ProgInv
  <2>4. ASSUME Sana(p)
        PROVE  Vale(O(p), G(p), cantPagReservar[p], pedidos[p], punteros'[p], viejos[p], "libre", Libre)
    <3>1. PICK R, F, n, k, P, V, r :
             /\ R = O(p) /\ F = G(p) /\ n = cantPagReservar[p] /\ k = pedidos[p] /\ P = punteros[p]
             /\ V = viejos[p] /\ r = hilo[h]
      OBVIOUS
    <3>2. n \in Nat /\ k \in Nat /\ Vale(R, F, n, k, P, V, "grabada", r)
      BY <1>3, <2>4, <3>1
    <3>3. Vale(R, F, IF "grabada" = "segunda" THEN n + 1 ELSE n, k,
               P \cup {[desde |-> r.pos, cant |-> r.cant]}, V, "libre", Libre)
      BY <3>2, ValeEntrega
    <3> QED BY <2>2, <3>1, <3>3
  <2>5. O(p)' = O(p) /\ G(p)' = G(p) /\ \A q \in Pid \ {p} : O(q)' = O(q) /\ G(q)' = G(q)
    BY <1>2, MismoHeap
  <2> QED BY <1>1, <1>2, <1>3, <1>4, <2>1, <2>2, <2>3, <2>4, <2>5, PasoCorre
<1>6. CASE ~Bien
  BY <1>2, <1>3, <1>4, <1>6, PasoFalla
<1> QED BY <1>5, <1>6

LEMMA PedirPaginaPaso ==
  ASSUME NEW h \in Hilo, HeapInv(h), kernel = "vivo", PedirPagina(h)
  PROVE  HeapInv(h)'
<1>1. PICK p : p = hilo[h].pid
  OBVIOUS
<1>2. /\ hilo[h].pc = "nueva" /\ mutex_memoria_fd' = h
      /\ Asignar(h, p) /\ Pasa(h, [hilo[h] EXCEPT !.pc = "asignada"])
      /\ UNCHANGED <<mem_dinamica, objeto, cantPagReservar, kernel, estado, punteros, viejos, pedidos>>
  BY <1>1 DEF PedirPagina, En, Toma, PasaA, resto, lista, programa
<1>3. /\ p \in Pid /\ hilo = [x \in {h} |-> hilo[h]] /\ UnHilo(hilo[h])
      /\ cantPagReservar[p] \in Nat /\ pedidos[p] \in Nat
      /\ Sana(p) => Vale(O(p), G(p), cantPagReservar[p], pedidos[p], punteros[p], viejos[p], "nueva", hilo[h])
  BY <1>1, <1>2, EnCurso
<1>4. respuestas = << >>
  BY <1>2, NadieEspera DEF HeapInv, Andando
<1>5. hilo' = [x \in {h} |-> hilo'[h]] /\ hilo'[h] = [hilo[h] EXCEPT !.pc = "asignada"]
  BY <1>2, <1>3, PasaEs
<1>6. /\ UnHilo(hilo'[h]) /\ hilo'[h].pc = "asignada" /\ hilo'[h].pid = p
      /\ hilo'[h].cant = hilo[h].cant /\ hilo'[h].pos = hilo[h].pos
  BY <1>1, <1>3, <1>5 DEF UnHilo
<1>7. HiloInv(h)'
  <2>1. \E b \in BOOLEAN : respuestas' = <<Respuesta(h, b)>>
    <3>1. respuestas' = Append(<< >>, Respuesta(h, Cardinality(EnHeap) < Tope))
      BY <1>2, <1>4, Zenon DEF Asignar, Responder
    <3>2. Respuesta(h, Cardinality(EnHeap) < Tope) \in {Respuesta(h, TRUE), Respuesta(h, FALSE)}
      BY Zenon DEF Respuesta
    <3>3. \A x : Append(<< >>, x) = <<x>>
      OBVIOUS
    <3> QED BY <3>1, <3>2, <3>3
  <2>2. PICK b \in BOOLEAN : respuestas' = <<Respuesta(h, b)>>
    BY <2>1
  <2> QED BY <1>2, <1>3, <1>5, <1>6, <2>2, HiloEspera DEF HeapInv, HiloInv
<1>8. DOMAIN contenido \subseteq Pid \X Nat /\ Paginado(contenido)
  BY DEF HeapInv, ProgInv, Paginado
<1>9. /\ Paginado(contenido') /\ \A q : q # p => G(q)' = G(q)
      /\ \A m \in DOMAIN G(p) : m \in DOMAIN G(p)' /\ G(p)'[m] = G(p)[m]
      /\ \A m \in DOMAIN G(p)' : \/ m \in DOMAIN G(p)
                                 \/ m \in Nat /\ G(p)'[m] = Hoja(Sucio) /\ (m = 0 \/ m - 1 \in DOMAIN G(p))
  <2>1. CASE contenido' = contenido
    BY <1>8, <2>1 DEF G
  <2>2. CASE contenido' # contenido
    <3>1. PICK k \in 0..(Base + Tope) :
             /\ Mem!Sigue(p, k)
             /\ contenido' = [pg \in DOMAIN contenido \cup {<<p, k>>} |->
                                IF pg = <<p, k>> THEN Hoja(Sucio) ELSE contenido[pg]]
      BY <1>2, <2>2, Zenon DEF Asignar
    <3>2. k \in Nat
      BY HeapAssumption
    <3>3. /\ Paginado(contenido') /\ (\A q : q # p => PaginasDe(contenido', q) = G(q))
          /\ (\A n : n \in DOMAIN PaginasDe(contenido', p) <=> n \in DOMAIN G(p) \/ n = k)
          /\ (\A n \in DOMAIN PaginasDe(contenido', p) : n # k => PaginasDe(contenido', p)[n] = G(p)[n])
          /\ PaginasDe(contenido', p)[k] = Hoja(Sucio)
      <4>1. PICK x, D : x = Hoja(Sucio) /\ D = contenido'
        OBVIOUS
      <4>2. D = [pg \in DOMAIN contenido \cup {<<p, k>>} |-> IF pg = <<p, k>> THEN x ELSE contenido[pg]]
        BY <3>1, <4>1
      <4>3. /\ Paginado(D) /\ (\A q : q # p => PaginasDe(D, q) = G(q))
            /\ (\A n : n \in DOMAIN PaginasDe(D, p) <=> n \in DOMAIN G(p) \/ n = k)
            /\ (\A n \in DOMAIN PaginasDe(D, p) : n # k => PaginasDe(D, p)[n] = G(p)[n])
            /\ PaginasDe(D, p)[k] = x
        <5>1. p \in Pid /\ DOMAIN contenido \subseteq Pid \X Nat
          BY <1>3, <1>8
        <5> QED BY <3>2, <4>2, <5>1, ConPagina
      <4> QED BY <4>1, <4>3
    <3>4. k \notin DOMAIN G(p) /\ (k = 0 \/ k - 1 \in DOMAIN G(p))
      <4>1. (\A pg \in DOMAIN contenido : pg[1] = p => pg[2] < k) /\ (k = 0 \/ <<p, k - 1>> \in DOMAIN contenido)
        BY <3>1 DEF Mem!Sigue, Mem!De, Mem!Asignadas
      <4>2. <<p, k>> \notin DOMAIN contenido
        <5>1. ~ k < k
          BY <3>2
        <5> QED BY <4>1, <5>1
      <4> QED BY <1>8, <4>1, <4>2, PaginasSon DEF G
    <3> QED BY <3>2, <3>3, <3>4 DEF G
  <2> QED BY <2>1, <2>2
<1>10. ListaInv' /\ \A q : O(q)' = O(q)
  BY <1>2 DEF HeapInv, ListaInv, O
<1>11. ASSUME Sana(p)
       PROVE  Vale(O(p)', G(p)', cantPagReservar[p], pedidos[p], punteros[p], viejos[p], hilo'[h].pc, hilo'[h])
  <2>1. PICK R, F, n, k, P, V, r, x, H :
           /\ R = O(p) /\ F = G(p) /\ n = cantPagReservar[p] /\ k = pedidos[p] /\ P = punteros[p]
           /\ V = viejos[p] /\ r = hilo[h] /\ x = hilo'[h] /\ H = G(p)'
    OBVIOUS
  <2>2. n \in Nat /\ k \in Nat /\ Vale(R, F, n, k, P, V, "nueva", r)
    BY <1>3, <1>11, <2>1
  <2>3. Tipos(R, F)
    BY <2>2 DEF Vale
  <2>4. Hoja(Sucio) \in [Celda -> Nat]
    BY HeapAssumption DEF Hoja
  <2>5. \A m \in DOMAIN F : m \in DOMAIN H /\ H[m] = F[m]
    BY <1>9, <2>1
  <2>6. \A m \in DOMAIN F : m \in Nat /\ F[m] \in [Celda -> Nat]
    BY <1>8, <2>1, <2>3, PaginasSon DEF G, Tipos
  <2>7. \A m \in DOMAIN H : /\ m \in Nat /\ H[m] \in [Celda -> Nat]
                            /\ m \in DOMAIN F \/ m = 0 \/ m - 1 \in DOMAIN F
    BY <1>9, <2>1, <2>4, <2>5, <2>6
  <2>8. x.cant = r.cant /\ x.pos = r.pos
    BY <1>6, <2>1
  <2>9. Vale(R, H, n, k, P, V, "asignada", x)
    BY <2>2, <2>5, <2>7, <2>8, ValePagina
  <2> QED BY <1>6, <1>10, <2>1, <2>9
<1> QED BY <1>1, <1>2, <1>6, <1>7, <1>9, <1>10, <1>11, PasoSigue

\* One more reserva, of the program of x.
LEMMA UnaMas ==
  ASSUME ListaInv, NEW x, UnaReserva(x), NEW p, p = x.pid, NEW d, d = NuevaDir,
         objeto' = Agregada(objeto, d, x),
         mem_dinamica' = Append(mem_dinamica, d)
  PROVE  /\ ListaInv' /\ \A q : q # p => O(q)' = O(q)
         /\ d \notin DOMAIN O(p) /\ DOMAIN O(p)' = DOMAIN O(p) \cup {d}
         /\ \A a \in DOMAIN O(p) : O(p)'[a] = O(p)[a]
         /\ O(p)'[d] = x
<1>1. d \in Nat \ {0} /\ d \notin DOMAIN objeto
  BY HayDir
<1>2. ListaInv'
  <2>1. ListaBien(mem_dinamica, objeto)
    BY DEF ListaInv
  <2>2. PICK M : M = objeto'
    OBVIOUS
  <2>3. M = Agregada(objeto, d, x)
    BY <2>2
  <2>4. ListaBien(Append(mem_dinamica, d), M)
    BY <1>1, <2>1, <2>3, ListaCon
  <2> QED BY <2>2, <2>4 DEF ListaInv
<1>3. /\ DOMAIN objeto' = DOMAIN objeto \cup {d} /\ objeto'[d] = x
      /\ \A a \in DOMAIN objeto : objeto'[a] = objeto[a]
  BY <1>1 DEF Agregada
<1>4. ASSUME NEW q, q # p PROVE O(q)' = O(q)
  <2>1. \A a : a \in DirsDe(objeto, q) <=> a \in DirsDe(objeto', q)
    BY <1>3, <1>4 DEF DirsDe
  <2>2. \A a \in DirsDe(objeto, q) : objeto'[a] = objeto[a]
    BY <1>3 DEF DirsDe
  <2>3. ReservaDe(objeto', q) = ReservaDe(objeto, q)
    BY <2>1, <2>2, ReservasIguales
  <2> QED BY <2>3 DEF O
<1>5. DirsDe(objeto', p) = DirsDe(objeto, p) \cup {d} /\ d \notin DirsDe(objeto, p)
  BY <1>1, <1>3 DEF DirsDe
<1>6. /\ DOMAIN O(p) = DirsDe(objeto, p) /\ DOMAIN O(p)' = DirsDe(objeto', p)
      /\ \A a \in DirsDe(objeto, p) : O(p)[a] = objeto[a]
      /\ \A a \in DirsDe(objeto', p) : O(p)'[a] = objeto'[a]
  BY DEF O, ReservaDe
<1>7. \A a \in DirsDe(objeto, p) : objeto'[a] = objeto[a]
  BY <1>3 DEF DirsDe
<1>8. d \notin DOMAIN O(p) /\ DOMAIN O(p)' = DOMAIN O(p) \cup {d}
  BY <1>5, <1>6
<1>9. \A a \in DOMAIN O(p) : O(p)'[a] = O(p)[a]
  BY <1>5, <1>6, <1>7
<1>10. O(p)'[d] = x
  BY <1>3, <1>5, <1>6
<1> QED BY <1>2, <1>4, <1>8, <1>9, <1>10

\* Some reservas of the program less.
LEMMA UnasMenos ==
  ASSUME ListaInv, NEW p, NEW Q \in SUBSET ReservasDe(p),
         mem_dinamica' = SinIndices(mem_dinamica, Q),
         objeto' = SinObjetos({mem_dinamica[i] : i \in Q})
  PROVE  /\ ListaInv' /\ \A q : q # p => O(q)' = O(q)
         /\ DOMAIN O(p)' = DOMAIN O(p) \ {mem_dinamica[i] : i \in Q}
         /\ \A a \in DOMAIN O(p)' : O(p)'[a] = O(p)[a]
<1> DEFINE D == {mem_dinamica[i] : i \in Q}
<1>1. Q \in SUBSET (DOMAIN mem_dinamica) /\ \A i \in Q : objeto[mem_dinamica[i]].pid = p
  BY DEF ReservasDe
<1>2. objeto' = [a \in DOMAIN objeto \ D |-> objeto[a]]
  BY DEF SinObjetos
<1>3. ListaInv'
  <2>1. ListaBien(mem_dinamica, objeto)
    BY DEF ListaInv
  <2>2. PICK M : M = objeto'
    OBVIOUS
  <2>3. M = [a \in DOMAIN objeto \ {mem_dinamica[i] : i \in Q} |-> objeto[a]]
    BY <1>2, <2>2
  <2>4. ListaBien(SinIndices(mem_dinamica, Q), M)
    BY <1>1, <2>1, <2>3, ListaSin
  <2> QED BY <2>2, <2>4 DEF ListaInv
<1>4. \A a \in D : objeto[a].pid = p
  BY <1>1
<1> HIDE DEF D
<1>5. DOMAIN objeto' = DOMAIN objeto \ D /\ \A a \in DOMAIN objeto' : objeto'[a] = objeto[a]
  BY <1>2
<1>6. ASSUME NEW q, q # p PROVE O(q)' = O(q)
  <2>1. \A a : a \in DirsDe(objeto, q) <=> a \in DirsDe(objeto', q)
    BY <1>4, <1>5, <1>6 DEF DirsDe
  <2>2. \A a \in DirsDe(objeto, q) : objeto'[a] = objeto[a]
    BY <1>5, <2>1 DEF DirsDe
  <2>3. ReservaDe(objeto', q) = ReservaDe(objeto, q)
    BY <2>1, <2>2, ReservasIguales
  <2> QED BY <2>3 DEF O
<1>7. DirsDe(objeto', p) = DirsDe(objeto, p) \ D /\ \A a \in DirsDe(objeto', p) : objeto'[a] = objeto[a]
  BY <1>5 DEF DirsDe
<1>8. /\ DOMAIN O(p) = DirsDe(objeto, p) /\ DOMAIN O(p)' = DirsDe(objeto', p)
      /\ \A a \in DirsDe(objeto, p) : O(p)[a] = objeto[a]
      /\ \A a \in DirsDe(objeto', p) : O(p)'[a] = objeto'[a]
  BY DEF O, ReservaDe
<1>9. DOMAIN O(p)' = DOMAIN O(p) \ D /\ \A a \in DOMAIN O(p)' : O(p)'[a] = O(p)[a]
  BY <1>7, <1>8
<1> QED BY <1>3, <1>6, <1>9 DEF D

\* A write of some cells of a page of the program.
LEMMA Escrita ==
  ASSUME NEW h, HeapInv(h), NEW p, NEW n, NEW g, NEW S, contenido' = Grabado(p, n, g, S)
  PROVE  /\ Paginado(contenido') /\ DOMAIN contenido' = DOMAIN contenido
         /\ \A q : q # p => G(q)' = G(q)
         /\ DOMAIN G(p)' = DOMAIN G(p)
         /\ \A m \in DOMAIN G(p) \ {n} : G(p)'[m] = G(p)[m]
         /\ n \in DOMAIN G(p) => G(p)'[n] = [c \in Celda |-> IF c \in S THEN g[c] ELSE G(p)[n][c]]
<1>1. DOMAIN contenido \subseteq Pid \X Nat
  BY DEF HeapInv, ProgInv, Paginado
<1>2. PICK C : C = contenido'
  OBVIOUS
<1>3. /\ Paginado(C) /\ (\A q : q # p => PaginasDe(C, q) = G(q))
      /\ DOMAIN PaginasDe(C, p) = DOMAIN G(p)
      /\ (\A m \in DOMAIN G(p) \ {n} : PaginasDe(C, p)[m] = G(p)[m])
      /\ (n \in DOMAIN G(p) =>
             PaginasDe(C, p)[n] = [c \in Celda |-> IF c \in S THEN g[c] ELSE G(p)[n][c]])
  BY <1>1, <1>2, GrabadoEs
<1>4. DOMAIN contenido' = DOMAIN contenido
  BY DEF Grabado
<1> QED BY <1>2, <1>3, <1>4 DEF G

LEMMA RecibirAsignadaPaso ==
  ASSUME NEW h \in Hilo, HeapInv(h), kernel = "vivo", RecibirAsignada(h)
  PROVE  HeapInv(h)'
<1>1. PICK p, j, c, d : p = hilo[h].pid /\ j = Base + cantPagReservar[p] /\ c = hilo[h].cant /\ d = NuevaDir
  OBVIOUS
<1>2. /\ hilo[h].pc = "asignada" /\ mutex_memoria_fd' = Nadie
      /\ UNCHANGED <<cantPagReservar, kernel, punteros, pedidos, viejos>>
  BY DEF RecibirAsignada, Espera, En, Devuelve
<1>3. /\ p \in Pid /\ hilo = [x \in {h} |-> hilo[h]] /\ UnHilo(hilo[h]) /\ kernel \in {"vivo", "caido"}
      /\ cantPagReservar[p] \in Nat /\ pedidos[p] \in Nat
      /\ Sana(p) => Vale(O(p), G(p), cantPagReservar[p], pedidos[p], punteros[p], viejos[p], "asignada", hilo[h])
  BY <1>1, <1>2, EnCurso
<1>4. Tail(respuestas) = << >>
  BY <1>2, RecogeEs DEF HeapInv, Recoge
<1>5. CASE ~Bien
  <2>1. respuestas' = << >> /\ Contesta(h, "sale") /\ UNCHANGED <<contenido, mem_dinamica, objeto>>
    BY <1>4, <1>5 DEF RecibirAsignada, Recibe, lista
  <2> QED BY <1>2, <2>1, PasoFalla
<1>6. CASE Bien
  <2>1. /\ objeto' = [a \in DOMAIN objeto \cup {d} |->
                        IF a \in DOMAIN objeto THEN objeto[a]
                        ELSE [pid |-> p, pag |-> j, size |-> Pag - 2 * Meta - c, cant |-> 1]]
        /\ mem_dinamica' = Append(mem_dinamica, d)
        /\ contenido' = Grabado(p, j, Cabecera(Hoja(0), 0, 1, c), 0..(Meta - 1))
        /\ respuestas' = Append(Tail(respuestas), Grabacion(h, p, j))
        /\ Pasa(h, [hilo[h] EXCEPT !.pc = "cabecera", !.pag = j, !.pos = j * Pag + Meta])
        /\ estado' = estado
    BY <1>1, <1>6 DEF RecibirAsignada
  <2>2. PICK x : x = [pid |-> p, pag |-> j, size |-> Pag - 2 * Meta - c, cant |-> 1]
    OBVIOUS
  <2>3. UnaReserva(x) /\ x.pid = p
    <3>1. j \in Nat /\ j >= Base
      BY <1>1, <1>3, HeapAssumption
    <3> QED BY <1>3, <2>2, <3>1 DEF UnaReserva
  <2>4. /\ ListaInv' /\ (\A q : q # p => O(q)' = O(q))
        /\ d \notin DOMAIN O(p) /\ DOMAIN O(p)' = DOMAIN O(p) \cup {d}
        /\ (\A a \in DOMAIN O(p) : O(p)'[a] = O(p)[a])
        /\ O(p)'[d] = x
    <3>1. objeto' = Agregada(objeto, d, x)
      BY <2>1, <2>2 DEF Agregada
    <3>2. ListaInv
      BY DEF HeapInv
    <3>3. mem_dinamica' = Append(mem_dinamica, d) /\ d = NuevaDir /\ p = x.pid /\ UnaReserva(x)
      BY <1>1, <2>1, <2>3
    <3> QED BY <3>1, <3>2, <3>3, UnaMas
  <2>5. /\ Paginado(contenido') /\ DOMAIN contenido' = DOMAIN contenido
        /\ (\A q : q # p => G(q)' = G(q))
        /\ DOMAIN G(p)' = DOMAIN G(p)
        /\ (\A m \in DOMAIN G(p) \ {j} : G(p)'[m] = G(p)[m])
        /\ (j \in DOMAIN G(p) =>
              G(p)'[j] = [i \in Celda |-> IF i \in 0..(Meta - 1) THEN Cabecera(Hoja(0), 0, 1, c)[i] ELSE G(p)[j][i]])
    <3>1. PICK g, S : g = Cabecera(Hoja(0), 0, 1, c) /\ S = 0..(Meta - 1)
      OBVIOUS
    <3>2. contenido' = Grabado(p, j, g, S)
      BY <2>1, <3>1
    <3>3. /\ Paginado(contenido') /\ DOMAIN contenido' = DOMAIN contenido
          /\ (\A q : q # p => G(q)' = G(q))
          /\ DOMAIN G(p)' = DOMAIN G(p)
          /\ (\A m \in DOMAIN G(p) \ {j} : G(p)'[m] = G(p)[m])
          /\ (j \in DOMAIN G(p) =>
                G(p)'[j] = [i \in Celda |-> IF i \in S THEN g[i] ELSE G(p)[j][i]])
      BY <3>2, Escrita
    <3> QED BY <3>1, <3>3
  <2>6. hilo' = [y \in {h} |-> hilo'[h]]
        /\ hilo'[h] = [hilo[h] EXCEPT !.pc = "cabecera", !.pag = j, !.pos = j * Pag + Meta]
    BY <1>3, <2>1, PasaEs
  <2>7. /\ UnHilo(hilo'[h]) /\ hilo'[h].pc = "cabecera" /\ hilo'[h].pid = p
        /\ hilo'[h].cant = c /\ hilo'[h].pag = j /\ hilo'[h].pos = j * Pag + Meta
    BY <1>1, <1>3, <2>6 DEF UnHilo
  <2>8. HiloInv(h)'
    <3>1. PICK b \in BOOLEAN : /\ Append(<< >>, Grabacion(h, p, j)) = <<Respuesta(h, b)>>
                               /\ b <=> <<p, j>> \in DOMAIN contenido
      BY GrabacionEs
    <3>2. respuestas' = <<Respuesta(h, b)>> /\ (b <=> <<p, j>> \in DOMAIN contenido')
      BY <1>4, <2>1, <2>5, <3>1
    <3>3. Respuesta(h, b)' = Respuesta(h, b)
      BY DEF Respuesta
    <3>4. Buzon(h)'
      BY <2>7, <3>2, <3>3 DEF Buzon, Lee, Recoge
    <3> QED BY <1>2, <1>3, <2>6, <2>7, <3>4 DEF HiloInv, Lee, Recoge, Andando
  <2>9. ASSUME Sana(p)
        PROVE  Vale(O(p)', G(p)', cantPagReservar[p], pedidos[p], punteros[p], viejos[p], hilo'[h].pc, hilo'[h])
    <3>1. PICK R, F, n, k, P, V, r, y, Q, H :
             /\ R = O(p) /\ F = G(p) /\ n = cantPagReservar[p] /\ k = pedidos[p] /\ P = punteros[p]
             /\ V = viejos[p] /\ r = hilo[h] /\ y = hilo'[h] /\ Q = O(p)' /\ H = G(p)'
      OBVIOUS
    <3>2. n \in Nat /\ k \in Nat /\ Vale(R, F, n, k, P, V, "asignada", r)
      BY <1>3, <2>9, <3>1
    <3>3. c \in Nat /\ c <= Pag - 4 /\ c \in Cant
      <4>1. c \in Cant /\ c <= Pag - 2 * Meta
        BY <1>1, <3>1, <3>2 DEF Vale, Sano, Reservando, Reserva
      <4> QED BY <4>1, Enteros, HeapAssumption
    <3>4. ASSUME j \in DOMAIN F PROVE H[j] \in [Celda -> Nat] /\ H[j][0] = 1 /\ H[j][1] = r.cant
      <4>1. F[j] \in [Celda -> Nat]
        BY <3>2, <3>4 DEF Vale, Tipos
      <4>2. 0 \in Celda /\ 1 \in Celda /\ 0 \in 0..(Meta - 1) /\ 1 \in 0..(Meta - 1)
            /\ \A i \in 0..(Meta - 1) : i = 0 \/ i = 1
        BY <3>3, Enteros DEF Celda
      <4>3. Cabecera(Hoja(0), 0, 1, c)[0] = 1 /\ Cabecera(Hoja(0), 0, 1, c)[1] = c
        BY <4>2 DEF Cabecera, Hoja
      <4>4. H[j] = [i \in Celda |-> IF i \in 0..(Meta - 1) THEN Cabecera(Hoja(0), 0, 1, c)[i] ELSE F[j][i]]
        BY <2>5, <3>1, <3>4
      <4>5. H[j][0] = 1 /\ H[j][1] = c
        BY <4>2, <4>3, <4>4
      <4>6. \A i \in Celda : H[j][i] \in Nat
        BY <3>3, <4>1, <4>2, <4>3, <4>4
      <4>7. H[j] \in [Celda -> Nat]
        BY <4>4, <4>6
      <4> QED BY <1>1, <3>1, <4>5, <4>7
    <3>5. /\ j = Base + n /\ d \notin DOMAIN R
          /\ DOMAIN Q = DOMAIN R \cup {d} /\ (\A a \in DOMAIN R : Q[a] = R[a])
          /\ Q[d].pag = j /\ Q[d].size = Pag - 2 * Meta - r.cant /\ Q[d].cant = 1
          /\ DOMAIN H = DOMAIN F /\ (\A m \in DOMAIN F \ {j} : H[m] = F[m])
          /\ y.cant = r.cant /\ y.pag = j /\ y.pos = j * Pag + Meta
      BY <1>1, <2>2, <2>4, <2>5, <2>7, <3>1
    <3>6. Estrena(R, F, r, d, j, Q, H, y) /\ j = Base + n
      <4>1. j \in DOMAIN F => H[j] \in [Celda -> Nat] /\ H[j][0] = 1 /\ H[j][1] = r.cant
        BY <3>4
      <4> QED BY <3>5, <4>1 DEF Estrena
    <3>7. Vale(Q, H, n, k, P, V, "cabecera", y)
      BY <3>2, <3>6, ValeAsignada
    <3> QED BY <2>7, <3>1, <3>7
  <2> QED BY <1>1, <1>2, <2>1, <2>4, <2>5, <2>7, <2>8, <2>9, PasoSigue
<1> QED BY <1>5, <1>6

LEMMA RecibirCabeceraPaso ==
  ASSUME NEW h \in Hilo, HeapInv(h), kernel = "vivo", RecibirCabecera(h)
  PROVE  HeapInv(h)'
<1>1. PICK p, j, c, o : p = hilo[h].pid /\ j = hilo[h].pag /\ c = hilo[h].cant /\ o = Meta + c
  OBVIOUS
<1>2. /\ hilo[h].pc = "cabecera"
      /\ UNCHANGED <<mem_dinamica, objeto, cantPagReservar, mutex_memoria_fd, kernel, punteros, pedidos, viejos>>
  BY DEF RecibirCabecera, Espera, En, resto, lista
<1>3. /\ p \in Pid /\ hilo = [x \in {h} |-> hilo[h]] /\ UnHilo(hilo[h]) /\ kernel \in {"vivo", "caido"}
      /\ mutex_memoria_fd \in {h, Nadie} /\ cantPagReservar[p] \in Nat /\ pedidos[p] \in Nat
      /\ Sana(p) => Vale(O(p), G(p), cantPagReservar[p], pedidos[p], punteros[p], viejos[p], "cabecera", hilo[h])
  BY <1>1, <1>2, EnCurso
<1>4. Tail(respuestas) = << >> /\ (Bien <=> <<p, j>> \in DOMAIN contenido)
  BY <1>1, <1>2, RecogeEs DEF HeapInv, Recoge
<1>5. CASE ~Bien
  <2>1. respuestas' = << >> /\ Contesta(h, "fallo") /\ contenido' = contenido
    BY <1>4, <1>5 DEF RecibirCabecera, Recibe
  <2> QED BY <1>2, <1>3, <2>1, PasoFalla
<1>6. CASE Bien
  <2>1. PICK g, S : g = Cabecera(Hoja(0), o, 0, Pag - Meta - o) /\ S = o..(o + Meta - 1)
    OBVIOUS
  <2>2. /\ contenido' = Grabado(p, j, g, S)
        /\ respuestas' = Append(Tail(respuestas), Grabacion(h, p, j))
        /\ Pasa(h, [hilo[h] EXCEPT !.pc = "segunda"])
        /\ estado' = estado
    BY <1>1, <1>6, <2>1 DEF RecibirCabecera, PasaA
  <2>3. /\ Paginado(contenido') /\ DOMAIN contenido' = DOMAIN contenido
        /\ (\A q : q # p => G(q)' = G(q))
        /\ DOMAIN G(p)' = DOMAIN G(p)
        /\ (\A m \in DOMAIN G(p) \ {j} : G(p)'[m] = G(p)[m])
        /\ (j \in DOMAIN G(p) => G(p)'[j] = [i \in Celda |-> IF i \in S THEN g[i] ELSE G(p)[j][i]])
    BY <2>2, Escrita
  <2>4. hilo' = [y \in {h} |-> hilo'[h]] /\ hilo'[h] = [hilo[h] EXCEPT !.pc = "segunda"]
    BY <1>3, <2>2, PasaEs
  <2>5. /\ UnHilo(hilo'[h]) /\ hilo'[h].pc = "segunda" /\ hilo'[h].pid = p
        /\ hilo'[h].cant = c /\ hilo'[h].pag = j /\ hilo'[h].pos = hilo[h].pos
    BY <1>1, <1>3, <2>4 DEF UnHilo
  <2>6. HiloInv(h)'
    <3>1. PICK b \in BOOLEAN : Append(<< >>, Grabacion(h, p, j)) = <<Respuesta(h, b)>>
      BY GrabacionEs
    <3>2. respuestas' = <<Respuesta(h, b)>>
      BY <1>4, <2>2, <3>1
    <3> QED BY <1>2, <1>3, <2>4, <2>5, <3>2, HiloEspera
  <2>7. ListaInv' /\ \A q : O(q)' = O(q)
    BY <1>2 DEF HeapInv, ListaInv, O
  <2>8. ASSUME Sana(p)
        PROVE  Vale(O(p)', G(p)', cantPagReservar[p], pedidos[p], punteros[p], viejos[p], hilo'[h].pc, hilo'[h])
    <3>1. PICK R, F, n, k, P, V, r, y, H :
             /\ R = O(p) /\ F = G(p) /\ n = cantPagReservar[p] /\ k = pedidos[p] /\ P = punteros[p]
             /\ V = viejos[p] /\ r = hilo[h] /\ y = hilo'[h] /\ H = G(p)'
      OBVIOUS
    <3>2. n \in Nat /\ k \in Nat /\ Vale(R, F, n, k, P, V, "cabecera", r)
      BY <1>3, <2>8, <3>1
    <3>3. c \in Nat /\ c <= Pag - 4
      <4>1. c \in Cant /\ c <= Pag - 2 * Meta
        BY <1>1, <3>1, <3>2 DEF Vale, Sano, Reservando, Reserva
      <4> QED BY <4>1, Enteros, HeapAssumption
    <3>4. j \in DOMAIN F
      <4>1. DOMAIN contenido \subseteq Pid \X Nat
        BY DEF HeapInv, ProgInv, Paginado
      <4> QED BY <1>4, <1>6, <3>1, <4>1, PaginasSon DEF G
    <3>5. F[j] \in [Celda -> Nat] /\ H[j] = [i \in Celda |-> IF i \in S THEN g[i] ELSE F[j][i]]
      BY <2>3, <3>1, <3>2, <3>4 DEF Vale, Tipos
    <3>6. /\ o = 2 + c /\ o + 1 = 3 + c /\ o \in S /\ o + 1 \in S /\ (\A i \in S : i = o \/ i = o + 1)
          /\ 0 \in Celda \ S /\ 1 \in Celda \ S /\ o \in Celda /\ o + 1 \in Celda /\ Pag - Meta - o = Pag - 4 - c
          /\ Pag - 4 - c \in Nat
      <4>1. PICK w : w = Pag /\ w \in Nat /\ Meta = 2
        BY Enteros
      <4>2. o = 2 + c /\ o \in Nat /\ S = o..(o + 1) /\ c <= w - 4 /\ Celda = 0..(w - 1)
        BY <1>1, <2>1, <3>3, <4>1 DEF Celda
      <4>3. o + 1 = 3 + c /\ o \in S /\ o + 1 \in S /\ (\A i \in S : i = o \/ i = o + 1)
        BY <3>3, <4>2
      <4>4. 0 \in Celda \ S /\ 1 \in Celda \ S /\ o \in Celda /\ o + 1 \in Celda
        BY <3>3, <4>1, <4>2
      <4>5. w - 2 - o = w - 4 - c /\ w - 4 - c \in Nat
        BY <3>3, <4>1, <4>2
      <4> QED BY <4>1, <4>2, <4>3, <4>4, <4>5
    <3>7. g[o] = 0 /\ g[o + 1] = Pag - 4 - c
      BY <2>1, <3>6 DEF Cabecera, Hoja
    <3>8. \A i \in Celda : H[j][i] \in Nat
      BY <3>5, <3>6, <3>7
    <3>9. H[j] \in [Celda -> Nat] /\ H[j][0] = F[j][0] /\ H[j][1] = F[j][1] /\ H[j][2 + c] = 0
          /\ H[j][3 + c] = Pag - 4 - c
      BY <3>5, <3>6, <3>7, <3>8
    <3>10. Completa(F, r, j, H, y) /\ j = r.pag
      BY <1>1, <2>3, <2>5, <3>1, <3>9 DEF Completa
    <3>11. Vale(R, H, n, k, P, V, "segunda", y)
      BY <3>2, <3>4, <3>10, ValeCabecera
    <3> QED BY <2>5, <2>7, <3>1, <3>11
  <2> QED BY <1>1, <1>2, <2>2, <2>3, <2>5, <2>6, <2>7, <2>8, PasoSigue
<1> QED BY <1>5, <1>6

LEMMA RecibirSegundaPaso ==
  ASSUME NEW h \in Hilo, HeapInv(h), kernel = "vivo", RecibirSegunda(h)
  PROVE  HeapInv(h)'
<1>1. PICK p : p = hilo[h].pid
  OBVIOUS
<1>2. /\ hilo[h].pc = "segunda" /\ respuestas' = Tail(respuestas)
      /\ UNCHANGED <<contenido, mem_dinamica, objeto, mutex_memoria_fd, kernel, pedidos, viejos>>
  BY DEF RecibirSegunda, Espera, En, Recibe, lista
<1>3. /\ p \in Pid /\ mutex_memoria_fd \in {h, Nadie} /\ cantPagReservar[p] \in Nat /\ pedidos[p] \in Nat
      /\ Sana(p) => Vale(O(p), G(p), cantPagReservar[p], pedidos[p], punteros[p], viejos[p], "segunda", hilo[h])
  BY <1>1, <1>2, EnCurso
<1>4. respuestas' = << >>
  BY <1>2, RecogeEs DEF HeapInv, Recoge
<1>5. CASE Bien
  <2>1. Entregar(h) /\ Contesta(h, "corre") /\ cantPagReservar' = [cantPagReservar EXCEPT ![p] = @ + 1]
    BY <1>1, <1>5 DEF RecibirSegunda, Entregar
  <2>2. /\ punteros' = [q \in Pid |-> punteros'[q]] /\ (\A q \in Pid \ {p} : punteros'[q] = punteros[q])
        /\ punteros'[p] = punteros[p] \cup {[desde |-> hilo[h].pos, cant |-> hilo[h].cant]}
    BY <1>1, <1>3, <2>1, EntregarEs
  <2>3. cantPagReservar \in [Pid -> Nat]
    BY DEF HeapInv, ProgInv
  <2>4. /\ ListaInv' /\ Paginado(contenido') /\ cantPagReservar' \in [Pid -> Nat]
        /\ cantPagReservar'[p] = cantPagReservar[p] + 1
        /\ \A q \in Pid \ {p} : cantPagReservar'[q] = cantPagReservar[q]
    BY <1>2, <1>3, <2>1, <2>3 DEF HeapInv, ListaInv, ProgInv
  <2>5. ASSUME Sana(p)
        PROVE  Vale(O(p), G(p), cantPagReservar'[p], pedidos[p], punteros'[p], viejos[p], "libre", Libre)
    <3>1. PICK R, F, n, k, P, V, r :
             /\ R = O(p) /\ F = G(p) /\ n = cantPagReservar[p] /\ k = pedidos[p] /\ P = punteros[p]
             /\ V = viejos[p] /\ r = hilo[h]
      OBVIOUS
    <3>2. n \in Nat /\ k \in Nat /\ Vale(R, F, n, k, P, V, "segunda", r)
      BY <1>3, <2>5, <3>1
    <3>3. Vale(R, F, IF "segunda" = "segunda" THEN n + 1 ELSE n, k,
               P \cup {[desde |-> r.pos, cant |-> r.cant]}, V, "libre", Libre)
      BY <3>2, ValeEntrega
    <3>4. Vale(R, F, n + 1, k, P \cup {[desde |-> r.pos, cant |-> r.cant]}, V, "libre", Libre)
      BY <3>3
    <3>5. PICK N, B : N = n + 1 /\ B = P \cup {[desde |-> r.pos, cant |-> r.cant]}
      OBVIOUS
    <3>6. cantPagReservar'[p] = N /\ punteros'[p] = B
      BY <2>2, <2>4, <3>1, <3>5
    <3>7. Vale(R, F, N, k, B, V, "libre", Libre)
      BY <3>4, <3>5
    <3> QED BY <3>1, <3>6, <3>7
  <2>6. O(p)' = O(p) /\ G(p)' = G(p) /\ \A q \in Pid \ {p} : O(q)' = O(q) /\ G(q)' = G(q)
    BY <1>2, MismoHeap
  <2>7. Sana(p) => Vale(O(p)', G(p)', cantPagReservar'[p], pedidos[p], punteros'[p], viejos[p], "libre", Libre)
    BY <2>5, <2>6
  <2>8. \A q \in Pid \ {p} : /\ O(q)' = O(q) /\ G(q)' = G(q) /\ cantPagReservar'[q] = cantPagReservar[q]
                              /\ punteros'[q] = punteros[q]
    BY <2>2, <2>4, <2>6
  <2>9. ListaInv' /\ Paginado(contenido') /\ cantPagReservar' \in [Pid -> Nat] /\ punteros' = [q \in Pid |-> punteros'[q]]
    BY <2>2, <2>4
  <2>10. /\ kernel' = kernel /\ pedidos' = pedidos /\ viejos' = viejos /\ mutex_memoria_fd' \in {h, Nadie}
         /\ hilo[h].pc # "libre" /\ Contesta(h, "corre")
    BY <1>2, <1>3, <2>1
  <2> QED BY <1>1, <1>4, <2>7, <2>8, <2>9, <2>10, PasoCorre
<1>6. CASE ~Bien
  <2>1. Contesta(h, "fallo") /\ punteros' = punteros /\ cantPagReservar' = cantPagReservar
    BY <1>6 DEF RecibirSegunda
  <2> QED BY <1>2, <1>3, <1>4, <2>1, PasoFalla
<1> QED BY <1>5, <1>6

LEMMA TomarReservaPaso ==
  ASSUME NEW h \in Hilo, HeapInv(h), kernel = "vivo", TomarReserva(h)
  PROVE  HeapInv(h)'
<1>1. PICK p, i, a, n : p = hilo[h].pid /\ i = hilo[h].ind /\ a = mem_dinamica[i] /\ n = Pagina(hilo[h])
  OBVIOUS
<1>2. /\ hilo[h].pc = "tomar"
      /\ UNCHANGED <<mem_dinamica, objeto, cantPagReservar, mutex_memoria_fd, kernel,
                     estado, punteros, viejos, pedidos>>
  BY DEF TomarReserva, En, resto, lista, programa
<1>3. /\ p \in Pid /\ hilo = [x \in {h} |-> hilo[h]] /\ UnHilo(hilo[h])
      /\ mutex_memoria_fd \in {h, Nadie} /\ cantPagReservar[p] \in Nat /\ pedidos[p] \in Nat
      /\ Sana(p) => Vale(O(p), G(p), cantPagReservar[p], pedidos[p], punteros[p], viejos[p], "tomar", hilo[h])
  BY <1>1, <1>2, EnCurso
<1>4. respuestas = << >>
  BY <1>2, NadieEspera DEF HeapInv, Andando
<1>5. i \in ReservasDe(p) /\ objeto[a].pag = n
  BY <1>1, <1>2 DEF HeapInv, HiloInv
<1>6. a \in DOMAIN O(p) /\ O(p)[a] = objeto[a] /\ O(p)[a].pag = n
  <2>1. a \in DOMAIN objeto /\ objeto[a].pid = p
    BY <1>1, <1>5 DEF ReservasDe, HeapInv, ListaInv, ListaBien
  <2> QED BY <1>5, <2>1 DEF O, ReservaDe, DirsDe
<1>7. CASE objeto[a].cant > 0
  <2>1. PedirHoja(h, p, n) /\ Pasa(h, [hilo[h] EXCEPT !.pc = "hoja", !.dir = a])
    BY <1>1, <1>7 DEF TomarReserva, Pagina
  <2>2. /\ hilo' = [x \in {h} |-> hilo'[h]] /\ hilo'[h] = [hilo[h] EXCEPT !.pc = "hoja", !.dir = a]
        /\ respuestas' = <<Lectura(h, p, n)>> /\ contenido' = contenido
    <3>1. respuestas' = <<Lectura(h, p, n)>> /\ contenido' = contenido
      BY <1>4, <2>1, PedirHojaEs
    <3> QED BY <1>3, <2>1, <3>1, PasaEs
  <2>3. /\ UnHilo(hilo'[h]) /\ hilo'[h].pc = "hoja" /\ hilo'[h].pid = p /\ hilo'[h].dir = a
        /\ hilo'[h].ind = i /\ hilo'[h].pos = hilo[h].pos
    BY <1>1, <1>3, <2>2 DEF UnHilo
  <2>4. HiloInv(h)'
    <3>1. hilo'[h].ind \in ReservasDe(hilo[h].pid)' /\ hilo'[h].dir = mem_dinamica'[hilo'[h].ind]
      <4>1. ReservasDe(p)' = ReservasDe(p)
        BY <1>2 DEF ReservasDe
      <4>2. ReservasDe(hilo[h].pid)' = ReservasDe(p)
        BY <1>2, <2>3 DEF ReservasDe
      <4> QED BY <1>1, <1>2, <1>5, <2>3, <4>2
    <3>2. n = IF hilo'[h].pc = "espacio" THEN objeto'[hilo'[h].dir].pag ELSE Pagina(hilo'[h])
      BY <1>1, <2>3 DEF Pagina
    <3>3. hilo'[h].pc \in Lee
      BY <2>3 DEF Lee
    <3> QED BY <1>2, <1>3, <2>2, <2>3, <3>1, <3>2, <3>3, HiloLee
  <2>5. ASSUME Sana(p)
        PROVE  Vale(O(p), G(p), cantPagReservar[p], pedidos[p], punteros[p], viejos[p], hilo'[h].pc, hilo'[h])
    BY <1>1, <1>3, <1>6, <2>3, <2>5, ValeToma
  <2> QED BY <1>1, <1>2, <2>2, <2>3, <2>4, <2>5, PasoFijo
<1>8. CASE ~ objeto[a].cant > 0
  <2>1. /\ Pasa(h, [hilo[h] EXCEPT !.pc = "nunca"]) /\ respuestas' = << >> /\ contenido' = contenido
    BY <1>1, <1>4, <1>8 DEF TomarReserva, PasaA, memoria
  <2>2. hilo' = [x \in {h} |-> hilo'[h]] /\ hilo'[h] = [hilo[h] EXCEPT !.pc = "nunca"]
    BY <1>3, <2>1, PasaEs
  <2>3. /\ UnHilo(hilo'[h]) /\ hilo'[h].pc = "nunca" /\ hilo'[h].pid = p
        /\ hilo'[h].pos = hilo[h].pos
    BY <1>1, <1>3, <2>2 DEF UnHilo
  <2>4. HiloInv(h)'
    BY <1>2, <1>3, <2>1, <2>2, <2>3, HiloQuieto
  <2>5. ASSUME Sana(p)
        PROVE  Vale(O(p), G(p), cantPagReservar[p], pedidos[p], punteros[p], viejos[p], hilo'[h].pc, hilo'[h])
    BY <1>1, <1>3, <1>6, <1>8, <2>3, <2>5, ValeNunca
  <2> QED BY <1>1, <1>2, <2>1, <2>3, <2>4, <2>5, PasoFijo
<1> QED BY <1>7, <1>8

\* The kernel answers what memory has answered.
LEMMA TerminaPaso ==
  ASSUME NEW h \in Hilo, HeapInv(h), kernel = "vivo", RecibirDevuelta(h) \/ RecibirLiberada(h)
  PROVE  HeapInv(h)'
<1>1. PICK p, e : p = hilo[h].pid /\ e = hilo[h].pc
  OBVIOUS
<1>2. /\ e \in {"devuelta", "liberada"} /\ hilo[h].pc # "libre" /\ respuestas' = Tail(respuestas)
      /\ UNCHANGED <<contenido, mem_dinamica, objeto, cantPagReservar, kernel, punteros, pedidos, viejos>>
      /\ Contesta(h, IF Bien THEN "corre" ELSE "fallo")
      /\ mutex_memoria_fd' \in {mutex_memoria_fd, Nadie}
  BY <1>1 DEF RecibirDevuelta, RecibirLiberada, Espera, En, Recibe, Devuelve, resto, lista
<1>3. /\ p \in Pid /\ mutex_memoria_fd \in {h, Nadie} /\ cantPagReservar[p] \in Nat /\ pedidos[p] \in Nat
      /\ Sana(p) => Vale(O(p), G(p), cantPagReservar[p], pedidos[p], punteros[p], viejos[p], e, hilo[h])
  BY <1>1, <1>2, EnCurso
<1>4. respuestas' = << >> /\ mutex_memoria_fd' \in {h, Nadie}
  <2>1. hilo[h].pc \in Recoge
    BY <1>1, <1>2 DEF Recoge
  <2> QED BY <1>2, <1>3, <2>1, RecogeEs DEF HeapInv
<1>5. CASE Bien
  <2>1. Contesta(h, "corre")
    BY <1>2, <1>5
  <2>2. /\ ListaInv' /\ Paginado(contenido') /\ cantPagReservar' \in [Pid -> Nat]
        /\ punteros' = [q \in Pid |-> punteros'[q]]
    BY <1>2 DEF HeapInv, ListaInv, ProgInv
  <2>3. ASSUME Sana(p)
        PROVE  Vale(O(p), G(p), cantPagReservar[p], pedidos[p], punteros[p], viejos[p], "libre", Libre)
    BY <1>2, <1>3, <2>3, ValeTermina
  <2>4. O(p)' = O(p) /\ G(p)' = G(p) /\ \A q \in Pid \ {p} : O(q)' = O(q) /\ G(q)' = G(q)
    BY <1>2, MismoHeap
  <2> QED BY <1>1, <1>2, <1>3, <1>4, <2>1, <2>2, <2>3, <2>4, PasoCorre
<1>6. CASE ~Bien
  <2>1. Contesta(h, "fallo")
    BY <1>2, <1>6
  <2> QED BY <1>2, <1>4, <2>1, PasoFalla
<1> QED BY <1>5, <1>6

LEMMA RecibirHojaLiberarPaso ==
  ASSUME NEW h \in Hilo, HeapInv(h), kernel = "vivo", RecibirHojaLiberar(h)
  PROVE  HeapInv(h)'
<1>1. PICK p, a, i, o, n, c :
         /\ p = hilo[h].pid /\ a = hilo[h].dir /\ i = hilo[h].ind /\ o = Inicio(hilo[h])
         /\ n = Pagina(hilo[h]) /\ c = Compactar(Vaciar(Leida, o), o)
  OBVIOUS
<1>2. /\ hilo[h].pc = "hoja" /\ Bien
      /\ UNCHANGED <<cantPagReservar, mutex_memoria_fd, kernel, punteros, pedidos, viejos>>
  BY DEF RecibirHojaLiberar, Espera, En
<1>3. /\ p \in Pid /\ hilo = [x \in {h} |-> hilo[h]] /\ UnHilo(hilo[h]) /\ kernel \in {"vivo", "caido"}
      /\ mutex_memoria_fd \in {h, Nadie} /\ cantPagReservar[p] \in Nat /\ pedidos[p] \in Nat
      /\ Sana(p) => Vale(O(p), G(p), cantPagReservar[p], pedidos[p], punteros[p], viejos[p], "hoja", hilo[h])
  BY <1>1, <1>2, EnCurso
<1>4. n \in DOMAIN G(p) /\ G(p)[n] = Leida /\ Tail(respuestas) = << >>
  <2>1. n = PaginaLeida(hilo[h]) /\ hilo[h].pc \in Lee
    BY <1>1, <1>2 DEF PaginaLeida, Lee
  <2> QED BY <1>1, <1>2, <2>1, HojaLeida
<1>5. i \in ReservasDe(p) /\ a = mem_dinamica[i]
  BY <1>1, <1>2 DEF HeapInv, HiloInv
<1>6. a \in DOMAIN objeto /\ objeto[a].pid = p /\ UnaReserva(objeto[a]) /\ ListaInv
  BY <1>5 DEF ReservasDe, HeapInv, ListaInv, ListaBien
<1>7. a \in DOMAIN O(p) /\ O(p)[a] = objeto[a]
  BY <1>6 DEF O, ReservaDe, DirsDe
<1>8. CASE ~Usado(Leida, o)
  <2>1. respuestas' = << >> /\ Contesta(h, "sale") /\ UNCHANGED <<contenido, mem_dinamica, objeto>>
    BY <1>1, <1>4, <1>8 DEF RecibirHojaLiberar, Recibe, lista, Inicio
  <2> QED BY <1>2, <1>3, <2>1, PasoFalla
<1>9. CASE Usado(Leida, o) /\ objeto[a].cant = 1
  <2>1. /\ mem_dinamica' = SinIndices(mem_dinamica, {i})
        /\ objeto' = SinObjetos({mem_dinamica[i]})
        /\ Pasa(h, [hilo[h] EXCEPT !.pc = "vacia", !.pag = objeto[a].pag])
        /\ respuestas' = << >> /\ contenido' = contenido /\ estado' = estado
    BY <1>1, <1>4, <1>9 DEF RecibirHojaLiberar, Recibe, Inicio
  <2>2. /\ ListaInv' /\ (\A q : q # p => O(q)' = O(q))
        /\ DOMAIN O(p)' = DOMAIN O(p) \ {a} /\ (\A b \in DOMAIN O(p)' : O(p)'[b] = O(p)[b])
    <3>1. PICK Q : Q = {i}
      OBVIOUS
    <3>2. Q \in SUBSET ReservasDe(p) /\ {mem_dinamica[k] : k \in Q} = {a}
      BY <1>5, <3>1
    <3>3. mem_dinamica' = SinIndices(mem_dinamica, Q) /\ objeto' = SinObjetos({mem_dinamica[k] : k \in Q})
      BY <1>5, <2>1, <3>1, <3>2
    <3>4. /\ ListaInv' /\ (\A q : q # p => O(q)' = O(q))
          /\ DOMAIN O(p)' = DOMAIN O(p) \ {mem_dinamica[k] : k \in Q}
          /\ (\A b \in DOMAIN O(p)' : O(p)'[b] = O(p)[b])
      BY <1>6, <3>2, <3>3, UnasMenos
    <3> QED BY <3>2, <3>4
  <2>3. /\ hilo' = [x \in {h} |-> hilo'[h]]
        /\ hilo'[h] = [hilo[h] EXCEPT !.pc = "vacia", !.pag = objeto[a].pag]
    BY <1>3, <2>1, PasaEs
  <2>4. /\ UnHilo(hilo'[h]) /\ hilo'[h].pc = "vacia" /\ hilo'[h].pid = p
        /\ hilo'[h].pag = objeto[a].pag /\ hilo'[h].pos = hilo[h].pos
    BY <1>1, <1>3, <2>3 DEF UnHilo
  <2>5. HiloInv(h)'
    BY <1>2, <1>3, <2>1, <2>3, <2>4, HiloQuieto
  <2>6. Paginado(contenido') /\ \A q : G(q)' = G(q)
    BY <2>1 DEF HeapInv, ProgInv, G
  <2>7. ASSUME Sana(p)
        PROVE  Vale(O(p)', G(p)', cantPagReservar[p], pedidos[p], punteros[p], viejos[p], hilo'[h].pc, hilo'[h])
    <3>1. PICK R, F, N, k, P, V, r, y, Q :
             /\ R = O(p) /\ F = G(p) /\ N = cantPagReservar[p] /\ k = pedidos[p] /\ P = punteros[p]
             /\ V = viejos[p] /\ r = hilo[h] /\ y = hilo'[h] /\ Q = O(p)'
      OBVIOUS
    <3>2. N \in Nat /\ k \in Nat /\ Vale(R, F, N, k, P, V, "hoja", r)
      BY <1>3, <2>7, <3>1
    <3>3. QuedaVacia(R, a, r, Q, y)
      BY <1>7, <1>9, <2>2, <2>4, <3>1 DEF QuedaVacia
    <3>4. a = r.dir /\ n = Pagina(r) /\ o = Inicio(r) /\ Usado(F[n], o)
      BY <1>1, <1>4, <1>9, <3>1
    <3>5. Vale(Q, F, N, k, P, V, "vacia", y)
      BY <3>2, <3>3, <3>4, ValeVacia
    <3> QED BY <2>4, <2>6, <3>1, <3>5
  <2> QED BY <1>1, <1>2, <2>1, <2>2, <2>4, <2>5, <2>6, <2>7, PasoSigue
<1>10. CASE Usado(Leida, o) /\ objeto[a].cant # 1
  <2>1. /\ objeto' = [objeto EXCEPT ![a].size = @ + Tam(Leida, o) + Meta * c.veces, ![a].cant = @ - 1]
        /\ contenido' = Grabado(p, n, c.hoja, Celda)
        /\ respuestas' = Append(Tail(respuestas), Grabacion(h, p, n))
        /\ Pasa(h, [hilo[h] EXCEPT !.pc = "liberada"])
        /\ mem_dinamica' = mem_dinamica /\ estado' = estado
    BY <1>1, <1>10 DEF RecibirHojaLiberar, PasaA, Inicio, Pagina
  <2>2. objeto' = Cambiada(objeto, a, objeto[a].size + Tam(Leida, o) + Meta * c.veces, objeto[a].cant - 1)
    BY <1>6, <2>1 DEF Cambiada, UnaReserva
  <2>3. /\ ListaInv' /\ (\A q : q # p => O(q)' = O(q))
        /\ DOMAIN O(p)' = DOMAIN O(p) /\ (\A b \in DOMAIN O(p) \ {a} : O(p)'[b] = O(p)[b])
        /\ a \in DOMAIN O(p) /\ O(p)[a] = objeto[a]
        /\ O(p)'[a].pag = O(p)[a].pag /\ O(p)'[a].size = objeto[a].size + Tam(Leida, o) + Meta * c.veces
        /\ O(p)'[a].cant = objeto[a].cant - 1
    <3>1. PICK s, t : s = objeto[a].size + Tam(Leida, o) + Meta * c.veces /\ t = objeto[a].cant - 1
      OBVIOUS
    <3>2. objeto' = Cambiada(objeto, a, s, t)
      BY <2>2, <3>1
    <3>3. /\ ListaInv' /\ (\A q : q # p => O(q)' = O(q))
          /\ DOMAIN O(p)' = DOMAIN O(p) /\ (\A b \in DOMAIN O(p) \ {a} : O(p)'[b] = O(p)[b])
          /\ a \in DOMAIN O(p) /\ O(p)[a] = objeto[a]
          /\ O(p)'[a].pag = O(p)[a].pag /\ O(p)'[a].size = s /\ O(p)'[a].cant = t
      <4>1. ListaInv /\ a \in DOMAIN objeto /\ p = objeto[a].pid /\ mem_dinamica' = mem_dinamica
        BY <1>6, <2>1
      <4> QED BY <3>2, <4>1, UnaCambia
    <3> QED BY <3>1, <3>3
  <2>4. PICK g : g = c.hoja
    OBVIOUS
  <2>5. /\ Paginado(contenido') /\ DOMAIN contenido' = DOMAIN contenido
        /\ (\A q : q # p => G(q)' = G(q))
        /\ DOMAIN G(p)' = DOMAIN G(p)
        /\ (\A m \in DOMAIN G(p) \ {n} : G(p)'[m] = G(p)[m])
        /\ (n \in DOMAIN G(p) => G(p)'[n] = [x \in Celda |-> IF x \in Celda THEN g[x] ELSE G(p)[n][x]])
    <3>1. contenido' = Grabado(p, n, g, Celda)
      BY <2>1, <2>4
    <3> QED BY <3>1, Escrita
  <2>6. hilo' = [x \in {h} |-> hilo'[h]] /\ hilo'[h] = [hilo[h] EXCEPT !.pc = "liberada"]
    BY <1>3, <2>1, PasaEs
  <2>7. /\ UnHilo(hilo'[h]) /\ hilo'[h].pc = "liberada" /\ hilo'[h].pid = p /\ hilo'[h].pos = hilo[h].pos
    BY <1>1, <1>3, <2>6 DEF UnHilo
  <2>8. HiloInv(h)'
    <3>1. PICK b \in BOOLEAN : Append(<< >>, Grabacion(h, p, n)) = <<Respuesta(h, b)>>
      BY GrabacionEs
    <3>2. respuestas' = <<Respuesta(h, b)>>
      BY <1>4, <2>1, <3>1
    <3> QED BY <1>2, <1>3, <2>6, <2>7, <3>2, HiloEspera
  <2>9. ASSUME Sana(p)
        PROVE  Vale(O(p)', G(p)', cantPagReservar[p], pedidos[p], punteros[p], viejos[p], hilo'[h].pc, hilo'[h])
    <3>1. PICK R, F, N, k, P, V, r, y, Q, H :
             /\ R = O(p) /\ F = G(p) /\ N = cantPagReservar[p] /\ k = pedidos[p] /\ P = punteros[p]
             /\ V = viejos[p] /\ r = hilo[h] /\ y = hilo'[h] /\ Q = O(p)' /\ H = G(p)'
      OBVIOUS
    <3>2. N \in Nat /\ k \in Nat /\ Vale(R, F, N, k, P, V, "hoja", r)
      BY <1>3, <2>9, <3>1
    <3>3. a = r.dir /\ n = Pagina(r) /\ o = Inicio(r) /\ F[n] = Leida /\ Usado(F[n], o)
          /\ c = Compactar(Vaciar(F[n], o), o)
      BY <1>1, <1>4, <1>10, <3>1
    <3>4. g \in [Celda -> Nat]
      <4>1. Suelta(R, F, P, r, r.dir, n, o)
        BY <3>2, <3>3, HojaDice
      <4>2. PICK s, t : HojaBien(F[n], s, t) /\ o \in Usados(F[n], Inicios(F[n]))
        BY <4>1 DEF Suelta
      <4>3. HojaBien(c.hoja, s - 1, t + Tam(F[n], o) + Meta * c.veces)
        BY <3>3, <4>2, LiberarBien
      <4> QED BY <2>4, <4>3 DEF HojaBien
    <3>5. H[n] = c.hoja
      BY <1>4, <2>4, <2>5, <3>1, <3>4
    <3>6. QuedaMenos(R, F, a, r, n, o, c, Q, H, y)
      <4>1. DOMAIN Q = DOMAIN R /\ (\A b \in DOMAIN R \ {a} : Q[b] = R[b]) /\ Q[a].pag = R[a].pag
        BY <2>3, <3>1
      <4>2. Q[a].cant = R[a].cant - 1 /\ Q[a].size = R[a].size + Tam(F[n], o) + Meta * c.veces
        BY <2>3, <3>1, <3>3
      <4>3. DOMAIN H = DOMAIN F /\ (\A m \in DOMAIN F \ {n} : H[m] = F[m]) /\ y.pos = r.pos
        BY <2>5, <2>7, <3>1
      <4> QED BY <3>5, <4>1, <4>2, <4>3 DEF QuedaMenos
    <3>7. Vale(Q, H, N, k, P, V, "liberada", y)
      BY <3>2, <3>3, <3>6, ValeLiberada
    <3> QED BY <2>7, <3>1, <3>7
  <2> QED BY <1>1, <1>2, <2>1, <2>3, <2>5, <2>7, <2>8, <2>9, PasoSigue
<1> QED BY <1>8, <1>9, <1>10

\* A read of a reserva that was freed gives no page that the heap can have.
AjenoFuera == \A n \in Ajeno, p \in Pid : n < Base \/ n >= Base + MaxPedidos[p]

LEMMA DevolverPaginaPaso ==
  ASSUME NEW h \in Hilo, HeapInv(h), kernel = "vivo", AjenoFuera, DevolverPagina(h)
  PROVE  HeapInv(h)'
<1>1. PICK p : p = hilo[h].pid
  OBVIOUS
<1>2. /\ hilo[h].pc = "vacia" /\ mutex_memoria_fd' = h
      /\ Pasa(h, [hilo[h] EXCEPT !.pc = "devuelta"])
      /\ UNCHANGED <<mem_dinamica, objeto, cantPagReservar, kernel, estado, punteros, viejos, pedidos>>
      /\ \E n \in Ajeno \cup {hilo[h].pag} : SoltarPagina(h, p, n)
  BY <1>1 DEF DevolverPagina, En, Toma, PasaA, resto, lista, programa
<1>3. /\ p \in Pid /\ hilo = [x \in {h} |-> hilo[h]] /\ UnHilo(hilo[h]) /\ kernel \in {"vivo", "caido"}
      /\ cantPagReservar[p] \in Nat /\ pedidos[p] \in Nat
      /\ Sana(p) => Vale(O(p), G(p), cantPagReservar[p], pedidos[p], punteros[p], viejos[p], "vacia", hilo[h])
  BY <1>1, <1>2, EnCurso
<1>4. respuestas = << >>
  BY <1>2, NadieEspera DEF HeapInv, Andando
<1>5. PICK m \in Ajeno \cup {hilo[h].pag} : SoltarPagina(h, p, m)
  BY <1>2
<1>6. m = hilo[h].pag \/ (m \in Nat /\ (m < Base \/ m >= Base + pedidos[p]))
  <2>1. pedidos[p] <= MaxPedidos[p] /\ MaxPedidos[p] \in Nat /\ Base \in Nat
    BY <1>3, HeapAssumption DEF HeapInv, ProgInv
  <2>2. m \in Ajeno => m \in Nat /\ (m < Base \/ m >= Base + MaxPedidos[p])
    BY <1>3, HeapAssumption DEF AjenoFuera
  <2> QED BY <1>3, <1>5, <2>1, <2>2
<1>7. hilo' = [x \in {h} |-> hilo'[h]] /\ hilo'[h] = [hilo[h] EXCEPT !.pc = "devuelta"]
  BY <1>2, <1>3, PasaEs
<1>8. /\ UnHilo(hilo'[h]) /\ hilo'[h].pc = "devuelta" /\ hilo'[h].pid = p /\ hilo'[h].pos = hilo[h].pos
  BY <1>1, <1>3, <1>7 DEF UnHilo
<1>9. HiloInv(h)'
  <2>1. PICK b \in BOOLEAN : b <=> <<p, m>> \in DOMAIN contenido
    OBVIOUS
  <2>2. respuestas' = Append(<< >>, Respuesta(h, <<p, m>> \in DOMAIN contenido))
    BY <1>4, <1>5 DEF SoltarPagina, Responder
  <2>3. respuestas' = Append(<< >>, Grabacion(h, p, m))
    BY <2>2 DEF Grabacion
  <2>4. PICK d \in BOOLEAN : Append(<< >>, Grabacion(h, p, m)) = <<Respuesta(h, d)>>
    BY GrabacionEs
  <2> QED BY <1>2, <1>3, <1>7, <1>8, <2>3, <2>4, HiloEspera
<1>10. /\ Paginado(contenido') /\ (\A q : q # p => G(q)' = G(q))
       /\ (\A i : i \in DOMAIN G(p)' <=> i \in DOMAIN G(p) /\ i # m)
       /\ (\A i \in DOMAIN G(p)' : G(p)'[i] = G(p)[i])
  <2>1. PICK X, C : X = {<<p, m>>} /\ C = contenido'
    OBVIOUS
  <2>2. (\A x \in X : x[1] = p) /\ C = Quedan(X)
    BY <1>5, <2>1 DEF SoltarPagina, Quedan
  <2>3. DOMAIN contenido \subseteq Pid \X Nat
    BY DEF HeapInv, ProgInv, Paginado
  <2>4. SinLasDe(C, p, X)
    BY <2>2, <2>3, SinPaginas
  <2>5. \A n : <<p, n>> \notin X <=> n # m
    BY <2>1
  <2> QED BY <2>1, <2>4, <2>5 DEF G, SinLasDe
<1>11. ListaInv' /\ \A q : O(q)' = O(q)
  BY <1>2 DEF HeapInv, ListaInv, O
<1>12. ASSUME Sana(p)
       PROVE  Vale(O(p)', G(p)', cantPagReservar[p], pedidos[p], punteros[p], viejos[p], hilo'[h].pc, hilo'[h])
  <2>1. PICK R, F, n, k, P, V, r, y, H :
           /\ R = O(p) /\ F = G(p) /\ n = cantPagReservar[p] /\ k = pedidos[p] /\ P = punteros[p]
           /\ V = viejos[p] /\ r = hilo[h] /\ y = hilo'[h] /\ H = G(p)'
    OBVIOUS
  <2>2. n \in Nat /\ k \in Nat /\ Vale(R, F, n, k, P, V, "vacia", r)
    BY <1>3, <1>12, <2>1
  <2>3. m = r.pag \/ (m \in Nat /\ (m < Base \/ m >= Base + k))
    BY <1>6, <2>1
  <2>4. (\A i : i \in DOMAIN H <=> i \in DOMAIN F /\ i # m) /\ (\A i \in DOMAIN H : H[i] = F[i]) /\ y.pos = r.pos
    BY <1>8, <1>10, <2>1
  <2>5. Vale(R, H, n, k, P, V, "devuelta", y)
    BY <2>2, <2>3, <2>4, ValeDevuelve
  <2> QED BY <1>8, <1>11, <2>1, <2>5
<1> QED BY <1>1, <1>2, <1>8, <1>9, <1>10, <1>11, <1>12, PasoSigue

\* What the program holds when nothing of it is under way.
LEMMA SuyosLibre ==
  ASSUME NEW h, HeapInv(h), NEW p \in Pid, Sana(p), hilo[h].pid # p
  PROVE  /\ Vale(O(p), G(p), cantPagReservar[p], pedidos[p], punteros[p], viejos[p], "libre", Libre)
         /\ Mapa(O(p), G(p), cantPagReservar[p]) /\ Todas(O(p), G(p))
         /\ punteros[p] = Bloques(O(p), G(p), DOMAIN O(p))
         /\ \A v \in viejos[p] : v \in Nat /\ v % Pag >= Meta
<1>1. Vale(O(p), G(p), cantPagReservar[p], pedidos[p], punteros[p], viejos[p], "libre", Libre)
  <2>1. Firme(h, p) /\ En_(h, p) = "libre" /\ Con(h, p) = Libre
    BY DEF Firme, En_, Con
  <2>2. UnSano(h, p)
    BY DEF HeapInv
  <2>3. Tipos(O(p), G(p)) /\ Sano(O(p), G(p), cantPagReservar[p], pedidos[p], punteros[p], viejos[p], "libre", Libre)
    BY <2>1, <2>2 DEF UnSano
  <2> QED BY <2>3 DEF Vale
<1> QED BY <1>1, LibreVale

LEMMA EscribibleNat ==
  ASSUME NEW h, HeapInv(h), NEW p \in Pid, Sana(p), hilo[h].pid # p,
         NEW pos \in Escribibles(p)
  PROVE  pos \in Nat
<1>1. PICK R, F : R = O(p) /\ F = G(p)
  OBVIOUS
<1>2. /\ Mapa(R, F, cantPagReservar[p]) /\ Todas(R, F) /\ punteros[p] = Bloques(R, F, DOMAIN R)
      /\ \A v \in viejos[p] : v \in Nat
  BY <1>1, SuyosLibre
<1>3. CASE pos \in viejos[p]
  BY <1>2, <1>3
<1>4. CASE \E x \in punteros[p] : pos \in {x.desde, x.desde + x.cant}
  <2>1. PICK x \in Bloques(R, F, DOMAIN R) : pos \in {x.desde, x.desde + x.cant}
    BY <1>2, <1>4
  <2>2. DOMAIN R \in SUBSET (DOMAIN R) /\ \A a \in DOMAIN R : Llena(F, R[a])
    BY <1>2 DEF Todas
  <2>3. x.desde \in Nat /\ x.desde + x.cant \in Nat
    BY <1>2, <2>2, BloqueEn
  <2> QED BY <2>1, <2>3
<1>5. pos \in viejos[p] \/ \E x \in punteros[p] : pos \in {x.desde, x.desde + x.cant}
  <2>1. pos \in viejos[p] \cup UNION {{x.desde, x.desde + x.cant} : x \in punteros[p]}
    BY DEF Escribibles
  <2> QED BY <2>1
<1> QED BY <1>3, <1>4, <1>5

LEMMA VerificarAsignarPaso ==
  ASSUME NEW h \in Hilo, HeapInv(h), kernel = "vivo", NEW p \in Pid, NEW pos \in Escribibles(p),
         VerificarAsignar(h, p, pos)
  PROVE  HeapInv(h)'
<1>1. PICK r : r = [Libre EXCEPT !.pc = "verificar", !.pos = pos]
  OBVIOUS
<1>2. UnHilo(r) /\ r.pc = "verificar" /\ r.pos = pos
  BY <1>1 DEF Libre, UnHilo
<1>3. /\ Pide(h, p, r) /\ PedirHoja(h, p, pos \div Pag)
      /\ UNCHANGED <<mem_dinamica, objeto, cantPagReservar,
                     mutex_memoria_fd, kernel, estado, punteros, viejos>>
  BY <1>1 DEF VerificarAsignar, resto, lista
<1>4. /\ hilo[h] = Libre /\ hilo[h].pc = "libre" /\ hilo[h].pid = Nadie /\ hilo[h].pid # p
      /\ hilo' = [x \in {h} |-> hilo'[h]] /\ hilo'[h] = [r EXCEPT !.pid = p]
      /\ UnHilo(hilo'[h]) /\ hilo'[h].pid = p /\ hilo'[h].pc = r.pc /\ hilo'[h].pos = r.pos
      /\ hilo'[h].cant = r.cant /\ hilo'[h].ind = r.ind /\ hilo'[h].dir = r.dir
      /\ pedidos' \in [Pid -> Nat] /\ (\A q \in Pid : pedidos'[q] <= MaxPedidos[q])
      /\ (\A q \in Pid \ {p} : pedidos'[q] = pedidos[q])
      /\ pedidos'[p] = pedidos[p] + 1
  BY <1>2, <1>3, PideEs
<1>5. /\ hilo[h].pc = "libre" /\ hilo[h].pid = Nadie /\ hilo[h].pid # p
      /\ hilo' = [x \in {h} |-> hilo'[h]]
      /\ UnHilo(hilo'[h]) /\ hilo'[h].pid = p /\ hilo'[h].pc = "verificar" /\ hilo'[h].pos = pos
  BY <1>2, <1>4
<1>6. respuestas = << >> /\ mutex_memoria_fd \in {h, Nadie}
  BY <1>5, NadieEspera DEF HeapInv, HiloInv
<1>7. respuestas' = <<Lectura(h, p, pos \div Pag)>> /\ contenido' = contenido
  BY <1>3, <1>6, PedirHojaEs
<1>8. ProgInv'
  BY <1>3, <1>4, <1>7 DEF HeapInv, ProgInv
<1>9. HiloInv(h)'
  <2>1. PICK n : n = pos \div Pag
    OBVIOUS
  <2>2. n = IF hilo'[h].pc = "espacio" THEN objeto'[hilo'[h].dir].pag ELSE Pagina(hilo'[h])
    BY <1>5, <2>1 DEF Pagina
  <2>3. respuestas' = <<Lectura(h, hilo'[h].pid, n)>> /\ hilo'[h].pc \in Lee
    BY <1>5, <1>7, <2>1 DEF Lee
  <2>4. kernel' \in {"vivo", "caido"} /\ mutex_memoria_fd' \in {h, Nadie}
    BY <1>3, <1>6
  <2> QED BY <1>5, <1>7, <2>2, <2>3, <2>4, HiloLee
<1>10. ASSUME Sana(p)' PROVE UnSano(h, p)'
  <2>1. Sana(p)
    BY <1>3, <1>10 DEF Sana
  <2>2. /\ Vale(O(p), G(p), cantPagReservar[p], pedidos[p], punteros[p], viejos[p], "libre", Libre)
        /\ cantPagReservar[p] \in Nat /\ pedidos[p] \in Nat
    BY <1>5, <2>1, SuyoAntes DEF Suyo
  <2>3. hilo'[h].pos \in Nat
    BY <1>5, <2>1, EscribibleNat
  <2>4. Vale(O(p), G(p), cantPagReservar[p], pedidos[p] + 1, punteros[p], viejos[p], hilo'[h].pc, hilo'[h])
    <3>1. PICK R, F, N, k, P, V, x, e :
             /\ R = O(p) /\ F = G(p) /\ N = cantPagReservar[p] /\ k = pedidos[p] /\ P = punteros[p]
             /\ V = viejos[p] /\ x = hilo'[h] /\ e = hilo'[h].pc
      OBVIOUS
    <3>2. N \in Nat /\ k \in Nat /\ Vale(R, F, N, k, P, V, "libre", Libre)
      BY <2>2, <3>1
    <3>3. e \in {"negada", "buscar", "verificar"} /\ e # "buscar" /\ x.pos \in Nat
      BY <1>5, <2>3, <3>1
    <3>4. Vale(R, F, N, k + 1, P, V, e, x)
      BY <3>2, <3>3, ValePide
    <3> QED BY <3>1, <3>4
  <2>5. pedidos'[p] = pedidos[p] + 1 /\ hilo'[h].pid = p
    BY <1>4
  <2> QED BY <1>3, <1>7, <2>4, <2>5, MismoHeap, SuyoDespues
<1> QED BY <1>3, <1>4, <1>5, <1>7, <1>8, <1>9, <1>10, PasoQuieto

LEMMA RecibirHojaAsignarPaso ==
  ASSUME NEW h \in Hilo, HeapInv(h), kernel = "vivo", RecibirHojaAsignar(h)
  PROVE  HeapInv(h)'
<1>1. PICK p, n : p = hilo[h].pid /\ n = Pagina(hilo[h])
  OBVIOUS
<1>2. /\ hilo[h].pc = "verificar" /\ Bien /\ respuestas' = Tail(respuestas)
      /\ UNCHANGED <<contenido, mem_dinamica, objeto, cantPagReservar, mutex_memoria_fd, kernel,
                     punteros, pedidos, viejos>>
  BY DEF RecibirHojaAsignar, Espera, En, Recibe, resto, lista
<1>3. /\ p \in Pid /\ hilo = [x \in {h} |-> hilo[h]] /\ UnHilo(hilo[h]) /\ kernel \in {"vivo", "caido"}
      /\ mutex_memoria_fd \in {h, Nadie} /\ cantPagReservar[p] \in Nat /\ pedidos[p] \in Nat
      /\ Sana(p) => Vale(O(p), G(p), cantPagReservar[p], pedidos[p], punteros[p], viejos[p], "verificar", hilo[h])
  BY <1>1, <1>2, EnCurso
<1>4. n \in DOMAIN G(p) /\ G(p)[n] = Leida /\ respuestas' = << >>
  <2>1. n = PaginaLeida(hilo[h]) /\ hilo[h].pc \in Lee
    BY <1>1, <1>2 DEF PaginaLeida, Lee
  <2> QED BY <1>1, <1>2, <2>1, HojaLeida
<1>5. CASE AsignacionOk(Leida, hilo[h].pos % Pag, 1)
  <2>1. Pasa(h, [hilo[h] EXCEPT !.pc = "asignar"]) /\ estado' = estado
    BY <1>5 DEF RecibirHojaAsignar, PasaA
  <2>2. hilo' = [x \in {h} |-> hilo'[h]] /\ hilo'[h] = [hilo[h] EXCEPT !.pc = "asignar"]
    BY <1>3, <2>1, PasaEs
  <2>3. UnHilo(hilo'[h]) /\ hilo'[h].pc = "asignar" /\ hilo'[h].pid = p /\ hilo'[h].pos = hilo[h].pos
    BY <1>1, <1>3, <2>2 DEF UnHilo
  <2>4. HiloInv(h)'
    BY <1>2, <1>3, <1>4, <2>2, <2>3, HiloQuieto
  <2>5. ASSUME Sana(p)
        PROVE  Vale(O(p), G(p), cantPagReservar[p], pedidos[p], punteros[p], viejos[p], hilo'[h].pc, hilo'[h])
    <3>1. Pagina(hilo[h]) \in DOMAIN G(p) /\ AsignacionOk(G(p)[Pagina(hilo[h])], hilo[h].pos % Pag, 1)
      BY <1>1, <1>4, <1>5
    <3>2. Vale(O(p), G(p), cantPagReservar[p], pedidos[p], punteros[p], viejos[p], "verificar", hilo[h])
      BY <1>3, <2>5
    <3> QED BY <1>3, <2>3, <3>1, <3>2, ValeVerifica
  <2> QED BY <1>1, <1>2, <2>1, <2>3, <2>4, <2>5, PasoFijo
<1>6. CASE ~AsignacionOk(Leida, hilo[h].pos % Pag, 1)
  <2>1. Contesta(h, "sale")
    BY <1>6 DEF RecibirHojaAsignar
  <2> QED BY <1>2, <1>3, <1>4, <2>1, PasoFalla
<1> QED BY <1>5, <1>6

LEMMA EscribirCeldaPaso ==
  ASSUME NEW h \in Hilo, HeapInv(h), kernel = "vivo", EscribirCelda(h)
  PROVE  HeapInv(h)'
<1>1. PICK p, n, off : p = hilo[h].pid /\ n = Pagina(hilo[h]) /\ off = hilo[h].pos % Pag
  OBVIOUS
<1>2. /\ hilo[h].pc = "asignar" /\ contenido' = Grabado(p, n, Hoja(1), {off}) /\ Contesta(h, "corre")
      /\ UNCHANGED <<respuestas, mem_dinamica, objeto, cantPagReservar, mutex_memoria_fd, kernel,
                     punteros, pedidos, viejos>>
  BY <1>1 DEF EscribirCelda, En, Pagina, resto, lista
<1>3. /\ p \in Pid /\ kernel \in {"vivo", "caido"}
      /\ mutex_memoria_fd \in {h, Nadie} /\ cantPagReservar[p] \in Nat /\ pedidos[p] \in Nat
      /\ Sana(p) => Vale(O(p), G(p), cantPagReservar[p], pedidos[p], punteros[p], viejos[p], "asignar", hilo[h])
  BY <1>1, <1>2, EnCurso
<1>4. respuestas = << >>
  BY <1>2, NadieEspera DEF HeapInv, Andando
<1>5. /\ Paginado(contenido') /\ (\A q : q # p => G(q)' = G(q))
      /\ DOMAIN G(p)' = DOMAIN G(p)
      /\ (\A m \in DOMAIN G(p) \ {n} : G(p)'[m] = G(p)[m])
      /\ (n \in DOMAIN G(p) => G(p)'[n] = [x \in Celda |-> IF x \in {off} THEN Hoja(1)[x] ELSE G(p)[n][x]])
  <2>1. PICK g, S : g = Hoja(1) /\ S = {off}
    OBVIOUS
  <2>2. contenido' = Grabado(p, n, g, S)
    BY <1>2, <2>1
  <2>3. /\ Paginado(contenido') /\ (\A q : q # p => G(q)' = G(q))
        /\ DOMAIN G(p)' = DOMAIN G(p)
        /\ (\A m \in DOMAIN G(p) \ {n} : G(p)'[m] = G(p)[m])
        /\ (n \in DOMAIN G(p) => G(p)'[n] = [x \in Celda |-> IF x \in S THEN g[x] ELSE G(p)[n][x]])
    BY <2>2, Escrita
  <2> QED BY <2>1, <2>3
<1>6. ListaInv' /\ (\A q : O(q)' = O(q)) /\ cantPagReservar' \in [Pid -> Nat]
      /\ punteros' = [q \in Pid |-> punteros'[q]]
  BY <1>2 DEF HeapInv, ListaInv, ProgInv, O
<1>7. ASSUME Sana(p)
      PROVE  Vale(O(p)', G(p)', cantPagReservar'[p], pedidos[p], punteros'[p], viejos[p], "libre", Libre)
  <2>1. PICK R, F, N, k, P, V, r, H :
           /\ R = O(p) /\ F = G(p) /\ N = cantPagReservar[p] /\ k = pedidos[p] /\ P = punteros[p]
           /\ V = viejos[p] /\ r = hilo[h] /\ H = G(p)'
    OBVIOUS
  <2>2. N \in Nat /\ k \in Nat /\ Vale(R, F, N, k, P, V, "asignar", r)
    BY <1>3, <1>7, <2>1
  <2>3. n = Pagina(r) /\ off = r.pos % Pag
    BY <1>1, <2>1
  <2>4. DOMAIN H = DOMAIN F /\ (\A m \in DOMAIN F \ {n} : H[m] = F[m])
    BY <1>5, <2>1
  <2>5. n \in DOMAIN F => H[n] \in [Celda -> Nat] /\ \A x \in Celda \ {off} : H[n][x] = F[n][x]
    <3>1. ASSUME n \in DOMAIN F
          PROVE  H[n] \in [Celda -> Nat] /\ \A x \in Celda \ {off} : H[n][x] = F[n][x]
      <4>1. "asignar" \in Limpias
        BY DEF Limpias
      <4>2. F[n] \in [Celda -> Nat]
        BY <2>2, <3>1, <4>1, ValeLimpia DEF Tipos
      <4>3. H[n] = [x \in Celda |-> IF x \in {off} THEN Hoja(1)[x] ELSE F[n][x]]
        BY <1>5, <2>1, <3>1
      <4>4. \A x \in Celda : Hoja(1)[x] = 1
        BY DEF Hoja
      <4> QED BY <4>2, <4>3, <4>4
    <3> QED BY <3>1
  <2>6. Vale(R, H, N, k, P, V, "libre", Libre)
    BY <2>2, <2>3, <2>4, <2>5, ValeEscribe
  <2>7. R = O(p)' /\ N = cantPagReservar'[p] /\ P = punteros'[p]
    BY <1>2, <1>6, <2>1
  <2> QED BY <2>1, <2>6, <2>7
<1>8. /\ hilo[h].pc # "libre" /\ Contesta(h, "corre") /\ Paginado(contenido')
      /\ pedidos' = pedidos /\ viejos' = viejos /\ kernel' = kernel
      /\ respuestas' = << >> /\ mutex_memoria_fd' \in {h, Nadie}
      /\ \A q \in Pid \ {p} : /\ O(q)' = O(q) /\ G(q)' = G(q) /\ cantPagReservar'[q] = cantPagReservar[q]
                             /\ punteros'[q] = punteros[q]
  BY <1>2, <1>3, <1>4, <1>5, <1>6
<1> QED BY <1>1, <1>6, <1>7, <1>8, PasoCorre

LEMMA BuscarReservaEs ==
  ASSUME ListaInv, NEW p, NEW n, NEW i, i = BuscarReserva(p, n)
  PROVE  /\ i # 0 => i \in ReservasDe(p) /\ objeto[mem_dinamica[i]].pag = n
         /\ i # 0 <=> \E a \in DOMAIN O(p) : O(p)[a].pag = n
<1>1. PICK S : S = {j \in ReservasDe(p) : objeto[mem_dinamica[j]].pag = n}
  OBVIOUS
<1>2. i = IF S = {} THEN 0 ELSE Primero(S)
  BY <1>1 DEF BuscarReserva
<1>3. S \subseteq Nat \ {0}
  BY <1>1 DEF ReservasDe, ListaInv, ListaBien
<1>4. S # {} => Primero(S) \in S
  BY <1>3, PrimeroDe
<1>5. S # {} <=> \E a \in DOMAIN O(p) : O(p)[a].pag = n
  <2>1. \A j \in S : mem_dinamica[j] \in DOMAIN O(p) /\ O(p)[mem_dinamica[j]].pag = n
    BY <1>1 DEF ReservasDe, ListaInv, ListaBien, O, ReservaDe, DirsDe
  <2>2. ASSUME NEW a \in DOMAIN O(p), O(p)[a].pag = n PROVE S # {}
    <3>1. a \in DOMAIN objeto /\ objeto[a].pid = p /\ objeto[a].pag = n
      BY <2>2 DEF O, ReservaDe, DirsDe
    <3>2. PICK j \in DOMAIN mem_dinamica : a = mem_dinamica[j]
      BY <3>1 DEF ListaInv, ListaBien
    <3> QED BY <1>1, <3>1, <3>2 DEF ReservasDe
  <2> QED BY <2>1, <2>2
<1>6. CASE S = {}
  BY <1>2, <1>5, <1>6
<1>7. CASE S # {}
  <2>1. i \in S /\ i # 0
    BY <1>2, <1>3, <1>4, <1>7
  <2> QED BY <1>1, <1>5, <1>7, <2>1
<1> QED BY <1>6, <1>7

\* A thread that is about to read the page of the reserva it found.
LEMMA HiloToma ==
  ASSUME NEW h, hilo' = [x \in {h} |-> hilo'[h]], UnHilo(hilo'[h]), hilo'[h].pc = "tomar",
         hilo'[h].pid \in Pid, hilo'[h].ind \in ReservasDe(hilo[h].pid)',
         objeto'[mem_dinamica'[hilo'[h].ind]].pag = Pagina(hilo'[h]),
         kernel' \in {"vivo", "caido"}, respuestas' = << >>, mutex_memoria_fd' \in {h, Nadie}
  PROVE  HiloInv(h)'
<1>1. Pagina(hilo[h])' = Pagina(hilo'[h])
  BY DEF Pagina
<1> QED BY <1>1 DEF HiloInv, Buzon, Lee, Recoge, Andando

\* What a program may give up.
LEMMA LiberableEs ==
  ASSUME NEW p, NEW pos \in Liberables(p), DOMAIN contenido \subseteq Pid \X Nat
  PROVE  \/ \E x \in punteros[p] : x.desde = pos
         \/ /\ pos \in viejos[p]
            /\ pos \div Pag \in DOMAIN G(p) => ~Usado(G(p)[pos \div Pag], (pos % Pag) - Meta)
<1>1. pos \in {r.desde : r \in punteros[p]} \/ pos \in {v \in viejos[p] : SeVeLibre(p, v)}
  BY DEF Liberables
<1>2. CASE pos \in {r.desde : r \in punteros[p]}
  BY <1>2
<1>3. CASE pos \in viejos[p] /\ SeVeLibre(p, pos)
  <2>1. PICK n : n = pos \div Pag
    OBVIOUS
  <2>2. <<p, n>> \in DOMAIN contenido => ~Usado(contenido[<<p, n>>], (pos % Pag) - Meta)
    BY <1>3, <2>1 DEF SeVeLibre
  <2>3. n \in DOMAIN G(p) => <<p, n>> \in DOMAIN contenido /\ G(p)[n] = contenido[<<p, n>>]
    BY PaginasSon DEF G
  <2> QED BY <1>3, <2>1, <2>2, <2>3
<1> QED BY <1>1, <1>2, <1>3

LEMMA LiberarMemoriaPaso ==
  ASSUME NEW h \in Hilo, HeapInv(h), kernel = "vivo", NEW p \in Pid, NEW pos \in Liberables(p),
         LiberarMemoria(h, p, pos)
  PROVE  HeapInv(h)'
<1>1. PICK i, e : i = BuscarReserva(p, pos \div Pag) /\ e = IF i = 0 THEN "negada" ELSE "tomar"
  OBVIOUS
<1>2. PICK r : r = [Libre EXCEPT !.pc = e, !.ind = i, !.pos = pos]
  OBVIOUS
<1>3. UnHilo(r) /\ r.pc = e /\ r.pos = pos /\ r.ind = i
  BY <1>2 DEF Libre, UnHilo
<1>4. Pide(h, p, r)
  BY <1>1, <1>2 DEF LiberarMemoria
<1>5. /\ punteros' = [punteros EXCEPT ![p] = {x \in @ : x.desde # pos}]
      /\ viejos' = [viejos EXCEPT ![p] = @ \cup {pos}]
      /\ UNCHANGED <<contenido, respuestas, mem_dinamica, objeto, cantPagReservar,
                     mutex_memoria_fd, kernel, estado>>
  BY DEF LiberarMemoria, memoria, resto, lista
<1>6. /\ hilo[h] = Libre /\ hilo[h].pc = "libre" /\ hilo[h].pid = Nadie /\ hilo[h].pid # p
      /\ hilo' = [x \in {h} |-> hilo'[h]] /\ hilo'[h] = [r EXCEPT !.pid = p]
      /\ UnHilo(hilo'[h]) /\ hilo'[h].pid = p /\ hilo'[h].pc = r.pc /\ hilo'[h].pos = r.pos
      /\ hilo'[h].cant = r.cant /\ hilo'[h].ind = r.ind /\ hilo'[h].dir = r.dir
      /\ pedidos' \in [Pid -> Nat] /\ (\A q \in Pid : pedidos'[q] <= MaxPedidos[q])
      /\ (\A q \in Pid \ {p} : pedidos'[q] = pedidos[q])
      /\ pedidos'[p] = pedidos[p] + 1
  BY <1>3, <1>4, PideEs
<1>7. /\ hilo[h].pc = "libre" /\ hilo[h].pid = Nadie /\ hilo[h].pid # p
      /\ hilo' = [x \in {h} |-> hilo'[h]] /\ UnHilo(hilo'[h])
      /\ hilo'[h].pid = p /\ hilo'[h].pc = e /\ hilo'[h].pos = pos /\ hilo'[h].ind = i
      /\ pedidos'[p] = pedidos[p] + 1
  BY <1>3, <1>6
<1>8. punteros = [q \in Pid |-> punteros[q]] /\ viejos = [q \in Pid |-> viejos[q]]
  BY DEF HeapInv, ProgInv
<1>9. /\ punteros' = [q \in Pid |-> punteros'[q]] /\ viejos' = [q \in Pid |-> viejos'[q]]
      /\ (\A q \in Pid \ {p} : punteros'[q] = punteros[q] /\ viejos'[q] = viejos[q])
      /\ punteros'[p] = {x \in punteros[p] : x.desde # pos} /\ viejos'[p] = viejos[p] \cup {pos}
  <2>1. PICK Z, W : Z = {x \in punteros[p] : x.desde # pos} /\ W = viejos[p] \cup {pos}
    OBVIOUS
  <2>2. DOMAIN punteros = Pid /\ DOMAIN viejos = Pid
    BY <1>8
  <2>3. punteros' = [punteros EXCEPT ![p] = Z] /\ viejos' = [viejos EXCEPT ![p] = W]
    BY <1>5, <2>1, <2>2
  <2>4. /\ punteros' = [q \in Pid |-> punteros'[q]] /\ viejos' = [q \in Pid |-> viejos'[q]]
        /\ (\A q \in Pid \ {p} : punteros'[q] = punteros[q] /\ viejos'[q] = viejos[q])
        /\ punteros'[p] = Z /\ viejos'[p] = W
    BY <2>2, <2>3
  <2> QED BY <2>1, <2>4
<1>10. ProgInv'
  <2>1. Paginado(contenido') /\ cantPagReservar' \in [Pid -> Nat]
        /\ estado' \in [Pid -> {"corre", "fallo", "sale", "fin"}]
    BY <1>5 DEF HeapInv, ProgInv
  <2>2. pedidos' \in [Pid -> Nat] /\ \A q \in Pid : pedidos'[q] <= MaxPedidos[q]
    BY <1>6
  <2> QED BY <1>9, <2>1, <2>2 DEF ProgInv
<1>11. /\ i # 0 => i \in ReservasDe(p) /\ objeto[mem_dinamica[i]].pag = pos \div Pag
       /\ i # 0 <=> \E a \in DOMAIN O(p) : O(p)[a].pag = pos \div Pag
  <2>1. PICK n : n = pos \div Pag
    OBVIOUS
  <2>2. ListaInv /\ i = BuscarReserva(p, n)
    BY <1>1, <2>1 DEF HeapInv
  <2>3. /\ i # 0 => i \in ReservasDe(p) /\ objeto[mem_dinamica[i]].pag = n
        /\ i # 0 <=> \E a \in DOMAIN O(p) : O(p)[a].pag = n
    BY <2>2, BuscarReservaEs
  <2> QED BY <2>1, <2>3
<1>12. HiloInv(h)'
  <2>1. respuestas' = << >> /\ mutex_memoria_fd' \in {h, Nadie} /\ kernel' \in {"vivo", "caido"}
    BY <1>5, <1>7, NadieEspera DEF HeapInv, HiloInv
  <2>2. CASE i = 0
    <3>1. e = "negada"
      BY <1>1, <2>2
    <3> QED BY <1>7, <2>1, <3>1, HiloQuieto
  <2>3. CASE i # 0
    <3>1. hilo'[h].pc = "tomar"
      BY <1>1, <1>7, <2>3
    <3>2. hilo'[h].ind \in ReservasDe(hilo[h].pid)'
      BY <1>5, <1>7, <1>11, <2>3 DEF ReservasDe
    <3>3. objeto'[mem_dinamica'[hilo'[h].ind]].pag = Pagina(hilo'[h])
      BY <1>5, <1>7, <1>11, <2>3 DEF Pagina
    <3> QED BY <1>7, <2>1, <3>1, <3>2, <3>3, HiloToma
  <2> QED BY <2>2, <2>3
<1>13. ASSUME Sana(p)' PROVE UnSano(h, p)'
  <2>1. Sana(p)
    BY <1>5, <1>13 DEF Sana
  <2>2. /\ Vale(O(p), G(p), cantPagReservar[p], pedidos[p], punteros[p], viejos[p], "libre", Libre)
        /\ cantPagReservar[p] \in Nat /\ pedidos[p] \in Nat
    BY <1>7, <2>1, SuyoAntes DEF Suyo
  <2>3. PICK R, F, N, k, P, V, x :
           /\ R = O(p) /\ F = G(p) /\ N = cantPagReservar[p] /\ k = pedidos[p] /\ P = punteros[p]
           /\ V = viejos[p] /\ x = hilo'[h]
    OBVIOUS
  <2>4. N \in Nat /\ k \in Nat /\ Vale(R, F, N, k, P, V, "libre", Libre) /\ x.pos = pos
    BY <1>7, <2>2, <2>3
  <2>5. Pagina(x) = pos \div Pag /\ Inicio(x) = (pos % Pag) - Meta
    BY <2>4 DEF Pagina, Inicio
  <2>6. \/ \E y \in P : y.desde = pos
        \/ pos \in V /\ (Pagina(x) \in DOMAIN F => ~Usado(F[Pagina(x)], Inicio(x)))
    <3>1. DOMAIN contenido \subseteq Pid \X Nat
      BY DEF HeapInv, ProgInv, Paginado
    <3> QED BY <2>3, <2>5, <3>1, LiberableEs
  <2>7. e \in {"tomar", "negada"} /\ (e = "tomar" <=> \E a \in DOMAIN R : R[a].pag = Pagina(x))
    BY <1>1, <1>11, <2>3, <2>5
  <2>8. PICK Z, W : Z = {y \in P : y.desde # pos} /\ W = V \cup {pos}
    OBVIOUS
  <2>9. Cede(R, F, P, V, x, pos, e)
    BY <2>4, <2>6, <2>7 DEF Cede
  <2>10. Vale(R, F, N, k + 1, Z, W, e, x)
    <3>1. /\ N \in Nat /\ k \in Nat /\ Vale(R, F, N, k, P, V, "libre", Libre)
          /\ Z = {y \in P : y.desde # pos} /\ W = V \cup {pos}
      BY <2>4, <2>8
    <3> QED BY <2>9, <3>1, ValeLibera
  <2>11. /\ R = O(p)' /\ F = G(p)' /\ N = cantPagReservar'[p] /\ k + 1 = pedidos'[p]
        /\ Z = punteros'[p] /\ W = viejos'[p]
        /\ e = hilo'[h].pc /\ x = hilo'[h]
    BY <1>5, <1>7, <1>9, <2>3, <2>8, MismoHeap
  <2>12. Vale(O(p)', G(p)', cantPagReservar'[p], pedidos'[p], punteros'[p], viejos'[p], hilo'[h].pc, hilo'[h])
    BY <2>10, <2>11
  <2> QED BY <1>7, <2>12, SuyoDespues
<1>14. \A q \in Pid \ {p} : /\ estado'[q] = estado[q] /\ cantPagReservar'[q] = cantPagReservar[q]
                            /\ pedidos'[q] = pedidos[q] /\ punteros'[q] = punteros[q]
                            /\ viejos'[q] = viejos[q]
  BY <1>5, <1>6, <1>9
<1>15. /\ mem_dinamica' = mem_dinamica /\ objeto' = objeto /\ contenido' = contenido
       /\ hilo[h].pid \in {p, Nadie} /\ hilo'[h].pid \in {p, Nadie}
  BY <1>5, <1>7
<1> QED BY <1>10, <1>12, <1>13, <1>14, <1>15, PasoQuieto

\* A thread that is about to end its program.
LEMMA HiloTermina ==
  ASSUME NEW h, hilo' = [x \in {h} |-> hilo'[h]], UnHilo(hilo'[h]), hilo'[h].pc = "terminar",
         hilo'[h].pid \in Pid, hilo'[h].pos = 0,
         kernel' \in {"vivo", "caido"}, respuestas' = << >>, mutex_memoria_fd' \in {h, Nadie}
  PROVE  HiloInv(h)'
BY DEF HiloInv, Buzon, Lee, Recoge, Andando

LEMMA TerminarPaso ==
  ASSUME NEW h \in Hilo, HeapInv(h), kernel = "vivo", NEW p \in Pid, Terminar(h, p)
  PROVE  HeapInv(h)'
<1>1. PICK Q : Q = Quitadas(p)
  OBVIOUS
<1>2. /\ hilo[h].pc = "libre" /\ Pasa(h, [Libre EXCEPT !.pc = "terminar", !.pid = p])
      /\ mem_dinamica' = SinIndices(mem_dinamica, Q) /\ objeto' = SinObjetos({mem_dinamica[i] : i \in Q})
      /\ UNCHANGED <<contenido, respuestas, cantPagReservar, mutex_memoria_fd, kernel,
                     estado, punteros, viejos, pedidos>>
  BY <1>1 DEF Terminar, En, memoria, programa
<1>3. hilo = [x \in {h} |-> hilo[h]] /\ hilo[h] = Libre /\ ListaInv
      /\ mutex_memoria_fd \in {h, Nadie}
  BY <1>2 DEF HeapInv, HiloInv
<1>4. hilo' = [x \in {h} |-> hilo'[h]] /\ hilo'[h] = [Libre EXCEPT !.pc = "terminar", !.pid = p]
  BY <1>2, <1>3, PasaEs
<1>5. UnHilo(hilo'[h]) /\ hilo'[h].pc = "terminar" /\ hilo'[h].pid = p /\ hilo'[h].pos = 0
  BY <1>4 DEF UnHilo, Libre
<1>6. respuestas = << >>
  BY <1>2, NadieEspera DEF HeapInv
<1>7. HiloInv(h)'
  BY <1>2, <1>3, <1>4, <1>5, <1>6, HiloTermina
<1>8. /\ ListaInv' /\ (\A q : q # p => O(q)' = O(q))
      /\ DOMAIN O(p)' = DOMAIN O(p) \ {mem_dinamica[i] : i \in Q}
      /\ (\A a \in DOMAIN O(p)' : O(p)'[a] = O(p)[a])
  <2>1. Q \in SUBSET ReservasDe(p)
    BY <1>1, <1>3, QuitaSuyas
  <2>2. mem_dinamica' = SinIndices(mem_dinamica, Q) /\ objeto' = SinObjetos({mem_dinamica[i] : i \in Q})
    BY <1>2
  <2> QED BY <1>3, <2>1, <2>2, UnasMenos
<1>9. ProgInv'
  BY <1>2 DEF HeapInv, ProgInv
<1>10. \A q : G(q)' = G(q)
  BY <1>2 DEF G
<1>11. \A q \in Pid \ {p} : Igual(q)
  BY <1>2, <1>8, <1>10 DEF Igual
<1>12. ASSUME Sana(p)' PROVE UnSano(h, p)'
  <2>1. Sana(p)
    BY <1>2, <1>12 DEF Sana
  <2>2. Tipos(O(p), G(p))
    BY <2>1 DEF HeapInv, UnSano
  <2>3. Tipos(O(p)', G(p)')
    BY <1>8, <1>10, <2>2 DEF Tipos
  <2>4. ~Firme(h, p)'
    BY <1>5 DEF Firme
  <2> QED BY <2>3, <2>4 DEF UnSano
<1>13. hilo[h].pid \in {p, Nadie} /\ hilo'[h].pid \in {p, Nadie}
  BY <1>3, <1>5, LibreEs
<1> QED BY <1>7, <1>8, <1>9, <1>11, <1>12, <1>13, Paso

LEMMA FinalizarPaso ==
  ASSUME NEW h \in Hilo, HeapInv(h), kernel = "vivo", Finalizar(h)
  PROVE  HeapInv(h)'
<1>1. PICK p, X : p = hilo[h].pid /\ X = Mem!De(p)
  OBVIOUS
<1>2. /\ hilo[h].pc = "terminar" /\ Contesta(h, "fin")
      /\ contenido' = Quedan(X) /\ punteros' = [punteros EXCEPT ![p] = {}]
      /\ UNCHANGED <<respuestas, mem_dinamica, objeto, cantPagReservar, mutex_memoria_fd, kernel,
                     pedidos, viejos>>
  BY <1>1 DEF Finalizar, En, Quedan, resto, lista
<1>3. /\ p \in Pid
      /\ hilo' = [x \in {h} |-> hilo'[h]] /\ hilo'[h] = Libre /\ hilo'[h].pid = Nadie
      /\ estado' \in [Pid -> {"corre", "fallo", "sale", "fin"}]
      /\ (\A q \in Pid \ {p} : estado'[q] = estado[q]) /\ ~Sana(p)'
  <2>1. Contestado(h, p, "fin")
    BY <1>1, <1>2, ContestaEs
  <2> QED BY <2>1 DEF Contestado
<1>4. respuestas' = << >> /\ kernel' \in {"vivo", "caido"} /\ mutex_memoria_fd' \in {h, Nadie}
  BY <1>2, NadieEspera DEF HeapInv, HiloInv, Andando
<1>5. HiloInv(h)'
  BY <1>3, <1>4, HiloQuieto, LibreEs
<1>6. Paginado(contenido') /\ (\A q : q # p => G(q)' = G(q))
  <2>1. PICK C : C = contenido'
    OBVIOUS
  <2>2. DOMAIN contenido \subseteq Pid \X Nat
    BY DEF HeapInv, ProgInv, Paginado
  <2>3. (\A x \in X : x[1] = p) /\ C = Quedan(X)
    BY <1>1, <1>2, <2>1 DEF Mem!De
  <2>4. SinLasDe(C, p, X)
    BY <2>2, <2>3, SinPaginas
  <2> QED BY <2>1, <2>4 DEF G, SinLasDe
<1>7. ListaInv' /\ (\A q : O(q)' = O(q))
  BY <1>2 DEF HeapInv, ListaInv, O
<1>8. punteros' = [q \in Pid |-> punteros'[q]] /\ \A q \in Pid \ {p} : punteros'[q] = punteros[q]
  BY <1>2, <1>3 DEF HeapInv, ProgInv
<1>9. ProgInv'
  BY <1>2, <1>3, <1>6, <1>8 DEF HeapInv, ProgInv
<1>10. \A q \in Pid \ {p} : Igual(q)
  BY <1>2, <1>3, <1>6, <1>7, <1>8 DEF Igual
<1> QED BY <1>1, <1>3, <1>5, <1>7, <1>9, <1>10, Paso

LEMMA CopiarDeNadaPaso ==
  ASSUME NEW h \in Hilo, HeapInv(h), kernel = "vivo", CopiarDeNada(h)
  PROVE  HeapInv(h)'
<1>1. /\ kernel' = "caido"
      /\ UNCHANGED <<contenido, mem_dinamica, objeto, cantPagReservar, mutex_memoria_fd, hilo,
                     estado, punteros, viejos, pedidos>>
  BY DEF CopiarDeNada, resto, lista, programa
<1>2. ListaInv' /\ ProgInv' /\ (\A q : O(q)' = O(q) /\ G(q)' = G(q))
  BY <1>1 DEF HeapInv, ListaInv, ProgInv, O, G
<1>3. HiloInv(h)'
  BY <1>1 DEF HeapInv, HiloInv, Dirs, ReservasDe, Pagina
<1>4. \A q \in Pid : UnSano(h, q)'
  BY <1>1, <1>2 DEF HeapInv, UnSano, Sana, Firme, En_, Con
<1> QED BY <1>2, <1>3, <1>4 DEF HeapInv

-----------------------------------------------------------------------------
(* The invariant.                                                          *)

LEMMA HeapInicio ==
  ASSUME NEW h, Hilo = {h}, Init
  PROVE  HeapInv(h)
<1>1. ListaInv
  <2>1. DOMAIN objeto = {} /\ DOMAIN mem_dinamica = {} /\ mem_dinamica \in Seq(Nat \ {0})
        /\ objeto = [a \in DOMAIN objeto |-> objeto[a]]
    BY DEF Init
  <2> QED BY <2>1 DEF ListaInv, ListaBien
<1>2. Paginado(contenido)
  <2>1. Base \in Nat
    BY HeapAssumption
  <2>2. DOMAIN contenido = Pid \X (0..(Base - 1)) /\ contenido = [pg \in DOMAIN contenido |-> contenido[pg]]
    BY DEF Init
  <2> QED BY <2>1, <2>2 DEF Paginado
<1>3. ProgInv
  <2>1. MaxPedidos \in [Pid -> Nat]
    BY HeapAssumption
  <2> QED BY <1>2, <2>1 DEF Init, ProgInv
<1>4. hilo = [x \in {h} |-> hilo[h]] /\ hilo[h] = Libre
  BY DEF Init
<1>5. HiloInv(h)
  <2>1. hilo[h].pc = "libre" /\ respuestas = << >> /\ mutex_memoria_fd = Nadie /\ kernel = "vivo"
    BY <1>4, LibreEs DEF Init
  <2>2. Buzon(h)
    BY <2>1 DEF Buzon, Lee, Recoge
  <2> QED BY <1>4, <2>1, <2>2, LibreEs DEF HiloInv
<1>6. ASSUME NEW p \in Pid PROVE UnSano(h, p)
  <2>1. PICK R, F : R = O(p) /\ F = G(p)
    OBVIOUS
  <2>2. DOMAIN R = {}
    BY <2>1 DEF O, ReservaDe, DirsDe, Init
  <2>3. \A m \in DOMAIN F : m \in 0..(Base - 1) /\ F[m] = Hoja(0)
    <3>1. DOMAIN contenido \subseteq Pid \X Nat
      BY <1>2 DEF Paginado
    <3>2. /\ \A m : m \in DOMAIN F <=> <<p, m>> \in DOMAIN contenido
          /\ \A m \in DOMAIN F : F[m] = contenido[<<p, m>>]
      BY <2>1, <3>1, PaginasSon DEF G
    <3> QED BY <3>2 DEF Init
  <2>4. Base \in Nat /\ Hoja(0) \in [Celda -> Nat]
    BY HeapAssumption DEF Hoja
  <2>5. Tipos(R, F) /\ Todas(R, F) /\ Mapa(R, F, 0)
    BY <2>2, <2>3, <2>4 DEF Tipos, Todas, Mapa
  <2>6. Bloques(R, F, DOMAIN R) = {}
    BY <2>2 DEF Bloques
  <2>7. cantPagReservar[p] = 0 /\ pedidos[p] = 0 /\ punteros[p] = {} /\ viejos[p] = {}
    BY DEF Init
  <2>8. Vale(R, F, 0, 0, {}, {}, "libre", Libre)
    BY <2>5, <2>6, LibreVale
  <2>9. En_(h, p) = "libre" /\ Con(h, p) = Libre
    <3>1. hilo[h].pid # p
      BY <1>4, LibreEs, HeapAssumption
    <3> QED BY <3>1 DEF En_, Con
  <2> QED BY <2>1, <2>7, <2>8, <2>9 DEF UnSano, Vale
<1> QED BY <1>1, <1>3, <1>5, <1>6 DEF HeapInv

LEMMA HeapQuieto ==
  ASSUME NEW h, HeapInv(h), UNCHANGED vars
  PROVE  HeapInv(h)'
<1>1. UNCHANGED <<contenido, mem_dinamica, objeto, cantPagReservar, respuestas,
                  mutex_memoria_fd, hilo, kernel, estado, punteros, viejos, pedidos>>
  BY DEF vars
<1>2. ListaInv' /\ ProgInv' /\ (\A q : O(q)' = O(q) /\ G(q)' = G(q))
  BY <1>1 DEF HeapInv, ListaInv, ProgInv, O, G
<1>3. Buzon(h)' = Buzon(h)
  BY <1>1 DEF Buzon, Lectura, Respuesta, PaginaLeida, Pagina
<1>4. HiloInv(h)'
  BY <1>1, <1>3 DEF HeapInv, HiloInv, Dirs, ReservasDe, Pagina
<1>5. \A q \in Pid : UnSano(h, q)'
  BY <1>1, <1>2 DEF HeapInv, UnSano, Sana, Firme, En_, Con
<1> QED BY <1>2, <1>4, <1>5 DEF HeapInv

LEMMA HeapAvanza ==
  ASSUME NEW h \in Hilo, HeapInv(h), kernel = "vivo", AjenoFuera, Avanza(h)
  PROVE  HeapInv(h)'
<1>1. CASE Negar(h)              BY <1>1, NegarPaso
<1>2. CASE Buscar(h)             BY <1>2, BuscarPaso
<1>3. CASE RecibirHoja(h)        BY <1>3, RecibirHojaPaso
<1>4. CASE RecibirGrabada(h)     BY <1>4, RecibirGrabadaPaso
<1>5. CASE PedirPagina(h)        BY <1>5, PedirPaginaPaso
<1>6. CASE RecibirAsignada(h)    BY <1>6, RecibirAsignadaPaso
<1>7. CASE RecibirCabecera(h)    BY <1>7, RecibirCabeceraPaso
<1>8. CASE RecibirSegunda(h)     BY <1>8, RecibirSegundaPaso
<1>9. CASE TomarReserva(h)       BY <1>9, TomarReservaPaso
<1>10. CASE RecibirHojaLiberar(h) BY <1>10, RecibirHojaLiberarPaso
<1>11. CASE DevolverPagina(h)    BY <1>11, DevolverPaginaPaso
<1>12. CASE RecibirDevuelta(h) \/ RecibirLiberada(h)
  BY <1>12, TerminaPaso
<1>13. CASE RecibirHojaAsignar(h) BY <1>13, RecibirHojaAsignarPaso
<1>14. CASE EscribirCelda(h)     BY <1>14, EscribirCeldaPaso
<1>15. CASE Finalizar(h)         BY <1>15, FinalizarPaso
<1>16. CASE CopiarDeNada(h)      BY <1>16, CopiarDeNadaPaso
<1> QED BY <1>1, <1>2, <1>3, <1>4, <1>5, <1>6, <1>7, <1>8, <1>9, <1>10, <1>11, <1>12,
           <1>13, <1>14, <1>15, <1>16 DEF Avanza

LEMMA HeapPaso ==
  ASSUME NEW h, Hilo = {h}, AjenoFuera, HeapInv(h), [Next]_vars
  PROVE  HeapInv(h)'
<1>1. CASE UNCHANGED vars
  BY <1>1, HeapQuieto
<1>2. CASE Next
  <2>1. h \in Hilo /\ kernel = "vivo"
    BY <1>2 DEF Next
  <2>2. CASE \E p \in Pid, c \in Cant : ReservarMemoria(h, p, c)
    BY <2>1, <2>2, ReservarMemoriaPaso
  <2>3. CASE \E p \in Pid : \E pos \in Liberables(p) : LiberarMemoria(h, p, pos)
    BY <2>1, <2>3, LiberarMemoriaPaso
  <2>4. CASE \E p \in Pid : \E pos \in Escribibles(p) : VerificarAsignar(h, p, pos)
    BY <2>1, <2>4, VerificarAsignarPaso
  <2>5. CASE \E p \in Pid : Terminar(h, p)
    BY <2>1, <2>5, TerminarPaso
  <2>6. CASE Avanza(h)
    BY <2>1, <2>6, HeapAvanza
  <2> QED BY <1>2, <2>2, <2>3, <2>4, <2>5, <2>6 DEF Next
<1> QED BY <1>1, <1>2

\* One CPU at a time asks the kernel.
UnManejador == \E h : Hilo = {h}

LEMMA HeapSiempre ==
  ASSUME NEW h, Hilo = {h}, AjenoFuera
  PROVE  Spec => []HeapInv(h)
<1>1. Init => HeapInv(h)
  BY HeapInicio
<1>2. HeapInv(h) /\ [Next]_vars => HeapInv(h)'
  BY HeapPaso
<1> QED BY <1>1, <1>2, PTL DEF Spec

-----------------------------------------------------------------------------
(* What the invariant says.                                                *)

LEMMA HeapDaTipos ==
  ASSUME NEW h, Hilo = {h}, HeapInv(h)
  PROVE  TypeOK
<1>1. ListaBien(mem_dinamica, objeto) /\ ProgInv /\ HiloInv(h)
  BY DEF HeapInv, ListaInv
<1>2. \A i \in DOMAIN mem_dinamica : mem_dinamica[i] \in DOMAIN objeto
  BY <1>1 DEF ListaBien
<1>3. ASSUME NEW a \in DOMAIN objeto
      PROVE  /\ objeto[a].pid \in Pid /\ objeto[a].pag \in Nat /\ objeto[a].pag >= Base
             /\ Sana(objeto[a].pid) => objeto[a].size \in 0..Pag /\ objeto[a].cant \in Nat
  <2>1. UnaReserva(objeto[a])
    BY <1>1 DEF ListaBien
  <2>2. PICK p : p = objeto[a].pid
    OBVIOUS
  <2>3. a \in DOMAIN O(p) /\ O(p)[a] = objeto[a]
    BY <2>2 DEF O, ReservaDe, DirsDe
  <2>4. Sana(p) => Tipos(O(p), G(p))
    BY <2>1, <2>2 DEF HeapInv, UnSano, UnaReserva
  <2> QED BY <2>1, <2>2, <2>3, <2>4 DEF Tipos, UnaReserva
<1>4. ASSUME NEW pg \in DOMAIN contenido, Sana(pg[1]) PROVE contenido[pg] \in [Celda -> Nat]
  <2>1. DOMAIN contenido \subseteq Pid \X Nat
    BY <1>1 DEF ProgInv, Paginado
  <2>2. PICK p \in Pid, n \in Nat : pg = <<p, n>>
    BY <2>1
  <2>3. n \in DOMAIN G(p) /\ G(p)[n] = contenido[pg]
    BY <2>1, <2>2, PaginasSon DEF G
  <2>4. Tipos(O(p), G(p))
    BY <1>4, <2>2 DEF HeapInv, UnSano
  <2> QED BY <2>3, <2>4 DEF Tipos
<1>5. /\ cantPagReservar \in [Pid -> Nat] /\ mutex_memoria_fd \in Hilo \cup {Nadie}
      /\ kernel \in {"vivo", "caido"} /\ estado \in [Pid -> {"corre", "fallo", "sale", "fin"}]
  BY <1>1 DEF ProgInv, HiloInv
<1>6. ASSUME hilo[h].pid # Nadie
      PROVE  hilo[h].pid \in Pid /\ (Sana(hilo[h].pid) => hilo[h].pos \in Nat)
  <2>1. hilo[h].pid \in Pid /\ hilo[h].pc # "libre"
    BY <1>1, <1>6, LibreEs DEF HiloInv
  <2>2. CASE hilo[h].pc = "terminar"
    BY <1>1, <2>1, <2>2 DEF HiloInv
  <2>3. CASE hilo[h].pc # "terminar"
    <3>1. ASSUME Sana(hilo[h].pid) PROVE hilo[h].pos \in Nat
      <4>1. PICK p : p = hilo[h].pid
        OBVIOUS
      <4>2. Vale(O(p), G(p), cantPagReservar[p], pedidos[p], punteros[p], viejos[p], hilo[h].pc, hilo[h])
        BY <2>1, <2>3, <3>1, <4>1, EnCurso
      <4> QED BY <4>2 DEF Vale, Sano
    <3> QED BY <2>1, <3>1
  <2> QED BY <2>2, <2>3
<1> QED BY <1>2, <1>3, <1>4, <1>5, <1>6 DEF TypeOK

\* A page of a program that is not being served.
LEMMA Vigente ==
  ASSUME NEW h, Hilo = {h}, HeapInv(h), NEW r \in Vigentes
  PROVE  /\ r.pid \in Pid /\ r.pag \in Nat /\ <<r.pid, r.pag>> \in DOMAIN contenido
         /\ HojaBien(HojaDe(r), r.cant, r.size)
<1>1. r \in Reservas /\ EnPaz(r.pid)
  BY DEF Vigentes
<1>2. PICK i \in DOMAIN mem_dinamica : r = objeto[mem_dinamica[i]]
  BY <1>1 DEF Reservas
<1>3. PICK a, p : a = mem_dinamica[i] /\ p = r.pid
  OBVIOUS
<1>4. a \in DOMAIN objeto /\ r = objeto[a] /\ UnaReserva(r)
  BY <1>2, <1>3 DEF HeapInv, ListaInv, ListaBien
<1>5. a \in DOMAIN O(p) /\ O(p)[a] = r /\ p \in Pid
  BY <1>3, <1>4 DEF O, ReservaDe, DirsDe, UnaReserva
<1>6. Sana(p) /\ hilo[h].pid # p
  BY <1>1, <1>3 DEF EnPaz
<1>7. Todas(O(p), G(p))
  BY <1>5, <1>6, SuyosLibre
<1>8. r.pag \in DOMAIN G(p) /\ HojaBien(G(p)[r.pag], r.cant, r.size)
  BY <1>5, <1>7 DEF Todas, Llena
<1>9. <<p, r.pag>> \in DOMAIN contenido /\ G(p)[r.pag] = contenido[<<p, r.pag>>]
  <2>1. DOMAIN contenido \subseteq Pid \X Nat
    BY DEF HeapInv, ProgInv, Paginado
  <2> QED BY <1>8, <2>1, PaginasSon DEF G
<1> QED BY <1>3, <1>4, <1>5, <1>8, <1>9 DEF HojaDe, UnaReserva

LEMMA HeapDaBloques ==
  ASSUME NEW h, Hilo = {h}, HeapInv(h)
  PROVE  BloquesCubren
<1>1. ASSUME NEW r \in Vigentes, NEW g, g = HojaDe(r), NEW o \in Inicios(g)
      PROVE  /\ Fin(g, o) <= Pag
             /\ Fin(g, o) = Pag => ~Usado(g, o)
             /\ Fin(g, o) < Pag => Fin(g, o) \in Inicios(g) /\ (Usado(g, o) \/ Usado(g, Fin(g, o)))
  <2>1. HojaBien(g, r.cant, r.size)
    BY <1>1, Vigente
  <2>2. g \in [Celda -> Nat] /\ Cubre(g, Inicios(g)) /\ Compacta(g, Inicios(g))
    BY <2>1 DEF HojaBien
  <2>3. Fin(g, o) <= Pag /\ Fin(g, o) \in Nat /\ (Fin(g, o) # Pag => Fin(g, o) \in Inicios(g))
    BY <2>2, Bloque
  <2>4. /\ Fin(g, o) = Pag => ~Usado(g, o)
        /\ Fin(g, o) # Pag => Usado(g, o) \/ Usado(g, Fin(g, o))
    BY <2>2 DEF Compacta
  <2>5. Fin(g, o) < Pag => Fin(g, o) # Pag
    BY <2>3
  <2> QED BY <2>3, <2>4, <2>5
<1>2. \A r \in Vigentes : <<r.pid, r.pag>> \in DOMAIN contenido
  BY Vigente
<1> QED BY <1>1, <1>2 DEF BloquesCubren

\* The cells that are neither a header nor in use are the data of the free blocks.
LEMMA SueltasSon ==
  ASSUME NEW g \in [Celda -> Nat], NEW S, Cubre(g, S), NEW A, NEW B,
         \A x : x \in A <=> \E o \in Usados(g, S) : x \in o..(Fin(g, o) - 1),
         \A x : x \in B <=> \E o \in S : x \in {o, o + 1}
  PROVE  Celda \ (A \cup B) = Sueltas(g, S)
<1>1. ASSUME NEW c \in Celda, c \notin A, c \notin B PROVE c \in Sueltas(g, S)
  <2>1. PICK o \in S : o <= c /\ c < Fin(g, o)
    BY CubreTodo
  <2>2. o \in Nat /\ Fin(g, o) \in Nat /\ c \in Int
    BY <2>1, Bloque, Enteros DEF Celda
  <2>3. c \in o..(Fin(g, o) - 1)
    BY <2>1, <2>2
  <2>4. o \notin Usados(g, S)
    BY <1>1, <2>3
  <2>5. c # o /\ c # o + 1
    BY <1>1, <2>1
  <2>6. c \in (o + Meta)..(Fin(g, o) - 1)
    BY <2>1, <2>2, <2>5, Enteros
  <2> QED BY <2>1, <2>4, <2>6 DEF Sueltas, Datos
<1>2. ASSUME NEW c \in Sueltas(g, S) PROVE c \in Celda /\ c \notin A /\ c \notin B
  <2>1. PICK o \in S \ Usados(g, S) : c \in Datos(g, o)
    BY DEF Sueltas
  <2>2. /\ o \in Nat /\ Fin(g, o) \in Nat /\ Fin(g, o) <= Pag /\ Fin(g, o) = o + 2 + Tam(g, o)
        /\ Tam(g, o) \in Nat
    BY <2>1, Bloque
  <2>3. c \in Nat /\ o + 2 <= c /\ c < Fin(g, o)
    BY <2>1, <2>2, Enteros DEF Datos
  <2>4. c \in Celda
    BY <2>2, <2>3, Enteros DEF Celda
  <2>5. ASSUME NEW u \in S, u # o PROVE c \notin u..(Fin(g, u) - 1) /\ c \notin {u, u + 1}
    <3>1. u \in Nat /\ Fin(g, u) \in Nat /\ Fin(g, u) = u + 2 + Tam(g, u) /\ Tam(g, u) \in Nat
      BY Bloque
    <3>2. u < o => Fin(g, u) <= o
      BY <2>1, Aparte
    <3>3. o < u => Fin(g, o) <= u
      BY <2>1, Aparte
    <3> QED BY <2>2, <2>3, <2>5, <3>1, <3>2, <3>3
  <2>6. c \notin {o, o + 1}
    BY <2>2, <2>3
  <2>7. c \notin B
    BY <2>5, <2>6
  <2>8. c \notin A
    BY <2>1, <2>5 DEF Usados
  <2> QED BY <2>4, <2>7, <2>8
<1> QED BY <1>1, <1>2

LEMMA HeapDaCuentas ==
  ASSUME NEW h, Hilo = {h}, HeapInv(h)
  PROVE  CuentasDeReserva
<1>1. ASSUME NEW r \in Vigentes
      PROVE  /\ r.cant = Cardinality({o \in Inicios(HojaDe(r)) : Usado(HojaDe(r), o)})
             /\ r.size = Cardinality(Celda \
                   ((UNION {o..(Fin(HojaDe(r), o) - 1) : o \in {x \in Inicios(HojaDe(r)) : Usado(HojaDe(r), x)}})
                     \cup (UNION {{o, o + 1} : o \in Inicios(HojaDe(r))})))
  <2>1. PICK g : g = HojaDe(r)
    OBVIOUS
  <2>2. PICK usados : usados = {o \in Inicios(g) : Usado(g, o)}
    OBVIOUS
  <2>3. PICK A : A = UNION {o..(Fin(g, o) - 1) : o \in usados}
    OBVIOUS
  <2>4. PICK B : B = UNION {{o, o + 1} : o \in Inicios(g)}
    OBVIOUS
  <2>5. HojaBien(g, r.cant, r.size)
    BY <2>1, Vigente
  <2>6. usados = Usados(g, Inicios(g))
    BY <2>2 DEF Usados
  <2>7. /\ g \in [Celda -> Nat] /\ Cubre(g, Inicios(g)) /\ r.cant = Cardinality(usados)
        /\ r.size = Cardinality(Sueltas(g, Inicios(g)))
    BY <2>5, <2>6 DEF HojaBien
  <2>8. \A x : x \in A <=> \E o \in Usados(g, Inicios(g)) : x \in o..(Fin(g, o) - 1)
    BY <2>3, <2>6
  <2>9. \A x : x \in B <=> \E o \in Inicios(g) : x \in {o, o + 1}
    BY <2>4
  <2>10. Celda \ (A \cup B) = Sueltas(g, Inicios(g))
    BY <2>7, <2>8, <2>9, SueltasSon
  <2>11. r.cant = Cardinality(usados) /\ r.size = Cardinality(Celda \ (A \cup B))
    BY <2>7, <2>10
  <2> QED BY <2>1, <2>2, <2>3, <2>4, <2>11, Zenon
<1> QED BY <1>1, Zenon DEF CuentasDeReserva

LEMMA HeapDaPunteros ==
  ASSUME NEW h, Hilo = {h}, HeapInv(h)
  PROVE  PunterosSonBloques
<1> DEFINE Marcados(p) ==
      UNION {{[desde |-> r.pag * Pag + o + Meta, cant |-> Tam(HojaDe(r), o)] :
                o \in {x \in Inicios(HojaDe(r)) : Usado(HojaDe(r), x)}} :
             r \in {x \in Reservas : x.pid = p}}
<1>1. ASSUME NEW p \in Pid, EnPaz(p) PROVE punteros[p] = Marcados(p)
  <2>1. Sana(p) /\ hilo[h].pid # p
    BY <1>1 DEF EnPaz
  <2>2. Todas(O(p), G(p)) /\ punteros[p] = Bloques(O(p), G(p), DOMAIN O(p))
    BY <2>1, SuyosLibre
  <2>3. ASSUME NEW r \in Reservas, r.pid = p
        PROVE  /\ \E a \in DOMAIN O(p) : O(p)[a] = r
               /\ {[desde |-> r.pag * Pag + o + Meta, cant |-> Tam(HojaDe(r), o)] :
                     o \in {x \in Inicios(HojaDe(r)) : Usado(HojaDe(r), x)}}
                    = EnPagina(r.pag, G(p)[r.pag])
    <3>1. PICK i \in DOMAIN mem_dinamica : r = objeto[mem_dinamica[i]]
      BY <2>3 DEF Reservas
    <3>2. mem_dinamica[i] \in DOMAIN O(p) /\ O(p)[mem_dinamica[i]] = r
      BY <2>3, <3>1 DEF HeapInv, ListaInv, ListaBien, O, ReservaDe, DirsDe
    <3>3. G(p)[r.pag] = HojaDe(r)
      <4>1. r.pag \in DOMAIN G(p)
        BY <2>2, <3>2 DEF Todas, Llena
      <4>2. DOMAIN contenido \subseteq Pid \X Nat
        BY DEF HeapInv, ProgInv, Paginado
      <4> QED BY <2>3, <4>1, <4>2, PaginasSon DEF G, HojaDe
    <3> QED BY <3>2, <3>3 DEF EnPagina, Region, Usados
  <2>4. ASSUME NEW a \in DOMAIN O(p) PROVE O(p)[a] \in Reservas /\ O(p)[a].pid = p
    <3>1. a \in DOMAIN objeto /\ O(p)[a] = objeto[a] /\ objeto[a].pid = p
      BY DEF O, ReservaDe, DirsDe
    <3>2. PICK i \in DOMAIN mem_dinamica : a = mem_dinamica[i]
      BY <3>1 DEF HeapInv, ListaInv, ListaBien
    <3> QED BY <3>1, <3>2 DEF Reservas
  <2>5. PICK R, F : R = O(p) /\ F = G(p)
    OBVIOUS
  <2>6. ASSUME NEW x \in Bloques(R, F, DOMAIN R) PROVE x \in Marcados(p)
    <3>1. PICK a \in DOMAIN R : x \in EnPagina(R[a].pag, F[R[a].pag])
      BY DEF Bloques
    <3>2. PICK r : r = R[a]
      OBVIOUS
    <3>3. r \in Reservas /\ r.pid = p
      BY <2>4, <2>5, <3>2
    <3>4. x \in {[desde |-> r.pag * Pag + o + Meta, cant |-> Tam(HojaDe(r), o)] :
                   o \in {y \in Inicios(HojaDe(r)) : Usado(HojaDe(r), y)}}
      BY <2>3, <2>5, <3>1, <3>2, <3>3
    <3> QED BY <3>3, <3>4
  <2>7. ASSUME NEW x \in Marcados(p) PROVE x \in Bloques(R, F, DOMAIN R)
    <3>1. PICK r : /\ r \in Reservas /\ r.pid = p
                   /\ x \in {[desde |-> r.pag * Pag + o + Meta, cant |-> Tam(HojaDe(r), o)] :
                               o \in {y \in Inicios(HojaDe(r)) : Usado(HojaDe(r), y)}}
      BY <2>7
    <3>2. x \in EnPagina(r.pag, F[r.pag])
      BY <2>3, <2>5, <3>1
    <3>3. PICK a \in DOMAIN R : R[a] = r
      BY <2>3, <2>5, <3>1
    <3> QED BY <3>2, <3>3 DEF Bloques
  <2> QED BY <2>2, <2>5, <2>6, <2>7
<1> QED BY <1>1 DEF PunterosSonBloques

-----------------------------------------------------------------------------
(* The kernel's heap implements Asignador.                                 *)

\* What Asignador sees.
Reg    == [p \in Pid |-> IF Sana(p) THEN punteros[p] ELSE {}]
Sitios == UNION {(Base * Pag)..((Base + MaxPedidos[p]) * Pag) : p \in Pid}
Toca(r) == r.desde..(r.desde + r.cant - 1)

\* r is a region the heap may give to p.
PuedeDar(p, r) ==
  /\ r.desde \in Sitios /\ r.cant \in Cant /\ r = [desde |-> r.desde, cant |-> r.cant]
  /\ \A s \in Reg[p] : Toca(r) \cap Toca(s) = {}

LEMMA DarEs ==
  ASSUME NEW p \in Pid, NEW r, PuedeDar(p, r), Reg' = [Reg EXCEPT ![p] = @ \cup {r}]
  PROVE  Regiones!Next
<1>1. PICK d, t : /\ d \in Sitios /\ t \in Cant /\ r = [desde |-> d, cant |-> t]
                  /\ \A s \in Reg[p] : Toca(r) \cap Toca(s) = {}
  BY DEF PuedeDar
<1>2. Regiones!Separada(r, Reg[p])
  BY <1>1 DEF Regiones!Separada, Regiones!Celdas, Toca
<1>3. Regiones!Dar(p)
  BY <1>1, <1>2 DEF Regiones!Dar, Reg, Sitios
<1> QED BY <1>3 DEF Regiones!Next

LEMMA DevolverEs ==
  ASSUME NEW p \in Pid, NEW r \in Reg[p], Reg' = [Reg EXCEPT ![p] = @ \ {r}]
  PROVE  Regiones!Next
<1>1. Regiones!Devolver(p)
  BY DEF Regiones!Devolver, Reg
<1> QED BY <1>1 DEF Regiones!Next

LEMMA SoltarEs ==
  ASSUME NEW p \in Pid, Reg' = [Reg EXCEPT ![p] = {}]
  PROVE  Regiones!Next
<1>1. Regiones!Soltar(p)
  BY DEF Regiones!Soltar, Reg
<1> QED BY <1>1 DEF Regiones!Next

LEMMA RegIgual ==
  ASSUME estado' = estado, punteros' = punteros
  PROVE  Reg' = Reg
BY DEF Reg, Sana

\* The regions of one program change.
LEMMA RegCambia ==
  ASSUME NEW p \in Pid, \A q \in Pid \ {p} : estado'[q] = estado[q] /\ punteros'[q] = punteros[q],
         NEW S, S = IF Sana(p)' THEN punteros'[p] ELSE {}
  PROVE  Reg' = [Reg EXCEPT ![p] = S]
<1>1. DOMAIN Reg = Pid /\ Reg' = [q \in Pid |-> IF Sana(q)' THEN punteros'[q] ELSE {}]
  BY DEF Reg
<1>2. \A q \in Pid \ {p} : (IF Sana(q)' THEN punteros'[q] ELSE {}) = Reg[q]
  BY DEF Reg, Sana
<1>3. Reg = [q \in Pid |-> Reg[q]]
  BY DEF Reg
<1> HIDE DEF Reg
<1> QED BY <1>1, <1>2, <1>3

\* The answer of a request: the program goes on, or lets go of everything.
LEMMA RegContesta ==
  ASSUME NEW h, HeapInv(h), hilo[h].pc # "libre", NEW e \in {"corre", "fallo", "sale", "fin"},
         Contesta(h, e), \A q \in Pid \ {hilo[h].pid} : punteros'[q] = punteros[q],
         e = "corre" => punteros' = punteros
  PROVE  Regiones!Next \/ Reg' = Reg
<1>1. PICK p : p = hilo[h].pid
  OBVIOUS
<1>2. /\ p \in Pid
      /\ hilo' = [x \in {h} |-> hilo'[h]] /\ hilo'[h] = Libre /\ hilo'[h].pid = Nadie
      /\ estado' \in [Pid -> {"corre", "fallo", "sale", "fin"}]
      /\ (\A q \in Pid \ {p} : estado'[q] = estado[q])
      /\ (e = "corre" => estado' = estado)
      /\ (e # "corre" => ~Sana(p)')
      /\ (Sana(p)' => Sana(p))
  <2>1. Contestado(h, p, e)
    BY <1>1, ContestaEs
  <2> QED BY <2>1 DEF Contestado
<1>3. CASE e = "corre"
  BY <1>2, <1>3, RegIgual
<1>4. CASE e # "corre"
  <2>1. (IF Sana(p)' THEN punteros'[p] ELSE {}) = {}
    BY <1>2, <1>4
  <2>2. Reg' = [Reg EXCEPT ![p] = {}]
    BY <1>1, <1>2, <2>1, RegCambia
  <2> QED BY <1>2, <2>2, SoltarEs
<1> QED BY <1>3, <1>4

\* The blocks of a program are in the pages it has asked for.
LEMMA SitioDe ==
  ASSUME NEW R, NEW F, NEW c, Mapa(R, F, c), Todas(R, F), NEW x \in Bloques(R, F, DOMAIN R),
         NEW k \in Nat, NEW m \in Nat, c \in Nat, c <= k, k <= m
  PROVE  x.desde \in (Base * Pag)..((Base + m) * Pag)
<1>1. PICK a, o : /\ a \in DOMAIN R /\ o \in Usados(F[R[a].pag], Inicios(F[R[a].pag]))
                  /\ x = Region(R[a].pag, F[R[a].pag], o)
  BY BloqueDe
<1>2. PICK j, g : j = R[a].pag /\ g = F[j]
  OBVIOUS
<1>3. j \in Nat /\ Base <= j /\ j < Base + c /\ HojaBien(g, R[a].cant, R[a].size) /\ Base \in Nat
  BY <1>1, <1>2, HeapAssumption DEF Mapa, Todas, Llena
<1>4. x.desde = j * Pag + o + 2 /\ x.cant \in Nat /\ o \in Nat /\ j * Pag \in Nat /\ o + 2 + x.cant < Pag
  BY <1>1, <1>2, <1>3, RegionEn
<1>5. Base * Pag <= j * Pag /\ Base * Pag \in Nat
  <2>1. Base < j => Base * Pag + Pag <= j * Pag
    BY <1>3, PaginasEnFila
  <2>2. Base * Pag \in Nat
    BY <1>3, Enteros
  <2> QED BY <1>3, <1>4, <2>1, <2>2, Enteros
<1>6. j * Pag + Pag <= (Base + m) * Pag /\ (Base + m) * Pag \in Nat
  <2>1. PICK u \in Nat : u = Base + m
    BY <1>3
  <2>2. j < u
    BY <1>3, <2>1
  <2>3. j * Pag + Pag <= u * Pag
    BY <1>3, <2>2, PaginasEnFila
  <2>4. u * Pag \in Nat
    BY Enteros
  <2> QED BY <2>1, <2>3, <2>4
<1>7. x.desde \in Nat /\ Base * Pag <= x.desde /\ x.desde <= (Base + m) * Pag
  <2>1. PICK y, z, w : y = j * Pag /\ z = Base * Pag /\ w = (Base + m) * Pag
    OBVIOUS
  <2> QED BY <1>4, <1>5, <1>6, <2>1, Enteros
<1> QED BY <1>5, <1>6, <1>7

\* What is known when the program gets its region.
Entregable(R, F, n, k, P, e, r) ==
  /\ Todas(R, F) /\ P = {x \in Bloques(R, F, DOMAIN R) : x.desde # r.pos}
  /\ Reservando(R, F, n, e, r)
  /\ \E c \in Nat : Mapa(R, F, c) /\ c <= k

LEMMA EntregaEs ==
  ASSUME NEW R, NEW F, NEW n \in Nat, NEW k \in Nat, NEW P, NEW V,
         NEW e \in {"grabada", "segunda"}, NEW r, Vale(R, F, n, k, P, V, e, r)
  PROVE  Entregable(R, F, n, k, P, e, r)
<1>1. e \in EnMano
  BY DEF EnMano
<1>2. Todas(R, F) /\ Reservando(R, F, n, e, r)
  BY <1>1, ValeEnMano
<1>3. P = {x \in Bloques(R, F, DOMAIN R) : x.desde # r.pos}
  BY <1>1, ValeEnMano
<1>4. \E c \in Nat : Mapa(R, F, c) /\ c <= k
  <2>1. Mapa(R, F, IF e = "segunda" THEN n + 1 ELSE n)
    BY <1>1, ValeEnMano
  <2>2. (IF e \in {"grabada", "segunda"} THEN n + 1 ELSE n) <= k
    BY <1>1, ValeEnMano
  <2>3. n + 1 <= k /\ n + 1 \in Nat /\ n <= k
    BY <2>2
  <2>4. CASE e = "segunda"
    BY <2>1, <2>3, <2>4
  <2>5. CASE e # "segunda"
    BY <2>1, <2>3, <2>5
  <2> QED BY <2>4, <2>5
<1> QED BY <1>2, <1>3, <1>4 DEF Entregable

LEMMA RegEntrega ==
  ASSUME NEW h, HeapInv(h), hilo[h].pc \in {"grabada", "segunda"}, Entregar(h)
  PROVE  Regiones!Next \/ Reg' = Reg
<1>1. PICK p, r : p = hilo[h].pid /\ r = [desde |-> hilo[h].pos, cant |-> hilo[h].cant]
  OBVIOUS
<1>2. Contesta(h, "corre") /\ hilo[h].pc # "libre" /\ hilo[h].pc # "terminar"
  BY DEF Entregar
<1>3. p \in Pid /\ estado' = estado
  <2>1. Contestado(h, p, "corre")
    BY <1>1, <1>2, ContestaEs
  <2> QED BY <2>1 DEF Contestado
<1>4. (\A q \in Pid \ {p} : punteros'[q] = punteros[q]) /\ punteros'[p] = punteros[p] \cup {r}
  BY <1>1, <1>3, EntregarEs
<1>5. Sana(p)' = Sana(p) /\ (Sana(p) => Reg[p] = punteros[p]) /\ (~Sana(p) => Reg[p] = {})
  BY <1>3 DEF Sana, Reg
<1>6. CASE ~Sana(p)
  <2>1. Reg' = [Reg EXCEPT ![p] = {}]
    <3>1. {} = IF Sana(p)' THEN punteros'[p] ELSE {}
      BY <1>5, <1>6
    <3> QED BY <1>3, <1>4, <3>1, RegCambia
  <2> QED BY <1>3, <2>1, SoltarEs
<1>7. CASE Sana(p)
  <2>1. PICK R, F, n, k, P, V, e, y :
           /\ R = O(p) /\ F = G(p) /\ n = cantPagReservar[p] /\ k = pedidos[p] /\ P = punteros[p]
           /\ V = viejos[p] /\ e = hilo[h].pc /\ y = hilo[h]
    OBVIOUS
  <2>2. n \in Nat /\ k \in Nat /\ Vale(R, F, n, k, P, V, e, y) /\ k <= MaxPedidos[p] /\ MaxPedidos[p] \in Nat
    <3>1. cantPagReservar[p] \in Nat /\ pedidos[p] \in Nat
          /\ Vale(O(p), G(p), cantPagReservar[p], pedidos[p], punteros[p], viejos[p], hilo[h].pc, hilo[h])
      BY <1>1, <1>2, <1>7, EnCurso
    <3>2. pedidos[p] <= MaxPedidos[p] /\ MaxPedidos[p] \in Nat
      BY <1>3, HeapAssumption DEF HeapInv, ProgInv
    <3> QED BY <2>1, <3>1, <3>2
  <2>3. e \in {"grabada", "segunda"} /\ e \in Reserva
    BY <2>1 DEF Reserva
  <2>4. /\ Todas(R, F) /\ P = {x \in Bloques(R, F, DOMAIN R) : x.desde # y.pos} /\ Reservando(R, F, n, e, y)
        /\ \E c \in Nat : Mapa(R, F, c) /\ c <= k
    <3>1. n \in Nat /\ k \in Nat /\ Vale(R, F, n, k, P, V, e, y)
      BY <2>2
    <3>2. Entregable(R, F, n, k, P, e, y)
      BY <3>1, <2>3, EntregaEs
    <3> QED BY <3>2 DEF Entregable
  <2>5. PICK c \in Nat : Mapa(R, F, c) /\ c <= k
    BY <2>4
  <2>6. r \in Bloques(R, F, DOMAIN R) /\ r.desde = y.pos /\ r.cant \in Cant /\ r = [desde |-> r.desde, cant |-> r.cant]
    BY <1>1, <2>1, <2>3, <2>4 DEF Reservando
  <2>7. r.desde \in Sitios
    <3>1. r.desde \in (Base * Pag)..((Base + MaxPedidos[p]) * Pag)
      BY <2>2, <2>4, <2>5, <2>6, SitioDe
    <3> QED BY <1>3, <3>1 DEF Sitios
  <2>8. ASSUME NEW s \in P PROVE Toca(r) \cap Toca(s) = {}
    <3>1. s \in Bloques(R, F, DOMAIN R) /\ s # r
      BY <2>4, <2>6, <2>8
    <3>2. DOMAIN R \in SUBSET (DOMAIN R) /\ \A a \in DOMAIN R : Llena(F, R[a])
      BY <2>4 DEF Todas
    <3>3. /\ r.desde \in Nat /\ r.cant \in Nat /\ s.desde \in Nat /\ s.cant \in Nat
          /\ r.desde + r.cant <= s.desde \/ s.desde + s.cant <= r.desde
      BY <2>5, <2>6, <3>1, <3>2, BloquesAparte
    <3> QED BY <3>3 DEF Toca
  <2>9. Reg' = [Reg EXCEPT ![p] = @ \cup {r}]
    <3>1. PICK S : S = P \cup {r}
      OBVIOUS
    <3>2. S = IF Sana(p)' THEN punteros'[p] ELSE {}
      BY <1>4, <1>5, <1>7, <2>1, <3>1
    <3>3. Reg' = [Reg EXCEPT ![p] = S]
      BY <1>3, <1>4, <3>2, RegCambia
    <3>4. S = Reg[p] \cup {r} /\ DOMAIN Reg = Pid
      BY <1>5, <1>7, <2>1, <3>1 DEF Reg
    <3>5. [Reg EXCEPT ![p] = S] = [Reg EXCEPT ![p] = @ \cup {r}]
      BY <1>3, <3>4
    <3> QED BY <3>3, <3>5
  <2>10. \A s \in Reg[p] : Toca(r) \cap Toca(s) = {}
    BY <1>5, <1>7, <2>1, <2>8
  <2>11. PuedeDar(p, r)
    BY <2>6, <2>7, <2>10 DEF PuedeDar
  <2> QED BY <1>3, <2>9, <2>11, DarEs
<1> QED BY <1>6, <1>7

\* The program gives a region up, or frees a second time.
LEMMA RegLibera ==
  ASSUME NEW h \in Hilo, HeapInv(h), NEW p \in Pid, NEW pos, LiberarMemoria(h, p, pos)
  PROVE  Regiones!Next \/ Reg' = Reg
<1>1. /\ hilo[h].pid # p /\ estado' = estado
      /\ punteros' = [punteros EXCEPT ![p] = {x \in @ : x.desde # pos}]
  BY DEF LiberarMemoria, Pide
<1>2. DOMAIN punteros = Pid
  BY DEF HeapInv, ProgInv
<1>3. PICK Z : Z = {x \in punteros[p] : x.desde # pos}
  OBVIOUS
<1>4. punteros' = [punteros EXCEPT ![p] = Z]
  BY <1>1, <1>2, <1>3
<1>5. (\A q \in Pid \ {p} : punteros'[q] = punteros[q] /\ estado'[q] = estado[q]) /\ punteros'[p] = Z
  BY <1>1, <1>2, <1>4
<1>6. Sana(p)' = Sana(p) /\ (Sana(p) => Reg[p] = punteros[p]) /\ (~Sana(p) => Reg[p] = {})
  BY <1>1 DEF Sana, Reg
<1>7. CASE ~Sana(p)
  <2>1. {} = IF Sana(p)' THEN punteros'[p] ELSE {}
    BY <1>6, <1>7
  <2>2. Reg' = [Reg EXCEPT ![p] = {}]
    BY <1>5, <2>1, RegCambia
  <2> QED BY <2>2, SoltarEs
<1>8. CASE Sana(p)
  <2>1. Z = IF Sana(p)' THEN punteros'[p] ELSE {}
    BY <1>5, <1>6, <1>8
  <2>2. Reg' = [Reg EXCEPT ![p] = Z]
    BY <1>5, <2>1, RegCambia
  <2>3. DOMAIN Reg = Pid /\ Reg = [q \in Pid |-> Reg[q]] /\ Reg[p] = punteros[p]
    BY <1>6, <1>8 DEF Reg
  <2>4. CASE \A x \in punteros[p] : x.desde # pos
    <3>1. Z = Reg[p]
      BY <1>3, <2>3, <2>4
    <3>2. [Reg EXCEPT ![p] = Reg[p]] = Reg
      BY <2>3
    <3> QED BY <2>2, <3>1, <3>2
  <2>5. CASE \E x \in punteros[p] : x.desde = pos
    <3>1. PICK y \in punteros[p] : y.desde = pos
      BY <2>5
    <3>2. PICK R, F, P, B, c :
             R = O(p) /\ F = G(p) /\ P = punteros[p] /\ B = Bloques(R, F, DOMAIN R) /\ c = cantPagReservar[p]
      OBVIOUS
    <3>3. Mapa(R, F, c) /\ Todas(R, F) /\ P = B
      BY <1>1, <1>8, <3>2, SuyosLibre
    <3>4. {x \in B : x.desde # y.desde} = B \ {y}
      BY <3>1, <3>2, <3>3, UnBloque
    <3>5. Z = Reg[p] \ {y} /\ y \in Reg[p]
      BY <1>3, <2>3, <3>1, <3>2, <3>3, <3>4
    <3>6. Reg' = [Reg EXCEPT ![p] = @ \ {y}]
      BY <2>2, <2>3, <3>5
    <3> QED BY <3>5, <3>6, DevolverEs
  <2> QED BY <2>4, <2>5
<1> QED BY <1>7, <1>8

\* A thread goes on.
LEMMA RegAvanza ==
  ASSUME NEW h \in Hilo, HeapInv(h), Avanza(h)
  PROVE  Regiones!Next \/ Reg' = Reg
<1>1. CASE Buscar(h) \/ RecibirHoja(h) \/ PedirPagina(h) \/ TomarReserva(h) \/ DevolverPagina(h) \/ CopiarDeNada(h)
  <2>1. estado' = estado /\ punteros' = punteros
    BY <1>1 DEF Buscar, RecibirHoja, PedirPagina, TomarReserva, DevolverPagina, CopiarDeNada, programa
  <2> QED BY <2>1, RegIgual
<1>2. CASE Negar(h)
  BY <1>2, RegContesta DEF Negar, En
<1>3. CASE RecibirGrabada(h)
  <2>1. hilo[h].pc = "grabada" /\ (Entregar(h) \/ (Contesta(h, "fallo") /\ punteros' = punteros))
    BY <1>3 DEF RecibirGrabada, Espera, En
  <2>2. CASE Entregar(h)
    BY <2>1, <2>2, RegEntrega
  <2>3. CASE Contesta(h, "fallo") /\ punteros' = punteros
    BY <2>1, <2>3, RegContesta
  <2> QED BY <2>1, <2>2, <2>3
<1>4. CASE RecibirSegunda(h)
  <2>1. hilo[h].pc = "segunda" /\ (Entregar(h) \/ (Contesta(h, "fallo") /\ punteros' = punteros))
    BY <1>4 DEF RecibirSegunda, Espera, En
  <2>2. CASE Entregar(h)
    BY <2>1, <2>2, RegEntrega
  <2>3. CASE Contesta(h, "fallo") /\ punteros' = punteros
    BY <2>1, <2>3, RegContesta
  <2> QED BY <2>1, <2>2, <2>3
<1>5. CASE RecibirAsignada(h)
  <2>1. hilo[h].pc = "asignada" /\ punteros' = punteros /\ (estado' = estado \/ Contesta(h, "sale"))
    BY <1>5 DEF RecibirAsignada, Espera, En
  <2> QED BY <2>1, RegIgual, RegContesta
<1>6. CASE RecibirCabecera(h)
  <2>1. hilo[h].pc = "cabecera" /\ punteros' = punteros /\ (estado' = estado \/ Contesta(h, "fallo"))
    BY <1>6 DEF RecibirCabecera, Espera, En
  <2> QED BY <2>1, RegIgual, RegContesta
<1>7. CASE RecibirHojaLiberar(h)
  <2>1. hilo[h].pc = "hoja" /\ punteros' = punteros /\ (estado' = estado \/ Contesta(h, "sale"))
    BY <1>7 DEF RecibirHojaLiberar, Espera, En
  <2> QED BY <2>1, RegIgual, RegContesta
<1>8. CASE RecibirDevuelta(h) \/ RecibirLiberada(h)
  <2>1. hilo[h].pc # "libre" /\ punteros' = punteros /\ (Contesta(h, "corre") \/ Contesta(h, "fallo"))
    BY <1>8 DEF RecibirDevuelta, RecibirLiberada, Espera, En
  <2> QED BY <2>1, RegContesta
<1>9. CASE RecibirHojaAsignar(h)
  <2>1. hilo[h].pc = "verificar" /\ punteros' = punteros /\ (estado' = estado \/ Contesta(h, "sale"))
    BY <1>9 DEF RecibirHojaAsignar, Espera, En
  <2> QED BY <2>1, RegIgual, RegContesta
<1>10. CASE EscribirCelda(h)
  BY <1>10, RegContesta DEF EscribirCelda, En
<1>11. CASE Finalizar(h)
  <2>1. /\ hilo[h].pc = "terminar" /\ Contesta(h, "fin")
        /\ punteros' = [punteros EXCEPT ![hilo[h].pid] = {}]
    BY <1>11 DEF Finalizar, En
  <2>2. \A q \in Pid \ {hilo[h].pid} : punteros'[q] = punteros[q]
    BY <2>1 DEF HeapInv, ProgInv
  <2> QED BY <2>1, <2>2, RegContesta
<1> QED BY <1>1, <1>2, <1>3, <1>4, <1>5, <1>6, <1>7, <1>8, <1>9, <1>10, <1>11 DEF Avanza

\* Every step of the heap is a step of Asignador, or none.
LEMMA RegPaso ==
  ASSUME NEW h, Hilo = {h}, HeapInv(h), [Next]_vars
  PROVE  [Regiones!Next]_Reg
<1>1. CASE UNCHANGED vars
  BY <1>1, RegIgual DEF vars
<1>2. CASE Next
  <2>1. h \in Hilo
    BY <1>2
  <2>2. CASE \E p \in Pid, c \in Cant : ReservarMemoria(h, p, c)
    BY <2>2, RegIgual DEF ReservarMemoria
  <2>3. CASE \E p \in Pid : \E pos \in Liberables(p) : LiberarMemoria(h, p, pos)
    BY <2>1, <2>3, RegLibera
  <2>4. CASE \E p \in Pid : \E pos \in Escribibles(p) : VerificarAsignar(h, p, pos)
    BY <2>4, RegIgual DEF VerificarAsignar
  <2>5. CASE \E p \in Pid : Terminar(h, p)
    BY <2>5, RegIgual DEF Terminar, programa
  <2>6. CASE Avanza(h)
    BY <2>1, <2>6, RegAvanza
  <2> QED BY <1>2, <2>2, <2>3, <2>4, <2>5, <2>6 DEF Next
<1> QED BY <1>1, <1>2

LEMMA RegInicio == Init => Regiones!Init
BY DEF Init, Regiones!Init, Sana

-----------------------------------------------------------------------------
(* The theorems, for one handler.                                          *)

\* The kernel's list of reservas, its pages, its threads and what the programs hold
\* keep their shape (Heap.TypeOK).
THEOREM HeapTipos ==
  ASSUME UnManejador, AjenoFuera
  PROVE  Spec => []TypeOK
<1>1. PICK h : Hilo = {h}
  BY DEF UnManejador
<1>2. Spec => []HeapInv(h)
  BY <1>1, HeapSiempre
<1>3. HeapInv(h) => TypeOK
  BY <1>1, HeapDaTipos
<1> QED BY <1>2, <1>3, PTL

\* The blocks of every page of mem_dinamica cover it exactly, the last one is free
\* and no two free ones are side by side, whatever is asked for, split, freed and
\* merged (Heap.BloquesCubren).
THEOREM HeapBloquesCubren ==
  ASSUME UnManejador, AjenoFuera
  PROVE  Spec => []BloquesCubren
<1>1. PICK h : Hilo = {h}
  BY DEF UnManejador
<1>2. Spec => []HeapInv(h)
  BY <1>1, HeapSiempre
<1>3. HeapInv(h) => BloquesCubren
  BY <1>1, HeapDaBloques
<1> QED BY <1>2, <1>3, PTL

\* The size and the count of every reserva_memoria are those of its page's blocks
\* (Heap.CuentasDeReserva): a page is chosen by the first and given back by the
\* second.
THEOREM HeapCuentas ==
  ASSUME UnManejador, AjenoFuera
  PROVE  Spec => []CuentasDeReserva
<1>1. PICK h : Hilo = {h}
  BY DEF UnManejador
<1>2. Spec => []HeapInv(h)
  BY <1>1, HeapSiempre
<1>3. HeapInv(h) => CuentasDeReserva
  BY <1>1, HeapDaCuentas
<1> QED BY <1>2, <1>3, PTL

\* A program holds exactly the blocks its pages mark as used
\* (Heap.PunterosSonBloques).
THEOREM HeapPunteros ==
  ASSUME UnManejador, AjenoFuera
  PROVE  Spec => []PunterosSonBloques
<1>1. PICK h : Hilo = {h}
  BY DEF UnManejador
<1>2. Spec => []HeapInv(h)
  BY <1>1, HeapSiempre
<1>3. HeapInv(h) => PunterosSonBloques
  BY <1>1, HeapDaPunteros
<1> QED BY <1>2, <1>3, PTL

\* The heap, with its pages, its metadata and its conversations with memory,
\* implements Asignador: the regions a program is given do not overlap
\* (Heap.RegionesSeparadas).
THEOREM HeapImplementaAsignador ==
  ASSUME UnManejador, AjenoFuera
  PROVE  Spec => RegionesSeparadas
<1>1. PICK h : Hilo = {h}
  BY DEF UnManejador
<1>2. Spec => []HeapInv(h)
  BY <1>1, HeapSiempre
<1>3. Init => Regiones!Init
  BY RegInicio
<1>4. HeapInv(h) /\ [Next]_vars => [Regiones!Next]_Reg
  BY <1>1, RegPaso
<1> QED BY <1>2, <1>3, <1>4, PTL DEF Spec, RegionesSeparadas, Regiones!Spec, Reg
=============================================================================
