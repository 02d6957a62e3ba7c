-------------------------------- MODULE Heap ----------------------------------
(***************************************************************************)
(* The kernel's dynamic memory: mem_dinamica, the metadata kept inside the *)
(* heap pages of programs, and the conversations with memory that read and *)
(* write those pages.                                                      *)
(*                                                                         *)
(* The unit is one integer (4 bytes): a meta_bloque is two of them, "used" *)
(* and "size", and a page is Pag of them. Memory is a store of pages       *)
(* (Paginas): it serves a request when it arrives and its answers come     *)
(* back in order, for whoever reads the socket.                            *)
(***************************************************************************)
EXTENDS Integers, Sequences, FiniteSets

CONSTANTS
  Pid,         \* programs
  Hilo,        \* handler threads, one per connected CPU
  Nadie,       \* no thread, no program
  Pag,         \* pagina_size
  Base,        \* pages of code and stack: pagBase + config->stack_Size
  Cant,        \* the sizes programs ask for
  Tope,        \* bound: heap pages memory can give
  MaxPedidos,  \* bound: heap requests of each program
  Sucio,       \* what a new page holds before anybody writes it
  Ajeno        \* what a read of a freed reserva_memoria may give for its page

Meta == 2

ASSUME HeapAssumption ==
  /\ {Pag, Base, Tope, Sucio} \subseteq Nat /\ MaxPedidos \in [Pid -> Nat]
  /\ Cant \subseteq Nat \ {0} /\ Ajeno \subseteq Nat
  /\ Nadie \notin Pid \cup Hilo

VARIABLES
  contenido,        \* memory's pages: <<pid, number>> -> content
  mem_dinamica,     \* the list: addresses of reserva_memoria
  objeto,           \* the reserva_memoria that are allocated, by address
  cantPagReservar,  \* of info_estadistica_t
  respuestas,       \* memory's answers the kernel has not read yet
  mutex_memoria_fd, \* who holds it
  hilo,             \* the handler threads
  kernel,           \* "vivo", or "caido": the process died
  estado,           \* how each program goes on
  punteros,         \* the regions each program holds
  viejos,           \* the pointers each program has freed
  pedidos           \* heap requests of each program so far

memoria  == <<contenido, respuestas>>
programa == <<estado, punteros, viejos, pedidos>>
vars == <<contenido, mem_dinamica, objeto, cantPagReservar, respuestas,
          mutex_memoria_fd, hilo, kernel, estado, punteros, viejos, pedidos>>

Mem == INSTANCE Paginas WITH
  Dato <- {}, MaxPag <- [p \in Pid |-> 0], Confunde <- {}, pendiente <- << >>

Celda == 0..(Pag - 1)
Hoja(x) == [c \in Celda |-> x]    \* a page full of x
Libre == [pc |-> "libre", pid |-> Nadie, cant |-> 0, dir |-> 0, ind |-> 0,
          pag |-> 0, pos |-> 0]

Init ==
  /\ contenido = [pg \in Pid \X (0..(Base - 1)) |-> Hoja(0)]
  /\ mem_dinamica = << >>
  /\ objeto = << >>
  /\ cantPagReservar = [p \in Pid |-> 0]
  /\ respuestas = << >>
  /\ mutex_memoria_fd = Nadie
  /\ hilo = [h \in Hilo |-> Libre]
  /\ kernel = "vivo"
  /\ estado = [p \in Pid |-> "corre"]
  /\ punteros = [p \in Pid |-> {}]
  /\ viejos = [p \in Pid |-> {}]
  /\ pedidos = [p \in Pid |-> 0]

(***************************************************************************)
(* The metadata of a page.                                                 *)
(***************************************************************************)
Usado(g, o) == g[o] # 0
Tam(g, o)   == g[o + 1]
Fin(g, o)   == o + Meta + Tam(g, o)

Cabecera(g, o, u, t) == [g EXCEPT ![o] = u, ![o + 1] = t]

\* Where the blocks of a page start, walking from the first one.
Inicios(g) ==
  LET desde[o \in 0..Pag] ==
        IF o > Pag - Meta THEN {}
        ELSE {o} \cup (IF Fin(g, o) <= Pag THEN desde[Fin(g, o)] ELSE {})
  IN  desde[0]

Primero(S) == CHOOSE x \in S : \A y \in S : x <= y
Ultimo(S)  == CHOOSE x \in S : \A y \in S : x >= y

\* Mutants of VerificarEspacio: it takes a block with no room for the header that
\* follows; it takes a block in use.
VerificarEspacio_Justo(g, cant) ==
  LET S == {o \in Inicios(g) : ~Usado(g, o) /\ Tam(g, o) >= cant} IN
  IF S = {} THEN 0 ELSE Primero(S) + Meta
VerificarEspacio_SinMirar(g, cant) ==
  LET S == {o \in Inicios(g) : Tam(g, o) >= cant + Meta} IN
  IF S = {} THEN 0 ELSE Primero(S) + Meta
\* The data of the first free block with room for cant and one more header.
VerificarEspacio(g, cant) ==
  LET S == {o \in Inicios(g) : ~Usado(g, o) /\ Tam(g, o) >= cant + Meta} IN
  IF S = {} THEN 0 ELSE Primero(S) + Meta

\* Mutant of Partir: the rest keeps the room its header takes.
Partir_SinCabecera(g, d, cant) ==
  Cabecera(Cabecera(g, d - Meta, 1, cant), d + cant, 0, Tam(g, d - Meta) - cant)
Partir(g, d, cant) ==
  LET queda == Tam(g, d - Meta) - cant - Meta IN
  Cabecera(Cabecera(g, d - Meta, 1, cant), d + cant, 0, queda)

PosAnterior(g, o) ==
  LET S == {x \in Inicios(g) : x < o} IN IF o = 0 THEN -1 ELSE Ultimo(S)

\* Mutant of AnteriorLibre: any block before is merged.
AnteriorLibre_Cualquiera(g, o) == PosAnterior(g, o) # -1
AnteriorLibre(g, o)  == PosAnterior(g, o) # -1 /\ ~Usado(g, PosAnterior(g, o))
SiguienteLibre(g, o) == ~Usado(g, Fin(g, o))

Unir(g, a, b) == Cabecera(g, a, 0, Meta + Tam(g, a) + Tam(g, b))

\* The block at o is free from now on, and its data are zero.
Vaciar(g, o) ==
  LET datos == (o + Meta)..(o + Meta + Tam(g, o) - 1) IN
  [c \in Celda |-> IF c = o \/ c \in datos THEN 0 ELSE g[c]]

\* Mutant of Compactar: a merge of both neighbours is counted once.
Compactar_UnaVez(g, o) ==
  LET ant == AnteriorLibre(g, o)
      a   == IF ant THEN PosAnterior(g, o) ELSE o
      g1  == IF ant THEN Unir(g, a, o) ELSE g
      sig == SiguienteLibre(g1, a)
  IN  [hoja  |-> IF sig THEN Unir(g1, a, Fin(g1, a)) ELSE g1,
       veces |-> IF ant \/ sig THEN 1 ELSE 0]
\* The free block at o merged with its free neighbours.
Compactar(g, o) ==
  LET ant == AnteriorLibre(g, o)
      a   == IF ant THEN PosAnterior(g, o) ELSE o
      g1  == IF ant THEN Unir(g, a, o) ELSE g
      sig == SiguienteLibre(g1, a)
  IN  [hoja  |-> IF sig THEN Unir(g1, a, Fin(g1, a)) ELSE g1,
       veces |-> Cardinality({x \in {1, 2} : (x = 1 /\ ant) \/ (x = 2 /\ sig)})]

\* verificarAsignar: the last block that starts before the offset.
AsignacionOk(g, off, n) ==
  LET o   == Ultimo({x \in Inicios(g) : x = 0 \/ x < off})
      fin == IF Tam(g, o) = 0 THEN o ELSE Fin(g, o)
  IN  off >= o + Meta /\ off + n <= fin

(***************************************************************************)
(* mem_dinamica.                                                           *)
(***************************************************************************)
ReservasDe(p) == {i \in DOMAIN mem_dinamica : objeto[mem_dinamica[i]].pid = p}

\* The address of the first one with room, 0 if there is none.
ObtenerReserva(p, cant) ==
  LET S == {i \in ReservasDe(p) : objeto[mem_dinamica[i]].size >= cant + Meta} IN
  IF S = {} THEN 0 ELSE mem_dinamica[Primero(S)]

BuscarReserva(p, pag) ==
  LET S == {i \in ReservasDe(p) : objeto[mem_dinamica[i]].pag = pag} IN
  IF S = {} THEN 0 ELSE Primero(S)

\* The sequence s without the elements under the indexes of Q.
SinIndices(s, Q) == LET quedan == {i \in DOMAIN s : i \notin Q} IN
  [j \in 1..Cardinality(quedan) |->
     s[CHOOSE i \in quedan : Cardinality({k \in quedan : k <= i}) = j]]

NuevaDir == Primero(1..(Cardinality(DOMAIN objeto) + 1) \ DOMAIN objeto)
SinObjetos(S) == [a \in DOMAIN objeto \ S |-> objeto[a]]

\* The loop removes the element under its index and steps over the one that
\* takes its place.
Quitadas(p) ==
  LET quita[i \in 0..Len(mem_dinamica)] ==
        i > 0 /\ i \in ReservasDe(p) /\ ~quita[i - 1]
  IN  {i \in DOMAIN mem_dinamica : quita[i]}

(***************************************************************************)
(* The conversation with memory.                                           *)
(***************************************************************************)
Respuesta(h, bien) == [de |-> h, tipo |-> IF bien THEN "ok" ELSE "error", hoja |-> << >>]
Responder(h, bien) == respuestas' = Append(respuestas, Respuesta(h, bien))

PedirHoja(h, p, pag) ==
  /\ IF <<p, pag>> \in DOMAIN contenido
     THEN respuestas' = Append(respuestas, [de |-> h, tipo |-> "bytes", hoja |-> contenido[<<p, pag>>]])
     ELSE Responder(h, FALSE)
  /\ UNCHANGED contenido

\* The cells of g that are in S reach the page.
Grabado(p, pag, g, S) ==
  [pg \in DOMAIN contenido |->
     IF pg = <<p, pag>> THEN [c \in Celda |-> IF c \in S THEN g[c] ELSE contenido[pg][c]]
     ELSE contenido[pg]]
Grabacion(h, p, pag) == Respuesta(h, <<p, pag>> \in DOMAIN contenido)

EnHeap == {pg \in DOMAIN contenido : pg[2] >= Base}

Asignar(h, p) ==
  LET hay == Cardinality(EnHeap) < Tope IN
  /\ IF hay
     THEN \E k \in 0..(Base + Tope) :
            /\ Mem!Sigue(p, k)
            /\ contenido' = [pg \in DOMAIN contenido \cup {<<p, k>>} |->
                               IF pg = <<p, k>> THEN Hoja(Sucio) ELSE contenido[pg]]
     ELSE UNCHANGED contenido
  /\ Responder(h, hay)

SoltarPagina(h, p, pag) ==
  /\ contenido' = [pg \in DOMAIN contenido \ {<<p, pag>>} |-> contenido[pg]]
  /\ Responder(h, <<p, pag>> \in DOMAIN contenido)

Suya(h)  == respuestas # << >> /\ Head(respuestas).de = h
Bien     == Head(respuestas).tipo # "error"
Leida    == Head(respuestas).hoja
Recibe   == respuestas' = Tail(respuestas)

(***************************************************************************)
(* The threads.                                                            *)
(***************************************************************************)
En(h, pc)      == hilo[h].pc = pc
Pasa(h, r)     == hilo' = [hilo EXCEPT ![h] = r]
PasaA(h, pc)   == Pasa(h, [hilo[h] EXCEPT !.pc = pc])
Espera(h, pc)  == En(h, pc) /\ Suya(h)

Toma(h)  == mutex_memoria_fd = Nadie /\ mutex_memoria_fd' = h
Devuelve == mutex_memoria_fd' = Nadie

lista == <<mem_dinamica, objeto>>
resto == <<lista, cantPagReservar>>

\* The handler ends and its program goes on with e. An error that the CPU has
\* no case for (SEGMENTATION_FAULT) is logged there and the program goes on.
Contesta(h, e) ==
  /\ Pasa(h, Libre)
  /\ estado' = [estado EXCEPT ![hilo[h].pid] = IF e = "corre" THEN @ ELSE e]

\* The CPU of h runs p, which asks for something.
Pide(h, p, r) ==
  /\ En(h, "libre")
  /\ \A k \in Hilo : hilo[k].pid # p
  /\ estado[p] \in {"corre", "fallo"}
  /\ pedidos[p] < MaxPedidos[p]
  /\ pedidos' = [pedidos EXCEPT ![p] = @ + 1]
  /\ Pasa(h, [r EXCEPT !.pid = p])

(***************************************************************************)
(* reservarMemoria.                                                        *)
(***************************************************************************)
ReservarMemoria(h, p, cant) ==
  /\ Pide(h, p, [Libre EXCEPT !.pc = IF cant > Pag - 2 * Meta THEN "negada" ELSE "buscar",
                              !.cant = cant])
  /\ UNCHANGED <<memoria, resto, mutex_memoria_fd, kernel, estado, punteros, viejos>>

\* FALLA_RESERVAR_RECURSOS and NULL_POINTER end the program.
Negar(h) ==
  /\ En(h, "negada")
  /\ Contesta(h, "sale")
  /\ UNCHANGED <<memoria, resto, mutex_memoria_fd, kernel, punteros, pedidos, viejos>>

\* A page of the program that has room, or a new one.
Buscar(h) ==
  LET p == hilo[h].pid
      a == ObtenerReserva(p, hilo[h].cant)
  IN
  /\ En(h, "buscar")
  /\ IF a # 0
     THEN /\ PedirHoja(h, p, objeto[a].pag)
          /\ Pasa(h, [hilo[h] EXCEPT !.pc = "espacio", !.dir = a])
     ELSE PasaA(h, "nueva") /\ UNCHANGED memoria
  /\ UNCHANGED <<resto, mutex_memoria_fd, kernel, programa>>

\* The page has no block that fits: the search starts again.
RecibirHoja(h) ==
  LET a == hilo[h].dir
      c == hilo[h].cant
      p == hilo[h].pid
      d == VerificarEspacio(Leida, c)
  IN
  /\ Espera(h, "espacio") /\ Bien
  /\ IF d = 0
     THEN PasaA(h, "buscar") /\ Recibe /\ UNCHANGED <<contenido, objeto>>
     ELSE /\ objeto' = [objeto EXCEPT ![a].size = @ - c - Meta, ![a].cant = @ + 1]
          /\ contenido' = Grabado(p, objeto[a].pag, Partir(Leida, d, c), Celda)
          /\ respuestas' = Append(Tail(respuestas), Grabacion(h, p, objeto[a].pag))
          /\ Pasa(h, [hilo[h] EXCEPT !.pc = "grabada", !.pos = objeto[a].pag * Pag + d])
  /\ UNCHANGED <<mem_dinamica, cantPagReservar, mutex_memoria_fd, kernel, programa>>

\* RESERVAR_MEMORIA_OK with the pointer.
Entregar(h) ==
  /\ Contesta(h, "corre")
  /\ punteros' = [punteros EXCEPT ![hilo[h].pid] =
                    @ \cup {[desde |-> hilo[h].pos, cant |-> hilo[h].cant]}]

RecibirGrabada(h) ==
  /\ Espera(h, "grabada") /\ Recibe
  /\ IF Bien THEN Entregar(h) ELSE Contesta(h, "fallo") /\ UNCHANGED punteros
  /\ UNCHANGED <<contenido, resto, mutex_memoria_fd, kernel, pedidos, viejos>>

PedirPagina(h) ==
  /\ En(h, "nueva") /\ Toma(h)
  /\ Asignar(h, hilo[h].pid)
  /\ PasaA(h, "asignada")
  /\ UNCHANGED <<resto, kernel, programa>>

\* The number of the new page is the kernel's own count, not memory's.
RecibirAsignada(h) ==
  LET p == hilo[h].pid
      n == Base + cantPagReservar[p]
  IN
  /\ Espera(h, "asignada") /\ Devuelve
  /\ IF Bien
     THEN /\ objeto' = [a \in DOMAIN objeto \cup {NuevaDir} |->
                          IF a \in DOMAIN objeto THEN objeto[a]
                          ELSE [pid |-> p, pag |-> n, size |-> Pag - 2 * Meta - hilo[h].cant, cant |-> 1]]
          /\ mem_dinamica' = Append(mem_dinamica, NuevaDir)
          /\ contenido' = Grabado(p, n, Cabecera(Hoja(0), 0, 1, hilo[h].cant), 0..(Meta - 1))
          /\ respuestas' = Append(Tail(respuestas), Grabacion(h, p, n))
          /\ Pasa(h, [hilo[h] EXCEPT !.pc = "cabecera", !.pag = n, !.pos = n * Pag + Meta])
          /\ UNCHANGED estado
     ELSE Recibe /\ Contesta(h, "sale") /\ UNCHANGED <<contenido, lista>>
  /\ UNCHANGED <<cantPagReservar, kernel, punteros, pedidos, viejos>>

\* The second header, of the free block after the first one.
RecibirCabecera(h) ==
  LET p == hilo[h].pid
      n == hilo[h].pag
      o == Meta + hilo[h].cant
  IN
  /\ Espera(h, "cabecera")
  /\ IF Bien
     THEN /\ contenido' = Grabado(p, n, Cabecera(Hoja(0), o, 0, Pag - Meta - o), o..(o + Meta - 1))
          /\ respuestas' = Append(Tail(respuestas), Grabacion(h, p, n))
          /\ PasaA(h, "segunda")
          /\ UNCHANGED estado
     ELSE Recibe /\ Contesta(h, "fallo") /\ UNCHANGED contenido
  /\ UNCHANGED <<resto, mutex_memoria_fd, kernel, punteros, pedidos, viejos>>

RecibirSegunda(h) ==
  /\ Espera(h, "segunda") /\ Recibe
  /\ IF Bien
     THEN /\ Entregar(h)
          /\ cantPagReservar' = [cantPagReservar EXCEPT ![hilo[h].pid] = @ + 1]
     ELSE Contesta(h, "fallo") /\ UNCHANGED <<punteros, cantPagReservar>>
  /\ UNCHANGED <<contenido, lista, mutex_memoria_fd, kernel, pedidos, viejos>>

(***************************************************************************)
(* liberarMemoria.                                                         *)
(***************************************************************************)
\* The program gives up the region when it asks; pos may also be one it has
\* freed before.
LiberarMemoria(h, p, pos) ==
  LET i == BuscarReserva(p, pos \div Pag) IN
  /\ Pide(h, p, [Libre EXCEPT !.pc = IF i = 0 THEN "negada" ELSE "tomar",
                              !.ind = i, !.pos = pos])
  /\ punteros' = [punteros EXCEPT ![p] = {r \in @ : r.desde # pos}]
  /\ viejos' = [viejos EXCEPT ![p] = @ \cup {pos}]
  /\ UNCHANGED <<memoria, resto, mutex_memoria_fd, kernel, estado>>

\* The list may have changed since the index was found; past its end the
\* kernel dies, which the model does not follow.
TomarReserva(h) ==
  LET i == hilo[h].ind IN
  /\ En(h, "tomar") /\ i <= Len(mem_dinamica)
  /\ IF objeto[mem_dinamica[i]].cant > 0
     THEN /\ PedirHoja(h, hilo[h].pid, hilo[h].pos \div Pag)
          /\ Pasa(h, [hilo[h] EXCEPT !.pc = "hoja", !.dir = mem_dinamica[i]])
     ELSE PasaA(h, "nunca") /\ UNCHANGED memoria
  /\ UNCHANGED <<resto, mutex_memoria_fd, kernel, programa>>

RecibirHojaLiberar(h) ==
  LET p == hilo[h].pid
      a == hilo[h].dir
      o == (hilo[h].pos % Pag) - Meta
      t == Tam(Leida, o)
      n == hilo[h].pos \div Pag
      compacta == Compactar(Vaciar(Leida, o), o)
  IN
  /\ Espera(h, "hoja") /\ Bien
  /\ \/ /\ ~Usado(Leida, o)
        /\ Recibe /\ Contesta(h, "sale")
        /\ UNCHANGED <<contenido, lista>>
     \/ /\ Usado(Leida, o) /\ objeto[a].cant = 1
        /\ mem_dinamica' = SinIndices(mem_dinamica, {hilo[h].ind})
        /\ objeto' = SinObjetos({mem_dinamica[hilo[h].ind]})
        /\ Pasa(h, [hilo[h] EXCEPT !.pc = "vacia", !.pag = objeto[a].pag])
        /\ Recibe
        /\ UNCHANGED <<contenido, estado>>
     \/ /\ Usado(Leida, o) /\ objeto[a].cant # 1
        /\ objeto' = [objeto EXCEPT ![a].size = @ + t + Meta * compacta.veces, ![a].cant = @ - 1]
        /\ contenido' = Grabado(p, n, compacta.hoja, Celda)
        /\ respuestas' = Append(Tail(respuestas), Grabacion(h, p, n))
        /\ PasaA(h, "liberada")
        /\ UNCHANGED <<mem_dinamica, estado>>
  /\ UNCHANGED <<cantPagReservar, mutex_memoria_fd, kernel, punteros, pedidos, viejos>>

\* LIBERAR_PAGINA: the page number is read from the reserva just freed.
DevolverPagina(h) ==
  /\ En(h, "vacia") /\ Toma(h)
  /\ \E n \in Ajeno \cup {hilo[h].pag} : SoltarPagina(h, hilo[h].pid, n)
  /\ PasaA(h, "devuelta")
  /\ UNCHANGED <<resto, kernel, programa>>

RecibirDevuelta(h) ==
  /\ Espera(h, "devuelta") /\ Recibe /\ Devuelve
  /\ Contesta(h, IF Bien THEN "corre" ELSE "fallo")
  /\ UNCHANGED <<contenido, resto, kernel, punteros, pedidos, viejos>>

RecibirLiberada(h) ==
  /\ Espera(h, "liberada") /\ Recibe
  /\ Contesta(h, IF Bien THEN "corre" ELSE "fallo")
  /\ UNCHANGED <<contenido, resto, mutex_memoria_fd, kernel, punteros, pedidos, viejos>>

(***************************************************************************)
(* verificarAsignar, and the write of the CPU that follows it.             *)
(***************************************************************************)
VerificarAsignar(h, p, pos) ==
  /\ Pide(h, p, [Libre EXCEPT !.pc = "verificar", !.pos = pos])
  /\ PedirHoja(h, p, pos \div Pag)
  /\ UNCHANGED <<resto, mutex_memoria_fd, kernel, estado, punteros, viejos>>

RecibirHojaAsignar(h) ==
  /\ Espera(h, "verificar") /\ Bien /\ Recibe
  /\ IF AsignacionOk(Leida, hilo[h].pos % Pag, 1)
     THEN PasaA(h, "asignar") /\ UNCHANGED estado
     ELSE Contesta(h, "sale")
  /\ UNCHANGED <<contenido, resto, mutex_memoria_fd, kernel, punteros, pedidos, viejos>>

EscribirCelda(h) ==
  LET r == hilo[h] IN
  /\ En(h, "asignar")
  /\ contenido' = Grabado(r.pid, r.pos \div Pag, Hoja(1), {r.pos % Pag})
  /\ Contesta(h, "corre")
  /\ UNCHANGED <<respuestas, resto, mutex_memoria_fd, kernel, punteros, pedidos, viejos>>

(***************************************************************************)
(* terminarProceso: quitarDeMemoriaDinamica, then FINALIZAR_PROGRAMA.      *)
(***************************************************************************)
Terminar(h, p) ==
  LET Q == Quitadas(p) IN
  /\ En(h, "libre") /\ \A k \in Hilo : hilo[k].pid # p
  /\ estado[p] # "fin"
  /\ mem_dinamica' = SinIndices(mem_dinamica, Q)
  /\ objeto' = SinObjetos({mem_dinamica[i] : i \in Q})
  /\ Pasa(h, [Libre EXCEPT !.pc = "terminar", !.pid = p])
  /\ UNCHANGED <<memoria, cantPagReservar, mutex_memoria_fd, kernel, programa>>

\* FINALIZAR_PROGRAMA has no answer: the mutex is held for the sending only.
Finalizar(h) ==
  /\ En(h, "terminar") /\ mutex_memoria_fd = Nadie
  /\ contenido' = [pg \in DOMAIN contenido \ Mem!De(hilo[h].pid) |-> contenido[pg]]
  /\ punteros' = [punteros EXCEPT ![hilo[h].pid] = {}]
  /\ Contesta(h, "fin")
  /\ UNCHANGED <<respuestas, resto, mutex_memoria_fd, kernel, pedidos, viejos>>

(***************************************************************************)
(* What goes wrong.                                                        *)
(***************************************************************************)
\* solicitudBytes copies pagina_size bytes from an answer that carries none.
CopiarDeNada(h) ==
  /\ En(h, "espacio") \/ En(h, "hoja") \/ En(h, "verificar")
  /\ Suya(h) /\ ~Bien
  /\ kernel' = "caido"
  /\ Recibe
  /\ UNCHANGED <<contenido, resto, mutex_memoria_fd, hilo, programa>>

(***************************************************************************)
(* The specification.                                                      *)
(***************************************************************************)
\* A program frees what it holds, or a second time what the metadata still show
\* as free: nothing can tell the other second frees. It writes in its regions,
\* past their end, and where they were.
SeVeLibre(p, v) ==
  LET pg == <<p, v \div Pag>> IN
  pg \in DOMAIN contenido => ~Usado(contenido[pg], (v % Pag) - Meta)
Liberables(p)  == {r.desde : r \in punteros[p]} \cup {v \in viejos[p] : SeVeLibre(p, v)}
Escribibles(p) == viejos[p] \cup UNION {{r.desde, r.desde + r.cant} : r \in punteros[p]}

\* A thread goes on with what it was asked.
Avanza(h) ==
  \/ Negar(h) \/ Buscar(h) \/ RecibirHoja(h) \/ RecibirGrabada(h)
  \/ PedirPagina(h) \/ RecibirAsignada(h) \/ RecibirCabecera(h) \/ RecibirSegunda(h)
  \/ TomarReserva(h) \/ RecibirHojaLiberar(h) \/ DevolverPagina(h)
  \/ RecibirDevuelta(h) \/ RecibirLiberada(h)
  \/ RecibirHojaAsignar(h) \/ EscribirCelda(h)
  \/ Finalizar(h)
  \/ CopiarDeNada(h)

Next ==
  /\ kernel = "vivo"
  /\ \E h \in Hilo :
       \/ \E p \in Pid :
            \/ \E c \in Cant : ReservarMemoria(h, p, c)
            \/ \E pos \in Liberables(p) : LiberarMemoria(h, p, pos)
            \/ \E pos \in Escribibles(p) : VerificarAsignar(h, p, pos)
            \/ Terminar(h, p)
       \/ Avanza(h)

Spec == Init /\ [][Next]_vars

(***************************************************************************)
(* Properties.                                                             *)
(***************************************************************************)
\* No request of p has failed: the heap promises nothing after one has, because
\* the kernel's numbers of its pages are no longer memory's.
Sana(p) == estado[p] = "corre"

\* Type invariant: the shape of the kernel's list, of its pages, of its threads and
\* of what the programs hold.
TypeOK ==
  /\ \A i \in DOMAIN mem_dinamica : mem_dinamica[i] \in DOMAIN objeto
  /\ \A a \in DOMAIN objeto :
       /\ objeto[a].pid \in Pid /\ objeto[a].pag \in Nat /\ objeto[a].pag >= Base
       /\ Sana(objeto[a].pid) => objeto[a].size \in 0..Pag /\ objeto[a].cant \in Nat
  /\ \A pg \in DOMAIN contenido : Sana(pg[1]) => contenido[pg] \in [Celda -> Nat]
  /\ cantPagReservar \in [Pid -> Nat]
  /\ mutex_memoria_fd \in Hilo \cup {Nadie}
  /\ kernel \in {"vivo", "caido"}
  /\ estado \in [Pid -> {"corre", "fallo", "sale", "fin"}]
  /\ \A h \in Hilo : hilo[h].pid # Nadie => hilo[h].pid \in Pid /\ (Sana(hilo[h].pid) => hilo[h].pos \in Nat)

\* No thread serves p, and no request of p has failed.
EnPaz(p) == Sana(p) /\ \A h \in Hilo : hilo[h].pid # p

Reservas == {objeto[mem_dinamica[i]] : i \in DOMAIN mem_dinamica}
HojaDe(r) == contenido[<<r.pid, r.pag>>]
Vigentes == {r \in Reservas : EnPaz(r.pid)}

\* The blocks that reservarMemoria splits and liberarMemoria merges cover each
\* page of mem_dinamica exactly, a free one ends it, and two free ones never
\* stay side by side.
BloquesCubren ==
  \A r \in Vigentes :
    /\ <<r.pid, r.pag>> \in DOMAIN contenido
    /\ LET g == HojaDe(r) IN
       \A o \in Inicios(g) :
         /\ Fin(g, o) <= Pag
         /\ Fin(g, o) = Pag => ~Usado(g, o)
         /\ Fin(g, o) < Pag => Fin(g, o) \in Inicios(g) /\ (Usado(g, o) \/ Usado(g, Fin(g, o)))

\* reserva_memoria's size and cant are what the page says: the sum of its free
\* blocks and the number of its used ones. obtenerReserva chooses a page by the
\* first, liberarMemoria gives it back by the second.
CuentasDeReserva ==
  \A r \in Vigentes :
    LET g == HojaDe(r)
        usados == {o \in Inicios(g) : Usado(g, o)}
        ocupa  == (UNION {o..(Fin(g, o) - 1) : o \in usados})
                  \cup (UNION {{o, o + 1} : o \in Inicios(g)})
    IN  r.cant = Cardinality(usados) /\ r.size = Cardinality(Celda \ ocupa)

\* What a program holds is what its pages mark as used, block by block: nothing
\* leaks and nothing it holds is marked free (reservarMemoria, liberarMemoria).
PunterosSonBloques ==
  \A p \in Pid : EnPaz(p) =>
    punteros[p] =
      UNION {{[desde |-> r.pag * Pag + o + Meta, cant |-> Tam(HojaDe(r), o)] :
                o \in {x \in Inicios(HojaDe(r)) : Usado(HojaDe(r), x)}} :
             r \in {x \in Reservas : x.pid = p}}

\* The heap gives programs regions that do not overlap, whatever it does with
\* pages and metadata (the kernel implements Asignador). A program whose request
\* failed has let go of everything.
Regiones == INSTANCE Asignador WITH
  Posicion <- UNION {(Base * Pag)..((Base + MaxPedidos[p]) * Pag) : p \in Pid},
  Tamano <- Cant,
  regiones <- [p \in Pid |-> IF Sana(p) THEN punteros[p] ELSE {}]
RegionesSeparadas == Regiones!Spec

\* primitivas.c:642: reservar returns a pointer to where the memory is reserved. A
\* page in mem_dinamica is one that memory has assigned.
ReservaConPagina ==
  \A r \in Reservas :
    (\A h \in Hilo : hilo[h].pid # r.pid) => <<r.pid, r.pag>> \in DOMAIN contenido
=============================================================================
