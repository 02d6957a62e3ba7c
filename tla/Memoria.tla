------------------------------- MODULE Memoria --------------------------------
(***************************************************************************)
(* The memory process: the inverted page table with hash probing, the      *)
(* frames, the cache with LRU replacement, the thread that serves the      *)
(* kernel, the threads that serve the CPUs and the command thread's flush. *)
(*                                                                         *)
(* One step is one critical section of tablaPag_mutex, one copy to or from *)
(* a frame, or a part of a critical section of cache_mutex between which   *)
(* flush, which takes no lock, makes a difference.  A page's bytes are one *)
(* datum: requests that span pages go over them one by one.                *)
(***************************************************************************)
EXTENDS Integers, FiniteSets, FiniteSetsExt

CONSTANTS
  Pid,           \* programs
  Kernel,        \* the thread that serves the kernel
  Cpu,           \* the threads that serve the CPUs
  Lee, Graba,    \* what each thread may be asked for: program, first page, pages
  Nadie,         \* -1, as a pid
  Tabla,         \* the pid (0) of the frames that hold the table
  Marcos,        \* MARCOS: frames are 0..Marcos-1
  MarcosTabla,   \* how many of them hold the table
  Pos,           \* getPos: the hash of a program and a page
  Entradas,      \* ENTRADAS_CACHE: 0 for no cache
  MaxEntradas,   \* CACHE_X_PROC
  Dato, Cero,    \* contents of a page; what a frame holds at the start
  EnMarco,       \* the frame where each entry past the end of the table lies
  Parece,        \* the contents of that frame with which the entry looks free
  MaxPag         \* bound: the highest page of each program

Hilo    == {Kernel} \cup Cpu
Marco   == 0..(Marcos - 1)
Entrada == 0..(Entradas - 1)
Pagina(p) == 0..MaxPag[p]
\* The pages a request may go over: the first one and how many.
Tramo == {r \in Pid \X Nat \X (Nat \ {0}) : r[2] + r[3] <= MaxPag[r[1]] + 1}
PasadoElFin == Marcos..(2 * Marcos - 1)

ASSUME MemoriaAssumption ==
  /\ IsFiniteSet(Pid) /\ IsFiniteSet(Cpu) /\ Kernel \notin Cpu
  /\ Nadie \notin Pid \cup Hilo \cup Marco /\ Tabla \notin Pid /\ Tabla # Nadie
  /\ \A h \in Hilo : \A r \in Lee[h] \cup Graba[h] : r \in Tramo
  /\ Marcos \in Nat /\ MarcosTabla \in 0..Marcos
  /\ MaxPag \in [Pid -> Nat] /\ Cero \in Dato
  /\ \A p \in Pid : Pos[p] \in [Pagina(p) -> Marco]
  /\ EnMarco \in [PasadoElFin -> Marco] /\ Parece \in [PasadoElFin -> SUBSET Dato]
  /\ \A i \in PasadoElFin : Parece[i] # Dato
  /\ Entradas \in Nat /\ MaxEntradas \in Nat
  /\ Entradas > 0 => MaxEntradas \in 1..Entradas

VARIABLES
  tabla,     \* the inverted table: the page each frame has
  memoria,   \* what each frame holds
  cache,     \* entries: pid, pag, content
  mutex,     \* owner of tablaPag_mutex
  mutexCache, \* owner of cache_mutex
  eleccion,  \* its local variables: how it uses an entry, those it saw, the entry
  pc,        \* where each thread is
  pedido,    \* the request it serves: program, page, pages left, datum to write
  marco,     \* the frame it found
  puntero,   \* the cache entry pos_leer points into, Nadie when it is a frame
  limpia,    \* the entry flush is at, and whether its pag is already -1
  vivo,      \* programs as the kernel sees them
  escrita    \* history: assigned pages written, and by nobody else since

tablas  == <<tabla, memoria, mutex, vivo, escrita>>
caches  == <<cache, mutexCache, eleccion>>
hilos   == <<pc, pedido, marco, puntero>>
vars    == <<tablas, caches, hilos, limpia>>

Libre       == [pid |-> Nadie, pag |-> -1]
SinEntrada  == [pid |-> Nadie, pag |-> -1, content |-> Cero]
SinPedido   == [pid |-> Nadie, pag |-> 0, falta |-> 0, dato |-> Cero]
SinEleccion == [como |-> "nada", antes |-> {}, entrada |-> Nadie]
Perdida     == [como |-> "perdida", antes |-> {}, entrada |-> Nadie]
NoLimpia    == [entrada |-> Entradas, pag |-> FALSE]
Lectura     == {"cache", "busca", "actualiza", "copia"}
Escritura   == {"busca_e", "graba", "actualiza_e"}
DelKernel   == {"frames", "toma", "asigna", "finaliza", "libera"}

TypeOK ==
  /\ tabla \in [Marco -> [pid : Pid \cup {Nadie, Tabla}, pag : Nat \cup {-1}]]
  /\ memoria \in [Marco -> Dato]
  /\ cache \in [Entrada -> [pid : Pid \cup {Nadie}, pag : Nat \cup {-1}, content : Dato]]
  /\ mutex \in {Kernel, Nadie} /\ mutexCache \in Hilo \cup {Nadie}
  /\ eleccion \in [como : {"nada", "hallada", "local", "global", "nueva", "perdida"},
                   antes : SUBSET Entrada, entrada : Entrada \cup {Nadie}]
  /\ pc \in [Hilo -> {"libre"} \cup Lectura \cup Escritura \cup DelKernel]
  /\ pedido \in [Hilo -> [pid : Pid \cup {Nadie}, pag : Nat, falta : Nat, dato : Dato]]
  /\ marco \in [Hilo -> Marco \cup {Nadie}] /\ puntero \in [Hilo -> Entrada \cup {Nadie}]
  /\ limpia \in [entrada : 0..Entradas, pag : BOOLEAN]
  /\ \A h \in Hilo : pc[h] \in {"graba", "actualiza", "actualiza_e"} => marco[h] \in Marco
  /\ vivo \in [Pid -> {"nuevo", "inicia", "vivo", "fin"}]
  /\ escrita \subseteq Pid \X Nat

\* The first frames hold the table itself and are nobody else's.
Init ==
  /\ tabla = [f \in Marco |-> IF f < MarcosTabla THEN [pid |-> Tabla, pag |-> 0] ELSE Libre]
  /\ memoria = [f \in Marco |-> Cero]
  /\ cache = [e \in Entrada |-> SinEntrada]
  /\ mutex = Nadie /\ mutexCache = Nadie /\ eleccion = SinEleccion
  /\ pc = [h \in Hilo |-> "libre"] /\ pedido = [h \in Hilo |-> SinPedido]
  /\ marco = [h \in Hilo |-> Nadie] /\ puntero = [h \in Hilo |-> Nadie]
  /\ limpia = NoLimpia /\ vivo = [p \in Pid |-> "nuevo"]
  /\ escrita = {}

-----------------------------------------------------------------------------
\* The table.

En(h, paso) == pc[h] = paso
Ir(h, paso) == pc' = [pc EXCEPT ![h] = paso]

\* A request is over: the answer is sent and its variables are gone.
Responder(h) ==
  /\ Ir(h, "libre")
  /\ pedido' = [pedido EXCEPT ![h] = SinPedido]
  /\ marco' = [marco EXCEPT ![h] = Nadie]
  /\ puntero' = [puntero EXCEPT ![h] = Nadie]

PaginasDe(p) == {tabla[f].pag : f \in {g \in Marco : tabla[g].pid = p}}
EstaLibre(f) == tabla[f].pid = Nadie \/ tabla[f].pag = -1

\* framesLibres
FramesLibres == Cardinality({f \in Marco : tabla[f].pid = Nadie /\ tabla[f].pag = -1})

\* The highest page of a program, -1 when it has none.
UltimaPagina_Contando(p) == Cardinality(PaginasDe(p)) - 1
UltimaPagina(p) == Max(PaginasDe(p) \cup {-1})

\* The i-th position from the hash: the search for a page wraps around, the
\* search for a free frame does not.
Desde(p, k, i) == (Pos[p][k] + i) % Marcos

Tiene_SinPid(f, p, k) == tabla[f].pid # Nadie /\ tabla[f].pag = k
Tiene(f, p, k) == tabla[f].pid = p /\ tabla[f].pag = k

\* buscarFrame: the frame of a page, Nadie when it is not in the table.
MarcoDe(p, k) ==
  LET coincide(i) == Tiene(Desde(p, k, i), p, k)
      primera(i)  == coincide(i) /\ \A j \in 0..(i - 1) : ~ coincide(j)
  IN  IF \E i \in Marco : coincide(i)
      THEN Desde(p, k, CHOOSE i \in Marco : primera(i))
      ELSE Nadie

\* The free entry reservarFrames finds in the table.
MarcoLibre_SinSumar(p, k) ==
  IF \E f \in Pos[p][k]..(Marcos - 1) : EstaLibre(f) THEN Pos[p][k] ELSE Nadie
MarcoLibre(p, k) ==
  LET libres == {f \in Pos[p][k]..(Marcos - 1) : EstaLibre(f)}
  IN  IF libres # {} THEN Min(libres) ELSE Nadie

\* When it finds none it goes on past the end of the table: the bytes of the
\* frames that look like an entry that is free.
ParecenLibres(p, k) ==
  {i \in Marcos..(Pos[p][k] + Marcos - 1) : memoria[EnMarco[i]] \in Parece[i]}

\* The test for -1 of those who look for a page.
Encontro_SinMirar(f) == TRUE
Encontro(f) == f # Nadie

-----------------------------------------------------------------------------
\* The cache.

\* buscarEntrada
EntradaDe(p, k) == {e \in Entrada : cache[e].pid = p /\ cache[e].pag = k}

LlegoAlMaximo_PasandoUno(p) == Cardinality({e \in Entrada : cache[e].pid = p}) > MaxEntradas
LlegoAlMaximo(p) == Cardinality({e \in Entrada : cache[e].pid = p}) = MaxEntradas

\* What the owner of cache_mutex writes in an entry: the content of a page that
\* had it, or all of it.
Anotada_SoloFaltante(e, como, p, k, d) ==
  IF como = "hallada" THEN cache ELSE [cache EXCEPT ![e] = [pid |-> p, pag |-> k, content |-> d]]
Anotada(e, como, p, k, d) ==
  IF como = "hallada" THEN [cache EXCEPT ![e].content = d]
  ELSE [cache EXCEPT ![e] = [pid |-> p, pag |-> k, content |-> d]]

EntradasDe(p)  == {e \in Entrada : cache[e].pid = p}
EntradasLibres == {e \in Entrada : cache[e].pid = Nadie \/ cache[e].pag = -1}

\* What reemplazoLocal may return: an entry that was the program's when they were
\* counted, also one that flush cleared after the scan went by it.
ReemplazoLocal == eleccion.antes

\* reemplazoGlobal: a free entry, the first one but for what flush clears; any
\* entry when none was free.
ReemplazoGlobal ==
  IF eleccion.antes = {} THEN Entrada
  ELSE {e \in EntradasLibres : e <= Min(eleccion.antes)}

-----------------------------------------------------------------------------
\* SOLICITUD_BYTES and GRABAR_BYTES, from the kernel and from the CPUs.

\* A CPU does not ask while it waits for the kernel to get or free pages of its
\* program.
Atiende(h, p) ==
  /\ vivo[p] = "vivo"
  /\ ~ (pedido[Kernel].pid = p /\ pc[Kernel] \in DelKernel)

Recibir(h, paso, p, t, d) ==
  /\ En(h, "libre") /\ Ir(h, paso)
  /\ pedido' = [pedido EXCEPT ![h] = [pid |-> p, pag |-> t[1], falta |-> t[2], dato |-> d]]
  /\ UNCHANGED <<marco, puntero>>

SolicitudBytes(h) ==
  /\ \E r \in Lee[h] :
       Atiende(h, r[1]) /\ Recibir(h, "cache", r[1], <<r[2], r[3]>>, Cero)
  /\ UNCHANGED <<tablas, caches, limpia>>

GrabarBytes(h) ==
  /\ \E r \in Graba[h], d \in Dato :
       Atiende(h, r[1]) /\ Recibir(h, "busca_e", r[1], <<r[2], r[3]>>, d)
  /\ UNCHANGED <<tablas, caches, limpia>>

\* One page is done: the next one, or the answer.
Avanzar(h, paso) ==
  \/ /\ pedido[h].falta > 1
     /\ Ir(h, paso)
     /\ pedido' = [pedido EXCEPT ![h].pag = @ + 1, ![h].falta = @ - 1]
     /\ marco' = [marco EXCEPT ![h] = Nadie]
     /\ puntero' = [puntero EXCEPT ![h] = Nadie]
  \/ pedido[h].falta <= 1 /\ Responder(h)

\* leerCache: a hit leaves pos_leer inside the entry, and the lock is released.
LeerCache(h) ==
  LET e == EntradaDe(pedido[h].pid, pedido[h].pag)
  IN  /\ En(h, "cache") /\ mutexCache = Nadie
      /\ \/ /\ e = {}
            /\ Ir(h, "busca")
            /\ UNCHANGED puntero
         \/ /\ e # {}
            /\ puntero' = [puntero EXCEPT ![h] = CHOOSE x \in e : TRUE]
            /\ Ir(h, "copia")
      /\ UNCHANGED <<tablas, caches, pedido, marco, limpia>>

\* buscarFrame; SEGMENTATION_FAULT when the page is not there.
BuscarFrame(h) ==
  LET f == MarcoDe(pedido[h].pid, pedido[h].pag)
  IN  /\ pc[h] \in {"busca", "busca_e"} /\ mutex = Nadie
      /\ \/ /\ ~ Encontro(f) /\ Responder(h)
         \/ /\ Encontro(f)
            /\ marco' = [marco EXCEPT ![h] = f]
            /\ Ir(h, IF En(h, "busca") THEN "actualiza" ELSE "graba")
            /\ UNCHANGED <<pedido, puntero>>
      /\ UNCHANGED <<tablas, caches, limpia>>

\* The copy of escribir ...
Grabar(h) ==
  /\ En(h, "graba")
  /\ memoria' = [memoria EXCEPT ![marco[h]] = pedido[h].dato]
  /\ escrita' = escrita \cup {<<pedido[h].pid, pedido[h].pag>>}
  /\ Ir(h, "actualiza_e")
  /\ UNCHANGED <<tabla, mutex, vivo, caches, pedido, marco, puntero, limpia>>

\* ... and then the page's cache entry, also for one that was read and was not
\* in the cache.  After it, a write goes on and a read copies from the frame.
DejarEntrada(h) ==
  \/ En(h, "actualiza_e") /\ Avanzar(h, "busca_e")
  \/ En(h, "actualiza") /\ Ir(h, "copia") /\ UNCHANGED <<pedido, marco, puntero>>

\* actualizarEntradaCache: nothing without a cache; else the lock, buscarEntrada
\* and cantEntradas.
BuscarEntrada(h) ==
  LET p == pedido[h].pid
      e == EntradaDe(p, pedido[h].pag)
  IN  /\ pc[h] \in {"actualiza", "actualiza_e"}
      /\ IF Entradas = 0 THEN DejarEntrada(h) /\ UNCHANGED caches
         ELSE /\ mutexCache = Nadie /\ mutexCache' = h
              /\ \/ /\ e # {}
                    /\ eleccion' = [como |-> "hallada", antes |-> {}, entrada |-> CHOOSE x \in e : TRUE]
                 \/ /\ e = {} /\ LlegoAlMaximo(p)
                    /\ eleccion' = [como |-> "local", antes |-> EntradasDe(p), entrada |-> Nadie]
                 \/ /\ e = {} /\ ~ LlegoAlMaximo(p)
                    /\ eleccion' = [como |-> "global", antes |-> EntradasLibres, entrada |-> Nadie]
              /\ UNCHANGED <<cache, hilos>>
      /\ UNCHANGED <<tablas, limpia>>

\* The scan of reemplazoLocal or of reemplazoGlobal.  reemplazoLocal that finds
\* no entry of the program returns a variable nobody set: some entry, or a
\* number outside of the cache, with which the process writes where it should
\* not and is lost.
Reemplazar(h) ==
  LET p == pedido[h].pid
      elegir(e) == eleccion' = [como |-> "nueva", antes |-> {}, entrada |-> e]
  IN  /\ mutexCache = h
      /\ \/ eleccion.como = "global" /\ \E e \in ReemplazoGlobal : elegir(e)
         \/ eleccion.como = "local" /\ \E e \in ReemplazoLocal : elegir(e)
         \/ /\ eleccion.como = "local" /\ EntradasDe(p) = {}
            /\ eleccion' = Perdida \/ \E e \in Entrada : elegir(e)
      /\ UNCHANGED <<tablas, cache, mutexCache, hilos, limpia>>

\* The writes in the entry, and the lock is released.
AnotarEntrada(h) ==
  /\ mutexCache = h /\ eleccion.como \in {"hallada", "nueva"}
  /\ cache' = Anotada(eleccion.entrada, eleccion.como, pedido[h].pid, pedido[h].pag, memoria[marco[h]])
  /\ mutexCache' = Nadie /\ eleccion' = SinEleccion
  /\ DejarEntrada(h)
  /\ UNCHANGED <<tablas, limpia>>

\* The copy of leer, from the entry or from the frame.
Copiar(h) ==
  /\ En(h, "copia")
  /\ Avanzar(h, "cache")
  /\ UNCHANGED <<tablas, caches, limpia>>

-----------------------------------------------------------------------------
\* What only the kernel asks.

\* Nobody serves a request about p: its CPU waits for the kernel, or has
\* given its PCB back.
Quieto(p) == \A c \in Cpu : pedido[c].pid # p

\* INICIAR_PROGRAMA and ASIGNAR_PAGINAS.
IniciarPrograma(p) ==
  /\ vivo[p] = "nuevo"
  /\ vivo' = [vivo EXCEPT ![p] = "inicia"]
  /\ \E n \in 1..(MaxPag[p] + 1) : Recibir(Kernel, "frames", p, <<0, n>>, Cero)
  /\ UNCHANGED <<tabla, memoria, mutex, escrita, caches, limpia>>

AsignarPaginas(p) ==
  /\ vivo[p] = "vivo" /\ Quieto(p)
  /\ \E n \in 1..(MaxPag[p] - UltimaPagina(p)) : Recibir(Kernel, "frames", p, <<0, n>>, Cero)
  /\ UNCHANGED <<tablas, caches, limpia>>

\* OP_OK or SIN_ESPACIO: a program that does not begin is over.
Resolver(p, como) ==
  vivo' = [vivo EXCEPT ![p] = IF @ = "inicia" THEN como ELSE @]

\* reservarFrames: are there frames?
ContarFrames ==
  /\ En(Kernel, "frames") /\ mutex = Nadie
  /\ \/ /\ FramesLibres < pedido[Kernel].falta
        /\ Resolver(pedido[Kernel].pid, "fin")
        /\ Responder(Kernel)
     \/ /\ FramesLibres >= pedido[Kernel].falta
        /\ Ir(Kernel, "toma")
        /\ UNCHANGED <<vivo, pedido, marco, puntero>>
  /\ UNCHANGED <<tabla, memoria, mutex, escrita, caches, limpia>>

\* The lock again, and the number of the first page.
TomarTabla ==
  /\ En(Kernel, "toma") /\ mutex = Nadie
  /\ mutex' = Kernel
  /\ pedido' = [pedido EXCEPT ![Kernel].pag = UltimaPagina(pedido[Kernel].pid) + 1]
  /\ Ir(Kernel, "asigna")
  /\ UNCHANGED <<tabla, memoria, vivo, escrita, caches, marco, puntero, limpia>>

\* A page counts as assigned, and after the last one the lock is released.
UnaAsignada(p) ==
  /\ Avanzar(Kernel, "asigna")
  /\ IF pedido[Kernel].falta = 1
     THEN mutex' = Nadie /\ Resolver(p, "vivo")
     ELSE UNCHANGED <<mutex, vivo>>

\* The entry is written over bytes of a frame: the page it belongs to, if there
\* is one, is not what was written any more.
Pisar(i) ==
  /\ \E d \in Dato \ Parece[i] : memoria' = [memoria EXCEPT ![EnMarco[i]] = d]
  /\ escrita' = escrita \ {<<tabla[EnMarco[i]].pid, tabla[EnMarco[i]].pag>>}

\* One page of the loop: in an entry that is free, or over bytes past the table
\* that look so, and then the page has no frame.  The error keeps the lock.
AsignarPagina ==
  LET p == pedido[Kernel].pid
      k == pedido[Kernel].pag
      f == MarcoLibre(p, k)
  IN  /\ En(Kernel, "asigna")
      /\ \/ /\ f # Nadie
            /\ tabla' = [tabla EXCEPT ![f] = [pid |-> p, pag |-> k]]
            /\ UnaAsignada(p)
            /\ UNCHANGED <<memoria, escrita>>
         \/ /\ f = Nadie /\ ParecenLibres(p, k) # {}
            /\ Pisar(Min(ParecenLibres(p, k)))
            /\ UnaAsignada(p)
            /\ UNCHANGED tabla
         \/ /\ f = Nadie /\ ParecenLibres(p, k) = {}
            /\ Resolver(p, "fin")
            /\ Responder(Kernel)
            /\ UNCHANGED <<tabla, memoria, escrita, mutex>>
      /\ UNCHANGED <<caches, limpia>>

\* FINALIZAR_PROGRAMA
FinalizarPrograma(p) ==
  /\ vivo[p] = "vivo" /\ Quieto(p)
  /\ vivo' = [vivo EXCEPT ![p] = "fin"]
  /\ Recibir(Kernel, "finaliza", p, <<0, 0>>, Cero)
  /\ UNCHANGED <<tabla, memoria, mutex, escrita, caches, limpia>>

BorrarPrograma ==
  /\ En(Kernel, "finaliza") /\ mutex = Nadie
  /\ tabla' = [f \in Marco |-> IF tabla[f].pid = pedido[Kernel].pid THEN Libre ELSE tabla[f]]
  /\ escrita' = {pg \in escrita : pg[1] # pedido[Kernel].pid}
  /\ Responder(Kernel)
  /\ UNCHANGED <<memoria, mutex, vivo, caches, limpia>>

\* LIBERAR_PAGINA.  The cache is not told.
LiberarPagina(p) ==
  /\ vivo[p] = "vivo" /\ Quieto(p)
  /\ \E k \in Pagina(p) : Recibir(Kernel, "libera", p, <<k, 0>>, Cero)
  /\ UNCHANGED <<tablas, caches, limpia>>

LiberarFrame ==
  LET p == pedido[Kernel].pid
      k == pedido[Kernel].pag
      f == MarcoDe(p, k)
  IN  /\ En(Kernel, "libera") /\ mutex = Nadie
      /\ IF Encontro(f) THEN tabla' = [tabla EXCEPT ![f] = Libre] ELSE UNCHANGED tabla
      /\ escrita' = escrita \ {<<p, k>>}
      /\ Responder(Kernel)
      /\ UNCHANGED <<memoria, mutex, vivo, caches, limpia>>

-----------------------------------------------------------------------------
\* flush takes no lock: another thread may use an entry between its writes.

Flush ==
  /\ limpia = NoLimpia /\ Entradas > 0
  /\ limpia' = [entrada |-> 0, pag |-> FALSE]
  /\ UNCHANGED <<tablas, caches, hilos>>

LimpiarPag ==
  LET e == limpia.entrada
  IN  /\ e < Entradas /\ ~ limpia.pag
      /\ cache' = [cache EXCEPT ![e].pag = -1]
      /\ limpia' = [limpia EXCEPT !.pag = TRUE]
      /\ UNCHANGED <<tablas, mutexCache, eleccion, hilos>>

LimpiarPid ==
  LET e == limpia.entrada
  IN  /\ e < Entradas /\ limpia.pag
      /\ cache' = [cache EXCEPT ![e].pid = Nadie]
      /\ limpia' = [entrada |-> e + 1, pag |-> FALSE]
      /\ UNCHANGED <<tablas, mutexCache, eleccion, hilos>>

-----------------------------------------------------------------------------
PedidoKernel ==
  \E p \in Pid : \/ IniciarPrograma(p) \/ AsignarPaginas(p)
                 \/ FinalizarPrograma(p) \/ LiberarPagina(p)

\* The rest of a request that has begun.
Sigue(h) ==
  \/ LeerCache(h) \/ BuscarFrame(h) \/ Grabar(h) \/ Copiar(h)
  \/ BuscarEntrada(h) \/ Reemplazar(h) \/ AnotarEntrada(h)

SigueKernel ==
  ContarFrames \/ TomarTabla \/ AsignarPagina \/ BorrarPrograma \/ LiberarFrame

OtroHilo ==
  \/ \E h \in Hilo : SolicitudBytes(h) \/ GrabarBytes(h) \/ Sigue(h)
  \/ PedidoKernel \/ SigueKernel
  \/ Flush \/ LimpiarPag \/ LimpiarPid

\* What a write outside of the cache leaves is not followed.
Next == eleccion # Perdida /\ OtroHilo

Spec == Init /\ [][Next]_vars

-----------------------------------------------------------------------------
\* Safety.

\* A page of a program is in one frame: numbering the pages after the highest
\* one never gives a number twice, whatever pages were freed.
UnMarcoPorPagina ==
  \A f, g \in Marco :
    tabla[f] = tabla[g] /\ tabla[f].pid \in Pid => f = g

\* "para no pasarse del limite de entradas por proceso"
CuotaDeCache ==
  \A p \in Pid : Cardinality({e \in Entrada : cache[e].pid = p}) <= MaxEntradas

\* Once a page is written its entry agrees with its frame, but for a thread
\* that has written the frame and comes to the entry next.
CacheCoherente ==
  \A e \in Entrada, f \in Marco :
    /\ tabla[f].pid = cache[e].pid /\ tabla[f].pag = cache[e].pag
    /\ <<cache[e].pid, cache[e].pag>> \in escrita
    => \/ cache[e].content = memoria[f]
       \/ \E h \in Hilo : pc[h] = "actualiza_e" /\ marco[h] = f

\* A thread that is about to use a frame uses the frame of its page: nobody
\* takes it away in between.
MarcoVigente ==
  \A h \in Hilo :
    pc[h] \in {"graba", "actualiza", "actualiza_e"}
      => tabla[marco[h]].pid = pedido[h].pid /\ tabla[marco[h]].pag = pedido[h].pag

\* The memory implements the store of pages: a page changes only when a thread
\* writes what it was asked to write in that page, once, or when a reservation
\* takes for a free entry bytes of it that look like one; and a write is refused
\* only when its page is not assigned.
Asignados == {f \in Marco : tabla[f].pid \in Pid}
Claves    == {<<tabla[f].pid, tabla[f].pag>> : f \in Asignados}
Contenido == [pg \in Claves |->
                memoria[CHOOSE f \in Asignados : tabla[f].pid = pg[1] /\ tabla[f].pag = pg[2]]]
Pendiente == [h \in Hilo |-> IF pc[h] \in {"busca_e", "graba"}
                             THEN {<<<<pedido[h].pid, pedido[h].pag>>, pedido[h].dato>>} ELSE {}]
Confunde  == UNION {Parece[i] : i \in PasadoElFin}
Almacen   == INSTANCE Paginas WITH contenido <- Contenido, pendiente <- Pendiente
PaginasSpec == Almacen!Spec

-----------------------------------------------------------------------------
\* What the code does not give.

\* "devuelve el puntero contenido de la entrada": the entry a thread copies
\* from is still its page's, or was cleared and has its bytes.
PunteroVigente ==
  \A h \in Hilo : pc[h] = "copia" /\ puntero[h] # Nadie =>
    /\ cache[puntero[h]].pid \in {pedido[h].pid, Nadie}
    /\ cache[puntero[h]].pag \in {pedido[h].pag, -1}

\* reemplazoLocal finds an entry of its program, which has as many as it may.
ReemplazoEncuentra ==
  eleccion.como = "local" => EntradasDe(pedido[mutexCache].pid) # {}

\* "Asigna la cantidad de paginas al proceso": a program that memory accepts has
\* pages in the table.
ProgramaConPaginas ==
  [][\A p \in Pid : vivo[p] = "inicia" /\ vivo'[p] = "vivo" => (\E f \in Marco : tabla'[f].pid = p)]_vars

=============================================================================
