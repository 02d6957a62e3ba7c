------------------------------- MODULE Archivos -------------------------------
(***************************************************************************)
(* The kernel's file tables, and the conversation of its handler threads   *)
(* with the file system process. A program has at most one request under   *)
(* way, served by the thread of its CPU, so a thread is known by its       *)
(* program. The tables have no lock; mutex_fs keeps the exchanges apart.   *)
(* The file system is what it answers: the files that exist, and no space. *)
(***************************************************************************)
EXTENDS Integers, Sequences, FiniteSets

CONSTANTS
  Pid,         \* programs: their PIDs are used in sums
  Ruta,        \* paths
  Nadie,
  Posicion,    \* positions for the cursor
  MaxPedidos,  \* bound: requests of each program
  Intacto      \* what freed memory may do: keep its content (TRUE), lose it (FALSE)

ASSUME ArchivosAssumption ==
  /\ Pid \subseteq Nat /\ IsFiniteSet(Pid) /\ Nadie \notin Pid /\ 0 \in Posicion /\ Posicion \subseteq Nat
  /\ MaxPedidos \in [Pid -> Nat]
  /\ Intacto \subseteq BOOLEAN /\ FALSE \in Intacto

VARIABLES
  globalFileTable,   \* entries, with the address dir of each
  processFileTable,  \* of each program: its entry and the t_archivo in it
  max_archivo_fd,
  mutex_fs,          \* who holds it
  hilo,              \* the handler of each program's request
  kernel,            \* "vivo" or "caido"
  estado,            \* the programs: "corre" or "fin"
  pedidos,
  consultas, respuestas,   \* the socket of the file system, both ways
  existen,           \* its files
  enredado           \* two entries shared a path or a ubicacion, or one freed was used

tablas == <<globalFileTable, processFileTable, max_archivo_fd, enredado>>
socket == <<consultas, respuestas, existen>>
vars == <<tablas, mutex_fs, hilo, kernel, estado, pedidos, socket>>

Libre == [pc |-> "libre", op |-> "nada", ruta |-> Nadie, creacion |-> FALSE,
          hay |-> FALSE, dir |-> 0, ubicacion |-> 0]

Init ==
  /\ globalFileTable = << >>
  /\ processFileTable = [p \in Pid |-> [entrada |-> "no", archivos |-> << >>]]
  /\ max_archivo_fd = 3
  /\ mutex_fs = Nadie
  /\ hilo = [p \in Pid |-> Libre]
  /\ kernel = "vivo"
  /\ estado = [p \in Pid |-> "corre"]
  /\ pedidos = [p \in Pid |-> 0]
  /\ consultas = << >> /\ respuestas = << >>
  /\ existen \in SUBSET Ruta
  /\ enredado = FALSE

(***************************************************************************)
(* The tables.                                                             *)
(***************************************************************************)
Menor(S) == CHOOSE x \in S : \A y \in S : x <= y

\* list_find: the first entry for which P holds, {} if there is none.
Primera(s, P(_)) ==
  LET S == {i \in DOMAIN s : P(s[i])} IN IF S = {} THEN {} ELSE {s[Menor(S)]}

\* list_remove of all the elements but those at the places of Q: the list that is left.
Enesimo(Q, k) == CHOOSE i \in Q : Cardinality({j \in Q : j <= i}) = k
Solo(s, Q) == [k \in 1..Cardinality(Q) |-> s[Enesimo(Q, k)]]

Entradas == {globalFileTable[i] : i \in DOMAIN globalFileTable}
BuscarPorRuta(r) == LET P(e) == e.archivo = r IN Primera(globalFileTable, P)
BuscarPorUbicacion(g) == LET P(e) == e.ubicacion = g IN Primera(globalFileTable, P)

\* An entry that was freed is found as long as its memory keeps its content.
HayEntrada(p) == processFileTable[p].entrada \in {"viva", "intacta"}

BuscarArchivo(p, fd) ==
  LET P(a) == a.fd = fd IN
  IF HayEntrada(p) THEN Primera(processFileTable[p].archivos, P) ELSE {}

\* The entries that the descriptor leads to: none, or one.
EntradaDe(p, fd) == UNION {BuscarPorUbicacion(a.globalFD) : a \in BuscarArchivo(p, fd)}

NuevaDir == Menor(1..(Len(globalFileTable) + 1) \ {e.dir : e \in Entradas})

(***************************************************************************)
(* The handlers.                                                           *)
(***************************************************************************)
En(p, pc) == hilo[p].pc = pc
Pasa(p, r) == hilo' = [hilo EXCEPT ![p] = r]

\* The answer: after an error the CPU ends the program.
Contesta(p, bien) ==
  /\ Pasa(p, Libre)
  /\ estado' = IF bien THEN estado ELSE [estado EXCEPT ![p] = "fin"]

Pide(p) ==
  /\ En(p, "libre") /\ estado[p] = "corre"
  /\ pedidos[p] < MaxPedidos[p]
  /\ pedidos' = [pedidos EXCEPT ![p] = @ + 1]

Muere == kernel' = "caido"
Sigue == UNCHANGED kernel

ConFS(p, op, r) == Pasa(p, [hilo[p] EXCEPT !.pc = "tomar", !.op = op, !.ruta = r])

\* ENVIO_CODIGO, after the program is in colaNew.
CrearEntradaArchivoProceso(p) ==
  /\ processFileTable[p].entrada = "no"
  /\ processFileTable' = [processFileTable EXCEPT ![p].entrada = "viva"]
  /\ UNCHANGED <<globalFileTable, max_archivo_fd, enredado, mutex_fs, hilo, kernel, estado,
                 pedidos, socket>>

AbrirArchivo(p, r, creacion) ==
  LET E == BuscarPorRuta(r) IN
  /\ Pide(p)
  /\ max_archivo_fd' = max_archivo_fd + 1
  /\ \E e \in IF E = {} THEN {[dir |-> 0, ubicacion |-> 0]} ELSE E :
       Pasa(p, [Libre EXCEPT !.pc = "agregar", !.ruta = r, !.creacion = creacion,
                             !.hay = HayEntrada(p), !.dir = e.dir, !.ubicacion = e.ubicacion])
  /\ UNCHANGED <<globalFileTable, processFileTable, enredado, mutex_fs, kernel, estado, socket>>

\* The t_archivo of fd; with no entry of the process the kernel dies.
Anotar(p, fd, g) ==
  IF hilo[p].hay
  THEN /\ processFileTable' = [processFileTable EXCEPT ![p].archivos =
            Append(@, [fd |-> fd, globalFD |-> g, cursor |-> 0, ruta |-> hilo[p].ruta])]
       /\ ConFS(p, IF hilo[p].creacion THEN "crear" ELSE "validar", hilo[p].ruta)
       /\ Sigue
  ELSE UNCHANGED <<processFileTable, hilo>> /\ Muere

\* Mutant of UnaMas: one more descriptor of an open file is not counted.
UnaMas_SinContar(i) == globalFileTable
UnaMas(i) == [globalFileTable EXCEPT ![i].vecesAbierto = @ + 1]

\* The entry found before is counted once more, or a new one is added; the number
\* of the descriptor is read now. The entry may be gone by then.
AgregarArchivo(p) ==
  LET r  == hilo[p].ruta
      u  == p + max_archivo_fd
      nueva == [dir |-> NuevaDir, archivo |-> r, vecesAbierto |-> 1, ubicacion |-> u]
  IN
  /\ En(p, "agregar")
  /\ \/ /\ hilo[p].dir = 0
        /\ globalFileTable' = Append(globalFileTable, nueva)
        /\ enredado' = (enredado \/ \E e \in Entradas : e.archivo = r \/ e.ubicacion = u)
        /\ Anotar(p, max_archivo_fd, u)
     \/ \E i \in DOMAIN globalFileTable :
          /\ globalFileTable[i].dir = hilo[p].dir
          /\ globalFileTable' = UnaMas(i)
          /\ enredado' = (enredado \/ globalFileTable[i].archivo # r)
          /\ Anotar(p, max_archivo_fd, globalFileTable[i].ubicacion)
     \/ /\ hilo[p].dir \notin {0} \cup {e.dir : e \in Entradas}
        /\ \E b \in Intacto : Anotar(p, max_archivo_fd, IF b THEN hilo[p].ubicacion ELSE 0)
        /\ enredado' = TRUE
        /\ UNCHANGED globalFileTable
  /\ UNCHANGED <<max_archivo_fd, mutex_fs, estado, pedidos, socket>>

PuedeSerBorrado(e) == e.vecesAbierto = 1

\* A descriptor that is not open kills the kernel.
BorrarArchivo(p, fd) ==
  LET E == EntradaDe(p, fd) IN
  /\ Pide(p)
  /\ \/ E = {} /\ Muere /\ UNCHANGED <<hilo, estado>>
     \/ \E e \in E :
          /\ IF PuedeSerBorrado(e) THEN ConFS(p, "borrar", e.archivo) /\ UNCHANGED estado
             ELSE Contesta(p, FALSE)
          /\ Sigue
  /\ UNCHANGED <<tablas, mutex_fs, socket>>

\* escribir and leerArchivo. An open descriptor whose entry is gone kills the kernel.
Transferir(p, fd, op) ==
  LET E == EntradaDe(p, fd) IN
  /\ Pide(p)
  /\ \/ BuscarArchivo(p, fd) = {} /\ Contesta(p, FALSE) /\ Sigue
     \/ BuscarArchivo(p, fd) # {} /\ E = {} /\ Muere /\ UNCHANGED <<hilo, estado>>
     \/ \E e \in E : ConFS(p, op, e.archivo) /\ Sigue /\ UNCHANGED estado
  /\ UNCHANGED <<tablas, mutex_fs, socket>>

Escribir(p, fd) == fd # 1 /\ Transferir(p, fd, "guardar")
LeerArchivo(p, fd) == Transferir(p, fd, "obtener")

\* IMPRIMIR_POR_PANTALLA to the console.
Imprimir(p) ==
  /\ Pide(p) /\ Contesta(p, TRUE)
  /\ UNCHANGED <<tablas, mutex_fs, kernel, socket>>

MoverCursor(p, fd, pos) ==
  /\ Pide(p)
  /\ Contesta(p, BuscarArchivo(p, fd) # {})
  /\ processFileTable' = [processFileTable EXCEPT ![p].archivos =
       [i \in DOMAIN @ |->
          IF @[i] \in BuscarArchivo(p, fd) THEN [@[i] EXCEPT !.cursor = pos] ELSE @[i]]]
  /\ UNCHANGED <<globalFileTable, max_archivo_fd, enredado, mutex_fs, kernel, socket>>

\* The t_archivo is freed and then read in the loop that looks for it. If its
\* memory keeps its content it leaves the list and is freed again, which may
\* end the kernel; if not it stays, and no descriptor finds it.
CerrarArchivo(p, fd) ==
  LET A == BuscarArchivo(p, fd)
      E == EntradaDe(p, fd)
      Otros(s) == {i \in DOMAIN s : s[i] \notin A}
  IN
  /\ Pide(p)
  /\ \/ A = {} /\ Contesta(p, FALSE) /\ Sigue /\ UNCHANGED processFileTable
     \/ A # {} /\ E = {} /\ Muere /\ UNCHANGED <<hilo, estado, processFileTable>>
     \/ \E e \in E, b \in Intacto :
          /\ processFileTable' = [processFileTable EXCEPT ![p].archivos = Solo(@, Otros(@))]
          /\ Pasa(p, [Libre EXCEPT !.pc = "cerrar", !.ruta = e.archivo])
          /\ kernel' \in {"vivo"} \cup (IF b THEN {"caido"} ELSE {})
          /\ UNCHANGED estado
  /\ UNCHANGED <<globalFileTable, max_archivo_fd, enredado, mutex_fs, socket>>

\* Mutants of Descontada: the entry that nobody has open stays; the entry goes
\* with the first close.
Descontada_SinQuitar(s, r) ==
  [i \in DOMAIN s |-> IF s[i].archivo = r THEN [s[i] EXCEPT !.vecesAbierto = @ - 1] ELSE s[i]]
Descontada_Siempre(s, r) == Solo(s, {i \in DOMAIN s : s[i].archivo # r})
\* The entries that close their last descriptor are removed, and the entry that takes
\* the place of a removed one is not looked at.
Quitadas(s, r) ==
  CHOOSE Q \in SUBSET (DOMAIN s) : \A i \in DOMAIN s :
    i \in Q <=> (i - 1 \notin Q /\ s[i].archivo = r /\ s[i].vecesAbierto = 1)
\* One descriptor less of path r in every entry of that path that is looked at.
Descontada(s, r) ==
  LET Q == Quitadas(s, r)
      Menos(i) == IF s[i].archivo = r /\ i - 1 \notin Q
                  THEN [s[i] EXCEPT !.vecesAbierto = @ - 1] ELSE s[i]
  IN  Solo([i \in DOMAIN s |-> Menos(i)], DOMAIN s \ Q)

\* The process's entry is freed but stays in processFileTable: from then on it is
\* found or not. Freeing it a second time may end the kernel.
DescontarArchivo(p) ==
  /\ En(p, "cerrar")
  /\ \E b \in Intacto :
       processFileTable' = [processFileTable EXCEPT ![p].entrada = IF b THEN "intacta" ELSE "pisada"]
  /\ kernel' \in {"vivo"} \cup (IF processFileTable[p].entrada = "viva" THEN {} ELSE {"caido"})
  /\ globalFileTable' = Descontada(globalFileTable, hilo[p].ruta)
  /\ Contesta(p, TRUE)
  /\ UNCHANGED <<max_archivo_fd, enredado, mutex_fs, pedidos, socket>>

(***************************************************************************)
(* The exchange with the file system, under mutex_fs.                      *)
(***************************************************************************)
\* Mutant of TomarFS: the mutex is not taken to read.
TomarFS_SalvoLeer(p) ==
  IF hilo[p].op = "obtener" THEN UNCHANGED mutex_fs ELSE mutex_fs = Nadie /\ mutex_fs' = p
TomarFS(p) == mutex_fs = Nadie /\ mutex_fs' = p

EnviarFS(p) ==
  /\ En(p, "tomar") /\ TomarFS(p)
  /\ consultas' = Append(consultas, [de |-> p, op |-> hilo[p].op, ruta |-> hilo[p].ruta])
  /\ Pasa(p, [hilo[p] EXCEPT !.pc = "espera"])
  /\ UNCHANGED <<tablas, kernel, estado, pedidos, respuestas, existen>>

\* What the file system does with a request, and whether its answer is good.
Atencion(c, bien, E) ==
  LET esta == c.ruta \in existen IN
  \/ c.op = "validar" /\ bien = esta /\ E = existen
  \/ c.op = "crear"   /\ (esta => bien)
     /\ E = IF bien THEN existen \cup {c.ruta} ELSE existen
  \/ c.op = "borrar"  /\ bien = esta /\ E = existen \ {c.ruta}
  \/ c.op = "guardar" /\ (bien => esta) /\ E = existen
  \/ c.op = "obtener" /\ bien = esta /\ E = existen

AtenderFS ==
  /\ consultas # << >>
  /\ consultas' = Tail(consultas)
  /\ \E bien \in BOOLEAN :
       /\ \E E \in SUBSET Ruta : Atencion(Head(consultas), bien, E) /\ existen' = E
       /\ respuestas' = Append(respuestas, [de |-> Head(consultas).de, bien |-> bien])
  /\ UNCHANGED <<tablas, mutex_fs, hilo, kernel, estado, pedidos>>

\* Mutant of DevolverFS: the mutex is not given back after an error.
DevolverFS_SoloBien(bien) == mutex_fs' = IF bien THEN Nadie ELSE mutex_fs
DevolverFS(bien) == mutex_fs' = Nadie

\* A file to be opened that does not exist: its program gets the error, and the
\* handler goes on and has it created.
RecibirFS(p) ==
  /\ En(p, "espera") /\ respuestas # << >>
  /\ respuestas' = Tail(respuestas)
  /\ DevolverFS(Head(respuestas).bien)
  /\ IF hilo[p].op = "validar" /\ ~Head(respuestas).bien
     THEN ConFS(p, "crear", hilo[p].ruta) /\ estado' = [estado EXCEPT ![p] = "fin"]
     ELSE Contesta(p, Head(respuestas).bien)
  /\ UNCHANGED <<tablas, kernel, pedidos, consultas, existen>>

\* terminarProceso does nothing with the files of the program.
Terminar(p) ==
  /\ En(p, "libre") /\ estado[p] = "corre"
  /\ estado' = [estado EXCEPT ![p] = "fin"]
  /\ UNCHANGED <<tablas, mutex_fs, hilo, kernel, pedidos, socket>>

(***************************************************************************)
(* The specification.                                                      *)
(***************************************************************************)
Avanza(p) == AgregarArchivo(p) \/ DescontarArchivo(p) \/ EnviarFS(p) \/ RecibirFS(p)

\* A program may use any descriptor, also one it never opened or has closed.
Descriptor == 4..max_archivo_fd

Programa(p) ==
  \/ \E r \in Ruta, c \in BOOLEAN : AbrirArchivo(p, r, c)
  \/ \E fd \in Descriptor :
       \/ BorrarArchivo(p, fd) \/ Escribir(p, fd) \/ LeerArchivo(p, fd) \/ CerrarArchivo(p, fd)
       \/ \E pos \in Posicion : MoverCursor(p, fd, pos)
  \/ Imprimir(p)
  \/ Terminar(p)

Next ==
  /\ kernel = "vivo"
  /\ \/ \E p \in Pid : CrearEntradaArchivoProceso(p) \/ Programa(p) \/ Avanza(p)
     \/ AtenderFS

Spec == Init /\ [][Next]_vars

Vivo(A) == kernel = "vivo" /\ A
\* The threads run, sem_wait passes when it can, the file system answers.
Justicia == WF_vars(Vivo(AtenderFS)) /\ \A p \in Pid : WF_vars(Vivo(Avanza(p)))
SpecJusta == Spec /\ Justicia

(***************************************************************************)
(* Properties.                                                             *)
(***************************************************************************)
Archivo == [fd : Nat, globalFD : Nat, cursor : Posicion, ruta : Ruta]
Entrada == [dir : Nat \ {0}, archivo : Ruta, vecesAbierto : Nat \ {0}, ubicacion : Nat]
EntradaProceso == [entrada : {"no", "viva", "intacta", "pisada"}, archivos : Seq(Archivo)]
Operacion == {"nada", "validar", "crear", "borrar", "guardar", "obtener"}
Hilo == [pc : {"libre", "agregar", "cerrar", "tomar", "espera"}, op : Operacion,
         ruta : Ruta \cup {Nadie}, creacion : BOOLEAN, hay : BOOLEAN,
         dir : Nat, ubicacion : Nat]

\* Type invariant; in particular no entry of the global table is open zero times.
TypeOK ==
  /\ globalFileTable \in Seq(Entrada)
  /\ processFileTable \in [Pid -> EntradaProceso]
  /\ max_archivo_fd \in Nat
  /\ mutex_fs \in Pid \cup {Nadie}
  /\ hilo \in [Pid -> Hilo]
  /\ kernel \in {"vivo", "caido"}
  /\ estado \in [Pid -> {"corre", "fin"}]
  /\ pedidos \in [Pid -> Nat]
  /\ consultas \in Seq([de : Pid, op : Operacion, ruta : Ruta])
  /\ respuestas \in Seq([de : Pid, bien : BOOLEAN])
  /\ existen \subseteq Ruta
  /\ enredado \in BOOLEAN

Abiertos == UNION {{<<p, i>> : i \in DOMAIN processFileTable[p].archivos} : p \in Pid}
AbiertoDe(x) == processFileTable[x[1]].archivos[x[2]]

\* vecesAbierto counts the descriptors of the file in the tables of all the
\* processes, those of programs that ended and of opens that failed included,
\* and those being closed: nobody else's open file is taken for free, through
\* any interleaving that does not make two entries of one path or of one
\* ubicacion (agregarArchivo_aProceso, eliminarFd).
CuentaExacta ==
  (~enredado /\ kernel = "vivo") => \A e \in Entradas :
    e.vecesAbierto = Cardinality({x \in Abiertos : AbiertoDe(x).globalFD = e.ubicacion})
                     + Cardinality({p \in Pid : En(p, "cerrar") /\ hilo[p].ruta = e.archivo})

\* A descriptor leads to the file it was opened with for as long as it is open,
\* whatever the other programs open, close and delete: buscarPathDeArchivo never
\* dereferences NULL for it (agregarArchivo_aProceso, eliminarFd).
DescriptorFirme ==
  (~enredado /\ kernel = "vivo") => \A x \in Abiertos :
    {e.archivo : e \in BuscarPorUbicacion(AbiertoDe(x).globalFD)} = {AbiertoDe(x).ruta}

\* Each answer of the file system is read by the thread that asked: mutex_fs
\* covers the whole exchange in the five handlers.
ConversacionPropia ==
  /\ \A i \in DOMAIN consultas  : consultas[i].de = mutex_fs
  /\ \A i \in DOMAIN respuestas : respuestas[i].de = mutex_fs
  /\ Len(consultas) + Len(respuestas) <= 1

\* Every request is answered while the kernel lives: mutex_fs always comes back.
PedidoTermina ==
  \A p \in Pid : ~En(p, "libre") ~> (En(p, "libre") \/ kernel = "caido")
=============================================================================
