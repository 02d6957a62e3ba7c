# Verification of the tp-2017-1c kernel and its processes

TLA+ models, TLC runs and TLAPS proofs for the operating-systems project in
`src/`: five kinds of processes that together run ANSISOP programs on simulated
CPUs, with simulated memory and a simulated file system, over TCP sockets.

## 1. The system

```
 consola ──ENVIO_CODIGO──▶ kernel ◀──EXEC_PCB / FIN_EJECUCION / SEM_WAIT…──▶ cpu (×n)
         ◀─PID, fin, texto─   │  ▲                                           │
                              │  └──────────── fileSystem                    │
                              └────────── memoria ◀──SOLICITUD_BYTES─────────┘
```

| Component | State it keeps | Operations | What is hard |
|---|---|---|---|
| **kernel, planners** (`funcionesKernel.c`, `operaciones.c`) | `colaNew`, `colaReady`, `colaFinished`, one queue per semaphore (`bloqueos`); `listadoEstadistico` (state, `matarSiguienteRafaga`); `cantProcesosSistema`, `grado_MultiProg`; `sem_cola_ready`, `semCPUs_disponibles`, `mutex_sem`; `listaCPUs` (`disponible`, `pcb`) | send a program, admit, dispatch, end of quantum, end of program, wait, signal, a CPU joins / leaves / dies, kill, grMulti, stopPlan | a thread per message, the long-term planner run by any of them, state published before it is complete, locks kept over a network read |
| **kernel, connections** (`kernel.c`) | `master`, `setCPUs`, `setConsolas`, one thread per message, `max_pid` | accept, hand a message to a thread, close, give a PID | sets changed by every thread with no lock, descriptors given again while a thread still uses them, console messages handled in parallel |
| **kernel, heap** (`operaciones.c`) | `mem_dinamica`: pages of each program with their free bytes; metadata inside the pages | `reservarMemoria`, `liberarMemoria`, `quitarDeMemoriaDinamica` | split and merge at the borders, memory's socket shared without its lock |
| **kernel, files and variables** (`funcionesKernel.c`) | `globalFileTable`, `processFileTable`, `variablesGlobales` | open, close, read, write, move, delete; read and assign a shared variable | use after free, two answers to one request, dangling values |
| **memoria** (`funcionesMemoria.c`, `hash.c`) | inverted page table, frames, cache, locks | initialise, add pages, free a page, read, write, finalise, flush | hash collisions, cache and table under different locks, an error path that keeps a lock |
| **cpu** (`funcionesCpu.c`, `primitivas.c`) | the PCB of its burst, `quantum`, `estaEjecutando`, `cerrarCPU`, `procesoBloqueado`, `finPorError`, … | receive a PCB, run a burst, the primitives, SIGUSR1 | flags carried from one burst to the next, a signal between two messages |
| **fileSystem** (`funcionesFs.c`) | bitmap, one metadata file per file, blocks | validate, create, delete, read, write | half-done writes, crash between bitmap and metadata |
| **consola** (`funcionesConsola.c`) | a thread and a socket per program, `procesos` | start, end, disconnect, print | list without lock, messages before the PID |
| **commons, parser** | buffers; vendored lists | serialise and read back a PCB; queues, lists, dictionaries; parse a line | counters of different widths at the two ends |

What makes each of them correct:

* *planners*: a program is in exactly one place; each semaphore counts what it
  stands for; a CPU runs one program; blocked programs and semaphore values
  agree; a killed program stops; nobody waits for ever on a lock, a CPU or a queue.
* *connections*: no connection is forgotten; one thread at a time reads from it;
  what a console asks for, or causes by leaving, happens to its own program.
* *heap*: the blocks of a page tile it; a pointer given out is not given twice
  before it is freed; the kernel's and memory's page numbers agree.
* *files*: open counts agree with the process tables; one answer per request.
* *memoria*: a frame belongs to one page of one program; what is read is what
  was last written, through the cache or not; free frames stay findable.
* *cpu*: a burst ends with one message, the one its last instruction calls for.
* *fileSystem*: a block belongs to one file; sizes and block lists agree.

Everything in this code that is hard to test is listed, at its line, under
`hazards` in `PROJECT.json`.

## 2. Modules

| Module | What it is | State |
|---|---|---|
| `CicloDeVida` | abstract: the five states of `enum_estado`, CPUs with at most one program | written |
| `Planificador` | the kernel's planners, the handlers of CPU messages, the operator, and the CPU processes as the kernel sees them; refines `CicloDeVida` | written |
| `Conexiones` | the kernel's select loop, message threads, descriptor sets and PIDs, and the consoles | written |
| `Asignador` | abstract: disjoint regions of the memory of programs | written |
| `Heap` | the kernel's dynamic memory, with memory as a `Paginas` behind a socket; refines `Asignador` | written |
| `Archivos` | the kernel's file tables and its exchange with the file system | written |
| `Paginas` | abstract: a store of the pages of programs | written |
| `Memoria` | the memory process: table, hash probing, cache, its threads and `flush`; refines `Paginas` | written |
| `Directorio` | abstract: names and sizes of files | written |
| `FileSystem` | the file system process: bitmap, metadata files, blocks, crashes; refines `Directorio` | written |
| `Pcb` | the stack index of a PCB and its serialisation, both ways | written |
| `Cpu` | a CPU: bursts, flags, SIGUSR1, and the primitives on the stack | written |
| `MCPlanificador`, `MCConexiones`, `MCHeap`, `MCArchivos`, `MCMemoria`, `MCFileSystem`, `MCCpu` | small instances for TLC | written |
| `PlanificadorProofs`, `HeapProofs`, `ArchivosProofs`, `MemoriaProofs`, `FileSystemProofs`, `ConexionesProofs`, `CpuProofs` | theorems | written |
| `Extremos` | lemmas: the first and the last of a set of numbers | written |

Modules meet through what the code sends: `Heap` talks to `Paginas`, the abstract
memory that `Memoria` is shown to implement;
`Cpu` sends and receives the buffers of `Pcb`; `Planificador` knows of a CPU only
what `Cpu` does at the ends of a burst, and `Conexiones` of a program only what
`Planificador` tells its console.

### How `Planificador` corresponds to the code

*Threads.* The select loop (`kernel.c:85-104`) starts a thread per message and
takes its socket off the set, so a CPU's connection has one handler at a time (a
console's may have two, which `Conexiones` models; here a console sends
only its program). A thread is named after the console (`Proc`), the CPU
(`Cpu`) or the command line (`Interfaz`) it serves. `pc[h]` is the next thing it
does; `"libre"` means there is no handler. `planificarCortoPlazo` is a thread of
its own, `pcp`.

*Granularity.* A step is one access to state that another thread can see. Two
accesses share a step only when the second is a release (`sem_post`, an unlock,
a send) that can only enable others, or when both are to state nobody else uses.
So `cantProcesosSistema++` is two steps, pushing a PCB and writing its `estado` are two
steps, and testing `semCPUs_disponibles`, choosing a CPU, popping the PCB and
sending it are four. Merged: the push to `colaReady` and the post that follows in
`planificarLargoPlazo` (nobody can tell); the send of FINALIZAR_PROGRAMA to
memory with `desocupar_cpu`; the two reads of `queue_size(colaNew)`. Queues,
lists and the dictionary are atomic objects (most of their uses are locked; the
one that is not is listed as a hazard), and PIDs are unique (how they are given is in
`Conexiones`).

*Undefined behaviour.* `finCola` is read before it is written
(`funcionesKernel.c:559-562`): the planner's loop is entered or not. A NULL
dereference is `Cae`: the kernel is gone (`caido`) and nothing else happens.

*Data.* A PCB is its program. A program's code is the set of requests it makes
(`Pedidos`), each at most `MaxPasos` times in all; it may end or fail in any
burst. Memory is what the planners can tell: it accepts INICIAR_PROGRAMA, may
refuse it for the programs in `Grandes`, and refuses code of a program that was
finalised. A CPU is out, idle, in a burst, told to leave by SIGUSR1
(`"apagada"`), dead (`"caida"`), or known by the kernel to be gone (`"ida"`).

### How `Memoria` corresponds to the code

*Threads.* One that serves the kernel's connection (`requestHandlerKernel`), one
per CPU (`requestHandlerCpu`), and the command thread, of which only `flush`
changes anything. `pc[h]` is where a thread is in its request.

*Granularity.* A critical section of `tablaPag_mutex` is one
step; so is each copy between a request and a frame, which the code does with no
lock. `reservarFrames` holds the table's lock over several steps, one per page,
and its error return keeps it (`mutex` stays with the kernel's thread, which goes
on and blocks in its next request). `flush` takes no lock: its writes to `pag`
and to `pid` are two steps, and they may come anywhere in `actualizarEntradaCache`,
which is therefore three: `BuscarEntrada` (`buscarEntrada` and `cantEntradas`),
`Reemplazar` (the scan of `reemplazoLocal` or `reemplazoGlobal`) and `AnotarEntrada` (the
writes). The scan is one step whose outcome is any that flush's writes can bring about
while it goes: `eleccion.antes` is the entries it could have found when it began. When flush
has cleared all of them `reemplazoLocal` returns a variable that nobody set: any entry, or
a number outside the cache (`Perdida`), after which the process writes where it
should not and is not followed. The three writes of `AnotarEntrada` share a step: only
flush writes beside them, and each order of its two assignments and these ends
as some order of whole steps does; what they leave in between is seen by holders of
`cache_mutex` only.

*Data.* A page's bytes are one datum, so a request is a program, a first page and
a number of pages; `offset` and its test are left out. `time_used` is left out
too: which entry is replaced, among those the scan may return, is any of them, since no
property tells one from another. `getPos` is a function into the frames given by the
configuration. The table's own frames carry pid 0 (`Tabla`).

*Past the table.* `reservarFrames` does not stop at the table's end: it goes on over the
bytes that follow as if they were entries, up to `Marcos` of them. Past-end entry i lies in the
frame `EnMarco[i]` (in the slack after the table, if any, that is a frame of the table's), and
looks free when that frame holds one of the contents `Parece[i]`. The page is then
counted and has no frame, and the bytes are overwritten (`Pisar`): some content that does not look
free. With the default configuration (500 frames of 256 bytes, entries of 8) the table takes
4000 bytes of its 16 frames and the entries past its end lie in the slack and in frames 16 to 31
(the size of a frame is taken to be a multiple of 8, so that no entry lies in two).

*Environment.* A program's CPU does not ask memory while it waits for the kernel
to get or free pages of that program, and the kernel ends a program when its CPU
has given the PCB back: both follow from `operaciones.c` but for a CPU that dies with
a request under way, which is not modelled. `Paginas`, the store that memory implements, keeps the
writes under way (`pendiente`): each changes its page once, and is refused only when the page
is not assigned. `Heap` uses it with no content that looks like a free entry (`Confunde = {}`):
its theorems are about a memory whose table does not overflow into what the programs wrote.

### How `Conexiones` corresponds to the code

*Main thread.* `leido` is what is left of `read_fd` in the round: the two
listening sockets, then the descriptors from the lowest. A step is a `select`,
an `accept`, the test of one set, an `FD_SET` or `FD_CLR`, a `pthread_create`.
`ops` is what a thread has still to change in the sets before it goes on.
*Sets.* An update reads a word and writes it back (the build is `-O0`): `Pisar` is
two threads updating one set at once, of which one update is lost (`pisado`).
*Numbers.* `accept` gives the lowest number that is free; `reusado` says that one
was given while a thread had closed it and not yet cleared it. `select` on a set
with a closed number fails, and the kernel exits (`caido`).
*Data.* A console has one program. A message is its kind, with its PID when it has
one; a console acts on what it receives in the step that sends it. The planners
are `Admitir` and `Terminar`. A write to a connection whose other end has closed
may end the kernel (SIGPIPE is not handled).

### How `Heap` corresponds to the code

A page is its integers, so that a header (`meta_bloque`) is two cells; `objeto` and
`mem_dinamica` are the `reserva_memoria` by address and the list of them, because
`liberarMemoria` and `quitarDeMemoriaDinamica` read them after `free`. `pc` follows
a handler through its requests and answers; a request to memory is served when it
arrives, and its answers come back in order to whoever reads the socket, with the
lock (`mutex_memoria_fd`) where the code takes it. `solicitudBytes` and
`grabarBytes` do not take it: that is in the model, and the run has one handler, since with
two of them the answers mix and nothing else can be said. A read of a freed
`reserva_memoria` gives a page of `Ajeno`; an answer with no payload that is
copied from kills the kernel. What the model shows beside its properties: a request
for which the free blocks add up but none fits never ends (`operaciones.c:603`);
a pointer freed twice is not noticed once its block has been given again.

Nothing is promised to a program one of whose requests has failed (`Sana` is false):
its pages have then the numbers the kernel counts and not those memory gave
(`ReservaSinPagina`), so a header may go to a page that does not exist, and two
reservas may come to name one page. `BloquesCubren`, `CuentasDeReserva` and `PunterosSonBloques` are stated
between requests (`EnPaz`), since a request changes the reserva and the page one
after the other; for `Asignador` such a program has let go of everything.

### How `Archivos` corresponds to the code

An entry of the global table has the address `dir`, because `eliminarFd` frees
entries and reads them again; freed memory keeps its content or loses it
(`Intacto`). `hilo[p]` is the handler of p's request, and the two tables are
changed one access of `agregarArchivo_aProceso`, `eliminarFd` or `borrarArchivo` at a
time. `enredado` says that two entries have come to share a path or a `ubicacion`
(`pid + fd`), or that one was used after it was freed: the code goes on, and so
does the model, but what the tables promise is stated while it is false. A program
that ends closes nothing; an open counts before the file system has answered.

### How `FileSystem` corresponds to the code

One request at a time; each write of a disk file (bitmap, metadata, block) is a
step; `Reiniciar` may come between two of them: the process died and is started again
on the same disk. The bytes of a write are the request's number, so `escrito` can say
what a file should hold. `enOrden` names the files whose writes were all complete
and without gaps, for which reading back is promised; `truncado` remembers a crash
inside a deletion, after which the bitmap has given away blocks that a metadata
file still has. `obtenerDatos` allocates
`sizeof(pedido->size)`, four bytes, for what it reads (`funcionesFs.c:271`): a read that
does not fit in `Buffer` overwrites the heap (`LeerDeMas`), and then the process dies, or
answers with bytes that nobody knows and is not followed until it is started again
(`"pisado"`). `LecturaFiel` promises the reads that fit. The bitmap has `CANTIDAD_BLOQUES / 8`
bytes, and one more unless that is a multiple of 8 (`BytesDelMapa`, `fileSystem.c:84-86`): with
70 blocks it has eight bytes, and the last six blocks are outside of it. The assumption
`8 * BytesDelMapa >= Bloques` leaves such numbers of blocks out.
`restoBloque` ignores the offset inside the first block, and
`bloques[numBloque + j]` reads past the list for some sizes: both are in the
model, the second as the death of the process.

### How `Cpu` and `Pcb` correspond to the code

The program is any ANSISOP program: at each step any instruction may come, of at
most `MaxPorLinea` names. An instruction is one step, with its fetch, its
primitives and the answers of memory and kernel, good or bad, since a CPU shares
nothing; SIGUSR1 may come between two. A context is its arguments, its variables,
where it returns and where its value goes. `serializarPcb` and `deserializarPcb`
are modelled byte by byte, because the writer counts with 32 bits and the reader with
16 (`AnchoOffset`, 128 in the run, so that the wrap happens). `i` too has
16 bits in the code and `AnchoI` here: a quantum of 65535 or more would never
end, hence the assumption on `Quantums`. `"caida"` is a NULL dereference
(`retornar` with no place for the value, `$k` with k the number of arguments), and
`"colgada"` the loop in which the parser never advances (`parser.c:191-199`).

### What is abstracted in `Planificador`

The counters of the statistics, exit codes, logs, the contents of the PCB, and
the primitives that do not touch the planners (variables, heap, files). The
console is what it sends. PIDs do not wrap.

### Not modelled

* Shared variables (`escribirVariableGlobal` stores the address of its parameter:
  any value may be read, so there is nothing to state).
* The watch on the configuration file, `max_fd`, the screens and the printing commands.
* The vendored lists, queues and dictionaries, also where they are used without a
  lock; a race inside one is listed under `hazards`.
* The list of programs of a console that runs several.
* In `Memoria`: the offset inside a page and its test, the value of the hash (an
  `int` product that overflows), the order of use of the cache's entries, a CPU that dies
  with a request under way, and what follows a write outside of the cache.
* In `FileSystem`: what the process does once a long read has overwritten its heap.
* In `Cpu`: the values of variables, and the messages of each request, of which the
  outcome is kept.

## 3. Runs

Bounds of the planners' runs: two programs, one or two CPUs, one semaphore, at most
`MaxPasos` quantum ends, waits and signals per program (1; 0 in `PlanCiclo`, whose
programs run one burst each). Two programs are enough for every
race of the planner (a second thread), for a waiter and a signaller, and for a
program that waits for the CPU of another; two CPUs are enough for a planner that
may choose wrongly and for a handler that waits for the other one. `DeAUno` (a
console starts when the previous one has its answer) is FALSE in `PlanCiclo` and
`KernelVivo`; the other runs keep it TRUE, so that
they are not cut short by the kernel's death (see `KernelVivo`) and stay within
reach. Deadlock is not checked in any run: programs end, processes may die, and the system
may rightly stop.

`Conexiones`: two consoles and a CPU over two numbers, so that one has to be given
again; two message threads, for two handlers at once; one console and the CPU may
leave, and each peer sends one request or stop. States after a lost update are not
explored further (`SinPisar`): the properties promise nothing there.

`MemoriaPaginas`: four frames, one of them the table's, for two programs
of at most two pages each, so that reservations are refused for lack of frames,
frames are given again, and probes collide and run off the table (`Choca`), into a frame
(`EnEseMarco`) that holds a page or nothing; one of the two contents looks
like a free entry (`UnMenosUno`). Two entries of cache with a quota of one: pages of one
program replace each other while a flush is under way, also between the count and the scan.
One CPU reads, the kernel writes.

`HeapBloques`: pages of 14 integers and requests of 1 and 5, so that a page holds
several small blocks or a large one between them, splits leave remainders of every
kind and merges happen on both sides; two heap pages, for a second page and for
giving one back; seven requests of one program, for holes that are made, merged and filled
again, and one of the other, for a list with two programs in it.

`Bloques`: a disk of eight blocks of two bytes, four of them taken beforehand, so that it fills up
in the middle of a write; cursors 0 to 2 and sizes 2, 4 and 5 (writes of one, two
and three blocks, inside one block, over a border, past the end, and over a file of
two blocks that a third would make longer); five requests over two files; one crash. The
buffer of a read is the four bytes the code asks for: reads of 2 and 4 fit and one of 5 does not.

`TablasDeArchivos`: two programs with three and two requests and two files: enough
to open, share, close twice, and delete while the other one opens.

`CpuRafagas`: a program of two lines that begins at the second one and has a label at the
first, pages of eight bytes, a stack of two pages (four variables), contexts
up to three deep, quantum 2 or none. Four variables and three contexts are enough
for a call inside a call with arguments, and for an overflow in each.

| Run | Checks | Shows |
|---|---|---|
| `PlanCiclo` | `TicketsDeReady`, `CuposDeCpu`, `CicloDeVidaSpec` | with admissions racing, some of them refused by memory: `sem_cola_ready` counts `colaReady`, `semCPUs_disponibles` the free CPUs, and the kernel refines the life cycle |
| `PlanOperador` | `UnSoloLugar` | setting the degree, to another value or to the same one, admits programs from the command thread, planning is stopped and resumed, and nobody is lost or duplicated |
| `PlanCpusFragiles` | `DisponibleEsOcioso`, `NuncaDosLugares`, `UnaRafagaMas` | a CPU is shut down or dies, and a program is killed, at any moment: no busy CPU counts as free, a program may be lost, never duplicated, and a killed one begins one burst more at most |
| `PlanVivacidad` | `SemaforoContable`, `AdmitidoTermina`, `HandlerTermina` | a negative value is the number of programs blocked; admitted programs end or are blocked on a semaphore; every handler ends, although `mutex_sem` is kept over a network read |
| `Conexiones` | `UnLector`, `ConexionAtendida`, `CondenaDeSuConsola` | one reader per connection; the ways to forget a connection are a lost update and a number given again too early, and no other; a program is condemned by its own console |
| `HeapBloques` | `TypeOK`, `BloquesCubren`, `CuentasDeReserva`, `PunterosSonBloques`, `RegionesSeparadas` | blocks tile the page, the page's counts agree with them, pointers held are used blocks, and the regions given are apart |
| `TablasDeArchivos` | `TypeOK`, `CuentaExacta`, `DescriptorFirme`, `ConversacionPropia`, `PedidoTermina` | open counts agree with the tables, a descriptor keeps leading to its file, answers reach who asked, and every request is answered |
| `MemoriaPaginas` | `TypeOK`, `UnMarcoPorPagina`, `CuotaDeCache`, `CacheCoherente`, `MarcoVigente`, `PaginasSpec` | pages keep one frame, entries agree with frames, a frame in use is not taken away, and memory refines a store of pages, with reads, writes, reservations within the table and past it, releases and a flush interleaved, also inside a replacement |
| `Bloques` | `TypeOK`, `BloqueDeUnArchivo`, `MapaFiel`, `LecturaFiel`, `DirectorioSpec` | blocks belong to one file, the bitmap agrees with the metadata, complete writes are read back by reads that fit in their buffer, and the process refines a directory, with a full disk and a crash at any write |
| `CpuRafagas` | `TypeOK`, `PilaContigua`, `RetornoVigente`, `PcbIntacto`, `SinErrorAjeno`, `RafagaTermina` | the stack is contiguous through calls, returns and overflows, values are returned to places that exist, a PCB survives the trip, flags do not pass from one program to the next except in two named ways, and bursts end |
| `KernelVivo`, `ReservaSinPagina` | refutations | see below |

*Fairness.* `Planificador` (`Justicia`): weak fairness of each thread of the kernel:
they are POSIX threads that the scheduler runs, and no step of theirs is disabled again
and again by others in the run that uses it. Weak fairness of a CPU's burst and
of what it sends: the program's code is finite between requests and the CPU
sends something when its quantum ends. Nothing is assumed of consoles, of
operators, or of when a CPU leaves. `Archivos` (`Justicia`): each handler that can go
on does, and the file system answers; with two programs a thread that waits for
`mutex_fs` is let in when the other one is answered. `Cpu` (`FairSpec`): instructions
follow one another, which is to say that memory and kernel answer. The death of a process
is an outcome the liveness properties allow.

### Disagreements between the code and what is said of it

Two are runs that TLC refutes, with a finding in `PROJECT.json` that quotes the
line:

* `KernelVivo`: two consoles at once kill the kernel, with no CPU connected. Each
  console thread pushes its program to `colaNew` before it creates its statistics; the
  other thread, in `planificarLargoPlazo`, takes it, has it accepted, and writes
  READY through the statistics that are not there. (A pop of an empty `colaNew` by the
  second of two planners is another death the model has; a longer one, so TLC does not print it.)
* `ReservaSinPagina`: after a heap page was given back, the kernel numbers the next
  one differently from memory, and writes the headers of a page that does not exist.

The others are definitions in the modules, refuted by TLC as the only invariant of
the instance that is given, with the rest as in the run named:

| Definition | Instance | What happens |
|---|---|---|
| `Planificador!GradoRespetado` | `PlanCiclo` with one CPU, `GradoInicial = 1` | two threads test the count before either adds to it: more programs than the degree |
| `Planificador!CodigoAntesDeCorrer` | `PlanCiclo` with one program and one CPU | a CPU runs a program whose code memory does not have yet |
| `Planificador!CuposConDesconexion` | `PlanCpusFragiles` with `Matables = {}` | `semCPUs_disponibles` counts a CPU that left |
| `Planificador!SignalDespierta` | `PlanCpusFragiles` with `CpuFragil = {}`, `Pedidos <- TodosLosPedidos` | a program killed while it waits leaves the value negative with nobody blocked |
| `Memoria!PunteroVigente` | `MemoriaPaginas` with two CPUs, one entry, `Lee <- CadaUnoElSuyo`, `Graba <- Nada` | a read is answered from an entry that another thread has replaced after `leerCache` released the lock |
| `Memoria!ReemplazoEncuentra` | `MemoriaPaginas` | flush clears a program's entries after `cantEntradas` counted them: `reemplazoLocal` finds none and returns a variable that nobody set |
| `Memoria!ProgramaConPaginas` (as the only PROPERTY) | `MemoriaPaginas` | a program is accepted and its page is noted over the bytes of a frame past the table: it has no page |
| `FileSystem!LecturaEntera` | `Bloques` | a read of five bytes is copied into four: the answer is not what the file holds |
| `Conexiones!PidPropio` | `Conexiones` | a console is told the PID of a program whose console left, and whose number it was given |
| `Conexiones!CondenaPropia` | `Conexiones` with `Inquietos = {k1, k2}` | a console leaves, and an older program that had its number is condemned instead of its own |

## 4. Proofs

Each proof holds for every value of the constants that satisfies the module's
assumption, and for runs of any length. What the assumptions say beside the types:
programs, CPUs and semaphores are finite sets, disjoint, and the marks for "none" are outside
them; the bitmap has a bit for every block (`FileSystem`, see 2); a program has a quota of at
least one entry when there is a cache, and no past-end entry looks free whatever its frame holds
(`Memoria`); a page holds whole variables, names of variables are not digits, the counter of
instructions has more than one value and quanta are below its last one (`Cpu`); sizes asked for are
not zero and pages are numbers (`Heap`).
A theorem that needs more says it (`CpuFragil = {}`: no CPU leaves; `Matables = {}`:
nobody is killed; `UnManejador` and `AjenoFuera`, see the heap below).

### The kernel's planners

`PlanificadorProofs`:

* `TipoCorrecto`: `Spec => []TypeOK`. `TypeOK` alone is not inductive: the
  planner writes `memoria[proc[h]]`, so `proc[h]` has to be a program by then.
  `TipoInv` adds `Manos`: what each thread has in its hands at the steps that
  use it. One lemma per action (`Tipo_...`).
* `TicketsSeguros`: `Spec => []TicketsDeReady`, and its corollary
  `NuncaColaVacia`: the short-term planner never pops an empty queue. The
  invariant is inductive together with `TipoInv`. The argument is about
  `PorPublicar`, the handlers that have pushed a PCB and not posted yet: a
  thread's step adds itself, removes itself, or leaves the set alone
  (`EmpiezaPublicar`, `TerminaPublicar`, `NoPublica`), which is where finiteness
  of `Cpu` is used; only five steps touch the queue or its semaphore, and
  `PasoAjeno` disposes of all the others.
* `SemaforosContables`: `[]SemaforoContable` where no CPU leaves and nobody is killed
  (without the second it is not true for long, see `SignalDespierta`). `SemInv` adds
  that whoever waits for a PCB owns `mutex_sem`, and that no CPU is in a state only a
  failure leads to. The lock, kept over the read from the network, is exactly what
  makes the value count the queue: between the decrement and the push nobody else
  can look.

And where the programs and the CPUs are:

* `CpusEnSuSitio` (`[]CpuInv`), and from it `DisponiblesOciosos`, `CuposExactos` and
  `NuncaCpuNula`. `CpuInv` says of each CPU how its `cpu_t`, what it really runs and
  the step of its handler go together, and that the CPU the planner has chosen stays
  free until it gets its program; the semaphore then counts free CPUs, by the same kind of
  counting as the tickets.
* `CadaUnoEnSuLugar` (`[]LugInv`), and from it `NuncaEnDosLugares` and `EnUnSoloLugar`.
  `NuncaDosLugares` counts occurrences over seven kinds of containers, which no step
  argues about directly. `LugInv` says instead that there is a function from programs to places that
  every container agrees with (`Reparte`, one conjunct per kind). A step either keeps
  it or moves one program (`Muda`); `Traslado` names the moves there are, a crash
  included, and `Lug_Paso` is that every step is one.
* `CicloImplementado`: `CicloDeVidaSpec`, where no CPU leaves. The refinement mapping gives each
  program the state its place stands for (`Vista`), so the simulation is `Lug_Paso`
  read through it: a move between places of one state is a stutter.
* `UnaSolaRafagaMas`: `RafagaInv` says where a killed program can be once its last
  burst has begun: still in it, or on a CPU that died.

### The heap

`HeapProofs`: `HeapTipos`, `HeapBloquesCubren`, `HeapCuentas`, `HeapPunteros`, and
`HeapImplementaAsignador`, the refinement of `Asignador`. They have two hypotheses.
`UnManejador`: one handler at a time. The code gives no more, because
`solicitudBytes` does not take `mutex_memoria_fd`: two handlers read each other's answers.
`AjenoFuera`: what `liberarMemoria` reads from the `reserva_memoria` it has just freed is its
page still, or a number that no heap page of a program has (an allocator that
reuses the bytes for its links leaves zero there, or half of an address). Otherwise another
page of the program would be given back.

The proof has three floors.

* A page. `HojaBien(g, n, t)`: the starts of its blocks tile it (`Cubre`; the walk of
  `Inicios` from the first one is any set that covers the page, `IniciosSon`), the last
  block is free and two free ones are never side by side (`Compacta`), n are used and the data of the free ones are
  t cells. What `Partir`, `Vaciar`, `Unir` and `Compactar` do to it is proved block by block: splitting adds
  one start, a merge takes one away, and its header becomes free data, which is where
  `Meta * veces` in the size comes from. The search for the block before
  (`PosAnterior`) and after is what keeps the rest of the page as it was.
* A program. `Vale(R, F, n, k, P, V, e, r)` relates its reservas R, its pages F, its counts n of pages and k of
  requests, what it holds P, what it has freed V, and the step e of its handler with
  what is in its record r. Between a `free` and the answer, a block is still used in the page and held
  by nobody (`EnMano`); between the first and the second header of a new page, the page is not yet
  covered (`Hechas`). One lemma per change (`ValeParte`, `ValeAsignada`, `ValeLibera`, ...), with nothing
  of the kernel's lists in it.
* The kernel. `HeapInv(h)` adds that `mem_dinamica` lists each reserva once (`ListaInv`), which the removal by
  index and the loop of `quitarDeMemoriaDinamica` keep, what the handler knows at each
  step (`HiloInv`: a page it has read is still as it read it), and that the answer on the socket is its own
  (`Buzon`). A step concerns one program; the others keep their pages and their
  reservas (`PasoSigue`, `PasoCorre`, `PasoFalla`).

The refinement reads the regions of programs that are `Sana`. A region is given when
the answer arrives (`Entregar`): it is a used block that nobody held, and blocks of one page or of
two are apart (`BloquesAparte`), because two reservas of a program have different pages. That in
turn rests on the kernel's own count being one above all of them, the count whose
divergence from memory's is `ReservaSinPagina`.

### Memory

`MemoriaProofs`:

* `PaginasUnicas` (`UnMarcoPorPagina`) and `MarcosVigentes` (`MarcoVigente`). Neither is
  inductive alone. `MemInv` adds that a thread that has found a frame has its own
  page in it (`HiloBien`), that the kernel's thread numbers pages above every one
  the program has (`Debajo`) and takes frames that are free, and that programs not
  started have none. That a frame stays its page's after the table is unlocked
  rests on the environment: nobody serves a program while the kernel takes pages from
  it (`Atiende`).
* `TiposDeMemoria` and `CuotaRespetada`: the owner of `cache_mutex` counts, scans and writes in
  three steps, with flush in between. The invariant says what it still knows: the entries it
  counted can only have gone away, so a program that gets a free entry or somebody else's
  had less than its quota when it was counted, and one that had its quota either takes one of
  those it had or, with an unset variable, had all of them cleared.
* `CacheSiempreCoherente`: with `CohInv`, one entry per page (`UnaEntrada`) and a page that
  was written is in the table (`EscritaAsignada`); without the first, an update would
  leave a second entry with the old content. It rests on nobody else writing entries between
  `buscarEntrada` and the writes: flush only takes them away.
* `AlmacenImplementado`: `PaginasSpec`. The mapping reads the table and the frames as a
  function from pages to content, well defined by `UnMarcoPorPagina`, and the threads at
  `busca_e` or `graba` as the writes under way, each of which changes its page or is refused. A
  reservation that runs off the table changes the page of the frame it writes over, if its bytes
  look like a free entry (`Confunde`). `Seguidas` (the page before the one being assigned is in
  the table, if it has one before) gives a reservation the number that `Paginas` promises, where no
  content looks so; where one does, a page may be counted that is not there.

### Files

`FileSystemProofs`:

* `BloquesSeguros`, `BloquesMarcados`, and `DirectorioImplementado`, the refinement of
  `Directorio`. `DiscoInv` is the types and, until a crash has cut a deletion
  short, `Reparto`: the files' blocks are apart, each of them marked unless its file
  is being deleted, and the block just marked is nobody's. Marking before the
  metadata is written is what the search for a free block rests on.
* `TiposDelDisco`: a block file is between one block and two blocks long, the second because a
  write is not cut at the end of the block.
* `MapaSiempreFiel`: `MapaInv` is that, before any crash, the bitmap is what was taken at the
  start, the blocks of the files that are not freed yet, and the one block that a creation
  or a write has marked and not noted.
* `LecturaSiempreFiel`: `FielInv` says that each byte of a file in order is on the block that
  its position leads to, and for a write under way how far it is (`Avance`): bytes before it
  are new, bytes after it are as they were. Reads that do not fit in their buffer are left out by the property. The lemmas follow the loops of writing and of
  reading block by block (`Vuelta`, `EnBytes`, `EnBloques`). The attempt showed that a file whose
  write was killed midway has to leave `enOrden`, which the model now does.

`ArchivosProofs`: `ConversacionSegura` (`ConversacionPropia`): the thread that waits
for an answer holds `mutex_fs`, and there is one message at most.
`TiposDeLasTablas`, `CuentasExactas` and `DescriptoresFirmes` come from `ArInv`: the
types, what each thread holds (`ManosInv`), the numbers of a program's descriptors, apart and
below the next one (`NumerosInv`), and, while nothing is `enredado` and the kernel lives, `Firme`: entries with
different names, a count for each that is its descriptors plus the closes under
way, and an entry for every descriptor. An entry is deleted only when the close
under way was all it counted. Counting is over finite sets of pairs (program,
position), where removing the k-th element of a table is a bijection.

### Connections

`ConexionesProofs`:

* `CadaDescriptorEnSuLugar`, and from it `UnSoloLector` and `NadieOlvidado`.
  `FormaInv` is what each thread has left to do to the sets, and that a peer is behind
  one descriptor. `Bien(f)`, for each descriptor, is that it is in one place: its set, the
  hands of the main thread, or those of one message thread, and that what a thread is about
  to clear is closed, unless the number was given again. It holds while no update of a
  set was lost (`pisado`), which is what `UnLector` and `ConexionAtendida` promise.
* `CondenasPropias` (`CondenaDeSuConsola`). `CondInv` follows a program from its
  code to its end: the code is sent once, and is unread, in the hands of one thread, or
  made into statistics (`UnCodigo`); behind each number that the program is known by is
  its own console, unless that one closed (`NumerosBien`); and a PID that a console was
  told is its program's, or that of an older one that had the number (`Fines`). The
  attempt refuted the property as it stood: a console may leave while its
  program has no statistics yet, and an older program with its number is then condemned;
  `AntesCon` now counts as older every program whose statistics come before,
  those of a program without statistics included. The run has one console that leaves;
  the theorem lets all of them.

### The CPU

`CpuProofs`:

* `IdaYVuelta`: a stack index that the offset of the reader can count comes back from its
  buffer as it was, for any contexts, arguments and variables. The reader's position
  at each context is shown to be where the writer began it (`PilaEnBytes`), and its
  fields where the writer put them (`BytesDeContexto`, `LeerUnContexto`). A PCB travels whole
  by it: `Cpu_PcbIntacto`.
* `Cpu_PilaContigua` and `Cpu_RetornoVigente`: `PcbBien(p)` says that the data of the stack of
  p fill it from its start to `stackPointer`, and that each return place is a datum of a context
  below. There is one lemma per primitive (`DefineUna`, `Llama`, `Sale`, `Vuelve`, `Salta`).
  Arguments are written before variables in a context's data, so defining an
  argument keeps the order only because a called function's arguments are defined before
  its variables (`SinVariables`). A variable found by its name is
  a datum of the context on top (`PosicionEs`), which is below the one a call then makes.
* `Cpu_TypeOK` and `Cpu_SinErrorAjeno`, from the same `CpuInv`: lines are between the first and the last
  because a return goes where a line has a next one.

### What stays with TLC

* Liveness (`AdmitidoTermina`, `HandlerTermina`, `PedidoTermina`, `RafagaTermina`): fairness is out of
  the proof system's reach.
* `Heap` with two handlers, which breaks its properties (see 2).
* The refutations of 3.

## 5. Plan

1. Liveness of memory's requests and what the lock kept by an error does to it; the
   hash with wrapped arithmetic.
2. Two handlers in `Heap` once their conversations have a lock to keep.
