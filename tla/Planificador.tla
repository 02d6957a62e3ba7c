---------------------------- MODULE Planificador ----------------------------
(***************************************************************************)
(* The life of a program inside the kernel process: the console thread     *)
(* that receives its code, the long-term planner (planificarLargoPlazo,    *)
(* called from console, CPU and interface threads), the short-term planner *)
(* thread (planificarCortoPlazo), the threads that handle what the CPUs    *)
(* send (end of quantum, end of program, wait, signal, disconnections) and *)
(* the operator's commands (kill, grMulti, stopPlan).                      *)
(*                                                                         *)
(* One step is one access to state that another thread can see.  Two       *)
(* accesses share a step only when the second one is a release (sem_post,  *)
(* an unlock, a send) that nobody can be hurt by seeing early.  The queues *)
(* are taken as atomic objects.                                            *)
(***************************************************************************)
EXTENDS Integers, Sequences, FiniteSets

CONSTANTS
  Proc,          \* programs; each one has a console connection of its own
  Cpu,           \* CPU processes that may connect
  Sem,           \* semaphores of the configuration (SEM_IDS)
  SemInit,       \* their initial values (SEM_INIT)
  Interfaz,      \* the kernel's command thread
  Nadie,         \* the NULL pointer
  GradoInicial,  \* GRADO_MULTIPROG of the configuration
  Grados,        \* values the operator may give grMulti
  Matables,      \* programs somebody may kill
  CpuFragil,     \* CPUs that may be shut down (SIGUSR1) or die
  Grandes,       \* programs that may not fit in memory
  Detenible,     \* whether the operator uses stopPlan
  Pedidos,       \* the kernel requests each program's code contains
  DeAUno,        \* whether a console is started when the one before has its answer
  MaxPasos       \* bound: quantum ends, waits and signals of one program

\* A thread is named after what it serves: the connection of a program's
\* console, the connection of a CPU, or the operator.
Hilo == Proc \cup Cpu \cup {Interfaz}

ASSUME PlanificadorAssumption ==
  /\ IsFiniteSet(Proc) /\ IsFiniteSet(Cpu) /\ IsFiniteSet(Sem)
  /\ Proc \cap Cpu = {} /\ Interfaz \notin Proc \cup Cpu /\ Nadie \notin Hilo
  /\ SemInit \in [Sem -> Nat]
  /\ GradoInicial \in Int /\ Grados \subseteq Int
  /\ Matables \subseteq Proc /\ CpuFragil \subseteq Cpu /\ Grandes \subseteq Proc
  /\ Detenible \in BOOLEAN /\ DeAUno \in BOOLEAN
  /\ Pedidos \in [Proc -> SUBSET {"quantum", "wait", "signal"}]
  /\ MaxPasos \in Nat

VARIABLES
  colaNew, colaReady,   \* queues of programs
  bloqueos,             \* one queue of programs per semaphore
  colaFinished,         \* how many times each program was put in colaFinished
  estado,               \* info_estadistica_t.estado; "sin info" before it exists
  matar,                \* info_estadistica_t.matarSiguienteRafaga
  cant,                 \* cantProcesosSistema
  grado,                \* config->grado_MultiProg
  semReady, semCPUs,    \* sem_cola_ready, semCPUs_disponibles
  semaforos,            \* config->semaforos
  mutexSem,             \* owner of mutex_sem
  listaCPUs,            \* CPUs in the order they joined
  disponible, pcb,      \* fields of the cpu_t of a CPU
  planActiva,           \* planificacionActivada
  pc,                   \* where each thread is
  proc,                 \* the program a thread has in its hands
  clave,                \* the semaphore a CPU thread is waiting on
  quedan,               \* planner: entries of colaNew still to look at
  tmp,                  \* the value of cant a thread has read
  pcp,                  \* the short-term planner: pc, cpu and program
  fase,                 \* what a CPU process is doing
  enCpu,                \* the program whose PCB a CPU was sent
  memoria,              \* what the memory process holds of each program
  pasos,                \* kernel interactions of each program so far
  condena,              \* history: bursts begun since the program was killed
  caido                 \* the kernel died dereferencing NULL

colas   == <<colaNew, colaReady, bloqueos, colaFinished>>
info    == <<estado, matar>>
planes  == <<cant, grado, planActiva>>
sems    == <<semReady, semCPUs, semaforos, mutexSem>>
cpus    == <<listaCPUs, disponible, pcb>>
hilos   == <<pc, proc, clave, quedan, tmp>>
externo == <<fase, enCpu, memoria, pasos, condena>>
vars    == <<colas, info, planes, sems, cpus, hilos, pcp, externo, caido>>

EnPlanificador == {"plp", "lazo", "memoria", "listo", "codigo", "suma", "guarda"}
PasosCpu       == {"signal", "wait", "q_estado", "s_estado", "desocupa", "w_recibe", "libera", "resta",
                   "guarda_resta", "caida"}
Donde          == {"inicio", "libre", "info"} \cup EnPlanificador \cup PasosCpu
Estados        == {"sin info", "NEW", "READY", "EXEC", "BLOQ", "FINISH"}

Fases          == {"fuera", "ociosa", "corre", "apagada", "caida", "ida"}
Memorias       == {"nada", "reservada", "con codigo", "liberada"}
TipoPcp        == [pc : {"espera", "plan", "cpu", "elegir", "despachar", "anotar"},
                   cpu : Cpu \cup {Nadie}, proc : Proc \cup {Nadie}]

TypeOK ==
  /\ colaNew \in Seq(Proc) /\ colaReady \in Seq(Proc)
  /\ bloqueos \in [Sem -> Seq(Proc)] /\ colaFinished \in [Proc -> Nat]
  /\ estado \in [Proc -> Estados] /\ matar \in [Proc -> BOOLEAN]
  /\ cant \in Int /\ grado \in Int /\ planActiva \in BOOLEAN
  /\ semReady \in Nat /\ semCPUs \in Nat
  /\ semaforos \in [Sem -> Int] /\ mutexSem \in Cpu \cup {Nadie}
  /\ listaCPUs \in Seq(Cpu)
  /\ disponible \in [Cpu -> BOOLEAN] /\ pcb \in [Cpu -> Proc \cup {Nadie}]
  /\ pc \in [Hilo -> Donde] /\ proc \in [Hilo -> Proc \cup {Nadie}]
  /\ clave \in [Cpu -> Sem \cup {Nadie}]
  /\ quedan \in [Hilo -> Int] /\ tmp \in [Hilo -> Int]
  /\ pcp \in TipoPcp /\ fase \in [Cpu -> Fases]
  /\ enCpu \in [Cpu -> Proc \cup {Nadie}]
  /\ memoria \in [Proc -> Memorias]
  /\ pasos \in [Proc -> Nat] /\ condena \in [Proc -> Nat] /\ caido \in BOOLEAN

Init ==
  /\ colaNew = <<>> /\ colaReady = <<>>
  /\ bloqueos = [s \in Sem |-> <<>>] /\ colaFinished = [p \in Proc |-> 0]
  /\ estado = [p \in Proc |-> "sin info"] /\ matar = [p \in Proc |-> FALSE]
  /\ cant = 0 /\ grado = GradoInicial /\ planActiva = TRUE
  /\ semReady = 0 /\ semCPUs = 0 /\ semaforos = SemInit /\ mutexSem = Nadie
  /\ listaCPUs = <<>>
  /\ disponible = [c \in Cpu |-> FALSE] /\ pcb = [c \in Cpu |-> Nadie]
  /\ pc = [h \in Hilo |-> IF h \in Proc THEN "inicio" ELSE "libre"]
  /\ proc = [h \in Hilo |-> Nadie] /\ clave = [c \in Cpu |-> Nadie]
  /\ quedan = [h \in Hilo |-> 0] /\ tmp = [h \in Hilo |-> 0]
  /\ pcp = [pc |-> "espera", cpu |-> Nadie, proc |-> Nadie]
  /\ fase = [c \in Cpu |-> "fuera"] /\ enCpu = [c \in Cpu |-> Nadie]
  /\ memoria = [p \in Proc |-> "nada"]
  /\ pasos = [p \in Proc |-> 0] /\ condena = [p \in Proc |-> 0] /\ caido = FALSE

-----------------------------------------------------------------------------
\* Helpers.  An operator named Op_Something is Op with a slip a programmer could
\* make: the mutants of PROJECT.json put it in the place of Op.

\* Thread h, the short-term planner, is at this step.
En(h, paso) == ~ caido /\ pc[h] = paso
EnPcp(paso) == ~ caido /\ pcp.pc = paso

Ir(h, paso) == pc' = [pc EXCEPT ![h] = paso]

\* A NULL pointer is dereferenced: the kernel process is gone.
Cae == /\ caido' = TRUE
       /\ UNCHANGED <<colas, info, planes, sems, cpus, hilos, pcp, externo>>

\* buscarInformacion(pid) finds the program's statistics.
ConInfo(p) == estado[p] # "sin info"

\* matarSiguienteRafaga, read when a PCB comes back alive.
HayQueMatar_Ignorado(p) == FALSE
HayQueMatar(p) == matar[p]

\* queue_pop, on a queue with something in it.
Sacar_SinQuitar(cola) == cola
Sacar(cola) == Tail(cola)

\* sem_wait and sem_post of sem_cola_ready.
WaitReady == semReady > 0 /\ semReady' = semReady - 1
PostReady_Olvidado == UNCHANGED semReady
PostReady == semReady' = semReady + 1

\* The comparisons of realizarSignal and realizarWait with the new value.
DebeDesbloquear_Estricto(valor) == valor < 0
DebeDesbloquear(valor) == valor <= 0
DebeBloquear(valor)    == valor < 0

\* A CPU gives the PCB back and waits for the next one, or ends when SIGUSR1
\* came during the burst (it has DESCONEXION_CPU on the wire by then).
Devuelve(c) ==
  /\ fase' \in {[fase EXCEPT ![c] = f] :
                  f \in {"ociosa"} \cup (IF c \in CpuFragil THEN {"apagada"} ELSE {})}
  /\ enCpu' = [enCpu EXCEPT ![c] = Nadie]

\* obtenerCpuLibre: the first free CPU of the list, NULL when there is none.
CpuLibre_Cualquiera == IF listaCPUs = <<>> THEN Nadie ELSE Head(listaCPUs)
CpuLibre ==
  LET primera(i) == /\ disponible[listaCPUs[i]]
                    /\ \A j \in 1..(i - 1) : ~ disponible[listaCPUs[j]]
  IN  IF \E i \in DOMAIN listaCPUs : primera(i)
      THEN listaCPUs[CHOOSE i \in DOMAIN listaCPUs : primera(i)]
      ELSE Nadie

EnLista(c) == \E i \in DOMAIN listaCPUs : listaCPUs[i] = c

\* desocupar_cpu: a CPU that has left the list is not found.
Desocupar_SinPost(c) ==
  disponible' = [disponible EXCEPT ![c] = EnLista(c)] /\ UNCHANGED semCPUs
Desocupar(c) ==
  IF EnLista(c)
  THEN /\ disponible' = [disponible EXCEPT ![c] = TRUE]
       /\ semCPUs' = semCPUs + 1
  ELSE UNCHANGED <<disponible, semCPUs>>

\* cpu->disponible = false
Ocupar_Olvidado(c) == UNCHANGED disponible
Ocupar(c) == disponible' = [disponible EXCEPT ![c] = FALSE]

\* The CPU that died had a program: its cpu_t is not free.
TeniaPrograma_SinMirarDisponible(c) == pcb[c] # Nadie
TeniaPrograma(c) == ~ disponible[c] /\ pcb[c] # Nadie

\* list_remove_by_condition: the list without its first entry for c.
SinCpu(c) ==
  IF EnLista(c)
  THEN LET k == CHOOSE i \in DOMAIN listaCPUs : listaCPUs[i] = c
       IN  [i \in 1..(Len(listaCPUs) - 1) |-> listaCPUs[IF i < k THEN i ELSE i + 1]]
  ELSE listaCPUs

\* terminarProceso up to the insertion in colaFinished.  The thread goes on
\* with the steps "libera", "resta" and "guarda_resta".
EmpiezaTerminar(c, p) ==
  /\ estado' = [estado EXCEPT ![p] = "FINISH"]
  /\ colaFinished' = [colaFinished EXCEPT ![p] = @ + 1]
  /\ proc' = [proc EXCEPT ![c] = p]
  /\ Ir(c, "libera")

\* The end of planificarLargoPlazo, which is also the end of every handler
\* that calls it: realizarWait still owns mutex_sem when it terminated a program.
TerminaPlanificador_SinSoltar(h) ==
  /\ Ir(h, "libre")
  /\ proc' = [proc EXCEPT ![h] = Nadie]
  /\ quedan' = [quedan EXCEPT ![h] = 0]
  /\ UNCHANGED mutexSem
TerminaPlanificador(h) ==
  /\ Ir(h, "libre")
  /\ proc' = [proc EXCEPT ![h] = Nadie]
  /\ quedan' = [quedan EXCEPT ![h] = 0]
  /\ mutexSem' = IF mutexSem = h THEN Nadie ELSE mutexSem

-----------------------------------------------------------------------------
\* The console thread: ENVIO_CODIGO.

\* The program enters colaNew ...
EnvioCodigo(p) ==
  /\ En(p, "inicio")
  /\ DeAUno => \A q \in Proc : pc[q] \in {"inicio", "libre"}
  /\ colaNew' = Append(colaNew, p)
  /\ Ir(p, "info")
  /\ UNCHANGED <<colaReady, bloqueos, colaFinished, info, planes, sems, cpus, proc,
                 clave, quedan, tmp, pcp, externo, caido>>

\* ... and only afterwards its statistics exist.
CrearInfoEstadistica(p) ==
  /\ En(p, "info")
  /\ estado' = [estado EXCEPT ![p] = "NEW"]
  /\ Ir(p, "plp")
  /\ UNCHANGED <<colas, matar, planes, sems, cpus, proc, clave, quedan, tmp, pcp,
                 externo, caido>>

-----------------------------------------------------------------------------
\* planificarLargoPlazo, run by any thread h.

\* The outer test, and the number of entries to look at.  finCola is not
\* initialised: the loop may be skipped.
EmpezarLargoPlazo(h) ==
  /\ En(h, "plp")
  /\ \/ /\ cant < grado /\ colaNew # <<>>
        /\ Ir(h, "lazo")
        /\ quedan' = [quedan EXCEPT ![h] = Len(colaNew)]
        /\ UNCHANGED <<proc, mutexSem>>
     \/ TerminaPlanificador(h)
  /\ UNCHANGED <<colas, info, planes, semReady, semCPUs, semaforos, cpus, clave, tmp,
                 pcp, externo, caido>>

\* The loop's test and the extraction.  queue_pop gives NULL on an empty
\* queue, and the next line reads proc->pid.
SacarDeNew(h) ==
  /\ En(h, "lazo")
  /\ \/ /\ ~ (quedan[h] > 0 /\ cant < grado)
        /\ TerminaPlanificador(h)
        /\ UNCHANGED <<colas, info, planes, semReady, semCPUs, semaforos, cpus, clave,
                       tmp, pcp, externo, caido>>
     \/ /\ quedan[h] > 0 /\ cant < grado /\ colaNew # <<>>
        /\ quedan' = [quedan EXCEPT ![h] = @ - 1]
        /\ proc' = [proc EXCEPT ![h] = Head(colaNew)]
        /\ colaNew' = Sacar(colaNew)
        /\ Ir(h, "memoria")
        /\ UNCHANGED <<colaReady, bloqueos, colaFinished, info, planes, sems, cpus, clave,
                       tmp, pcp, externo, caido>>
     \/ /\ quedan[h] > 0 /\ cant < grado /\ colaNew = <<>>
        /\ Cae

\* INICIAR_PROGRAMA is accepted: colaReady and its semaphore.
MemoriaAcepta(h) ==
  /\ En(h, "memoria")
  /\ memoria' = [memoria EXCEPT ![proc[h]] = "reservada"]
  /\ colaReady' = Append(colaReady, proc[h])
  /\ PostReady
  /\ Ir(h, "listo")
  /\ UNCHANGED <<colaNew, bloqueos, colaFinished, info, planes, semCPUs, semaforos,
                 mutexSem, cpus, proc, clave, quedan, tmp, pcp, fase, enCpu, pasos,
                 condena, caido>>

\* SIN_ESPACIO: the program is finished without having run.
MemoriaRechaza(h) ==
  /\ En(h, "memoria") /\ proc[h] \in Grandes
  /\ IF ConInfo(proc[h])
     THEN /\ estado' = [estado EXCEPT ![proc[h]] = "FINISH"]
          /\ colaFinished' = [colaFinished EXCEPT ![proc[h]] = @ + 1]
          /\ Ir(h, "lazo")
          /\ UNCHANGED <<colaNew, colaReady, bloqueos, matar, planes, sems, cpus, proc,
                         clave, quedan, tmp, pcp, externo, caido>>
     ELSE Cae

\* The program was already in colaReady: its state is written late.
AnotarReady(h) ==
  /\ En(h, "listo")
  /\ IF ConInfo(proc[h])
     THEN /\ estado' = [estado EXCEPT ![proc[h]] = "READY"]
          /\ Ir(h, "codigo")
          /\ UNCHANGED <<colas, matar, planes, sems, cpus, proc, clave, quedan, tmp, pcp,
                         externo, caido>>
     ELSE Cae

\* PID_PROGRAMA to the console, and the code to memory page by page.  Memory
\* refuses it when the program has already been finalised there.
EnvioCodigoMemoria(h) ==
  /\ En(h, "codigo")
  /\ memoria' = [memoria EXCEPT ![proc[h]] =
                   IF @ = "liberada" THEN @ ELSE "con codigo"]
  /\ Ir(h, "suma")
  /\ UNCHANGED <<colas, info, planes, sems, cpus, proc, clave, quedan, tmp, pcp, fase,
                 enCpu, pasos, condena, caido>>

\* cantProcesosSistema++ is a read and a write.
LeerCantSuma(h) ==
  /\ En(h, "suma")
  /\ tmp' = [tmp EXCEPT ![h] = cant]
  /\ Ir(h, "guarda")
  /\ UNCHANGED <<colas, info, planes, sems, cpus, proc, clave, quedan, pcp, externo, caido>>

GuardarCantSuma(h) ==
  /\ En(h, "guarda")
  /\ cant' = tmp[h] + 1
  /\ tmp' = [tmp EXCEPT ![h] = 0]
  /\ Ir(h, "lazo")
  /\ UNCHANGED <<colas, info, grado, planActiva, sems, cpus, proc, clave, quedan, pcp,
                 externo, caido>>

LargoPlazo(h) ==
  \/ EmpezarLargoPlazo(h) \/ SacarDeNew(h)
  \/ MemoriaAcepta(h) \/ MemoriaRechaza(h)
  \/ AnotarReady(h) \/ EnvioCodigoMemoria(h)
  \/ LeerCantSuma(h) \/ GuardarCantSuma(h)

-----------------------------------------------------------------------------
\* planificarCortoPlazo, one thread.

EsperarReady ==
  /\ EnPcp("espera") /\ WaitReady
  /\ pcp' = [pcp EXCEPT !.pc = "plan"]
  /\ UNCHANGED <<colas, info, planes, semCPUs, semaforos, mutexSem, cpus, hilos, externo,
                 caido>>

EsperarPlanificacion ==
  /\ EnPcp("plan") /\ planActiva
  /\ pcp' = [pcp EXCEPT !.pc = "cpu"]
  /\ UNCHANGED <<colas, info, planes, sems, cpus, hilos, externo, caido>>

EsperarCpu ==
  /\ EnPcp("cpu") /\ semCPUs > 0
  /\ semCPUs' = semCPUs - 1
  /\ pcp' = [pcp EXCEPT !.pc = "elegir"]
  /\ UNCHANGED <<colas, info, planes, semReady, semaforos, mutexSem, cpus, hilos, externo,
                 caido>>

\* obtenerCpuLibre and queue_pop(colaReady); a NULL PCB is serialised next.
ElegirCpu ==
  /\ EnPcp("elegir")
  /\ IF colaReady = <<>> THEN Cae
     ELSE /\ pcp' = [pc |-> "despachar", cpu |-> CpuLibre, proc |-> Head(colaReady)]
          /\ colaReady' = Sacar(colaReady)
          /\ UNCHANGED <<colaNew, bloqueos, colaFinished, info, planes, sems, cpus, hilos,
                         externo, caido>>

\* EXEC_PCB and EXEC_QUANTUM go to the CPU.  A cpu_t that has left the list is
\* written through all the same, and its PCB reaches nobody.
Despachar ==
  /\ EnPcp("despachar")
  /\ IF pcp.cpu = Nadie THEN Cae
     ELSE LET c == pcp.cpu IN
          /\ pcb' = [pcb EXCEPT ![c] = pcp.proc]
          /\ Ocupar(c)
          /\ enCpu' = [enCpu EXCEPT ![c] = IF fase[c] = "ida" THEN @ ELSE pcp.proc]
          /\ pcp' = [pcp EXCEPT !.pc = "anotar"]
          /\ UNCHANGED <<colas, info, planes, sems, listaCPUs, hilos, fase, memoria, pasos,
                         condena, caido>>

\* The program may have come back already: its state is written late.
AnotarExec ==
  /\ EnPcp("anotar")
  /\ IF ConInfo(pcp.proc)
     THEN /\ estado' = [estado EXCEPT ![pcp.proc] = "EXEC"]
          /\ pcp' = [pc |-> "espera", cpu |-> Nadie, proc |-> Nadie]
          /\ UNCHANGED <<colas, matar, planes, sems, cpus, hilos, externo, caido>>
     ELSE Cae

CortoPlazo ==
  \/ EsperarReady \/ EsperarPlanificacion \/ EsperarCpu
  \/ ElegirCpu \/ Despachar \/ AnotarExec

-----------------------------------------------------------------------------
\* CPU processes, and the thread that handles what each of them sends.

\* HANDSHAKE_CPU: agregarNuevaCPU.
Conectar(c) ==
  /\ ~ caido /\ fase[c] = "fuera"
  /\ fase' = [fase EXCEPT ![c] = "ociosa"]
  /\ listaCPUs' = Append(listaCPUs, c)
  /\ disponible' = [disponible EXCEPT ![c] = TRUE]
  /\ semCPUs' = semCPUs + 1
  /\ UNCHANGED <<colas, info, planes, semReady, semaforos, mutexSem, pcb, hilos, pcp,
                 enCpu, memoria, pasos, condena, caido>>

\* The CPU reads EXEC_PCB and EXEC_QUANTUM and starts a burst.
ComenzarEjecucion(c) ==
  /\ ~ caido /\ fase[c] = "ociosa" /\ enCpu[c] # Nadie
  /\ fase' = [fase EXCEPT ![c] = "corre"]
  /\ condena' = [condena EXCEPT ![enCpu[c]] = IF matar[enCpu[c]] THEN @ + 1 ELSE @]
  /\ UNCHANGED <<colas, info, planes, sems, cpus, hilos, pcp, enCpu, memoria, pasos, caido>>

\* CPU c is in a burst and the kernel has handled all it sent before.
EnRafaga(c) == fase[c] = "corre" /\ En(c, "libre")

\* The program's code makes this request, and the bound allows it.
Pide(p, pedido) ==
  /\ pedido \in Pedidos[p] /\ pasos[p] < MaxPasos
  /\ pasos' = [pasos EXCEPT ![p] = @ + 1]

\* FIN_EJECUCION: finalizacion_quantum, up to the insertion in colaReady.
FinalizacionQuantum(c) ==
  LET p == enCpu[c] IN
  /\ EnRafaga(c) /\ Pide(p, "quantum")
  /\ Devuelve(c)
  /\ ConInfo(p)
  /\ \/ /\ HayQueMatar(p)
        /\ EmpiezaTerminar(c, p)
        /\ UNCHANGED colaReady
     \/ /\ ~ HayQueMatar(p)
        /\ colaReady' = Append(colaReady, p)
        /\ proc' = [proc EXCEPT ![c] = p]
        /\ Ir(c, "q_estado")
        /\ UNCHANGED <<estado, colaFinished>>
  /\ UNCHANGED <<colaNew, bloqueos, matar, planes, sems, cpus, clave, quedan, tmp, pcp,
                 memoria, condena, caido>>

QuantumAnotarReady(c) ==
  /\ En(c, "q_estado")
  /\ estado' = [estado EXCEPT ![proc[c]] = "READY"]
  /\ PostReady
  /\ Ir(c, "desocupa")
  /\ UNCHANGED <<colas, matar, planes, semCPUs, semaforos, mutexSem, cpus, proc, clave,
                 quedan, tmp, pcp, externo, caido>>

\* desocupar_cpu, and mutex_sem is given back when realizarWait called it.
DesocuparCpu(c) ==
  /\ En(c, "desocupa")
  /\ Desocupar(c)
  /\ TerminaPlanificador(c)
  /\ UNCHANGED <<colas, info, planes, semReady, semaforos, listaCPUs, pcb, clave, tmp,
                 pcp, externo, caido>>

\* FIN_PROCESO or an error: finalizacion_proceso, finalizacion_error.
FinalizacionProceso(c) ==
  LET p == enCpu[c] IN
  /\ EnRafaga(c)
  /\ Devuelve(c)
  /\ ConInfo(p)
  /\ EmpiezaTerminar(c, p)
  /\ UNCHANGED <<colaNew, colaReady, bloqueos, matar, planes, sems, cpus, clave, quedan,
                 tmp, pcp, memoria, pasos, condena, caido>>

\* terminarProceso goes on: desocupar_cpu, FINALIZAR_EJECUCION to the console
\* and FINALIZAR_PROGRAMA to memory.
TerminarLiberar(c) ==
  /\ En(c, "libera")
  /\ Desocupar(c)
  /\ memoria' = [memoria EXCEPT ![proc[c]] = "liberada"]
  /\ Ir(c, "resta")
  /\ UNCHANGED <<colas, info, planes, semReady, semaforos, mutexSem, listaCPUs, pcb, proc,
                 clave, quedan, tmp, pcp, fase, enCpu, pasos, condena, caido>>

\* cantProcesosSistema-- is a read and a write; planificarLargoPlazo follows.
LeerCantResta(c) ==
  /\ En(c, "resta")
  /\ tmp' = [tmp EXCEPT ![c] = cant]
  /\ Ir(c, "guarda_resta")
  /\ UNCHANGED <<colas, info, planes, sems, cpus, proc, clave, quedan, pcp, externo, caido>>

GuardarCantResta(c) ==
  /\ En(c, "guarda_resta")
  /\ cant' = tmp[c] - 1
  /\ tmp' = [tmp EXCEPT ![c] = 0]
  /\ Ir(c, "plp")
  /\ UNCHANGED <<colas, info, grado, planActiva, sems, cpus, proc, clave, quedan, pcp,
                 externo, caido>>

\* SEM_SIGNAL and SEM_WAIT: the handler begins and has mutex_sem to take.
PedirSemaforo(c, s) ==
  \E pedido \in {"signal", "wait"} :
    /\ EnRafaga(c) /\ Pide(enCpu[c], pedido)
    /\ clave' = [clave EXCEPT ![c] = s]
    /\ Ir(c, pedido)
    /\ UNCHANGED <<colas, info, planes, sems, cpus, proc, quedan, tmp, pcp, fase, enCpu,
                   memoria, condena, caido>>

\* realizarSignal.  desbloquearProceso moves the first blocked
\* program to colaReady when the new value is not positive.
RealizarSignal(c) ==
  LET s == clave[c] IN
  /\ En(c, "signal") /\ mutexSem = Nadie
  /\ ConInfo(enCpu[c])
  /\ semaforos' = [semaforos EXCEPT ![s] = @ + 1]
  /\ clave' = [clave EXCEPT ![c] = Nadie]
  /\ IF DebeDesbloquear(semaforos[s] + 1) /\ bloqueos[s] # <<>>
     THEN /\ colaReady' = Append(colaReady, Head(bloqueos[s]))
          /\ bloqueos' = [bloqueos EXCEPT ![s] = Sacar(@)]
          /\ proc' = [proc EXCEPT ![c] = Head(bloqueos[s])]
          /\ mutexSem' = c
          /\ Ir(c, "s_estado")
     ELSE Ir(c, "libre") /\ UNCHANGED <<colaReady, bloqueos, proc, mutexSem>>
  /\ UNCHANGED <<colaNew, colaFinished, info, planes, semReady, semCPUs, cpus, quedan,
                 tmp, pcp, externo, caido>>

\* The unblocked program's state, the post, SIGNAL_OK and the unlock.
SignalAnotarReady(c) ==
  /\ En(c, "s_estado")
  /\ estado' = [estado EXCEPT ![proc[c]] = "READY"]
  /\ PostReady
  /\ TerminaPlanificador(c)
  /\ UNCHANGED <<colas, matar, planes, semCPUs, semaforos, cpus, clave, tmp, pcp,
                 externo, caido>>

\* realizarWait.  With a negative value the thread keeps mutex_sem until the
\* CPU sends the PCB back.
RealizarWait(c) ==
  LET s == clave[c] IN
  /\ En(c, "wait") /\ mutexSem = Nadie
  /\ ConInfo(enCpu[c])
  /\ semaforos' = [semaforos EXCEPT ![s] = @ - 1]
  /\ IF DebeBloquear(semaforos[s] - 1)
     THEN mutexSem' = c /\ Ir(c, "w_recibe") /\ UNCHANGED clave
     ELSE /\ clave' = [clave EXCEPT ![c] = Nadie]
          /\ Ir(c, "libre")
          /\ UNCHANGED mutexSem
  /\ UNCHANGED <<colas, info, planes, semReady, semCPUs, cpus, proc, quedan, tmp, pcp,
                 externo, caido>>

\* PROC_BLOCKED: bloquearProceso, or the end of a program somebody killed.
RecibirBloqueado(c) ==
  LET p == enCpu[c]
      s == clave[c] IN
  /\ En(c, "w_recibe") /\ fase[c] = "corre"
  /\ Devuelve(c)
  /\ clave' = [clave EXCEPT ![c] = Nadie]
  /\ \/ /\ HayQueMatar(p)
        /\ EmpiezaTerminar(c, p)
        /\ UNCHANGED bloqueos
     \/ /\ ~ HayQueMatar(p)
        /\ bloqueos' = [bloqueos EXCEPT ![s] = Append(@, p)]
        /\ estado' = [estado EXCEPT ![p] = "BLOQ"]
        /\ Ir(c, "desocupa")
        /\ UNCHANGED <<proc, colaFinished>>
  /\ UNCHANGED <<colaNew, colaReady, matar, planes, sems, cpus, quedan, tmp, pcp,
                 memoria, pasos, condena, caido>>

\* The CPU died instead of answering: the handler gives up.
BloqueadoNoLlega(c) ==
  /\ En(c, "w_recibe") /\ fase[c] = "caida"
  /\ clave' = [clave EXCEPT ![c] = Nadie]
  /\ TerminaPlanificador(c)
  /\ UNCHANGED <<colas, info, planes, semReady, semCPUs, semaforos, cpus, tmp, pcp,
                 externo, caido>>

\* Every one of these handlers reads the program's statistics first.
SinInfo(c) ==
  /\ \/ EnRafaga(c)
     \/ En(c, "signal") /\ mutexSem = Nadie
     \/ En(c, "wait") /\ mutexSem = Nadie
  /\ ~ ConInfo(enCpu[c])
  /\ Cae

-----------------------------------------------------------------------------
\* CPUs that leave.

\* SIGUSR1 outside a burst: finalizarCPU sends DESCONEXION_CPU and exits.
Sigusr1(c) ==
  /\ ~ caido /\ c \in CpuFragil /\ fase[c] = "ociosa"
  /\ fase' = [fase EXCEPT ![c] = "apagada"]
  /\ UNCHANGED <<colas, info, planes, sems, cpus, hilos, pcp, enCpu, memoria, pasos,
                 condena, caido>>

\* The process dies without a message.
CpuMuere(c) ==
  /\ ~ caido /\ c \in CpuFragil /\ fase[c] \in {"ociosa", "corre"}
  /\ fase' = [fase EXCEPT ![c] = "caida"]
  /\ UNCHANGED <<colas, info, planes, sems, cpus, hilos, pcp, enCpu, memoria, pasos,
                 condena, caido>>

\* DESCONEXION_CPU: eliminarCPU takes the CPU off the list and frees its PCB.
EliminarCpu(c) ==
  /\ fase[c] = "apagada" /\ En(c, "libre")
  /\ IF pcb[c] = Nadie THEN Cae
     ELSE /\ fase' = [fase EXCEPT ![c] = "ida"]
          /\ listaCPUs' = SinCpu(c)
          /\ UNCHANGED <<colas, info, planes, sems, disponible, pcb, hilos, pcp, enCpu,
                         memoria, pasos, condena, caido>>

\* The program of a CPU that died ends with DESCONEXION_CPU.
TerminarSiTenia(c) ==
  IF TeniaPrograma(c)
  THEN /\ EmpiezaTerminar(c, pcb[c])
       /\ enCpu' = [enCpu EXCEPT ![c] = Nadie]
  ELSE /\ Ir(c, "libre")
       /\ UNCHANGED <<estado, colaFinished, proc, enCpu>>

\* The closed socket: verificarProcesosEnCpuCaida.  A free CPU's place in
\* semCPUs_disponibles has to be waited for.
CpuCaida(c) ==
  /\ fase[c] = "caida" /\ En(c, "libre")
  /\ fase' = [fase EXCEPT ![c] = "ida"]
  /\ listaCPUs' = SinCpu(c)
  /\ \/ /\ disponible[c]
        /\ Ir(c, "caida")
        /\ UNCHANGED <<estado, colaFinished, proc, enCpu>>
     \/ /\ ~ disponible[c]
        /\ TerminarSiTenia(c)
  /\ UNCHANGED <<colaNew, colaReady, bloqueos, matar, planes, sems, disponible, pcb, clave,
                 quedan, tmp, pcp, memoria, pasos, condena, caido>>

CpuCaidaEspera(c) ==
  /\ En(c, "caida") /\ semCPUs > 0
  /\ semCPUs' = semCPUs - 1
  /\ TerminarSiTenia(c)
  /\ UNCHANGED <<colaNew, colaReady, bloqueos, matar, planes, semReady, semaforos, mutexSem,
                 cpus, clave, quedan, tmp, pcp, fase, memoria, pasos, condena, caido>>

-----------------------------------------------------------------------------
\* The operator, and the console that asks for the end of its program.

\* killProcess, finalizarPrograma and verificarProcesosConsolaCaida.
KillProcess(p) ==
  /\ ~ caido /\ p \in Matables /\ ConInfo(p) /\ ~ matar[p]
  /\ matar' = [matar EXCEPT ![p] = TRUE]
  /\ UNCHANGED <<colas, estado, planes, sems, cpus, hilos, pcp, externo, caido>>

\* grMulti: the degree is set, to the same value too, and this thread plans.
GradoMultiprogramacion ==
  /\ En(Interfaz, "libre")
  /\ grado' \in Grados
  /\ Ir(Interfaz, "plp")
  /\ UNCHANGED <<colas, info, cant, planActiva, sems, cpus, proc, clave, quedan, tmp, pcp,
                 externo, caido>>

StopPlanification ==
  /\ Detenible /\ En(Interfaz, "libre")
  /\ planActiva' = ~ planActiva
  /\ UNCHANGED <<colas, info, cant, grado, sems, cpus, hilos, pcp, externo, caido>>

-----------------------------------------------------------------------------
HiloConsola(p) == EnvioCodigo(p) \/ CrearInfoEstadistica(p)

\* The rest of a handler that has begun.
HiloCpu(c) ==
  \/ QuantumAnotarReady(c) \/ DesocuparCpu(c)
  \/ TerminarLiberar(c) \/ LeerCantResta(c) \/ GuardarCantResta(c)
  \/ RealizarSignal(c) \/ SignalAnotarReady(c)
  \/ RealizarWait(c) \/ RecibirBloqueado(c) \/ BloqueadoNoLlega(c)
  \/ EliminarCpu(c) \/ CpuCaida(c) \/ CpuCaidaEspera(c)

\* What a CPU in a burst may ask of the kernel.
PedidoCpu(c) ==
  \/ FinalizacionQuantum(c) \/ FinalizacionProceso(c)
  \/ \E s \in Sem : PedirSemaforo(c, s)
  \/ SinInfo(c)

Operador ==
  \/ \E p \in Proc : KillProcess(p)
  \/ GradoMultiprogramacion \/ StopPlanification

Next ==
  \/ \E p \in Proc : HiloConsola(p)
  \/ \E h \in Hilo : LargoPlazo(h)
  \/ CortoPlazo
  \/ \E c \in Cpu : \/ Conectar(c) \/ ComenzarEjecucion(c)
                    \/ PedidoCpu(c) \/ HiloCpu(c)
                    \/ Sigusr1(c) \/ CpuMuere(c)
  \/ Operador

Spec == Init /\ [][Next]_vars

\* Every thread of the kernel that can step does, a CPU sends something after
\* every burst, and the CPUs connect.  Nothing is assumed of consoles and
\* operators, nor of the moment a CPU leaves.
Justicia ==
  /\ \A p \in Proc : WF_vars(CrearInfoEstadistica(p))
  /\ \A h \in Hilo : WF_vars(LargoPlazo(h))
  /\ WF_vars(CortoPlazo)
  /\ \A c \in Cpu : /\ WF_vars(Conectar(c))
                    /\ WF_vars(ComenzarEjecucion(c))
                    /\ WF_vars(PedidoCpu(c))
                    /\ WF_vars(HiloCpu(c))

FairSpec == Spec /\ Justicia

-----------------------------------------------------------------------------
\* Where a program is.

EnCola(p, cola)  == \E i \in DOMAIN cola : cola[i] = p
Apariciones(p, cola) == Cardinality({i \in DOMAIN cola : cola[i] = p})
Bloqueado(p)     == \E s \in Sem : EnCola(p, bloqueos[s])
EnMano(p)        == {h \in Hilo : pc[h] = "memoria" /\ proc[h] = p}
Corriendo(p)     == {c \in Cpu : enCpu[c] = p}
EnManoPcp(p)     == pcp.pc = "despachar" /\ pcp.proc = p

\* Handlers that put a program in colaReady and have not posted yet.
PorPublicar == {c \in Cpu : pc[c] \in {"q_estado", "s_estado"}}
\* The short-term planner took a unit of sem_cola_ready and no program yet.
ConTicket   == IF pcp.pc \in {"plan", "cpu", "elegir"} THEN 1 ELSE 0
\* Likewise for semCPUs_disponibles.
ConCupo     == IF pcp.pc \in {"elegir", "despachar"} THEN 1 ELSE 0

\* Programs the planner admitted that have not ended.
EnSistema == {p \in Proc : memoria[p] \in {"reservada", "con codigo"} /\ colaFinished[p] = 0}

-----------------------------------------------------------------------------
\* Safety.

\* sem_cola_ready counts colaReady: every program there is announced by a unit
\* of the semaphore, by the planner that has taken one, or by a thread about to
\* post.  So the planner never pops an empty queue, whoever else is at work.
TicketsDeReady ==
  Len(colaReady) = semReady + ConTicket + Cardinality(PorPublicar)

\* semCPUs_disponibles counts the free CPUs of the list, as long as no CPU
\* leaves: the planner that has a unit finds a free CPU.
CuposDeCpu ==
  semCPUs + ConCupo = Cardinality({c \in Cpu : EnLista(c) /\ disponible[c]})

\* A CPU the kernel takes for free runs nothing ("si esta disponible es porque
\* no tiene nada corriendo"), also while other CPUs come and go.
DisponibleEsOcioso ==
  \A c \in Cpu : EnLista(c) /\ disponible[c] => enCpu[c] = Nadie /\ fase[c] # "corre"

\* A program sent by its console is in exactly one place: a queue, a thread's
\* hands, one CPU, or finished.  No PCB is duplicated and none is dropped.
UnSoloLugar ==
  \A p \in Proc :
    LET lugares ==
          Apariciones(p, colaNew) + Apariciones(p, colaReady)
            + Cardinality({s \in Sem : EnCola(p, bloqueos[s])})
            + Cardinality(EnMano(p)) + (IF EnManoPcp(p) THEN 1 ELSE 0)
            + Cardinality(Corriendo(p)) + colaFinished[p]
    IN  lugares = (IF pc[p] = "inicio" THEN 0 ELSE 1)

\* With CPUs that leave a program may be lost, and still is never in two places.
NuncaDosLugares ==
  \A p \in Proc :
    /\ Apariciones(p, colaReady) + Cardinality(EnMano(p))
         + (IF EnManoPcp(p) THEN 1 ELSE 0) + Cardinality(Corriendo(p))
         + Cardinality({s \in Sem : EnCola(p, bloqueos[s])}) <= 1
    /\ colaFinished[p] <= 1
    /\ colaFinished[p] = 1 => ~ EnCola(p, colaReady) /\ Corriendo(p) = {} /\ ~ Bloqueado(p)

\* A negative semaphore value is the number of programs blocked on it, counting
\* the one whose PCB is on its way back.  So a signal finds somebody to wake
\* whenever the value says so, and wakes nobody too early.
SemaforoContable ==
  \A s \in Sem :
    Len(bloqueos[s]) + Cardinality({c \in Cpu : pc[c] = "w_recibe" /\ clave[c] = s})
      = (IF semaforos[s] < 0 THEN - semaforos[s] ELSE 0)

\* "Se termina el proceso en la siguiente rafaga": after the kill a program
\* begins at most one burst more.
UnaRafagaMas == \A p \in Proc : condena[p] <= 1

\* The kernel implements the life cycle of enum_estado.
Situacion(p) ==
  CASE colaFinished[p] > 0                   -> "FINISH"
    [] Corriendo(p) # {}                     -> "EXEC"
    [] Bloqueado(p)                          -> "BLOQ"
    [] EnCola(p, colaReady) \/ EnManoPcp(p)  -> "READY"
    [] pc[p] = "inicio"                      -> "sinEnviar"
    [] OTHER                                 -> "NEW"

Ciclo == INSTANCE CicloDeVida WITH
           situacion <- [p \in Proc |-> Situacion(p)], corre <- enCpu
CicloDeVidaSpec == Ciclo!Spec

-----------------------------------------------------------------------------
\* Liveness, under FairSpec.  The death of the kernel process is an outcome of
\* its own.

\* A handler that begins ends: nobody waits for ever on mutex_sem, on a CPU or
\* on another handler.
HandlerTermina ==
  \A c \in Cpu : pc[c] # "libre" ~> (pc[c] = "libre" \/ caido)

\* A program that was admitted ends or is left blocked on a semaphore.
AdmitidoTermina ==
  \A p \in Proc : p \in EnSistema ~> (colaFinished[p] > 0 \/ Bloqueado(p) \/ caido)

-----------------------------------------------------------------------------
\* What the code does not give: TLC refutes each of them, KernelVivo in its own run
\* and the others in the instances that the README describes.

\* The kernel outlives two consoles that send their programs at once: "kernel
\* soporta multiples conexiones de consolas y cpu".
KernelVivo == ~ caido

\* "grado de multiprogramacion del sistema"
GradoRespetado == Cardinality(EnSistema) <= grado

\* crearPCB "Graba el codigo en Memoria": a program that runs has its code there.
CodigoAntesDeCorrer ==
  \A c \in Cpu : fase[c] = "corre" => memoria[enCpu[c]] = "con codigo"

\* "semaforo contador de cpus disponibles", with CPUs that disconnect.
CuposConDesconexion ==
  (\A c \in Cpu : pc[c] \notin {"caida"} /\ fase[c] \in {"fuera", "ociosa", "corre", "ida"})
    => CuposDeCpu

\* "Desbloqueo un proceso": with a value that is not positive there is one to wake.
SignalDespierta ==
  \A s \in Sem : semaforos[s] < 0 /\ mutexSem = Nadie => bloqueos[s] # <<>>

=============================================================================
