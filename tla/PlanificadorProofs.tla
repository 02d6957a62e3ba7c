------------------------ MODULE PlanificadorProofs ------------------------
(***************************************************************************)
(* Theorems about Planificador, for any programs, CPUs and semaphores.     *)
(*                                                                         *)
(* TipoInv is inductive by itself: the types, and what a thread has in its *)
(* hands when it is about to use it.  TicketsDeReady is inductive with it, *)
(* and so is SemInv, which counts the programs blocked on each semaphore.  *)
(*                                                                         *)
(* CpuInv relates a CPU's cpu_t, what the CPU really has and the step of   *)
(* its handler; it is inductive with TipoInv.  LugInv says that there is a *)
(* function l giving each program one place, and that queues, hands, CPUs  *)
(* and counts are what l says; each step changes l at one program or not   *)
(* at all (Lug_Paso), which is also the step of CicloDeVida.  RafagaInv    *)
(* says where a killed program is once its last burst has begun.           *)
(***************************************************************************)
EXTENDS Planificador, Extremos

\* What a thread has in its hands when it is about to use it.
Manos ==
  /\ \A h \in Hilo : pc[h] = "memoria" => proc[h] \in Proc
  /\ \A c \in Cpu : pc[c] \in {"signal", "wait", "w_recibe"} => clave[c] \in Sem
  /\ \A c \in Cpu : fase[c] = "corre" => enCpu[c] \in Proc
  /\ \A c \in Cpu : pc[c] = "caida" => fase[c] = "ida"
  /\ pcp.pc \in {"despachar", "anotar"} => pcp.proc \in Proc

TipoInv == TypeOK /\ Manos

-----------------------------------------------------------------------------
\* Results of the helpers.

\* obtenerCpuLibre gives a CPU of the list or NULL.
LEMMA CpuLibreTipo ==
  ASSUME TypeOK
  PROVE  CpuLibre \in Cpu \cup {Nadie}
<1> DEFINE primera(i) == /\ disponible[listaCPUs[i]]
                         /\ \A j \in 1..(i - 1) : ~ disponible[listaCPUs[j]]
<1>1. CASE \E i \in DOMAIN listaCPUs : primera(i)
  <2>1. (CHOOSE i \in DOMAIN listaCPUs : primera(i)) \in DOMAIN listaCPUs
    BY <1>1
  <2>2. \A i \in DOMAIN listaCPUs : listaCPUs[i] \in Cpu
    BY DEF TypeOK
  <2>3. CpuLibre = listaCPUs[CHOOSE i \in DOMAIN listaCPUs : primera(i)]
    BY <1>1 DEF CpuLibre
  <2> HIDE DEF primera
  <2> QED BY <2>1, <2>2, <2>3
<1>2. CASE ~ \E i \in DOMAIN listaCPUs : primera(i)
  BY <1>2 DEF CpuLibre
<1> QED BY <1>1, <1>2

\* Removing a CPU leaves a list of CPUs.
LEMMA SinCpuTipo ==
  ASSUME TypeOK, NEW c \in Cpu
  PROVE  SinCpu(c) \in Seq(Cpu)
<1>1. CASE ~ EnLista(c)
  BY <1>1 DEF SinCpu, TypeOK
<1>2. CASE EnLista(c)
  <2> DEFINE k == CHOOSE i \in DOMAIN listaCPUs : listaCPUs[i] = c
             n == Len(listaCPUs) - 1
             f == [i \in 1..n |-> listaCPUs[IF i < k THEN i ELSE i + 1]]
  <2>1. n \in Nat /\ listaCPUs \in [1..(n + 1) -> Cpu]
    BY <1>2 DEF TypeOK, EnLista
  <2>2. f \in [1..n -> Cpu]
    BY <2>1
  <2>3. f \in Seq(Cpu)
    BY <2>1, <2>2
  <2> QED BY <1>2, <2>3 DEF SinCpu
<1> QED BY <1>1, <1>2

\* queue_pop on a queue of programs gives a program and leaves a queue of them.
LEMMA SacarTipo ==
  ASSUME NEW cola \in Seq(Proc), cola # <<>>
  PROVE  Head(cola) \in Proc /\ Sacar(cola) \in Seq(Proc)
BY DEF Sacar

\* A CPU that gives the PCB back is in no burst.
LEMMA DevuelveTipo ==
  ASSUME TypeOK, NEW c \in Cpu, Devuelve(c)
  PROVE  /\ fase' \in [Cpu -> Fases]
         /\ fase'[c] # "corre"
         /\ \A d \in Cpu \ {c} : fase'[d] = fase[d]
         /\ fase[c] # "ida" => fase'[c] # "ida"
         /\ enCpu' = [enCpu EXCEPT ![c] = Nadie]
         /\ enCpu' \in [Cpu -> Proc \cup {Nadie}]
<1>1. PICK f \in {"ociosa", "apagada"} : fase' = [fase EXCEPT ![c] = f]
  BY DEF Devuelve
<1>2. fase \in [Cpu -> Fases] /\ enCpu \in [Cpu -> Proc \cup {Nadie}]
  BY DEF TypeOK
<1>3. enCpu' = [enCpu EXCEPT ![c] = Nadie]
  BY DEF Devuelve
<1> QED BY <1>1, <1>2, <1>3 DEF Fases

\* What terminarProceso writes first.
LEMMA EmpiezaTerminarTipo ==
  ASSUME TypeOK, NEW c \in Cpu, NEW p \in Proc, EmpiezaTerminar(c, p)
  PROVE  /\ estado' \in [Proc -> Estados]
         /\ colaFinished' \in [Proc -> Nat]
         /\ proc' = [proc EXCEPT ![c] = p] /\ proc' \in [Hilo -> Proc \cup {Nadie}]
         /\ pc' = [pc EXCEPT ![c] = "libera"] /\ pc' \in [Hilo -> Donde]
<1>1. estado' \in [Proc -> Estados]
  BY DEF EmpiezaTerminar, TypeOK, Estados
<1>2. /\ colaFinished \in [Proc -> Nat]
      /\ colaFinished' = [colaFinished EXCEPT ![p] = @ + 1]
  BY DEF EmpiezaTerminar, TypeOK
<1>3. colaFinished[p] + 1 \in Nat
  BY <1>2
<1>4. colaFinished' \in [Proc -> Nat]
  BY <1>2, <1>3
<1>5. proc' = [proc EXCEPT ![c] = p] /\ pc' = [pc EXCEPT ![c] = "libera"]
  BY DEF EmpiezaTerminar, Ir
<1>6. proc' \in [Hilo -> Proc \cup {Nadie}] /\ pc' \in [Hilo -> Donde]
  BY <1>5 DEF TypeOK, Hilo, Donde, PasosCpu
<1> QED BY <1>1, <1>4, <1>5, <1>6
\* The program a dead CPU had is a program.
LEMMA TerminarSiTeniaTipo ==
  ASSUME TypeOK, NEW c \in Cpu, TerminarSiTenia(c)
  PROVE  /\ estado' \in [Proc -> Estados] /\ colaFinished' \in [Proc -> Nat]
         /\ proc' \in [Hilo -> Proc \cup {Nadie}] /\ pc' \in [Hilo -> Donde]
         /\ enCpu' \in [Cpu -> Proc \cup {Nadie}]
         /\ \A h \in Hilo \ {c} : proc'[h] = proc[h]
         /\ \A d \in Cpu \ {c} : enCpu'[d] = enCpu[d]
         /\ \E d \in {"libera", "libre"} : pc' = [pc EXCEPT ![c] = d]
<1>1. CASE TeniaPrograma(c)
  <2>1. pcb[c] \in Proc
    BY <1>1 DEF TeniaPrograma, TypeOK
  <2>2. EmpiezaTerminar(c, pcb[c]) /\ enCpu' = [enCpu EXCEPT ![c] = Nadie]
    BY <1>1 DEF TerminarSiTenia
  <2>3. enCpu' \in [Cpu -> Proc \cup {Nadie}] /\ \A d \in Cpu \ {c} : enCpu'[d] = enCpu[d]
    BY <2>2 DEF TypeOK
  <2>4. \A h \in Hilo \ {c} : [proc EXCEPT ![c] = pcb[c]][h] = proc[h]
    BY DEF TypeOK
  <2> QED BY <2>1, <2>2, <2>3, <2>4, EmpiezaTerminarTipo
<1>2. CASE ~ TeniaPrograma(c)
  BY <1>2 DEF TerminarSiTenia, Ir, TypeOK, Hilo, Donde
<1> QED BY <1>1, <1>2

-----------------------------------------------------------------------------
\* TipoInv is preserved by every action.

LEMMA Tipo_EnvioCodigo ==
  ASSUME TipoInv, NEW p \in Proc, EnvioCodigo(p)
  PROVE  TipoInv'
<1> USE DEF EnvioCodigo, Ir, En,
            colas, info, planes, sems, cpus, hilos, externo
<1>1. colaNew' \in Seq(Proc)
  BY DEF TipoInv, TypeOK, Manos
<1>2. pc' \in [Hilo -> Donde]
  BY DEF TipoInv, TypeOK, Manos, Donde, EnPlanificador, PasosCpu, Hilo
<1>3. Manos'
  BY DEF TipoInv, TypeOK, Manos, Hilo
<1> QED BY <1>1, <1>2, <1>3 DEF TipoInv, TypeOK

LEMMA Tipo_CrearInfoEstadistica ==
  ASSUME TipoInv, NEW p \in Proc, CrearInfoEstadistica(p)
  PROVE  TipoInv'
<1> USE DEF CrearInfoEstadistica, Ir, En,
            colas, info, planes, sems, cpus, hilos, externo
<1>1. estado' \in [Proc -> Estados]
  BY DEF TipoInv, TypeOK, Manos, Estados
<1>2. pc' \in [Hilo -> Donde]
  BY DEF TipoInv, TypeOK, Manos, Donde, EnPlanificador, PasosCpu, Hilo
<1>3. Manos'
  BY DEF TipoInv, TypeOK, Manos, Hilo
<1> QED BY <1>1, <1>2, <1>3 DEF TipoInv, TypeOK

LEMMA Tipo_EmpezarLargoPlazo ==
  ASSUME TipoInv, NEW h \in Hilo, EmpezarLargoPlazo(h)
  PROVE  TipoInv'
<1> USE DEF EmpezarLargoPlazo, TerminaPlanificador, Ir, En,
            colas, info, planes, sems, cpus, hilos, externo, TipoInv, TypeOK
<1>1. CASE Ir(h, "lazo") /\ UNCHANGED <<proc, mutexSem>> /\ quedan' = [quedan EXCEPT ![h] = Len(colaNew)]
  <2> USE <1>1
  <2>1. pc' \in [Hilo -> Donde]
    BY DEF Manos, Donde, EnPlanificador, PasosCpu
  <2>2. quedan' \in [Hilo -> Int]
    BY DEF Manos
  <2>3. Manos'
    BY DEF Manos, Hilo
  <2> QED BY <2>1, <2>2, <2>3
<1>2. CASE TerminaPlanificador(h)
  <2> USE <1>2
  <2>1. pc' \in [Hilo -> Donde]
    BY DEF Manos, Donde, EnPlanificador, PasosCpu
  <2>2. proc' \in [Hilo -> Proc \cup {Nadie}]
    BY DEF Manos
  <2>3. quedan' \in [Hilo -> Int]
    BY DEF Manos
  <2>4. mutexSem' \in Cpu \cup {Nadie}
    BY DEF Manos
  <2>5. Manos'
    BY DEF Manos, Hilo
  <2> QED BY <2>1, <2>2, <2>3, <2>4, <2>5
<1> QED BY <1>1, <1>2

LEMMA Tipo_SacarDeNew ==
  ASSUME TipoInv, NEW h \in Hilo, SacarDeNew(h)
  PROVE  TipoInv'
<1> USE DEF colas, info, planes, sems, cpus, hilos, externo
<1>1. CASE ~ (quedan[h] > 0 /\ cant < grado)
  <2> USE <1>1 DEF SacarDeNew, TerminaPlanificador, Ir, TipoInv, TypeOK
  <2>1. pc' \in [Hilo -> Donde]
    BY DEF Manos, Donde, EnPlanificador, PasosCpu
  <2>2. proc' \in [Hilo -> Proc \cup {Nadie}]
    BY DEF Manos
  <2>3. quedan' \in [Hilo -> Int]
    BY DEF Manos
  <2>4. mutexSem' \in Cpu \cup {Nadie}
    BY DEF Manos
  <2>5. Manos'
    BY DEF Manos, Hilo
  <2> QED BY <2>1, <2>2, <2>3, <2>4, <2>5
<1>2. CASE quedan[h] > 0 /\ cant < grado /\ colaNew # <<>>
  <2>1. Head(colaNew) \in Proc /\ Sacar(colaNew) \in Seq(Proc)
    BY <1>2, SacarTipo DEF TipoInv, TypeOK
  <2>2. /\ quedan' = [quedan EXCEPT ![h] = @ - 1]
        /\ proc' = [proc EXCEPT ![h] = Head(colaNew)]
        /\ colaNew' = Sacar(colaNew)
        /\ pc' = [pc EXCEPT ![h] = "memoria"]
        /\ UNCHANGED <<colaReady, bloqueos, colaFinished, info, planes, sems, cpus,
                       clave, tmp, pcp, externo, caido>>
    BY <1>2 DEF SacarDeNew, Ir
  <2>3. quedan' \in [Hilo -> Int]
    BY <2>2 DEF TipoInv, TypeOK
  <2>4. proc' \in [Hilo -> Proc \cup {Nadie}] /\ pc' \in [Hilo -> Donde]
    BY <2>1, <2>2 DEF TipoInv, TypeOK, Donde, EnPlanificador
  <2>5. Manos'
    BY <2>1, <2>2 DEF TipoInv, TypeOK, Manos, Hilo
  <2> QED BY <2>1, <2>2, <2>3, <2>4, <2>5 DEF TipoInv, TypeOK
<1>3. CASE quedan[h] > 0 /\ cant < grado /\ colaNew = <<>>
  BY <1>3 DEF SacarDeNew, Cae, TipoInv, TypeOK, Manos
<1> QED BY <1>1, <1>2, <1>3

LEMMA Tipo_MemoriaAcepta ==
  ASSUME TipoInv, NEW h \in Hilo, MemoriaAcepta(h)
  PROVE  TipoInv'
<1> USE DEF MemoriaAcepta, PostReady, Ir, En,
            colas, info, planes, sems, cpus, hilos, externo
<1>1. pc' \in [Hilo -> Donde]
  BY DEF TipoInv, TypeOK, Manos, Donde, EnPlanificador, PasosCpu, Hilo
<1>2. memoria' \in [Proc -> Memorias]
  BY DEF TipoInv, TypeOK, Manos, Memorias
<1>3. colaReady' \in Seq(Proc)
  BY DEF TipoInv, TypeOK, Manos
<1>4. semReady' \in Nat
  BY DEF TipoInv, TypeOK, Manos
<1>5. Manos'
  BY DEF TipoInv, TypeOK, Manos, Hilo
<1> QED BY <1>1, <1>2, <1>3, <1>4, <1>5 DEF TipoInv, TypeOK

LEMMA Tipo_MemoriaRechaza ==
  ASSUME TipoInv, NEW h \in Hilo, MemoriaRechaza(h)
  PROVE  TipoInv'
<1> USE DEF colas, info, planes, sems, cpus, hilos, externo
<1>1. CASE ConInfo(proc[h])
  <2>1. proc[h] \in Proc
    BY DEF MemoriaRechaza, En, TipoInv, Manos
  <2>2. /\ estado' = [estado EXCEPT ![proc[h]] = "FINISH"]
        /\ colaFinished' = [colaFinished EXCEPT ![proc[h]] = @ + 1]
        /\ pc' = [pc EXCEPT ![h] = "lazo"]
        /\ UNCHANGED <<colaNew, colaReady, bloqueos, matar, planes, sems, cpus, proc,
                       clave, quedan, tmp, pcp, externo, caido>>
    BY <1>1 DEF MemoriaRechaza, Ir
  <2>3. estado' \in [Proc -> Estados] /\ pc' \in [Hilo -> Donde]
    BY <2>2 DEF TipoInv, TypeOK, Estados, Donde, EnPlanificador
  <2>4. colaFinished' \in [Proc -> Nat]
    BY <2>1, <2>2 DEF TipoInv, TypeOK
  <2>5. Manos'
    BY <2>2 DEF TipoInv, TypeOK, Manos, Hilo
  <2> QED BY <2>2, <2>3, <2>4, <2>5 DEF TipoInv, TypeOK
<1>2. CASE ~ ConInfo(proc[h])
  BY <1>2 DEF MemoriaRechaza, Cae, TipoInv, TypeOK, Manos
<1> QED BY <1>1, <1>2

LEMMA Tipo_AnotarReady ==
  ASSUME TipoInv, NEW h \in Hilo, AnotarReady(h)
  PROVE  TipoInv'
<1> USE DEF AnotarReady, Cae, Ir, En,
            colas, info, planes, sems, cpus, hilos, externo, TipoInv, TypeOK
<1>1. CASE ConInfo(proc[h])
  <2> USE <1>1
  <2>1. pc' \in [Hilo -> Donde]
    BY DEF Manos, Donde, EnPlanificador, PasosCpu
  <2>2. estado' \in [Proc -> Estados]
    BY DEF Manos, Estados
  <2>3. Manos'
    BY DEF Manos, Hilo
  <2> QED BY <2>1, <2>2, <2>3
<1>2. CASE ~ ConInfo(proc[h])
  <2> USE <1>2
  <2>1. caido' \in BOOLEAN
    BY DEF Manos
  <2>2. Manos'
    BY DEF Manos, Hilo
  <2> QED BY <2>1, <2>2
<1> QED BY <1>1, <1>2

LEMMA Tipo_EnvioCodigoMemoria ==
  ASSUME TipoInv, NEW h \in Hilo, EnvioCodigoMemoria(h)
  PROVE  TipoInv'
<1> USE DEF EnvioCodigoMemoria, Ir, En,
            colas, info, planes, sems, cpus, hilos, externo
<1>1. pc' \in [Hilo -> Donde]
  BY DEF TipoInv, TypeOK, Manos, Donde, EnPlanificador, PasosCpu, Hilo
<1>2. memoria' \in [Proc -> Memorias]
  BY DEF TipoInv, TypeOK, Manos, Memorias
<1>3. Manos'
  BY DEF TipoInv, TypeOK, Manos, Hilo
<1> QED BY <1>1, <1>2, <1>3 DEF TipoInv, TypeOK

LEMMA Tipo_LeerCantSuma ==
  ASSUME TipoInv, NEW h \in Hilo, LeerCantSuma(h)
  PROVE  TipoInv'
<1> USE DEF LeerCantSuma, Ir, En,
            colas, info, planes, sems, cpus, hilos, externo
<1>1. pc' \in [Hilo -> Donde]
  BY DEF TipoInv, TypeOK, Manos, Donde, EnPlanificador, PasosCpu, Hilo
<1>2. tmp' \in [Hilo -> Int]
  BY DEF TipoInv, TypeOK, Manos, Hilo
<1>3. Manos'
  BY DEF TipoInv, TypeOK, Manos, Hilo
<1> QED BY <1>1, <1>2, <1>3 DEF TipoInv, TypeOK

LEMMA Tipo_GuardarCantSuma ==
  ASSUME TipoInv, NEW h \in Hilo, GuardarCantSuma(h)
  PROVE  TipoInv'
<1> USE DEF GuardarCantSuma, Ir, En,
            colas, info, planes, sems, cpus, hilos, externo
<1>1. pc' \in [Hilo -> Donde]
  BY DEF TipoInv, TypeOK, Manos, Donde, EnPlanificador, PasosCpu, Hilo
<1>2. cant' \in Int
  BY DEF TipoInv, TypeOK, Manos
<1>3. tmp' \in [Hilo -> Int]
  BY DEF TipoInv, TypeOK, Manos, Hilo
<1>4. Manos'
  BY DEF TipoInv, TypeOK, Manos, Hilo
<1> QED BY <1>1, <1>2, <1>3, <1>4 DEF TipoInv, TypeOK

LEMMA Tipo_EsperarReady ==
  ASSUME TipoInv, EsperarReady
  PROVE  TipoInv'
<1> USE DEF EsperarReady, WaitReady, EnPcp,
            colas, info, planes, sems, cpus, hilos, externo
<1>1. pcp' \in TipoPcp
  BY DEF TipoInv, TypeOK, Manos, TipoPcp
<1>2. semReady' \in Nat
  BY DEF TipoInv, TypeOK, Manos
<1>3. Manos'
  BY DEF TipoInv, TypeOK, Manos, Hilo
<1> QED BY <1>1, <1>2, <1>3 DEF TipoInv, TypeOK

LEMMA Tipo_EsperarPlanificacion ==
  ASSUME TipoInv, EsperarPlanificacion
  PROVE  TipoInv'
<1> USE DEF EsperarPlanificacion, EnPcp,
            colas, info, planes, sems, cpus, hilos, externo
<1>1. pcp' \in TipoPcp
  BY DEF TipoInv, TypeOK, Manos, TipoPcp
<1>2. Manos'
  BY DEF TipoInv, TypeOK, Manos, Hilo
<1> QED BY <1>1, <1>2 DEF TipoInv, TypeOK

LEMMA Tipo_EsperarCpu ==
  ASSUME TipoInv, EsperarCpu
  PROVE  TipoInv'
<1> USE DEF EsperarCpu, EnPcp,
            colas, info, planes, sems, cpus, hilos, externo
<1>1. pcp' \in TipoPcp
  BY DEF TipoInv, TypeOK, Manos, TipoPcp
<1>2. semCPUs' \in Nat
  BY DEF TipoInv, TypeOK, Manos
<1>3. Manos'
  BY DEF TipoInv, TypeOK, Manos, Hilo
<1> QED BY <1>1, <1>2, <1>3 DEF TipoInv, TypeOK

LEMMA Tipo_ElegirCpu ==
  ASSUME TipoInv, ElegirCpu
  PROVE  TipoInv'
<1> USE DEF colas, info, planes, sems, cpus, hilos, externo
<1>1. CASE colaReady = <<>>
  BY <1>1 DEF ElegirCpu, Cae, TipoInv, TypeOK, Manos
<1>2. CASE colaReady # <<>>
  <2>1. Head(colaReady) \in Proc /\ Sacar(colaReady) \in Seq(Proc)
    BY <1>2, SacarTipo DEF TipoInv, TypeOK
  <2>2. CpuLibre \in Cpu \cup {Nadie}
    BY CpuLibreTipo DEF TipoInv
  <2>3. /\ pcp' = [pc |-> "despachar", cpu |-> CpuLibre, proc |-> Head(colaReady)]
        /\ colaReady' = Sacar(colaReady)
        /\ UNCHANGED <<colaNew, bloqueos, colaFinished, info, planes, sems, cpus, hilos,
                       externo, caido>>
    BY <1>2 DEF ElegirCpu
  <2>4. pcp' \in TipoPcp
    BY <2>1, <2>2, <2>3 DEF TipoPcp
  <2>5. Manos'
    BY <2>1, <2>3 DEF TipoInv, Manos
  <2> QED BY <2>1, <2>3, <2>4, <2>5 DEF TipoInv, TypeOK
<1> QED BY <1>1, <1>2

LEMMA Tipo_Despachar ==
  ASSUME TipoInv, Despachar
  PROVE  TipoInv'
<1> USE DEF colas, info, planes, sems, cpus, hilos, externo
<1>1. CASE pcp.cpu = Nadie
  BY <1>1 DEF Despachar, Cae, TipoInv, TypeOK, Manos
<1>2. CASE pcp.cpu # Nadie
  <2> DEFINE c == pcp.cpu
  <2>1. c \in Cpu /\ pcp.proc \in Proc
    BY <1>2 DEF Despachar, EnPcp, TipoInv, TypeOK, TipoPcp, Manos
  <2>2. /\ pcb' = [pcb EXCEPT ![c] = pcp.proc]
        /\ disponible' = [disponible EXCEPT ![c] = FALSE]
        /\ enCpu' = [enCpu EXCEPT ![c] = IF fase[c] = "ida" THEN @ ELSE pcp.proc]
        /\ pcp' = [pcp EXCEPT !.pc = "anotar"]
        /\ UNCHANGED <<colas, info, planes, sems, listaCPUs, hilos, fase, memoria, pasos,
                       condena, caido>>
    BY <1>2 DEF Despachar, Ocupar
  <2>3. pcp' \in TipoPcp /\ pcp'.proc = pcp.proc
    BY <2>2 DEF TipoInv, TypeOK, TipoPcp
  <2> HIDE DEF c
  <2>4. /\ pcb' \in [Cpu -> Proc \cup {Nadie}] /\ enCpu' \in [Cpu -> Proc \cup {Nadie}]
        /\ disponible' \in [Cpu -> BOOLEAN]
    BY <2>1, <2>2 DEF TipoInv, TypeOK
  <2>5. \A d \in Cpu : fase'[d] = "corre" => enCpu'[d] \in Proc
    BY <2>1, <2>2 DEF TipoInv, TypeOK, Manos
  <2>6. Manos'
    BY <2>1, <2>2, <2>3, <2>5 DEF TipoInv, Manos
  <2> QED BY <2>2, <2>3, <2>4, <2>6 DEF TipoInv, TypeOK
<1> QED BY <1>1, <1>2

LEMMA Tipo_AnotarExec ==
  ASSUME TipoInv, AnotarExec
  PROVE  TipoInv'
<1> USE DEF AnotarExec, Cae, EnPcp,
            colas, info, planes, sems, cpus, hilos, externo, TipoInv, TypeOK
<1>1. CASE ConInfo(pcp.proc)
  <2> USE <1>1
  <2>1. pcp' \in TipoPcp
    BY DEF Manos, TipoPcp
  <2>2. estado' \in [Proc -> Estados]
    BY DEF Manos, Estados
  <2>3. Manos'
    BY DEF Manos, Hilo
  <2> QED BY <2>1, <2>2, <2>3
<1>2. CASE ~ ConInfo(pcp.proc)
  <2> USE <1>2
  <2>1. caido' \in BOOLEAN
    BY DEF Manos
  <2>2. Manos'
    BY DEF Manos, Hilo
  <2> QED BY <2>1, <2>2
<1> QED BY <1>1, <1>2

LEMMA Tipo_Conectar ==
  ASSUME TipoInv, NEW c \in Cpu, Conectar(c)
  PROVE  TipoInv'
<1> USE DEF Conectar,
            colas, info, planes, sems, cpus, hilos, externo
<1>1. fase' \in [Cpu -> Fases]
  BY DEF TipoInv, TypeOK, Manos, Fases
<1>2. listaCPUs' \in Seq(Cpu)
  BY DEF TipoInv, TypeOK, Manos
<1>3. disponible' \in [Cpu -> BOOLEAN]
  BY DEF TipoInv, TypeOK, Manos
<1>4. semCPUs' \in Nat
  BY DEF TipoInv, TypeOK, Manos
<1>5. Manos'
  BY DEF TipoInv, TypeOK, Manos, Hilo
<1> QED BY <1>1, <1>2, <1>3, <1>4, <1>5 DEF TipoInv, TypeOK

LEMMA Tipo_ComenzarEjecucion ==
  ASSUME TipoInv, NEW c \in Cpu, ComenzarEjecucion(c)
  PROVE  TipoInv'
<1> USE DEF ComenzarEjecucion,
            colas, info, planes, sems, cpus, hilos, externo
<1>1. fase' \in [Cpu -> Fases]
  BY DEF TipoInv, TypeOK, Manos, Fases
<1>2. condena' \in [Proc -> Nat]
  BY DEF TipoInv, TypeOK, Manos
<1>3. Manos'
  BY DEF TipoInv, TypeOK, Manos, Hilo
<1> QED BY <1>1, <1>2, <1>3 DEF TipoInv, TypeOK

LEMMA Tipo_FinalizacionQuantum ==
  ASSUME TipoInv, NEW c \in Cpu, FinalizacionQuantum(c)
  PROVE  TipoInv'
<1> USE DEF colas, info, planes, sems, cpus, hilos, externo
<1> DEFINE p == enCpu[c]
<1>1. p \in Proc
  BY DEF FinalizacionQuantum, EnRafaga, TipoInv, Manos
<1>2. /\ Devuelve(c)
      /\ pasos' = [pasos EXCEPT ![p] = @ + 1]
      /\ UNCHANGED <<colaNew, bloqueos, matar, planes, sems, cpus, clave, quedan, tmp, pcp,
                     memoria, condena, caido>>
  BY DEF FinalizacionQuantum, Pide
<1>3. /\ \/ EmpiezaTerminar(c, p) /\ UNCHANGED colaReady
         \/ /\ colaReady' = Append(colaReady, p)
            /\ proc' = [proc EXCEPT ![c] = p]
            /\ pc' = [pc EXCEPT ![c] = "q_estado"]
            /\ UNCHANGED <<estado, colaFinished>>
  BY DEF FinalizacionQuantum, Ir
<1> HIDE DEF p
<1>4. pasos' \in [Proc -> Nat]
  BY <1>1, <1>2 DEF TipoInv, TypeOK
<1>5. /\ estado' \in [Proc -> Estados] /\ colaFinished' \in [Proc -> Nat]
      /\ colaReady' \in Seq(Proc)
      /\ proc' = [proc EXCEPT ![c] = p] /\ proc' \in [Hilo -> Proc \cup {Nadie}]
      /\ pc' \in [Hilo -> Donde]
      /\ \E d \in {"libera", "q_estado"} : pc' = [pc EXCEPT ![c] = d]
  <2>1. CASE EmpiezaTerminar(c, p) /\ UNCHANGED colaReady
    BY <1>1, <2>1, EmpiezaTerminarTipo DEF TipoInv, TypeOK
  <2>2. CASE /\ colaReady' = Append(colaReady, p)
             /\ proc' = [proc EXCEPT ![c] = p]
             /\ pc' = [pc EXCEPT ![c] = "q_estado"]
             /\ UNCHANGED <<estado, colaFinished>>
    BY <1>1, <2>2 DEF TipoInv, TypeOK, Hilo, Donde, PasosCpu
  <2> QED BY <1>3, <2>1, <2>2
<1>6. /\ fase' \in [Cpu -> Fases] /\ fase'[c] # "corre"
      /\ \A d \in Cpu \ {c} : fase'[d] = fase[d]
      /\ enCpu' = [enCpu EXCEPT ![c] = Nadie] /\ enCpu' \in [Cpu -> Proc \cup {Nadie}]
  BY <1>2, DevuelveTipo DEF TipoInv
<1>7. Manos'
  BY <1>2, <1>5, <1>6 DEF TipoInv, TypeOK, Manos, Hilo
<1> QED BY <1>2, <1>4, <1>5, <1>6, <1>7 DEF TipoInv, TypeOK

LEMMA Tipo_FinalizacionProceso ==
  ASSUME TipoInv, NEW c \in Cpu, FinalizacionProceso(c)
  PROVE  TipoInv'
<1> USE DEF FinalizacionProceso, EnRafaga, Devuelve, EmpiezaTerminar, Ir, En,
            colas, info, planes, sems, cpus, hilos, externo
<1>1. fase' \in [Cpu -> Fases]
  BY DEF TipoInv, TypeOK, Manos, Fases
<1>2. enCpu' \in [Cpu -> Proc \cup {Nadie}]
  BY DEF TipoInv, TypeOK, Manos
<1>3. estado' \in [Proc -> Estados]
  BY DEF TipoInv, TypeOK, Manos, Estados
<1>4. colaFinished' \in [Proc -> Nat]
  BY DEF TipoInv, TypeOK, Manos
<1>5. proc' \in [Hilo -> Proc \cup {Nadie}]
  BY DEF TipoInv, TypeOK, Manos, Hilo
<1>6. pc' \in [Hilo -> Donde]
  BY DEF TipoInv, TypeOK, Manos, Donde, EnPlanificador, PasosCpu, Hilo
<1>7. Manos'
  BY DEF TipoInv, TypeOK, Manos, Hilo
<1> QED BY <1>1, <1>2, <1>3, <1>4, <1>5, <1>6, <1>7 DEF TipoInv, TypeOK

LEMMA Tipo_PedirSemaforo ==
  ASSUME TipoInv, NEW c \in Cpu, NEW s \in Sem, PedirSemaforo(c, s)
  PROVE  TipoInv'
<1> USE DEF PedirSemaforo, EnRafaga, Pide, Ir, En,
            colas, info, planes, sems, cpus, hilos, externo
<1>1. pc' \in [Hilo -> Donde]
  BY DEF TipoInv, TypeOK, Manos, Donde, EnPlanificador, PasosCpu, Hilo
<1>2. clave' \in [Cpu -> Sem \cup {Nadie}]
  BY DEF TipoInv, TypeOK, Manos
<1>3. pasos' \in [Proc -> Nat]
  BY DEF TipoInv, TypeOK, Manos
<1>4. Manos'
  BY DEF TipoInv, TypeOK, Manos, Hilo
<1> QED BY <1>1, <1>2, <1>3, <1>4 DEF TipoInv, TypeOK

LEMMA Tipo_SinInfo ==
  ASSUME TipoInv, NEW c \in Cpu, SinInfo(c)
  PROVE  TipoInv'
<1> USE DEF SinInfo, Cae, En,
            colas, info, planes, sems, cpus, hilos, externo
<1>1. caido' \in BOOLEAN
  BY DEF TipoInv, TypeOK, Manos
<1>2. Manos'
  BY DEF TipoInv, TypeOK, Manos, Hilo
<1> QED BY <1>1, <1>2 DEF TipoInv, TypeOK

LEMMA Tipo_QuantumAnotarReady ==
  ASSUME TipoInv, NEW c \in Cpu, QuantumAnotarReady(c)
  PROVE  TipoInv'
<1> USE DEF QuantumAnotarReady, PostReady, Ir, En,
            colas, info, planes, sems, cpus, hilos, externo
<1>1. estado' \in [Proc -> Estados]
  BY DEF TipoInv, TypeOK, Manos, Estados
<1>2. semReady' \in Nat
  BY DEF TipoInv, TypeOK, Manos
<1>3. pc' \in [Hilo -> Donde]
  BY DEF TipoInv, TypeOK, Manos, Donde, EnPlanificador, PasosCpu, Hilo
<1>4. Manos'
  BY DEF TipoInv, TypeOK, Manos, Hilo
<1> QED BY <1>1, <1>2, <1>3, <1>4 DEF TipoInv, TypeOK

LEMMA Tipo_DesocuparCpu ==
  ASSUME TipoInv, NEW c \in Cpu, DesocuparCpu(c)
  PROVE  TipoInv'
<1> USE DEF DesocuparCpu, Desocupar, TerminaPlanificador, Ir, En,
            colas, info, planes, sems, cpus, hilos, externo
<1>1. disponible' \in [Cpu -> BOOLEAN]
  BY DEF TipoInv, TypeOK, Manos
<1>2. semCPUs' \in Nat
  BY DEF TipoInv, TypeOK, Manos
<1>3. pc' \in [Hilo -> Donde]
  BY DEF TipoInv, TypeOK, Manos, Donde, EnPlanificador, PasosCpu, Hilo
<1>4. proc' \in [Hilo -> Proc \cup {Nadie}]
  BY DEF TipoInv, TypeOK, Manos, Hilo
<1>5. quedan' \in [Hilo -> Int]
  BY DEF TipoInv, TypeOK, Manos, Hilo
<1>6. mutexSem' \in Cpu \cup {Nadie}
  BY DEF TipoInv, TypeOK, Manos
<1>7. Manos'
  BY DEF TipoInv, TypeOK, Manos, Hilo
<1> QED BY <1>1, <1>2, <1>3, <1>4, <1>5, <1>6, <1>7 DEF TipoInv, TypeOK

LEMMA Tipo_TerminarLiberar ==
  ASSUME TipoInv, NEW c \in Cpu, TerminarLiberar(c)
  PROVE  TipoInv'
<1> USE DEF TerminarLiberar, Desocupar, Ir, En,
            colas, info, planes, sems, cpus, hilos, externo
<1>1. disponible' \in [Cpu -> BOOLEAN]
  BY DEF TipoInv, TypeOK, Manos
<1>2. semCPUs' \in Nat
  BY DEF TipoInv, TypeOK, Manos
<1>3. memoria' \in [Proc -> Memorias]
  BY DEF TipoInv, TypeOK, Manos, Memorias
<1>4. pc' \in [Hilo -> Donde]
  BY DEF TipoInv, TypeOK, Manos, Donde, EnPlanificador, PasosCpu, Hilo
<1>5. Manos'
  BY DEF TipoInv, TypeOK, Manos, Hilo
<1> QED BY <1>1, <1>2, <1>3, <1>4, <1>5 DEF TipoInv, TypeOK

LEMMA Tipo_LeerCantResta ==
  ASSUME TipoInv, NEW c \in Cpu, LeerCantResta(c)
  PROVE  TipoInv'
<1> USE DEF LeerCantResta, Ir, En,
            colas, info, planes, sems, cpus, hilos, externo
<1>1. pc' \in [Hilo -> Donde]
  BY DEF TipoInv, TypeOK, Manos, Donde, EnPlanificador, PasosCpu, Hilo
<1>2. tmp' \in [Hilo -> Int]
  BY DEF TipoInv, TypeOK, Manos, Hilo
<1>3. Manos'
  BY DEF TipoInv, TypeOK, Manos, Hilo
<1> QED BY <1>1, <1>2, <1>3 DEF TipoInv, TypeOK

LEMMA Tipo_GuardarCantResta ==
  ASSUME TipoInv, NEW c \in Cpu, GuardarCantResta(c)
  PROVE  TipoInv'
<1> USE DEF GuardarCantResta, Ir, En,
            colas, info, planes, sems, cpus, hilos, externo
<1>1. pc' \in [Hilo -> Donde]
  BY DEF TipoInv, TypeOK, Manos, Donde, EnPlanificador, PasosCpu, Hilo
<1>2. cant' \in Int
  BY DEF TipoInv, TypeOK, Manos
<1>3. tmp' \in [Hilo -> Int]
  BY DEF TipoInv, TypeOK, Manos, Hilo
<1>4. Manos'
  BY DEF TipoInv, TypeOK, Manos, Hilo
<1> QED BY <1>1, <1>2, <1>3, <1>4 DEF TipoInv, TypeOK

LEMMA Tipo_RealizarSignal ==
  ASSUME TipoInv, NEW c \in Cpu, RealizarSignal(c)
  PROVE  TipoInv'
<1> USE DEF colas, info, planes, sems, cpus, hilos, externo
<1> DEFINE s == clave[c]
<1>1. s \in Sem
  BY DEF RealizarSignal, En, TipoInv, Manos
<1>2. /\ semaforos' = [semaforos EXCEPT ![s] = @ + 1]
      /\ clave' = [clave EXCEPT ![c] = Nadie]
      /\ UNCHANGED <<colaNew, colaFinished, info, planes, semReady, semCPUs, cpus, quedan,
                     tmp, pcp, externo, caido>>
  BY DEF RealizarSignal
<1>3. \/ /\ bloqueos[s] # <<>>
         /\ colaReady' = Append(colaReady, Head(bloqueos[s]))
         /\ bloqueos' = [bloqueos EXCEPT ![s] = Sacar(@)]
         /\ proc' = [proc EXCEPT ![c] = Head(bloqueos[s])]
         /\ mutexSem' = c
         /\ pc' = [pc EXCEPT ![c] = "s_estado"]
      \/ /\ pc' = [pc EXCEPT ![c] = "libre"]
         /\ UNCHANGED <<colaReady, bloqueos, proc, mutexSem>>
  BY DEF RealizarSignal, Ir
<1> HIDE DEF s
<1>4. semaforos' \in [Sem -> Int] /\ clave' \in [Cpu -> Sem \cup {Nadie}]
  BY <1>1, <1>2 DEF TipoInv, TypeOK
<1>5. /\ colaReady' \in Seq(Proc) /\ bloqueos' \in [Sem -> Seq(Proc)]
      /\ proc' \in [Hilo -> Proc \cup {Nadie}]
      /\ mutexSem' \in Cpu \cup {Nadie} /\ pc' \in [Hilo -> Donde]
      /\ \A h \in Hilo : pc'[h] = "memoria" => proc'[h] \in Proc
      /\ \E d \in {"s_estado", "libre"} : pc' = [pc EXCEPT ![c] = d]
  <2>1. CASE /\ bloqueos[s] # <<>>
             /\ colaReady' = Append(colaReady, Head(bloqueos[s]))
             /\ bloqueos' = [bloqueos EXCEPT ![s] = Sacar(@)]
             /\ proc' = [proc EXCEPT ![c] = Head(bloqueos[s])]
             /\ mutexSem' = c
             /\ pc' = [pc EXCEPT ![c] = "s_estado"]
    <3>1. Head(bloqueos[s]) \in Proc /\ Sacar(bloqueos[s]) \in Seq(Proc)
      BY <1>1, <2>1, SacarTipo DEF TipoInv, TypeOK
    <3>2. colaReady' \in Seq(Proc) /\ bloqueos' \in [Sem -> Seq(Proc)]
      BY <1>1, <2>1, <3>1 DEF TipoInv, TypeOK
    <3>3. /\ proc' \in [Hilo -> Proc \cup {Nadie}] /\ pc' \in [Hilo -> Donde]
          /\ \A h \in Hilo : pc'[h] = "memoria" => proc'[h] \in Proc
      BY <2>1, <3>1 DEF TipoInv, TypeOK, Manos, Hilo, Donde, PasosCpu
    <3> QED BY <2>1, <3>2, <3>3
  <2>2. CASE /\ pc' = [pc EXCEPT ![c] = "libre"]
             /\ UNCHANGED <<colaReady, bloqueos, proc, mutexSem>>
    BY <2>2 DEF TipoInv, TypeOK, Manos, Hilo, Donde
  <2> QED BY <1>3, <2>1, <2>2
<1>6. Manos'
  BY <1>2, <1>5 DEF TipoInv, TypeOK, Manos, Hilo
<1> QED BY <1>2, <1>4, <1>5, <1>6 DEF TipoInv, TypeOK

LEMMA Tipo_SignalAnotarReady ==
  ASSUME TipoInv, NEW c \in Cpu, SignalAnotarReady(c)
  PROVE  TipoInv'
<1> USE DEF SignalAnotarReady, PostReady, TerminaPlanificador, Ir, En,
            colas, info, planes, sems, cpus, hilos, externo
<1>1. estado' \in [Proc -> Estados]
  BY DEF TipoInv, TypeOK, Manos, Estados
<1>2. semReady' \in Nat
  BY DEF TipoInv, TypeOK, Manos
<1>3. pc' \in [Hilo -> Donde]
  BY DEF TipoInv, TypeOK, Manos, Donde, EnPlanificador, PasosCpu, Hilo
<1>4. proc' \in [Hilo -> Proc \cup {Nadie}]
  BY DEF TipoInv, TypeOK, Manos, Hilo
<1>5. quedan' \in [Hilo -> Int]
  BY DEF TipoInv, TypeOK, Manos, Hilo
<1>6. mutexSem' \in Cpu \cup {Nadie}
  BY DEF TipoInv, TypeOK, Manos
<1>7. Manos'
  BY DEF TipoInv, TypeOK, Manos, Hilo
<1> QED BY <1>1, <1>2, <1>3, <1>4, <1>5, <1>6, <1>7 DEF TipoInv, TypeOK

LEMMA Tipo_RealizarWait ==
  ASSUME TipoInv, NEW c \in Cpu, RealizarWait(c)
  PROVE  TipoInv'
<1> USE DEF RealizarWait, Ir, En,
            colas, info, planes, sems, cpus, hilos, externo, TipoInv, TypeOK
<1>1. CASE DebeBloquear(semaforos[clave[c]] - 1)
  <2> USE <1>1
  <2>1. semaforos' \in [Sem -> Int]
    BY DEF Manos
  <2>2. mutexSem' \in Cpu \cup {Nadie}
    BY DEF Manos
  <2>3. pc' \in [Hilo -> Donde]
    BY DEF Manos, Donde, EnPlanificador, PasosCpu
  <2>4. Manos'
    BY DEF Manos, Hilo
  <2> QED BY <2>1, <2>2, <2>3, <2>4
<1>2. CASE ~ DebeBloquear(semaforos[clave[c]] - 1)
  <2> USE <1>2
  <2>1. semaforos' \in [Sem -> Int]
    BY DEF Manos
  <2>2. clave' \in [Cpu -> Sem \cup {Nadie}]
    BY DEF Manos
  <2>3. pc' \in [Hilo -> Donde]
    BY DEF Manos, Donde, EnPlanificador, PasosCpu
  <2>4. Manos'
    BY DEF Manos, Hilo
  <2> QED BY <2>1, <2>2, <2>3, <2>4
<1> QED BY <1>1, <1>2

LEMMA Tipo_RecibirBloqueado ==
  ASSUME TipoInv, NEW c \in Cpu, RecibirBloqueado(c)
  PROVE  TipoInv'
<1> USE DEF colas, info, planes, sems, cpus, hilos, externo
<1> DEFINE p == enCpu[c]
           s == clave[c]
<1>1. p \in Proc /\ s \in Sem
  BY DEF RecibirBloqueado, En, TipoInv, Manos
<1>2. /\ Devuelve(c)
      /\ clave' = [clave EXCEPT ![c] = Nadie]
      /\ UNCHANGED <<colaNew, colaReady, matar, planes, sems, cpus, quedan, tmp, pcp,
                     memoria, pasos, condena, caido>>
  BY DEF RecibirBloqueado
<1>3. \/ EmpiezaTerminar(c, p) /\ UNCHANGED bloqueos
      \/ /\ bloqueos' = [bloqueos EXCEPT ![s] = Append(@, p)]
         /\ estado' = [estado EXCEPT ![p] = "BLOQ"]
         /\ pc' = [pc EXCEPT ![c] = "desocupa"]
         /\ UNCHANGED <<proc, colaFinished>>
  BY DEF RecibirBloqueado, Ir
<1> HIDE DEF p, s
<1>4. clave' \in [Cpu -> Sem \cup {Nadie}]
  BY <1>2 DEF TipoInv, TypeOK
<1>5. /\ estado' \in [Proc -> Estados] /\ colaFinished' \in [Proc -> Nat]
      /\ bloqueos' \in [Sem -> Seq(Proc)]
      /\ proc' \in [Hilo -> Proc \cup {Nadie}] /\ pc' \in [Hilo -> Donde]
      /\ \A h \in Hilo : pc'[h] = "memoria" => proc'[h] \in Proc
      /\ \E d \in {"libera", "desocupa"} : pc' = [pc EXCEPT ![c] = d]
  <2>1. CASE EmpiezaTerminar(c, p) /\ UNCHANGED bloqueos
    BY <1>1, <2>1, EmpiezaTerminarTipo DEF TipoInv, TypeOK, Manos, Hilo
  <2>2. CASE /\ bloqueos' = [bloqueos EXCEPT ![s] = Append(@, p)]
             /\ estado' = [estado EXCEPT ![p] = "BLOQ"]
             /\ pc' = [pc EXCEPT ![c] = "desocupa"]
             /\ UNCHANGED <<proc, colaFinished>>
    <3>1. Append(bloqueos[s], p) \in Seq(Proc)
      BY <1>1 DEF TipoInv, TypeOK
    <3>2. bloqueos' \in [Sem -> Seq(Proc)]
      BY <1>1, <2>2, <3>1 DEF TipoInv, TypeOK
    <3>3. estado' \in [Proc -> Estados]
      BY <2>2 DEF TipoInv, TypeOK, Estados
    <3>4. /\ pc' \in [Hilo -> Donde]
          /\ \A h \in Hilo : pc'[h] = "memoria" => proc'[h] \in Proc
      BY <2>2 DEF TipoInv, TypeOK, Manos, Hilo, Donde, PasosCpu
    <3> QED BY <2>2, <3>2, <3>3, <3>4 DEF TipoInv, TypeOK
  <2> QED BY <1>3, <2>1, <2>2
<1>6. /\ fase' \in [Cpu -> Fases] /\ fase'[c] # "corre"
      /\ \A d \in Cpu \ {c} : fase'[d] = fase[d]
      /\ enCpu' = [enCpu EXCEPT ![c] = Nadie] /\ enCpu' \in [Cpu -> Proc \cup {Nadie}]
  BY <1>2, DevuelveTipo DEF TipoInv
<1>7. Manos'
  BY <1>2, <1>5, <1>6 DEF TipoInv, TypeOK, Manos, Hilo
<1> QED BY <1>2, <1>4, <1>5, <1>6, <1>7 DEF TipoInv, TypeOK

LEMMA Tipo_BloqueadoNoLlega ==
  ASSUME TipoInv, NEW c \in Cpu, BloqueadoNoLlega(c)
  PROVE  TipoInv'
<1> USE DEF BloqueadoNoLlega, TerminaPlanificador, Ir, En,
            colas, info, planes, sems, cpus, hilos, externo
<1>1. clave' \in [Cpu -> Sem \cup {Nadie}]
  BY DEF TipoInv, TypeOK, Manos
<1>2. pc' \in [Hilo -> Donde]
  BY DEF TipoInv, TypeOK, Manos, Donde, EnPlanificador, PasosCpu, Hilo
<1>3. proc' \in [Hilo -> Proc \cup {Nadie}]
  BY DEF TipoInv, TypeOK, Manos, Hilo
<1>4. quedan' \in [Hilo -> Int]
  BY DEF TipoInv, TypeOK, Manos, Hilo
<1>5. mutexSem' \in Cpu \cup {Nadie}
  BY DEF TipoInv, TypeOK, Manos
<1>6. Manos'
  BY DEF TipoInv, TypeOK, Manos, Hilo
<1> QED BY <1>1, <1>2, <1>3, <1>4, <1>5, <1>6 DEF TipoInv, TypeOK

LEMMA Tipo_EliminarCpu ==
  ASSUME TipoInv, NEW c \in Cpu, EliminarCpu(c)
  PROVE  TipoInv'
<1> USE DEF EliminarCpu, Cae, En,
            colas, info, planes, sems, cpus, hilos, externo
<1>1. fase' \in [Cpu -> Fases]
  BY DEF TipoInv, TypeOK, Manos, Fases
<1>2. listaCPUs' \in Seq(Cpu)
  BY SinCpuTipo DEF TipoInv, TypeOK, Manos
<1>3. caido' \in BOOLEAN
  BY DEF TipoInv, TypeOK, Manos
<1>4. Manos'
  BY DEF TipoInv, TypeOK, Manos, Hilo
<1> QED BY <1>1, <1>2, <1>3, <1>4 DEF TipoInv, TypeOK

LEMMA Tipo_CpuCaida ==
  ASSUME TipoInv, NEW c \in Cpu, CpuCaida(c)
  PROVE  TipoInv'
<1> USE DEF colas, info, planes, sems, cpus, hilos, externo
<1>1. /\ fase' = [fase EXCEPT ![c] = "ida"]
      /\ listaCPUs' = SinCpu(c)
      /\ UNCHANGED <<colaNew, colaReady, bloqueos, matar, planes, sems, disponible, pcb,
                     clave, quedan, tmp, pcp, memoria, pasos, condena, caido>>
  BY DEF CpuCaida
<1>2. fase' \in [Cpu -> Fases] /\ listaCPUs' \in Seq(Cpu)
  BY <1>1, SinCpuTipo DEF TipoInv, TypeOK, Fases
<1>3. /\ estado' \in [Proc -> Estados] /\ colaFinished' \in [Proc -> Nat]
      /\ proc' \in [Hilo -> Proc \cup {Nadie}] /\ pc' \in [Hilo -> Donde]
      /\ enCpu' \in [Cpu -> Proc \cup {Nadie}]
      /\ \A h \in Hilo \ {c} : proc'[h] = proc[h]
      /\ \A d \in Cpu \ {c} : enCpu'[d] = enCpu[d]
      /\ \E d \in {"libera", "libre", "caida"} : pc' = [pc EXCEPT ![c] = d]
  <2>1. CASE /\ pc' = [pc EXCEPT ![c] = "caida"]
             /\ UNCHANGED <<estado, colaFinished, proc, enCpu>>
    BY <2>1 DEF TipoInv, TypeOK, Hilo, Donde, PasosCpu
  <2>2. CASE TerminarSiTenia(c)
    BY <2>2, TerminarSiTeniaTipo DEF TipoInv
  <2> QED BY <2>1, <2>2 DEF CpuCaida, Ir
<1>4. Manos'
  BY <1>1, <1>3 DEF TipoInv, TypeOK, Manos, Hilo
<1> QED BY <1>1, <1>2, <1>3, <1>4 DEF TipoInv, TypeOK

LEMMA Tipo_CpuCaidaEspera ==
  ASSUME TipoInv, NEW c \in Cpu, CpuCaidaEspera(c)
  PROVE  TipoInv'
<1> USE DEF colas, info, planes, sems, cpus, hilos, externo
<1>1. /\ TerminarSiTenia(c) /\ pc[c] = "caida" /\ fase[c] = "ida"
      /\ semCPUs > 0 /\ semCPUs' = semCPUs - 1
      /\ UNCHANGED <<colaNew, colaReady, bloqueos, matar, planes, semReady, semaforos,
                     mutexSem, cpus, clave, quedan, tmp, pcp, fase, memoria, pasos,
                     condena, caido>>
  BY DEF CpuCaidaEspera, En, TipoInv, Manos
<1>2. semCPUs' \in Nat
  BY <1>1 DEF TipoInv, TypeOK
<1>3. /\ estado' \in [Proc -> Estados] /\ colaFinished' \in [Proc -> Nat]
      /\ proc' \in [Hilo -> Proc \cup {Nadie}] /\ pc' \in [Hilo -> Donde]
      /\ enCpu' \in [Cpu -> Proc \cup {Nadie}]
      /\ \A h \in Hilo \ {c} : proc'[h] = proc[h]
      /\ \A d \in Cpu \ {c} : enCpu'[d] = enCpu[d]
      /\ \E d \in {"libera", "libre"} : pc' = [pc EXCEPT ![c] = d]
  BY <1>1, TerminarSiTeniaTipo DEF TipoInv
<1>4. Manos'
  BY <1>1, <1>3 DEF TipoInv, TypeOK, Manos, Hilo
<1> QED BY <1>1, <1>2, <1>3, <1>4 DEF TipoInv, TypeOK

LEMMA Tipo_Sigusr1 ==
  ASSUME TipoInv, NEW c \in Cpu, Sigusr1(c)
  PROVE  TipoInv'
<1> USE DEF Sigusr1,
            colas, info, planes, sems, cpus, hilos, externo
<1>1. fase' \in [Cpu -> Fases]
  BY DEF TipoInv, TypeOK, Manos, Fases
<1>2. Manos'
  BY DEF TipoInv, TypeOK, Manos, Hilo
<1> QED BY <1>1, <1>2 DEF TipoInv, TypeOK

LEMMA Tipo_CpuMuere ==
  ASSUME TipoInv, NEW c \in Cpu, CpuMuere(c)
  PROVE  TipoInv'
<1> USE DEF CpuMuere,
            colas, info, planes, sems, cpus, hilos, externo
<1>1. fase' \in [Cpu -> Fases]
  BY DEF TipoInv, TypeOK, Manos, Fases
<1>2. Manos'
  BY DEF TipoInv, TypeOK, Manos, Hilo
<1> QED BY <1>1, <1>2 DEF TipoInv, TypeOK

LEMMA Tipo_KillProcess ==
  ASSUME TipoInv, NEW p \in Proc, KillProcess(p)
  PROVE  TipoInv'
<1> USE DEF KillProcess,
            colas, info, planes, sems, cpus, hilos, externo
<1>1. matar' \in [Proc -> BOOLEAN]
  BY DEF TipoInv, TypeOK, Manos
<1>2. Manos'
  BY DEF TipoInv, TypeOK, Manos, Hilo
<1> QED BY <1>1, <1>2 DEF TipoInv, TypeOK

LEMMA Tipo_GradoMultiprogramacion ==
  ASSUME TipoInv, GradoMultiprogramacion
  PROVE  TipoInv'
<1> USE DEF GradoMultiprogramacion, Ir, En,
            colas, info, planes, sems, cpus, hilos, externo
<1>1. grado' \in Int
  BY PlanificadorAssumption DEF TipoInv, TypeOK, Manos
<1>2. pc' \in [Hilo -> Donde]
  BY DEF TipoInv, TypeOK, Manos, Donde, EnPlanificador, PasosCpu, Hilo
<1>3. Manos'
  BY DEF TipoInv, TypeOK, Manos, Hilo
<1> QED BY <1>1, <1>2, <1>3 DEF TipoInv, TypeOK

LEMMA Tipo_StopPlanification ==
  ASSUME TipoInv, StopPlanification
  PROVE  TipoInv'
<1> USE DEF StopPlanification, En,
            colas, info, planes, sems, cpus, hilos, externo
<1>1. planActiva' \in BOOLEAN
  BY DEF TipoInv, TypeOK, Manos
<1>2. Manos'
  BY DEF TipoInv, TypeOK, Manos, Hilo
<1> QED BY <1>1, <1>2 DEF TipoInv, TypeOK

-----------------------------------------------------------------------------
\* Type correctness.

LEMMA Tipo_Init == Init => TipoInv
<1> SUFFICES ASSUME Init PROVE TipoInv
  OBVIOUS
<1>1. pc \in [Hilo -> Donde]
  BY DEF Init, Donde
<1>2. /\ estado \in [Proc -> Estados] /\ fase \in [Cpu -> Fases]
      /\ memoria \in [Proc -> Memorias] /\ pcp \in TipoPcp
  BY DEF Init, Estados, Fases, Memorias, TipoPcp
<1>3. SemInit \in [Sem -> Int] /\ GradoInicial \in Int
  BY PlanificadorAssumption
<1>4. semaforos \in [Sem -> Int] /\ cant \in Int /\ grado \in Int
  <2>1. semaforos = SemInit /\ cant = 0 /\ grado = GradoInicial
    BY DEF Init
  <2> QED BY <1>3, <2>1
<1>5. bloqueos \in [Sem -> Seq(Proc)]
  <2>1. <<>> \in Seq(Proc)
    OBVIOUS
  <2>2. bloqueos = [s \in Sem |-> <<>>]
    BY DEF Init
  <2> QED BY <2>1, <2>2
<1>6. colaNew \in Seq(Proc) /\ colaReady \in Seq(Proc) /\ listaCPUs \in Seq(Cpu)
  <2>1. colaNew = <<>> /\ colaReady = <<>> /\ listaCPUs = <<>>
    BY DEF Init
  <2> QED BY <2>1
<1>7. /\ colaFinished \in [Proc -> Nat]
      /\ pasos \in [Proc -> Nat] /\ condena \in [Proc -> Nat]
      /\ quedan \in [Hilo -> Int] /\ tmp \in [Hilo -> Int]
      /\ semReady \in Nat /\ semCPUs \in Nat
  <2>1. /\ colaFinished \in [Proc -> Nat]
        /\ pasos \in [Proc -> Nat] /\ condena \in [Proc -> Nat]
    BY DEF Init
  <2>2. quedan \in [Hilo -> Int] /\ tmp \in [Hilo -> Int]
    <3>1. quedan = [h \in Hilo |-> 0] /\ tmp = [h \in Hilo |-> 0]
      BY DEF Init
    <3> QED BY <3>1
  <2>3. semReady \in Nat /\ semCPUs \in Nat
    BY DEF Init
  <2> QED BY <2>1, <2>2, <2>3
<1>8. /\ matar \in [Proc -> BOOLEAN] /\ disponible \in [Cpu -> BOOLEAN]
      /\ planActiva \in BOOLEAN /\ caido \in BOOLEAN
  BY DEF Init
<1>9. /\ mutexSem \in Cpu \cup {Nadie} /\ clave \in [Cpu -> Sem \cup {Nadie}]
      /\ pcb \in [Cpu -> Proc \cup {Nadie}] /\ enCpu \in [Cpu -> Proc \cup {Nadie}]
      /\ proc \in [Hilo -> Proc \cup {Nadie}]
  BY DEF Init
<1>10. TypeOK
  BY <1>1, <1>2, <1>4, <1>5, <1>6, <1>7, <1>8, <1>9 DEF TypeOK
<1>11. Manos
  BY DEF Init, Manos, Hilo
<1> QED BY <1>10, <1>11 DEF TipoInv

LEMMA Tipo_Paso == TipoInv /\ [Next]_vars => TipoInv'
<1> SUFFICES ASSUME TipoInv, [Next]_vars PROVE TipoInv'
  OBVIOUS
<1>1. ASSUME NEW p \in Proc, HiloConsola(p) PROVE TipoInv'
  BY <1>1, Tipo_EnvioCodigo, Tipo_CrearInfoEstadistica DEF HiloConsola
<1>2. ASSUME NEW h \in Hilo, LargoPlazo(h) PROVE TipoInv'
  BY <1>2, Tipo_EmpezarLargoPlazo, Tipo_SacarDeNew, Tipo_MemoriaAcepta, Tipo_MemoriaRechaza,
     Tipo_AnotarReady, Tipo_EnvioCodigoMemoria, Tipo_LeerCantSuma, Tipo_GuardarCantSuma
     DEF LargoPlazo
<1>3. CASE CortoPlazo
  BY <1>3, Tipo_EsperarReady, Tipo_EsperarPlanificacion, Tipo_EsperarCpu, Tipo_ElegirCpu,
     Tipo_Despachar, Tipo_AnotarExec DEF CortoPlazo
<1>4. ASSUME NEW c \in Cpu, PedidoCpu(c) PROVE TipoInv'
  BY <1>4, Tipo_FinalizacionQuantum, Tipo_FinalizacionProceso, Tipo_PedirSemaforo,
     Tipo_SinInfo DEF PedidoCpu
<1>5. ASSUME NEW c \in Cpu, HiloCpu(c) PROVE TipoInv'
  BY <1>5, Tipo_QuantumAnotarReady, Tipo_DesocuparCpu, Tipo_TerminarLiberar,
     Tipo_LeerCantResta, Tipo_GuardarCantResta, Tipo_RealizarSignal, Tipo_SignalAnotarReady,
     Tipo_RealizarWait, Tipo_RecibirBloqueado, Tipo_BloqueadoNoLlega, Tipo_EliminarCpu,
     Tipo_CpuCaida, Tipo_CpuCaidaEspera DEF HiloCpu
<1>6. ASSUME NEW c \in Cpu,
             Conectar(c) \/ ComenzarEjecucion(c) \/ Sigusr1(c) \/ CpuMuere(c)
      PROVE  TipoInv'
  BY <1>6, Tipo_Conectar, Tipo_ComenzarEjecucion, Tipo_Sigusr1, Tipo_CpuMuere
<1>7. CASE Operador
  BY <1>7, Tipo_KillProcess, Tipo_GradoMultiprogramacion, Tipo_StopPlanification DEF Operador
<1>8. CASE UNCHANGED vars
  BY <1>8 DEF vars, colas, info, planes, sems, cpus, hilos, externo, TipoInv, TypeOK, Manos
<1> QED BY <1>1, <1>2, <1>3, <1>4, <1>5, <1>6, <1>7, <1>8 DEF Next

\* Every variable of the kernel keeps its type, and nobody uses an empty hand:
\* a planner that talks to memory has a program, a CPU in a burst has a PCB.
THEOREM TipoSiempre == Spec => []TipoInv
BY Tipo_Init, Tipo_Paso, PTL DEF Spec

\* The type invariant the runs check.
THEOREM TipoCorrecto == Spec => []TypeOK
<1>1. TipoInv => TypeOK
  BY DEF TipoInv
<1> QED BY <1>1, TipoSiempre, PTL

-----------------------------------------------------------------------------
\* TicketsDeReady.  A handler publishes a program when it has put it in
\* colaReady and posts afterwards; PorPublicar is the set of those that are
\* between the two.  The lemmas say how it changes when one thread steps.

Publica == {"q_estado", "s_estado"}

\* The counters of TicketsDeReady are numbers.
LEMMA PublicarFinito ==
  PorPublicar \subseteq Cpu /\ IsFiniteSet(PorPublicar) /\ Cardinality(PorPublicar) \in Nat
<1>1. PorPublicar \subseteq Cpu /\ IsFiniteSet(Cpu)
  BY PlanificadorAssumption DEF PorPublicar
<1> QED BY <1>1, FS_Subset, FS_CardinalityType

\* A handler starts to publish.
LEMMA EmpiezaPublicar ==
  ASSUME TypeOK, NEW c \in Cpu, NEW d \in Publica,
         pc[c] \notin Publica, pc' = [pc EXCEPT ![c] = d]
  PROVE  Cardinality(PorPublicar)' = Cardinality(PorPublicar) + 1
<1>1. c \notin PorPublicar /\ PorPublicar' = PorPublicar \cup {c}
  BY DEF PorPublicar, Publica, TypeOK, Hilo
<1> QED BY <1>1, PublicarFinito, FS_AddElement

\* A handler posts.
LEMMA TerminaPublicar ==
  ASSUME TypeOK, NEW c \in Cpu, NEW d \in Donde \ Publica,
         pc[c] \in Publica, pc' = [pc EXCEPT ![c] = d]
  PROVE  Cardinality(PorPublicar)' = Cardinality(PorPublicar) - 1
<1>1. c \in PorPublicar /\ PorPublicar' = PorPublicar \ {c}
  BY DEF PorPublicar, Publica, TypeOK, Hilo
<1> QED BY <1>1, PublicarFinito, FS_RemoveElement

\* Any other step of a thread publishes nothing.
LEMMA NoPublica ==
  ASSUME TypeOK, NEW h \in Hilo, NEW d \in Donde \ Publica,
         pc[h] \notin Publica, pc' = [pc EXCEPT ![h] = d]
  PROVE  PorPublicar' = PorPublicar
BY DEF PorPublicar, Publica, TypeOK, Hilo

\* A step that touches neither the queue nor its semaphore.
LEMMA PasoAjeno ==
  ASSUME TypeOK, TicketsDeReady, UNCHANGED <<colaReady, semReady, pcp>>,
         \/ UNCHANGED pc
         \/ \E h \in Hilo, d \in Donde \ Publica :
              pc[h] \notin Publica /\ pc' = [pc EXCEPT ![h] = d]
  PROVE  TicketsDeReady'
<1>1. PorPublicar' = PorPublicar
  BY NoPublica DEF PorPublicar
<1> QED BY <1>1 DEF TicketsDeReady, ConTicket

-----------------------------------------------------------------------------
\* The steps that put a program in colaReady, take one or post.

LEMMA Tickets_MemoriaAcepta ==
  ASSUME TipoInv, TicketsDeReady, NEW h \in Hilo, MemoriaAcepta(h)
  PROVE  TicketsDeReady'
<1>1. /\ proc[h] \in Proc /\ pc[h] \notin Publica
      /\ colaReady' = Append(colaReady, proc[h]) /\ semReady' = semReady + 1
      /\ pc' = [pc EXCEPT ![h] = "listo"] /\ pcp' = pcp
  BY DEF MemoriaAcepta, PostReady, Ir, En, TipoInv, Manos, Publica
<1>2. PorPublicar' = PorPublicar
  BY <1>1, NoPublica DEF TipoInv, Donde, EnPlanificador, Publica
<1>3. Len(colaReady') = Len(colaReady) + 1
  BY <1>1 DEF TipoInv, TypeOK
<1>4. semReady \in Nat /\ Cardinality(PorPublicar) \in Nat /\ ConTicket \in Nat
  BY PublicarFinito DEF TipoInv, TypeOK, ConTicket
<1>5. ConTicket' = ConTicket
  BY <1>1 DEF ConTicket
<1> QED BY <1>1, <1>2, <1>3, <1>4, <1>5 DEF TicketsDeReady

LEMMA Tickets_FinalizacionQuantum ==
  ASSUME TipoInv, TicketsDeReady, NEW c \in Cpu, FinalizacionQuantum(c)
  PROVE  TicketsDeReady'
<1>1. enCpu[c] \in Proc /\ pc[c] \notin Publica /\ UNCHANGED <<semReady, pcp>>
  BY DEF FinalizacionQuantum, EnRafaga, En, TipoInv, Manos, Publica, sems
<1>2. CASE UNCHANGED colaReady /\ pc' = [pc EXCEPT ![c] = "libera"]
  BY <1>1, <1>2, PasoAjeno DEF TipoInv, Hilo, Donde, PasosCpu, Publica
<1>3. CASE /\ colaReady' = Append(colaReady, enCpu[c])
           /\ pc' = [pc EXCEPT ![c] = "q_estado"]
  <2>1. Cardinality(PorPublicar)' = Cardinality(PorPublicar) + 1
    BY <1>1, <1>3, EmpiezaPublicar DEF TipoInv, Publica
  <2>2. Len(colaReady') = Len(colaReady) + 1
    BY <1>1, <1>3 DEF TipoInv, TypeOK
  <2>3. semReady \in Nat /\ Cardinality(PorPublicar) \in Nat /\ ConTicket \in Nat
    BY PublicarFinito DEF TipoInv, TypeOK, ConTicket
  <2> QED BY <1>1, <2>1, <2>2, <2>3 DEF TicketsDeReady, ConTicket
<1> QED BY <1>2, <1>3 DEF FinalizacionQuantum, EmpiezaTerminar, Ir

LEMMA Tickets_QuantumAnotarReady ==
  ASSUME TipoInv, TicketsDeReady, NEW c \in Cpu, QuantumAnotarReady(c)
  PROVE  TicketsDeReady'
<1>1. /\ pc[c] \in Publica /\ pc' = [pc EXCEPT ![c] = "desocupa"]
      /\ semReady' = semReady + 1 /\ UNCHANGED <<colaReady, pcp>>
  BY DEF QuantumAnotarReady, PostReady, Ir, En, Publica, colas
<1>2. Cardinality(PorPublicar)' = Cardinality(PorPublicar) - 1
  BY <1>1, TerminaPublicar DEF TipoInv, Donde, PasosCpu, Publica
<1>3. semReady \in Nat /\ Cardinality(PorPublicar) \in Nat /\ ConTicket \in Nat
  BY PublicarFinito DEF TipoInv, TypeOK, ConTicket
<1> QED BY <1>1, <1>2, <1>3 DEF TicketsDeReady, ConTicket

LEMMA Tickets_RealizarSignal ==
  ASSUME TipoInv, TicketsDeReady, NEW c \in Cpu, RealizarSignal(c)
  PROVE  TicketsDeReady'
<1> DEFINE s == clave[c]
<1>1. s \in Sem /\ pc[c] \notin Publica /\ UNCHANGED <<semReady, pcp>>
  BY DEF RealizarSignal, En, TipoInv, Manos, Publica
<1>2. CASE /\ bloqueos[s] # <<>>
           /\ colaReady' = Append(colaReady, Head(bloqueos[s]))
           /\ pc' = [pc EXCEPT ![c] = "s_estado"]
  <2>1. Cardinality(PorPublicar)' = Cardinality(PorPublicar) + 1
    BY <1>1, <1>2, EmpiezaPublicar DEF TipoInv, Publica
  <2>2. Head(bloqueos[s]) \in Proc
    BY <1>1, <1>2, SacarTipo DEF TipoInv, TypeOK
  <2>3. Len(colaReady') = Len(colaReady) + 1
    BY <1>2, <2>2 DEF TipoInv, TypeOK
  <2>4. semReady \in Nat /\ Cardinality(PorPublicar) \in Nat /\ ConTicket \in Nat
    BY PublicarFinito DEF TipoInv, TypeOK, ConTicket
  <2> QED BY <1>1, <2>1, <2>3, <2>4 DEF TicketsDeReady, ConTicket
<1>3. CASE UNCHANGED colaReady /\ pc' = [pc EXCEPT ![c] = "libre"]
  BY <1>1, <1>3, PasoAjeno DEF TipoInv, Hilo, Donde, Publica
<1> QED BY <1>2, <1>3 DEF RealizarSignal, Ir

LEMMA Tickets_SignalAnotarReady ==
  ASSUME TipoInv, TicketsDeReady, NEW c \in Cpu, SignalAnotarReady(c)
  PROVE  TicketsDeReady'
<1>1. /\ pc[c] \in Publica /\ pc' = [pc EXCEPT ![c] = "libre"]
      /\ semReady' = semReady + 1 /\ UNCHANGED <<colaReady, pcp>>
  BY DEF SignalAnotarReady, TerminaPlanificador, PostReady, Ir, En, Publica, colas
<1>2. Cardinality(PorPublicar)' = Cardinality(PorPublicar) - 1
  BY <1>1, TerminaPublicar DEF TipoInv, Donde, Publica
<1>3. semReady \in Nat /\ Cardinality(PorPublicar) \in Nat /\ ConTicket \in Nat
  BY PublicarFinito DEF TipoInv, TypeOK, ConTicket
<1> QED BY <1>1, <1>2, <1>3 DEF TicketsDeReady, ConTicket

LEMMA Tickets_CortoPlazo ==
  ASSUME TipoInv, TicketsDeReady, CortoPlazo
  PROVE  TicketsDeReady'
<1>1. PorPublicar' = PorPublicar
  <2>1. UNCHANGED pc
    BY DEF CortoPlazo, EsperarReady, EsperarPlanificacion, EsperarCpu, ElegirCpu, Despachar,
           AnotarExec, Cae, hilos
  <2> QED BY <2>1 DEF PorPublicar
<1>2. semReady \in Nat /\ Cardinality(PorPublicar) \in Nat /\ pcp \in TipoPcp
  BY PublicarFinito DEF TipoInv, TypeOK
<1>3. CASE EsperarReady
  <2>1. /\ pcp.pc = "espera" /\ pcp'.pc = "plan"
        /\ semReady' = semReady - 1 /\ colaReady' = colaReady
    BY <1>2, <1>3 DEF EsperarReady, EnPcp, WaitReady, colas, TipoPcp
  <2> QED BY <1>1, <1>2, <2>1 DEF TicketsDeReady, ConTicket
<1>4. CASE ElegirCpu /\ colaReady # <<>>
  <2>1. /\ pcp.pc = "elegir" /\ pcp'.pc = "despachar"
        /\ colaReady' = Tail(colaReady) /\ semReady' = semReady
    BY <1>4 DEF ElegirCpu, EnPcp, Sacar, sems
  <2>2. Len(colaReady') = Len(colaReady) - 1
    BY <1>4, <2>1 DEF TipoInv, TypeOK
  <2> QED BY <1>1, <1>2, <2>1, <2>2 DEF TicketsDeReady, ConTicket
<1>5. CASE \/ EsperarPlanificacion \/ EsperarCpu \/ Despachar \/ AnotarExec
           \/ ElegirCpu /\ colaReady = <<>>
  <2>1. UNCHANGED <<colaReady, semReady>>
    BY <1>5 DEF EsperarPlanificacion, EsperarCpu, Despachar, AnotarExec, ElegirCpu, Cae,
                colas, sems
  <2>2. (pcp'.pc \in {"plan", "cpu", "elegir"}) <=> (pcp.pc \in {"plan", "cpu", "elegir"})
    BY <1>2, <1>5 DEF EsperarPlanificacion, EsperarCpu, Despachar, AnotarExec, ElegirCpu,
                      Cae, EnPcp, TipoPcp
  <2> QED BY <1>1, <2>1, <2>2 DEF TicketsDeReady, ConTicket
<1> QED BY <1>3, <1>4, <1>5 DEF CortoPlazo

-----------------------------------------------------------------------------
\* Every other step is somebody else's.

LEMMA Tickets_HiloConsola ==
  ASSUME TipoInv, TicketsDeReady, NEW p \in Proc, HiloConsola(p)
  PROVE  TicketsDeReady'
<1>1. UNCHANGED <<colaReady, semReady, pcp>>
  BY DEF HiloConsola, EnvioCodigo, CrearInfoEstadistica, colas, sems
<1>2. \E d \in {"info", "plp"} : pc[p] \notin Publica /\ pc' = [pc EXCEPT ![p] = d]
  BY DEF HiloConsola, EnvioCodigo, CrearInfoEstadistica, En, Ir, Publica
<1>3. p \in Hilo /\ {"info", "plp"} \subseteq Donde \ Publica
  BY DEF Hilo, Donde, EnPlanificador, Publica
<1> QED BY <1>1, <1>2, <1>3, PasoAjeno DEF TipoInv

LEMMA Tickets_LargoPlazo ==
  ASSUME TipoInv, TicketsDeReady, NEW h \in Hilo, LargoPlazo(h)
  PROVE  TicketsDeReady'
<1>1. CASE MemoriaAcepta(h)
  BY <1>1, Tickets_MemoriaAcepta
<1>2. CASE SacarDeNew(h) \/ MemoriaRechaza(h) \/ AnotarReady(h)
  <2>1. UNCHANGED <<colaReady, semReady, pcp>>
    BY <1>2 DEF SacarDeNew, MemoriaRechaza, AnotarReady, Cae, colas, sems
  <2>2. \/ UNCHANGED pc
        \/ \E d \in {"libre", "memoria", "lazo", "codigo"} :
             pc[h] \notin Publica /\ pc' = [pc EXCEPT ![h] = d]
    BY <1>2 DEF SacarDeNew, MemoriaRechaza, AnotarReady, TerminaPlanificador, Cae, En, Ir,
                Publica, hilos
  <2>3. {"libre", "memoria", "lazo", "codigo"} \subseteq Donde \ Publica
    BY DEF Donde, EnPlanificador, Publica
  <2> QED BY <2>1, <2>2, <2>3, PasoAjeno DEF TipoInv
<1>3. CASE \/ EmpezarLargoPlazo(h) \/ EnvioCodigoMemoria(h)
           \/ LeerCantSuma(h) \/ GuardarCantSuma(h)
  <2>1. UNCHANGED <<colaReady, semReady, pcp>>
    BY <1>3 DEF EmpezarLargoPlazo, EnvioCodigoMemoria, LeerCantSuma, GuardarCantSuma, colas,
                sems
  <2>2. \E d \in {"libre", "lazo", "suma", "guarda"} :
          pc[h] \notin Publica /\ pc' = [pc EXCEPT ![h] = d]
    BY <1>3 DEF EmpezarLargoPlazo, EnvioCodigoMemoria, LeerCantSuma, GuardarCantSuma,
                TerminaPlanificador, En, Ir, Publica
  <2>3. {"libre", "lazo", "suma", "guarda"} \subseteq Donde \ Publica
    BY DEF Donde, EnPlanificador, Publica
  <2> QED BY <2>1, <2>2, <2>3, PasoAjeno DEF TipoInv
<1> QED BY <1>1, <1>2, <1>3 DEF LargoPlazo

LEMMA Tickets_PedidoCpu ==
  ASSUME TipoInv, TicketsDeReady, NEW c \in Cpu, PedidoCpu(c)
  PROVE  TicketsDeReady'
<1>1. CASE FinalizacionQuantum(c)
  BY <1>1, Tickets_FinalizacionQuantum
<1>2. CASE FinalizacionProceso(c) \/ (\E s \in Sem : PedirSemaforo(c, s)) \/ SinInfo(c)
  <2>1. UNCHANGED <<colaReady, semReady, pcp>>
    BY <1>2 DEF FinalizacionProceso, PedirSemaforo, SinInfo, Cae, colas, sems
  <2>2. \/ UNCHANGED pc
        \/ \E d \in {"libera", "signal", "wait"} :
             pc[c] \notin Publica /\ pc' = [pc EXCEPT ![c] = d]
    BY <1>2 DEF FinalizacionProceso, PedirSemaforo, SinInfo, EmpiezaTerminar, EnRafaga, Cae,
                En, Ir, Publica, hilos
  <2>3. c \in Hilo /\ {"libera", "signal", "wait"} \subseteq Donde \ Publica
    BY DEF Hilo, Donde, PasosCpu, Publica
  <2> QED BY <2>1, <2>2, <2>3, PasoAjeno DEF TipoInv
<1> QED BY <1>1, <1>2 DEF PedidoCpu

LEMMA Tickets_HiloCpu ==
  ASSUME TipoInv, TicketsDeReady, NEW c \in Cpu, HiloCpu(c)
  PROVE  TicketsDeReady'
<1> DEFINE D == {"libre", "resta", "guarda_resta", "plp", "w_recibe", "libera", "desocupa",
                 "caida"}
<1>1. c \in Hilo /\ D \subseteq Donde \ Publica
  BY DEF Hilo, Donde, EnPlanificador, PasosCpu, Publica
<1>2. CASE QuantumAnotarReady(c) \/ RealizarSignal(c) \/ SignalAnotarReady(c)
  BY <1>2, Tickets_QuantumAnotarReady, Tickets_RealizarSignal, Tickets_SignalAnotarReady
<1>3. CASE \/ DesocuparCpu(c) \/ TerminarLiberar(c) \/ LeerCantResta(c)
           \/ GuardarCantResta(c) \/ BloqueadoNoLlega(c)
  <2>1. UNCHANGED <<colaReady, semReady, pcp>>
    BY <1>3 DEF DesocuparCpu, TerminarLiberar, LeerCantResta, GuardarCantResta,
                BloqueadoNoLlega, colas, sems
  <2>2. \E d \in D : pc[c] \notin Publica /\ pc' = [pc EXCEPT ![c] = d]
    BY <1>3 DEF DesocuparCpu, TerminarLiberar, LeerCantResta, GuardarCantResta,
                BloqueadoNoLlega, TerminaPlanificador, En, Ir, Publica
  <2> HIDE DEF D
  <2> QED BY <1>1, <2>1, <2>2, PasoAjeno DEF TipoInv
<1>4. CASE RealizarWait(c) \/ RecibirBloqueado(c)
  <2>1. UNCHANGED <<colaReady, semReady, pcp>>
    BY <1>4 DEF RealizarWait, RecibirBloqueado, colas, sems
  <2>2. \E d \in D : pc[c] \notin Publica /\ pc' = [pc EXCEPT ![c] = d]
    BY <1>4 DEF RealizarWait, RecibirBloqueado, EmpiezaTerminar, En, Ir, Publica
  <2> HIDE DEF D
  <2> QED BY <1>1, <2>1, <2>2, PasoAjeno DEF TipoInv
<1>5. CASE EliminarCpu(c) \/ CpuCaida(c) \/ CpuCaidaEspera(c)
  <2>1. UNCHANGED <<colaReady, semReady, pcp>>
    BY <1>5 DEF EliminarCpu, CpuCaida, CpuCaidaEspera, Cae, colas, sems
  <2>2. \/ UNCHANGED pc
        \/ \E d \in D : pc[c] \notin Publica /\ pc' = [pc EXCEPT ![c] = d]
    BY <1>5 DEF EliminarCpu, CpuCaida, CpuCaidaEspera, TerminarSiTenia, EmpiezaTerminar,
                Cae, En, Ir, Publica, hilos
  <2> HIDE DEF D
  <2> QED BY <1>1, <2>1, <2>2, PasoAjeno DEF TipoInv
<1> QED BY <1>2, <1>3, <1>4, <1>5 DEF HiloCpu

LEMMA Tickets_Externo ==
  ASSUME TipoInv, TicketsDeReady,
         \/ \E c \in Cpu : Conectar(c) \/ ComenzarEjecucion(c) \/ Sigusr1(c) \/ CpuMuere(c)
         \/ Operador
  PROVE  TicketsDeReady'
<1>1. UNCHANGED <<colaReady, semReady, pcp>>
  BY DEF Conectar, ComenzarEjecucion, Sigusr1, CpuMuere, Operador, KillProcess,
         GradoMultiprogramacion, StopPlanification, colas, sems
<1>2. \/ UNCHANGED pc
      \/ pc[Interfaz] \notin Publica /\ pc' = [pc EXCEPT ![Interfaz] = "plp"]
  BY DEF Conectar, ComenzarEjecucion, Sigusr1, CpuMuere, Operador, KillProcess,
         GradoMultiprogramacion, StopPlanification, hilos, En, Ir, Publica
<1>3. Interfaz \in Hilo /\ "plp" \in Donde \ Publica
  BY DEF Hilo, Donde, EnPlanificador, Publica
<1> QED BY <1>1, <1>2, <1>3, PasoAjeno DEF TipoInv

-----------------------------------------------------------------------------
LEMMA Tickets_Init == Init => TicketsDeReady
<1> SUFFICES ASSUME Init PROVE TicketsDeReady
  OBVIOUS
<1>1. PorPublicar = {}
  BY DEF Init, PorPublicar, Hilo
<1>2. ConTicket = 0 /\ semReady = 0
  BY DEF Init, ConTicket
<1>3. Len(colaReady) = 0
  BY DEF Init
<1> QED BY <1>1, <1>2, <1>3, FS_EmptySet DEF TicketsDeReady

LEMMA Tickets_Paso == TipoInv /\ TicketsDeReady /\ [Next]_vars => TicketsDeReady'
<1> SUFFICES ASSUME TipoInv, TicketsDeReady, [Next]_vars PROVE TicketsDeReady'
  OBVIOUS
<1>1. CASE Next
  BY <1>1, Tickets_HiloConsola, Tickets_LargoPlazo, Tickets_CortoPlazo, Tickets_PedidoCpu,
     Tickets_HiloCpu, Tickets_Externo DEF Next
<1>2. CASE UNCHANGED vars
  BY <1>2 DEF vars, colas, sems, hilos, TicketsDeReady, ConTicket, PorPublicar
<1> QED BY <1>1, <1>2

\* sem_cola_ready counts colaReady whatever threads are at work, CPUs die and
\* programs are killed: no post is missing and none is sent twice.
THEOREM TicketsSeguros == Spec => []TicketsDeReady
<1>1. Init => TipoInv /\ TicketsDeReady
  BY Tipo_Init, Tickets_Init
<1>2. TipoInv /\ TicketsDeReady /\ [Next]_vars => TipoInv' /\ TicketsDeReady'
  BY Tipo_Paso, Tickets_Paso
<1> QED BY <1>1, <1>2, PTL DEF Spec

\* The short-term planner pops a queue with somebody in it: queue_pop never
\* gives it the NULL that serializarPCB would read.
HayAQuienElegir == pcp.pc = "elegir" => colaReady # <<>>

\* planificarCortoPlazo's queue_pop(colaReady) never meets an empty queue.
COROLLARY NuncaColaVacia == Spec => []HayAQuienElegir
<1>1. TipoInv /\ TicketsDeReady => HayAQuienElegir
  <2> SUFFICES ASSUME TipoInv, TicketsDeReady, pcp.pc = "elegir" PROVE colaReady # <<>>
    BY DEF HayAQuienElegir
  <2>1. Len(colaReady) = semReady + 1 + Cardinality(PorPublicar)
    BY DEF TicketsDeReady, ConTicket
  <2>2. semReady \in Nat /\ Cardinality(PorPublicar) \in Nat
    BY PublicarFinito DEF TipoInv, TypeOK
  <2>3. Len(colaReady) # 0
    BY <2>1, <2>2
  <2> QED BY <2>3
<1> QED BY <1>1, TipoSiempre, TicketsSeguros, PTL

-----------------------------------------------------------------------------
(***************************************************************************)
(* The semaphores: while no CPU dies and no program is killed, a negative  *)
(* value is the number of programs blocked.  What makes it inductive is    *)
(* mutex_sem: a handler that waits for the PCB of a program about to block *)
(* owns it, so a signal, which takes it, finds in the queue every program  *)
(* the value counts.                                                       *)
(***************************************************************************)

\* The programs that the value of a semaphore counts.
Contados(v) == IF v < 0 THEN - v ELSE 0

\* CpuFragil and Matables are empty: nobody dies and nobody is killed.
Sanos == (\A c \in Cpu : fase[c] # "caida") /\ (\A p \in Proc : ~ matar[p])

SemInv ==
  /\ SemaforoContable
  /\ \A c \in Cpu : pc[c] = "w_recibe" => mutexSem = c
  /\ Sanos

\* Nobody waits at first.
LEMMA Sem_Init == Init => SemInv
<1> SUFFICES ASSUME Init PROVE SemInv
  OBVIOUS
<1>1. \A c \in Cpu : pc[c] # "w_recibe"
  BY DEF Init, Hilo
<1>2. \A s \in Sem : {c \in Cpu : pc[c] = "w_recibe" /\ clave[c] = s} = {}
  BY <1>1
<1>3. \A s \in Sem : Len(bloqueos[s]) = 0 /\ semaforos[s] \in Nat
  BY PlanificadorAssumption DEF Init
<1>4. SemaforoContable
  <2>1. \A s \in Sem : (IF semaforos[s] < 0 THEN - semaforos[s] ELSE 0) = 0 + 0
    BY <1>3
  <2> QED BY <1>2, <1>3, <2>1, FS_EmptySet DEF SemaforoContable
<1>5. Sanos
  BY DEF Init, Sanos
<1> QED BY <1>1, <1>4, <1>5 DEF SemInv

\* A step of another kind: the values, the queues and the handlers that wait
\* stay as they are, and mutex_sem is given back by its owner only.
LEMMA SemAjeno ==
  ASSUME TipoInv, SemInv, UNCHANGED <<semaforos, bloqueos>>, Sanos',
         \/ UNCHANGED <<pc, mutexSem, clave>>
         \/ \E h \in Hilo, d \in Donde \ {"w_recibe"} :
              /\ pc[h] # "w_recibe" /\ pc' = [pc EXCEPT ![h] = d]
              /\ mutexSem' = mutexSem \/ mutexSem = h
              /\ UNCHANGED clave \/ \E x : clave' = [clave EXCEPT ![h] = x]
  PROVE  SemInv'
<1>1. \A c \in Cpu : /\ pc'[c] = "w_recibe" <=> pc[c] = "w_recibe"
                     /\ pc[c] = "w_recibe" => clave'[c] = clave[c] /\ mutexSem' = mutexSem
  <2>1. CASE UNCHANGED <<pc, mutexSem, clave>>
    BY <2>1
  <2>2. ASSUME NEW h \in Hilo, NEW d \in Donde \ {"w_recibe"},
               pc[h] # "w_recibe", pc' = [pc EXCEPT ![h] = d],
               mutexSem' = mutexSem \/ mutexSem = h,
               UNCHANGED clave \/ \E x : clave' = [clave EXCEPT ![h] = x],
               NEW c \in Cpu
        PROVE  /\ pc'[c] = "w_recibe" <=> pc[c] = "w_recibe"
               /\ pc[c] = "w_recibe" => clave'[c] = clave[c] /\ mutexSem' = mutexSem
    <3>1. c \in Hilo /\ pc \in [Hilo -> Donde] /\ clave \in [Cpu -> Sem \cup {Nadie}]
      BY DEF Hilo, TipoInv, TypeOK
    <3>2. CASE c = h
      BY <2>2, <3>1, <3>2
    <3>3. CASE c # h
      BY <2>2, <3>1, <3>3 DEF SemInv
    <3> QED BY <3>2, <3>3
  <2> QED BY <2>1, <2>2
<1>2. \A s \in Sem : {c \in Cpu : pc'[c] = "w_recibe" /\ clave'[c] = s}
                       = {c \in Cpu : pc[c] = "w_recibe" /\ clave[c] = s}
  BY <1>1
<1>3. SemaforoContable'
  BY <1>2 DEF SemInv, SemaforoContable
<1> QED BY <1>1, <1>3 DEF SemInv

\* A step that leaves the CPUs' phases and the kills alone.
LEMMA SiguenSanos ==
  ASSUME SemInv, UNCHANGED <<fase, matar>>
  PROVE  Sanos'
BY DEF SemInv, Sanos

\* A CPU that gives its PCB back does not die.
LEMMA DevuelveSanos ==
  ASSUME TipoInv, SemInv, NEW c \in Cpu, Devuelve(c), UNCHANGED matar
  PROVE  Sanos'
<1>1. PICK f \in {"ociosa", "apagada"} : fase' = [fase EXCEPT ![c] = f]
  BY DEF Devuelve
<1> QED BY <1>1 DEF SemInv, Sanos, TipoInv, TypeOK

-----------------------------------------------------------------------------
\* The steps that touch a semaphore.

\* realizarSignal: with a negative value the first of the queue is taken.
LEMMA Sem_RealizarSignal ==
  ASSUME TipoInv, SemInv, NEW c \in Cpu, RealizarSignal(c)
  PROVE  SemInv'
<1> DEFINE s == clave[c]
           W(r) == {x \in Cpu : pc[x] = "w_recibe" /\ clave[x] = r}
<1>1. /\ s \in Sem /\ mutexSem = Nadie /\ pc[c] = "signal" /\ c \in Hilo
      /\ semaforos' = [semaforos EXCEPT ![s] = @ + 1]
      /\ UNCHANGED <<fase, matar>> /\ clave' = [clave EXCEPT ![c] = Nadie]
  BY DEF RealizarSignal, En, TipoInv, Manos, Hilo, info, externo
<1>2. PICK d \in {"s_estado", "libre"} : pc' = [pc EXCEPT ![c] = d]
  BY DEF RealizarSignal, Ir
<1>3. \A x \in Cpu : pc[x] # "w_recibe"
  BY <1>1, PlanificadorAssumption DEF SemInv, Hilo
<1>4. \A x \in Cpu : pc'[x] # "w_recibe"
  BY <1>1, <1>2, <1>3 DEF TipoInv, TypeOK, Hilo
<1>5. /\ \A r : {x \in Cpu : pc[x] = "w_recibe" /\ clave[x] = r} = {}
      /\ \A r : {x \in Cpu : pc'[x] = "w_recibe" /\ clave'[x] = r} = {}
  BY <1>3, <1>4
<1>6. \A r \in Sem : /\ Len(bloqueos[r]) = Contados(semaforos[r])
                     /\ semaforos[r] \in Int /\ bloqueos[r] \in Seq(Proc)
  <2>1. \A r \in Sem : /\ Len(bloqueos[r]) + 0 = Contados(semaforos[r])
                       /\ semaforos[r] \in Int /\ bloqueos[r] \in Seq(Proc)
    BY <1>5, FS_EmptySet DEF SemInv, SemaforoContable, Contados, TipoInv, TypeOK
  <2> QED BY <2>1
<1>7. \A r \in Sem : Len(bloqueos'[r]) = Contados(semaforos'[r])
  <2>1. CASE semaforos[s] < 0
    <3>1. Len(bloqueos[s]) = - semaforos[s] /\ bloqueos[s] # <<>>
      BY <1>1, <1>6, <2>1 DEF Contados
    <3>2. bloqueos' = [bloqueos EXCEPT ![s] = Tail(@)]
      BY <1>1, <1>6, <2>1, <3>1 DEF RealizarSignal, DebeDesbloquear, Sacar
    <3>3. Len(Tail(bloqueos[s])) = Len(bloqueos[s]) - 1
      BY <1>1, <1>6, <3>1
    <3>4. /\ \A r \in Sem : r # s => bloqueos'[r] = bloqueos[r] /\ semaforos'[r] = semaforos[r]
          /\ bloqueos'[s] = Tail(bloqueos[s]) /\ semaforos'[s] = semaforos[s] + 1
      BY <1>1, <3>2 DEF TipoInv, TypeOK
    <3>5. Len(bloqueos'[s]) = Contados(semaforos'[s])
      BY <1>1, <1>6, <2>1, <3>1, <3>3, <3>4 DEF Contados
    <3> QED BY <1>6, <3>4, <3>5
  <2>2. CASE ~ (semaforos[s] < 0)
    <3>1. UNCHANGED bloqueos
      BY <1>1, <1>6, <2>2 DEF RealizarSignal, DebeDesbloquear
    <3>2. /\ \A r \in Sem : r # s => semaforos'[r] = semaforos[r]
          /\ semaforos'[s] = semaforos[s] + 1
      BY <1>1 DEF TipoInv, TypeOK
    <3>3. Len(bloqueos'[s]) = Contados(semaforos'[s])
      BY <1>1, <1>6, <2>2, <3>1, <3>2 DEF Contados
    <3> QED BY <1>6, <3>1, <3>2, <3>3
  <2> QED BY <2>1, <2>2
<1>8. \A r \in Sem : semaforos'[r] \in Int
  BY <1>1, <1>6 DEF TipoInv, TypeOK
<1>9. SemaforoContable'
  <2>1. \A r \in Sem : Len(bloqueos'[r]) + 0 = Contados(semaforos'[r])
    <3>1. \A r \in Sem : Contados(semaforos'[r]) \in Int
      BY <1>8 DEF Contados
    <3> QED BY <1>7, <3>1
  <2> QED BY <1>5, <2>1, FS_EmptySet DEF SemaforoContable, Contados
<1>10. Sanos'
  BY <1>1, SiguenSanos
<1> QED BY <1>4, <1>9, <1>10 DEF SemInv

\* realizarWait: a value that becomes negative counts the program that is about
\* to block.
LEMMA Sem_RealizarWait ==
  ASSUME TipoInv, SemInv, NEW c \in Cpu, RealizarWait(c)
  PROVE  SemInv'
<1> DEFINE s == clave[c]
           W == [r \in Sem |-> {x \in Cpu : pc[x] = "w_recibe" /\ clave[x] = r}]
           V == [r \in Sem |-> {x \in Cpu : pc'[x] = "w_recibe" /\ clave'[x] = r}]
<1>1. /\ s \in Sem /\ mutexSem = Nadie /\ pc[c] = "wait" /\ c \in Hilo
      /\ semaforos' = [semaforos EXCEPT ![s] = @ - 1]
      /\ UNCHANGED <<fase, matar, bloqueos>>
  BY DEF RealizarWait, En, TipoInv, Manos, Hilo, info, externo, colas
<1>2. \A x \in Cpu : pc[x] # "w_recibe"
  BY <1>1, PlanificadorAssumption DEF SemInv, Hilo
<1>3. /\ \A r \in Sem : r # s => semaforos'[r] = semaforos[r]
      /\ semaforos'[s] = semaforos[s] - 1
  BY <1>1 DEF TipoInv, TypeOK
<1>4. \A r \in Sem : W[r] = {}
  BY <1>2
<1>5. \A r \in Sem : /\ Len(bloqueos[r]) = Contados(semaforos[r])
                     /\ semaforos[r] \in Int /\ Len(bloqueos[r]) \in Nat
  <2>1. \A r \in Sem : /\ Len(bloqueos[r]) + 0 = Contados(semaforos[r])
                       /\ semaforos[r] \in Int /\ bloqueos[r] \in Seq(Proc)
    BY <1>4, FS_EmptySet DEF SemInv, SemaforoContable, Contados, TipoInv, TypeOK
  <2> QED BY <2>1
<1>6. CASE semaforos[s] - 1 < 0
  <2>1. mutexSem' = c /\ pc' = [pc EXCEPT ![c] = "w_recibe"] /\ UNCHANGED clave
    BY <1>1, <1>6 DEF RealizarWait, DebeBloquear, Ir
  <2>2. pc'[c] = "w_recibe" /\ \A x \in Cpu : x # c => pc'[x] # "w_recibe"
    BY <1>1, <1>2, <2>1 DEF TipoInv, TypeOK, Hilo
  <2>3. V[s] = {c} /\ \A r \in Sem : r # s => V[r] = {}
    <3>1. clave'[c] = s /\ s \in Sem
      BY <1>1, <2>1
    <3>2. \A r \in Sem : V[r] = IF r = s THEN {c} ELSE {}
      BY <2>2, <3>1
    <3> QED BY <3>1, <3>2
  <2> HIDE DEF V
  <2>4. Cardinality(V[s]) = 1 /\ \A r \in Sem : r # s => Cardinality(V[r]) = 0
    BY <2>3, FS_EmptySet, FS_Singleton
  <2>5. \A r \in Sem : Len(bloqueos'[r]) + Cardinality(V[r]) = Contados(semaforos'[r])
    BY <1>1, <1>3, <1>5, <1>6, <2>4 DEF Contados
  <2>6. SemaforoContable'
    BY <2>5 DEF SemaforoContable, Contados, V
  <2> QED BY <1>1, <2>1, <2>2, <2>6, SiguenSanos DEF SemInv
<1>7. CASE ~ (semaforos[s] - 1 < 0)
  <2>1. mutexSem' = mutexSem /\ pc' = [pc EXCEPT ![c] = "libre"]
    BY <1>1, <1>7 DEF RealizarWait, DebeBloquear, Ir
  <2>2. \A x \in Cpu : pc'[x] # "w_recibe"
    BY <1>1, <1>2, <2>1 DEF TipoInv, TypeOK, Hilo
  <2>3. \A r \in Sem : V[r] = {}
    BY <2>2
  <2> HIDE DEF V
  <2>4. \A r \in Sem : Cardinality(V[r]) = 0
    BY <2>3, FS_EmptySet
  <2>5. \A r \in Sem : Len(bloqueos'[r]) + Cardinality(V[r]) = Contados(semaforos'[r])
    BY <1>1, <1>3, <1>5, <1>7, <2>4 DEF Contados
  <2>6. SemaforoContable'
    BY <2>5 DEF SemaforoContable, Contados, V
  <2> QED BY <1>1, <2>2, <2>6, SiguenSanos DEF SemInv
<1> QED BY <1>6, <1>7

\* bloquearProceso: the program that was about to block is in the queue.
LEMMA Sem_RecibirBloqueado ==
  ASSUME TipoInv, SemInv, NEW c \in Cpu, RecibirBloqueado(c)
  PROVE  SemInv'
<1> DEFINE s == clave[c]
           p == enCpu[c]
           W == [r \in Sem |-> {x \in Cpu : pc[x] = "w_recibe" /\ clave[x] = r}]
           V == [r \in Sem |-> {x \in Cpu : pc'[x] = "w_recibe" /\ clave'[x] = r}]
<1>1. /\ s \in Sem /\ pc[c] = "w_recibe" /\ c \in Hilo /\ p \in Proc /\ ~ HayQueMatar(p)
      /\ UNCHANGED <<matar, semaforos, mutexSem>> /\ Devuelve(c)
  BY DEF RecibirBloqueado, En, TipoInv, Manos, Hilo, sems, SemInv, Sanos, HayQueMatar
<1>2. /\ bloqueos' = [bloqueos EXCEPT ![s] = Append(@, p)]
      /\ pc' = [pc EXCEPT ![c] = "desocupa"] /\ clave' = [clave EXCEPT ![c] = Nadie]
  BY <1>1 DEF RecibirBloqueado, Ir
<1>3. \A x \in Cpu : pc[x] = "w_recibe" => x = c
  BY <1>1 DEF SemInv
<1>4. \A x \in Cpu : pc'[x] # "w_recibe"
  BY <1>1, <1>2, <1>3 DEF TipoInv, TypeOK, Hilo
<1>5. W[s] = {c} /\ \A r \in Sem : (r # s => W[r] = {}) /\ V[r] = {}
  BY <1>1, <1>3, <1>4
<1>6. \A r \in Sem : Len(bloqueos[r]) + Cardinality(W[r]) = Contados(semaforos[r])
  BY DEF SemInv, SemaforoContable, Contados
<1> HIDE DEF V, W
<1>7. Cardinality(W[s]) = 1 /\ \A r \in Sem : (r # s => Cardinality(W[r]) = 0) /\ Cardinality(V[r]) = 0
  BY <1>5, FS_EmptySet, FS_Singleton
<1>8. /\ \A r \in Sem : r # s => bloqueos'[r] = bloqueos[r]
      /\ \A r \in Sem : Len(bloqueos[r]) \in Nat
      /\ Len(bloqueos'[s]) = Len(bloqueos[s]) + 1
  <2>1. bloqueos \in [Sem -> Seq(Proc)]
    BY DEF TipoInv, TypeOK
  <2> QED BY <1>1, <1>2, <2>1
<1>9. \A r \in Sem : Len(bloqueos'[r]) + Cardinality(V[r]) = Contados(semaforos'[r])
  BY <1>1, <1>6, <1>7, <1>8
<1>10. SemaforoContable'
  BY <1>9 DEF SemaforoContable, Contados, V
<1>11. Sanos'
  BY <1>1, DevuelveSanos
<1> QED BY <1>4, <1>10, <1>11 DEF SemInv

-----------------------------------------------------------------------------
\* The steps that leave the semaphores alone.

\* The console's thread and the long-term planner, whoever runs it.
LEMMA Sem_Planificadores ==
  ASSUME TipoInv, SemInv,
         \/ \E p \in Proc : HiloConsola(p)
         \/ \E h \in Hilo : LargoPlazo(h)
         \/ CortoPlazo
  PROVE  SemInv'
<1>1. ASSUME NEW p \in Proc, HiloConsola(p) PROVE SemInv'
  <2>1. UNCHANGED <<semaforos, bloqueos, fase, matar, mutexSem, clave>>
    BY <1>1 DEF HiloConsola, EnvioCodigo, CrearInfoEstadistica, colas, info, sems, externo
  <2>2. \E d \in {"info", "plp"} : pc[p] # "w_recibe" /\ pc' = [pc EXCEPT ![p] = d]
    BY <1>1 DEF HiloConsola, EnvioCodigo, CrearInfoEstadistica, En, Ir
  <2>3. p \in Hilo /\ {"info", "plp"} \subseteq Donde \ {"w_recibe"}
    BY DEF Hilo, Donde, EnPlanificador
  <2> QED BY <2>1, <2>2, <2>3, SiguenSanos, SemAjeno
<1>2. ASSUME NEW h \in Hilo, LargoPlazo(h) PROVE SemInv'
  <2> DEFINE D == {"libre", "lazo", "memoria", "listo", "codigo", "suma", "guarda"}
  <2>1. UNCHANGED <<semaforos, bloqueos, fase, matar, clave>>
    BY <1>2 DEF LargoPlazo, EmpezarLargoPlazo, SacarDeNew, MemoriaAcepta, MemoriaRechaza, AnotarReady,
                EnvioCodigoMemoria, LeerCantSuma, GuardarCantSuma, Cae, colas, info, sems, externo, hilos
  <2>2. mutexSem' = mutexSem \/ mutexSem = h
    BY <1>2 DEF LargoPlazo, EmpezarLargoPlazo, SacarDeNew, MemoriaAcepta, MemoriaRechaza, AnotarReady,
                EnvioCodigoMemoria, LeerCantSuma, GuardarCantSuma, Cae, TerminaPlanificador, sems
  <2>3. \/ UNCHANGED <<pc, mutexSem>>
        \/ \E d \in D : pc[h] # "w_recibe" /\ pc' = [pc EXCEPT ![h] = d]
    <3>1. CASE SacarDeNew(h) \/ MemoriaRechaza(h) \/ AnotarReady(h)
      BY <3>1 DEF SacarDeNew, MemoriaRechaza, AnotarReady, TerminaPlanificador, Cae, En, Ir, hilos, sems
    <3>2. CASE \/ EmpezarLargoPlazo(h) \/ EnvioCodigoMemoria(h) \/ MemoriaAcepta(h)
               \/ LeerCantSuma(h) \/ GuardarCantSuma(h)
      BY <3>2 DEF EmpezarLargoPlazo, EnvioCodigoMemoria, MemoriaAcepta, LeerCantSuma, GuardarCantSuma,
                  TerminaPlanificador, En, Ir
    <3> QED BY <1>2, <3>1, <3>2 DEF LargoPlazo
  <2>4. D \subseteq Donde \ {"w_recibe"}
    BY DEF Donde, EnPlanificador
  <2> HIDE DEF D
  <2> QED BY <2>1, <2>2, <2>3, <2>4, SiguenSanos, SemAjeno
<1>3. CASE CortoPlazo
  <2>1. UNCHANGED <<semaforos, bloqueos, fase, matar, mutexSem, clave, pc>>
    BY <1>3 DEF CortoPlazo, EsperarReady, EsperarPlanificacion, EsperarCpu, ElegirCpu, Despachar,
                AnotarExec, Cae, colas, info, sems, externo, hilos
  <2> QED BY <2>1, SiguenSanos, SemAjeno
<1> QED BY <1>1, <1>2, <1>3

\* What a CPU in a burst asks.
LEMMA Sem_PedidoCpu ==
  ASSUME TipoInv, SemInv, NEW c \in Cpu, PedidoCpu(c)
  PROVE  SemInv'
<1>1. c \in Hilo /\ {"libera", "q_estado", "signal", "wait"} \subseteq Donde \ {"w_recibe"}
  BY DEF Hilo, Donde, PasosCpu
<1>2. CASE FinalizacionQuantum(c) \/ FinalizacionProceso(c)
  <2>1. UNCHANGED <<semaforos, bloqueos, matar, mutexSem, clave>> /\ Devuelve(c)
    BY <1>2 DEF FinalizacionQuantum, FinalizacionProceso, sems
  <2>2. \E d \in {"libera", "q_estado"} : pc[c] # "w_recibe" /\ pc' = [pc EXCEPT ![c] = d]
    BY <1>2 DEF FinalizacionQuantum, FinalizacionProceso, EmpiezaTerminar, EnRafaga, En, Ir
  <2> QED BY <1>1, <2>1, <2>2, DevuelveSanos, SemAjeno
<1>3. ASSUME NEW s \in Sem, PedirSemaforo(c, s) PROVE SemInv'
  <2>1. UNCHANGED <<semaforos, bloqueos, matar, mutexSem, fase>> /\ clave' = [clave EXCEPT ![c] = s]
    BY <1>3 DEF PedirSemaforo, sems, colas, info
  <2>2. \E d \in {"signal", "wait"} : pc[c] # "w_recibe" /\ pc' = [pc EXCEPT ![c] = d]
    BY <1>3 DEF PedirSemaforo, EnRafaga, En, Ir
  <2> QED BY <1>1, <2>1, <2>2, SiguenSanos, SemAjeno
<1>4. CASE SinInfo(c)
  BY <1>4, SiguenSanos, SemAjeno DEF SinInfo, Cae, sems, colas, info, externo, hilos
<1> QED BY <1>2, <1>3, <1>4 DEF PedidoCpu

\* The rest of a handler that has begun.
LEMMA Sem_HiloCpu ==
  ASSUME TipoInv, SemInv, NEW c \in Cpu, HiloCpu(c)
  PROVE  SemInv'
<1> DEFINE D == {"desocupa", "libre", "resta", "guarda_resta", "plp", "libera"}
<1>1. c \in Hilo /\ D \subseteq Donde \ {"w_recibe"} /\ fase[c] # "caida"
  BY DEF Hilo, Donde, EnPlanificador, PasosCpu, SemInv, Sanos
<1> HIDE DEF D
<1>2. CASE \/ QuantumAnotarReady(c) \/ DesocuparCpu(c) \/ TerminarLiberar(c) \/ LeerCantResta(c)
           \/ GuardarCantResta(c) \/ SignalAnotarReady(c)
  <2>1. UNCHANGED <<semaforos, bloqueos, fase, matar, clave>>
    BY <1>2 DEF QuantumAnotarReady, DesocuparCpu, TerminarLiberar, LeerCantResta, GuardarCantResta,
                SignalAnotarReady, PostReady, Desocupar, colas, info, sems, cpus, externo
  <2>2. mutexSem' = mutexSem \/ mutexSem = c
    BY <1>2 DEF QuantumAnotarReady, DesocuparCpu, TerminarLiberar, LeerCantResta, GuardarCantResta,
                SignalAnotarReady, TerminaPlanificador, sems
  <2>3. \E d \in D : pc[c] # "w_recibe" /\ pc' = [pc EXCEPT ![c] = d]
    BY <1>2 DEF QuantumAnotarReady, DesocuparCpu, TerminarLiberar, LeerCantResta, GuardarCantResta,
                SignalAnotarReady, TerminaPlanificador, En, Ir, D
  <2> QED BY <1>1, <2>1, <2>2, <2>3, SiguenSanos, SemAjeno
<1>3. CASE EliminarCpu(c)
  <2>1. UNCHANGED <<semaforos, bloqueos, matar, pc, mutexSem, clave>>
    BY <1>3 DEF EliminarCpu, Cae, colas, info, sems, hilos
  <2>2. Sanos'
    <3>1. UNCHANGED fase \/ fase' = [fase EXCEPT ![c] = "ida"]
      BY <1>3 DEF EliminarCpu, Cae, externo
    <3> QED BY <2>1, <3>1 DEF SemInv, Sanos, TipoInv, TypeOK
  <2> QED BY <2>1, <2>2, SemAjeno
<1>4. CASE CpuCaidaEspera(c)
  <2>1. UNCHANGED <<semaforos, bloqueos, matar, mutexSem, fase, clave>>
    BY <1>4 DEF CpuCaidaEspera
  <2>2. \E d \in D : pc[c] # "w_recibe" /\ pc' = [pc EXCEPT ![c] = d]
    BY <1>4 DEF CpuCaidaEspera, TerminarSiTenia, EmpiezaTerminar, En, Ir, D
  <2> QED BY <1>1, <2>1, <2>2, SiguenSanos, SemAjeno
<1>5. ~ CpuCaida(c) /\ ~ BloqueadoNoLlega(c)
  BY <1>1 DEF CpuCaida, BloqueadoNoLlega
<1> QED BY <1>2, <1>3, <1>4, <1>5, Sem_RealizarSignal, Sem_RealizarWait, Sem_RecibirBloqueado
        DEF HiloCpu

\* The CPUs that connect, begin a burst or go away in order, and the operator.
LEMMA Sem_Externo ==
  ASSUME CpuFragil = {}, Matables = {}, TipoInv, SemInv,
         \/ \E c \in Cpu : Conectar(c) \/ ComenzarEjecucion(c) \/ Sigusr1(c) \/ CpuMuere(c)
         \/ Operador
  PROVE  SemInv'
<1>1. ASSUME NEW c \in Cpu, Conectar(c) \/ ComenzarEjecucion(c) PROVE SemInv'
  <2>1. UNCHANGED <<semaforos, bloqueos, matar, pc, mutexSem, clave>>
    BY <1>1 DEF Conectar, ComenzarEjecucion, colas, info, sems, hilos
  <2>2. \E f \in {"ociosa", "corre"} : fase' = [fase EXCEPT ![c] = f]
    BY <1>1 DEF Conectar, ComenzarEjecucion
  <2>3. Sanos'
    BY <2>1, <2>2 DEF SemInv, Sanos, TipoInv, TypeOK
  <2> QED BY <2>1, <2>3, SemAjeno
<1>2. \A c \in Cpu : ~ Sigusr1(c) /\ ~ CpuMuere(c)
  BY DEF Sigusr1, CpuMuere
<1>3. \A p \in Proc : ~ KillProcess(p)
  BY DEF KillProcess
<1>4. CASE GradoMultiprogramacion
  <2>1. UNCHANGED <<semaforos, bloqueos, matar, mutexSem, fase, clave>>
    BY <1>4 DEF GradoMultiprogramacion, colas, info, sems, externo
  <2>2. pc[Interfaz] # "w_recibe" /\ pc' = [pc EXCEPT ![Interfaz] = "plp"]
    BY <1>4 DEF GradoMultiprogramacion, En, Ir
  <2>3. Interfaz \in Hilo /\ "plp" \in Donde \ {"w_recibe"}
    BY DEF Hilo, Donde, EnPlanificador
  <2> QED BY <2>1, <2>2, <2>3, SiguenSanos, SemAjeno
<1>5. CASE StopPlanification
  <2>1. UNCHANGED <<semaforos, bloqueos, matar, fase, pc, mutexSem, clave>>
    BY <1>5 DEF StopPlanification, colas, info, sems, hilos, externo
  <2> QED BY <2>1, SiguenSanos, SemAjeno
<1> QED BY <1>1, <1>2, <1>3, <1>4, <1>5 DEF Operador

LEMMA Sem_Paso ==
  ASSUME CpuFragil = {}, Matables = {}, TipoInv, SemInv, [Next]_vars
  PROVE  SemInv'
<1>1. CASE UNCHANGED vars
  <2>1. UNCHANGED <<semaforos, bloqueos, fase, matar, pc, mutexSem, clave>>
    BY <1>1 DEF vars, colas, info, sems, hilos, externo
  <2> QED BY <2>1, SiguenSanos, SemAjeno
<1>2. CASE Next
  BY <1>2, Sem_Planificadores, Sem_PedidoCpu, Sem_HiloCpu, Sem_Externo DEF Next
<1> QED BY <1>1, <1>2

\* While no CPU dies and no program is killed, a negative semaphore is worth
\* the number of programs blocked on it, counting the one whose PCB is on its
\* way (realizarWait, realizarSignal): no signal is lost and none wakes early.
THEOREM SemaforosContables ==
  ASSUME CpuFragil = {}, Matables = {}
  PROVE  Spec => []SemaforoContable
<1>1. SemInv => SemaforoContable
  BY DEF SemInv
<1>2. TipoInv /\ SemInv /\ [Next]_vars => SemInv'
  BY Sem_Paso
<1> QED BY <1>1, <1>2, Sem_Init, TipoSiempre, PTL DEF Spec

-----------------------------------------------------------------------------
\* Queues without repetitions.

Repite(cola) == \E i, j \in DOMAIN cola : i # j /\ cola[i] = cola[j]

\* queue_push of something that is not there.
LEMMA ColaAppend ==
  ASSUME NEW S, NEW cola \in Seq(S), NEW x \in S
  PROVE  /\ \A p : EnCola(p, Append(cola, x)) <=> EnCola(p, cola) \/ p = x
         /\ ~ Repite(cola) /\ ~ EnCola(x, cola) => ~ Repite(Append(cola, x))
<1> DEFINE n == Len(cola)
           q == Append(cola, x)
<1>1. /\ n \in Nat /\ DOMAIN cola = 1..n /\ DOMAIN q = 1..(n + 1)
      /\ q[n + 1] = x /\ \A i \in 1..n : q[i] = cola[i]
  OBVIOUS
<1>2. \A i : i \in 1..(n + 1) <=> i \in 1..n \/ i = n + 1
  BY <1>1
<1> HIDE DEF q, n
<1>3. \A p : EnCola(p, q) <=> EnCola(p, cola) \/ p = x
  BY <1>1, <1>2 DEF EnCola
<1>4. ~ Repite(cola) /\ ~ EnCola(x, cola) => ~ Repite(q)
  BY <1>1, <1>2 DEF EnCola, Repite
<1> QED BY <1>3, <1>4 DEF q

\* queue_pop.
LEMMA ColaSacar ==
  ASSUME NEW S, NEW cola \in Seq(S), cola # <<>>
  PROVE  /\ EnCola(Head(cola), cola)
         /\ ~ Repite(cola) => /\ ~ Repite(Sacar(cola))
                              /\ \A p : EnCola(p, Sacar(cola)) <=> EnCola(p, cola) /\ p # Head(cola)
<1> DEFINE n == Len(cola)
           q == Tail(cola)
<1>1. /\ n \in Nat \ {0} /\ DOMAIN cola = 1..n /\ DOMAIN q = 1..(n - 1)
      /\ Head(cola) = cola[1] /\ \A i \in 1..(n - 1) : q[i] = cola[i + 1]
  OBVIOUS
<1>2. \A i \in 1..(n - 1) : i + 1 \in 1..n /\ i + 1 # 1
  BY <1>1
<1>3. \A i \in 1..n : i # 1 => i - 1 \in 1..(n - 1) /\ (i - 1) + 1 = i
  BY <1>1
<1>4. 1 \in 1..n
  BY <1>1
<1> HIDE DEF q, n
<1>5. EnCola(Head(cola), cola)
  BY <1>1, <1>4 DEF EnCola
<1>6. ASSUME ~ Repite(cola)
      PROVE  ~ Repite(q) /\ \A p : EnCola(p, q) <=> EnCola(p, cola) /\ p # Head(cola)
  <2>1. ~ Repite(q)
    <3> SUFFICES ASSUME NEW i \in 1..(n - 1), NEW j \in 1..(n - 1), i # j, q[i] = q[j] PROVE FALSE
      BY <1>1 DEF Repite
    <3>1. cola[i + 1] = cola[j + 1] /\ i + 1 # j + 1 /\ i + 1 \in 1..n /\ j + 1 \in 1..n
      BY <1>1, <1>2
    <3> QED BY <1>1, <1>6, <3>1 DEF Repite
  <2>2. ASSUME NEW p, EnCola(p, q) PROVE EnCola(p, cola) /\ p # Head(cola)
    <3>1. PICK i \in 1..(n - 1) : q[i] = p
      BY <1>1, <2>2 DEF EnCola
    <3>2. cola[i + 1] = p /\ i + 1 \in 1..n /\ i + 1 # 1
      BY <1>1, <1>2, <3>1
    <3> QED BY <1>1, <1>4, <1>6, <3>2 DEF EnCola, Repite
  <2>3. ASSUME NEW p, EnCola(p, cola), p # Head(cola) PROVE EnCola(p, q)
    <3>1. PICK i \in 1..n : cola[i] = p
      BY <1>1, <2>3 DEF EnCola
    <3>2. i - 1 \in 1..(n - 1) /\ q[i - 1] = p
      BY <1>1, <1>3, <2>3, <3>1
    <3> QED BY <1>1, <3>2 DEF EnCola
  <2> QED BY <2>1, <2>2, <2>3
<1> QED BY <1>5, <1>6 DEF Sacar, q

\* list_remove_by_condition takes a CPU that is once in the list.
LEMMA ColaSinCpu ==
  ASSUME TypeOK, NEW c \in Cpu, ~ Repite(listaCPUs)
  PROVE  ~ Repite(SinCpu(c)) /\ \A d : EnCola(d, SinCpu(c)) <=> EnLista(d) /\ d # c
<1>1. CASE ~ EnLista(c)
  BY <1>1 DEF SinCpu, EnLista, EnCola
<1>2. CASE EnLista(c)
  <2> DEFINE n == Len(listaCPUs)
             k == CHOOSE i \in DOMAIN listaCPUs : listaCPUs[i] = c
             q == SinCpu(c)
             f(i) == IF i < k THEN i ELSE i + 1
             g(i) == IF i < k THEN i ELSE i - 1
  <2>1. n \in Nat /\ DOMAIN listaCPUs = 1..n
    BY DEF TypeOK
  <2>2. k \in 1..n /\ listaCPUs[k] = c
    BY <1>2, <2>1 DEF EnLista
  <2>3. DOMAIN q = 1..(n - 1) /\ \A i \in 1..(n - 1) : q[i] = listaCPUs[f(i)]
    BY <1>2 DEF SinCpu
  <2> HIDE DEF q, k
  <2>4. \A i \in 1..(n - 1) : f(i) \in 1..n /\ f(i) # k
    BY <2>1, <2>2
  <2>5. \A i, j \in 1..(n - 1) : i # j => f(i) # f(j)
    BY <2>1, <2>2
  <2>6. \A i \in 1..n : i # k => g(i) \in 1..(n - 1) /\ f(g(i)) = i
    BY <2>1, <2>2
  <2> HIDE DEF f, g, n
  <2>7. \A i, j \in 1..n : i # j => listaCPUs[i] # listaCPUs[j]
    BY <2>1 DEF Repite
  <2>8. ~ Repite(q)
    BY <2>3, <2>4, <2>5, <2>7 DEF Repite
  <2>9. ASSUME NEW d, EnCola(d, q) PROVE EnLista(d) /\ d # c
    BY <2>1, <2>2, <2>3, <2>4, <2>7, <2>9 DEF EnCola, EnLista
  <2>10. ASSUME NEW d, EnLista(d), d # c PROVE EnCola(d, q)
    <3>1. PICK i \in 1..n : listaCPUs[i] = d /\ i # k
      BY <2>1, <2>2, <2>10 DEF EnLista
    <3> QED BY <2>3, <2>6, <3>1 DEF EnCola
  <2> QED BY <2>8, <2>9, <2>10 DEF q
<1> QED BY <1>1, <1>2

\* obtenerCpuLibre gives a free CPU of the list, and NULL only without any.
LEMMA CpuLibreEsta ==
  ASSUME TypeOK
  PROVE  /\ CpuLibre # Nadie => CpuLibre \in Cpu /\ EnLista(CpuLibre) /\ disponible[CpuLibre]
         /\ (\E c \in Cpu : EnLista(c) /\ disponible[c]) => CpuLibre # Nadie
<1> DEFINE n == Len(listaCPUs)
           libre(i) == disponible[listaCPUs[i]]
           primera(i) == /\ disponible[listaCPUs[i]]
                         /\ \A j \in 1..(i - 1) : ~ disponible[listaCPUs[j]]
<1>1. n \in Nat /\ DOMAIN listaCPUs = 1..n /\ \A i \in 1..n : listaCPUs[i] \in Cpu
  BY DEF TypeOK
<1>2. ASSUME NEW i \in 1..n, primera(i)
      PROVE  CpuLibre \in Cpu /\ EnLista(CpuLibre) /\ disponible[CpuLibre]
  <2>1. \E j \in DOMAIN listaCPUs : primera(j)
    BY <1>1, <1>2
  <2> DEFINE j == CHOOSE j \in DOMAIN listaCPUs : primera(j)
  <2>2. CpuLibre = listaCPUs[j]
    BY <2>1 DEF CpuLibre
  <2>3. j \in DOMAIN listaCPUs /\ primera(j)
    BY <2>1
  <2> HIDE DEF j
  <2> QED BY <1>1, <2>2, <2>3 DEF EnLista
<1>3. ASSUME NEW c \in Cpu, EnLista(c), disponible[c] PROVE \E i \in 1..n : primera(i)
  <2> DEFINE I == {i \in 1..n : libre(i)}
  <2>1. I \subseteq 1..n /\ I # {}
    BY <1>1, <1>3 DEF EnLista
  <2> HIDE DEF I
  <2>2. PICK i \in I : \A j \in I : i <= j
    <3>1. I \subseteq Nat
      BY <1>1, <2>1
    <3> QED BY <2>1, <3>1, HayPrimero
  <2>3. i \in 1..n /\ libre(i) /\ \A j \in 1..(i - 1) : ~ libre(j)
    <3>1. i \in 1..n /\ \A j \in 1..(i - 1) : j \in 1..n /\ ~ (i <= j)
      BY <1>1, <2>1, <2>2
    <3> QED BY <2>2, <3>1 DEF I
  <2> QED BY <2>3
<1>4. CASE \E i \in 1..n : primera(i)
  BY <1>2, <1>4, PlanificadorAssumption DEF Hilo
<1>5. CASE ~ \E i \in 1..n : primera(i)
  <2>1. CpuLibre = Nadie
    BY <1>1, <1>5 DEF CpuLibre
  <2> QED BY <1>3, <1>5, <2>1
<1> QED BY <1>4, <1>5

-----------------------------------------------------------------------------
\* The CPUs.  A CPU of the list is free and runs nothing, or has the program
\* its cpu_t says, or has given it back to a handler that has not freed it yet.

\* Steps of a CPU's thread: those of a handler that serves the program it
\* runs, and those of one that has the program back.
Atiende  == {"signal", "wait", "w_recibe", "s_estado"}
Devuelto == {"q_estado", "desocupa", "libera"}
Ocupado  == Atiende \cup Devuelto \cup {"caida"}

EnSuSitio(c) ==
  /\ EnLista(c) <=> fase[c] \notin {"fuera", "ida"}
  /\ fase[c] = "fuera" => enCpu[c] = Nadie /\ pc[c] \notin Ocupado
  /\ EnLista(c) /\ disponible[c] => enCpu[c] = Nadie /\ pc[c] \notin Atiende \cup Devuelto
  /\ EnLista(c) /\ ~ disponible[c] /\ enCpu[c] = Nadie => pc[c] \in Devuelto
  /\ EnLista(c) /\ enCpu[c] # Nadie => pcb[c] = enCpu[c] /\ pc[c] \notin Devuelto
  /\ fase[c] = "corre" => enCpu[c] # Nadie
  /\ pc[c] \in Atiende => fase[c] \in {"corre", "caida"}
  /\ pc[c] \in {"q_estado", "desocupa"} => EnLista(c)
  /\ pc[c] = "caida" => enCpu[c] = Nadie /\ fase[c] = "ida"
  /\ CpuFragil = {} => fase[c] \in {"fuera", "ociosa", "corre"}

\* The CPU the short-term planner has chosen is still free.
ElegidaLibre ==
  pcp.pc = "despachar" /\ pcp.cpu # Nadie => disponible[pcp.cpu] /\ fase[pcp.cpu] # "fuera"

CpuInv ==
  /\ ~ Repite(listaCPUs)
  /\ \A c \in Cpu : EnSuSitio(c)
  /\ ElegidaLibre

\* The variables EnSuSitio reads of one CPU.
Igual(d) ==
  /\ fase'[d] = fase[d] /\ enCpu'[d] = enCpu[d] /\ pcb'[d] = pcb[d]
  /\ disponible'[d] = disponible[d] /\ EnLista(d)' = EnLista(d)

\* A thread that takes no step a CPU's state depends on.
MismaAtencion(d) ==
  \/ pc'[d] = pc[d]
  \/ pc[d] \notin Ocupado /\ pc'[d] \notin Ocupado

LEMMA SitioIgual ==
  ASSUME NEW d \in Cpu, EnSuSitio(d), Igual(d), MismaAtencion(d)
  PROVE  EnSuSitio(d)'
BY DEF EnSuSitio, Igual, MismaAtencion, Ocupado, Atiende, Devuelto

\* A step of one CPU, or of its thread.
LEMMA CpusUna ==
  ASSUME TipoInv, CpuInv, NEW c \in Cpu, EnSuSitio(c)', ~ Repite(listaCPUs'),
         \A d \in Cpu : d # c => Igual(d) /\ pc'[d] = pc[d],
         pcp'.pc = "despachar" => pcp' = pcp,
         disponible[c] => disponible'[c], fase[c] # "fuera" => fase'[c] # "fuera"
  PROVE  CpuInv'
<1>1. \A d \in Cpu : EnSuSitio(d)'
  BY SitioIgual DEF CpuInv, MismaAtencion
<1>2. ElegidaLibre'
  <2> SUFFICES ASSUME pcp'.pc = "despachar", pcp'.cpu # Nadie
               PROVE  disponible'[pcp'.cpu] /\ fase'[pcp'.cpu] # "fuera"
    BY DEF ElegidaLibre
  <2>1. pcp' = pcp /\ pcp.cpu \in Cpu
    BY DEF TipoInv, TypeOK, TipoPcp
  <2> QED BY <2>1 DEF CpuInv, ElegidaLibre, Igual
<1> QED BY <1>1, <1>2 DEF CpuInv

\* A step of a thread that leaves every CPU as it was.
LEMMA CpusAjeno ==
  ASSUME TipoInv, CpuInv, UNCHANGED <<listaCPUs, disponible, pcb, fase, enCpu>>,
         \/ UNCHANGED pc
         \/ \E h \in Hilo, d \in Donde \ Ocupado : pc[h] \notin Ocupado /\ pc' = [pc EXCEPT ![h] = d],
         pcp'.pc = "despachar" => pcp' = pcp
  PROVE  CpuInv'
<1>1. \A d \in Cpu : Igual(d)
  BY DEF Igual, EnLista
<1>2. \A d \in Cpu : MismaAtencion(d)
  BY DEF MismaAtencion, TipoInv, TypeOK, Hilo
<1>3. \A d \in Cpu : EnSuSitio(d)'
  BY <1>1, <1>2, SitioIgual DEF CpuInv
<1>4. ElegidaLibre'
  BY DEF CpuInv, ElegidaLibre
<1> QED BY <1>3, <1>4 DEF CpuInv

-----------------------------------------------------------------------------
LEMMA Cpus_Init == Init => CpuInv
<1> SUFFICES ASSUME Init PROVE CpuInv
  OBVIOUS
<1>1. listaCPUs = <<>> /\ pcp.pc = "espera"
  BY DEF Init
<1>2. \A c \in Cpu : /\ fase[c] = "fuera" /\ enCpu[c] = Nadie
                     /\ pc[c] \in {"inicio", "libre"}
  BY DEF Init, Hilo
<1>3. \A c \in Cpu : ~ EnLista(c)
  <2>1. DOMAIN listaCPUs = {}
    BY <1>1
  <2> QED BY <2>1 DEF EnLista
<1>4. \A c \in Cpu : EnSuSitio(c)
  BY <1>2, <1>3 DEF EnSuSitio, Ocupado, Atiende, Devuelto
<1> QED BY <1>1, <1>4 DEF CpuInv, ElegidaLibre, Repite

LEMMA Cpus_HiloConsola ==
  ASSUME TipoInv, CpuInv, NEW p \in Proc, HiloConsola(p)
  PROVE  CpuInv'
<1>1. UNCHANGED <<listaCPUs, disponible, pcb, fase, enCpu, pcp>>
  BY DEF HiloConsola, EnvioCodigo, CrearInfoEstadistica, cpus, externo
<1>2. \E d \in {"info", "plp"} : pc[p] \notin Ocupado /\ pc' = [pc EXCEPT ![p] = d]
  BY DEF HiloConsola, EnvioCodigo, CrearInfoEstadistica, En, Ir, Ocupado, Atiende, Devuelto
<1>3. p \in Hilo /\ {"info", "plp"} \subseteq Donde \ Ocupado
  BY DEF Hilo, Donde, EnPlanificador, Ocupado, Atiende, Devuelto
<1> QED BY <1>1, <1>2, <1>3, CpusAjeno

LEMMA Cpus_LargoPlazo ==
  ASSUME TipoInv, CpuInv, NEW h \in Hilo, LargoPlazo(h)
  PROVE  CpuInv'
<1> DEFINE D == {"libre", "lazo", "memoria", "listo", "codigo", "suma", "guarda"}
<1>1. UNCHANGED <<listaCPUs, disponible, pcb, fase, enCpu, pcp>>
  BY DEF LargoPlazo, EmpezarLargoPlazo, SacarDeNew, MemoriaAcepta, MemoriaRechaza, AnotarReady,
         EnvioCodigoMemoria, LeerCantSuma, GuardarCantSuma, Cae, cpus, externo
<1>2. \/ UNCHANGED pc
      \/ \E d \in D : pc[h] \notin Ocupado /\ pc' = [pc EXCEPT ![h] = d]
  <2>1. CASE SacarDeNew(h) \/ MemoriaRechaza(h) \/ AnotarReady(h)
    BY <2>1 DEF SacarDeNew, MemoriaRechaza, AnotarReady, TerminaPlanificador, Cae, En, Ir, hilos,
                Ocupado, Atiende, Devuelto
  <2>2. CASE \/ EmpezarLargoPlazo(h) \/ EnvioCodigoMemoria(h) \/ MemoriaAcepta(h)
             \/ LeerCantSuma(h) \/ GuardarCantSuma(h)
    BY <2>2 DEF EmpezarLargoPlazo, EnvioCodigoMemoria, MemoriaAcepta, LeerCantSuma, GuardarCantSuma,
                TerminaPlanificador, En, Ir, Ocupado, Atiende, Devuelto
  <2> QED BY <2>1, <2>2 DEF LargoPlazo
<1>3. D \subseteq Donde \ Ocupado
  BY DEF Donde, EnPlanificador, Ocupado, Atiende, Devuelto
<1> HIDE DEF D
<1> QED BY <1>1, <1>2, <1>3, CpusAjeno

\* planificarCortoPlazo: the CPU it chooses is free and stays so until it is
\* given the program.
LEMMA Cpus_CortoPlazo ==
  ASSUME TipoInv, CpuInv, CortoPlazo
  PROVE  CpuInv'
<1>1. pcp \in TipoPcp /\ UNCHANGED pc
  BY DEF TipoInv, TypeOK, CortoPlazo, EsperarReady, EsperarPlanificacion, EsperarCpu, ElegirCpu,
         Despachar, AnotarExec, Cae, hilos
<1>2. CASE \/ EsperarReady \/ EsperarPlanificacion \/ EsperarCpu \/ AnotarExec
           \/ ElegirCpu /\ colaReady = <<>>
           \/ Despachar /\ pcp.cpu = Nadie
  <2>1. UNCHANGED <<listaCPUs, disponible, pcb, fase, enCpu>>
    BY <1>2 DEF EsperarReady, EsperarPlanificacion, EsperarCpu, AnotarExec, ElegirCpu, Despachar,
                Cae, cpus, externo
  <2>2. pcp'.pc = "despachar" => pcp' = pcp
    BY <1>1, <1>2 DEF EsperarReady, EsperarPlanificacion, EsperarCpu, AnotarExec, ElegirCpu, Despachar,
                      Cae, TipoPcp
  <2> QED BY <1>1, <2>1, <2>2, CpusAjeno
<1>3. CASE ElegirCpu /\ colaReady # <<>>
  <2>1. UNCHANGED <<listaCPUs, disponible, pcb, fase, enCpu>> /\ pcp'.cpu = CpuLibre
    BY <1>3 DEF ElegirCpu, cpus, externo
  <2>2. \A d \in Cpu : Igual(d) /\ MismaAtencion(d)
    BY <1>1, <2>1 DEF Igual, EnLista, MismaAtencion
  <2>3. ElegidaLibre'
    <3>1. CpuLibre # Nadie => CpuLibre \in Cpu /\ EnLista(CpuLibre) /\ disponible[CpuLibre]
      BY CpuLibreEsta DEF TipoInv
    <3> QED BY <2>1, <3>1 DEF CpuInv, EnSuSitio, ElegidaLibre
  <2> QED BY <2>1, <2>2, <2>3, SitioIgual DEF CpuInv
<1>4. CASE Despachar /\ pcp.cpu # Nadie
  <2>1. PICK c \in Cpu : c = pcp.cpu
    BY <1>1, <1>4 DEF TipoPcp
  <2>2. /\ disponible[c] /\ fase[c] # "fuera" /\ pcp.proc \in Proc /\ EnSuSitio(c)
        /\ disponible \in [Cpu -> BOOLEAN] /\ pcb \in [Cpu -> Proc \cup {Nadie}]
        /\ enCpu \in [Cpu -> Proc \cup {Nadie}] /\ pcp.proc # Nadie
    BY <1>4, <2>1, PlanificadorAssumption
       DEF CpuInv, ElegidaLibre, Despachar, EnPcp, TipoInv, Manos, TypeOK, Hilo
  <2>3. /\ pcb' = [pcb EXCEPT ![c] = pcp.proc] /\ disponible' = [disponible EXCEPT ![c] = FALSE]
        /\ enCpu' = [enCpu EXCEPT ![c] = IF fase[c] = "ida" THEN @ ELSE pcp.proc]
        /\ UNCHANGED <<listaCPUs, fase>> /\ pcp'.pc = "anotar"
    BY <1>1, <1>4, <2>1 DEF Despachar, Ocupar, TipoPcp
  <2>4. /\ \A d \in Cpu : d # c => Igual(d) /\ MismaAtencion(d)
        /\ pcb'[c] = pcp.proc /\ ~ disponible'[c] /\ EnLista(c)' = EnLista(c)
        /\ enCpu'[c] = IF fase[c] = "ida" THEN enCpu[c] ELSE pcp.proc
    BY <1>1, <2>2, <2>3 DEF Igual, EnLista, MismaAtencion
  <2>5. EnSuSitio(c)'
    BY <1>1, <2>2, <2>3, <2>4 DEF EnSuSitio, Atiende, Devuelto, Ocupado
  <2>6. ElegidaLibre'
    BY <2>3 DEF ElegidaLibre
  <2> QED BY <2>3, <2>4, <2>5, <2>6, SitioIgual DEF CpuInv
<1> QED BY <1>2, <1>3, <1>4 DEF CortoPlazo

-----------------------------------------------------------------------------
\* The steps of a CPU, and of the thread that handles what it sends.

\* The types these proofs read.
CpusTipo ==
  /\ pc \in [Hilo -> Donde] /\ fase \in [Cpu -> Fases] /\ disponible \in [Cpu -> BOOLEAN]
  /\ pcb \in [Cpu -> Proc \cup {Nadie}] /\ enCpu \in [Cpu -> Proc \cup {Nadie}]
  /\ listaCPUs \in Seq(Cpu) /\ Cpu \subseteq Hilo /\ Nadie \notin Proc

LEMMA CpusTipado == ASSUME TipoInv PROVE CpusTipo
BY PlanificadorAssumption DEF CpusTipo, TipoInv, TypeOK, Hilo

\* A CPU in a burst has its program; it is not free and its thread is at rest.
LEMMA SitioEnRafaga ==
  ASSUME TipoInv, CpuInv, NEW c \in Cpu, EnRafaga(c)
  PROVE  /\ fase[c] = "corre" /\ pc[c] = "libre" /\ EnLista(c) /\ ~ disponible[c]
         /\ enCpu[c] \in Proc /\ pcb[c] = enCpu[c]
<1>1. EnSuSitio(c) /\ fase[c] = "corre" /\ pc[c] = "libre" /\ disponible[c] \in BOOLEAN
  BY CpusTipado DEF CpuInv, EnRafaga, En, CpusTipo
<1> QED BY <1>1 DEF EnSuSitio, TipoInv, Manos

\* What a handler that has just received the PCB leaves.
LEMMA Cpus_Devuelve ==
  ASSUME TipoInv, CpuInv, NEW c \in Cpu, Devuelve(c), NEW d \in Devuelto, pc' = [pc EXCEPT ![c] = d],
         fase[c] = "corre", EnLista(c), ~ disponible[c],
         UNCHANGED <<listaCPUs, disponible, pcb, pcp>>
  PROVE  CpuInv'
<1>1. CpusTipo
  BY CpusTipado
<1>2. PICK f \in {"ociosa"} \cup (IF c \in CpuFragil THEN {"apagada"} ELSE {}) :
        fase' = [fase EXCEPT ![c] = f]
  BY DEF Devuelve
<1>3. enCpu' = [enCpu EXCEPT ![c] = Nadie]
  BY DEF Devuelve
<1>4. \A x \in Cpu : x # c => Igual(x) /\ pc'[x] = pc[x]
  BY <1>1, <1>2, <1>3 DEF Igual, EnLista, CpusTipo
<1>5. /\ pc'[c] = d /\ fase'[c] = f /\ enCpu'[c] = Nadie /\ disponible'[c] = disponible[c]
      /\ EnLista(c)' = EnLista(c) /\ f \in {"ociosa", "apagada"} /\ (CpuFragil = {} => f = "ociosa")
  BY <1>1, <1>2, <1>3 DEF CpusTipo, EnLista
<1>6. EnSuSitio(c)'
  BY <1>5 DEF EnSuSitio, Devuelto, Atiende, Ocupado
<1> QED BY <1>4, <1>5, <1>6, CpusUna DEF CpuInv

\* A step of the thread that moves between the steps of its handler.
LEMMA Cpus_Hilo ==
  ASSUME TipoInv, CpuInv, NEW c \in Cpu, NEW d, pc' = [pc EXCEPT ![c] = d],
         \/ pc[c] \in {"signal", "wait", "w_recibe", "s_estado"} /\ d \notin Devuelto \cup Atiende \cup {"caida"}
         \/ pc[c] \in Atiende /\ d \in Atiende
         \/ pc[c] = "q_estado" /\ d = "desocupa"
         \/ fase[c] = "corre" /\ pc[c] = "libre" /\ d \in Atiende,
         UNCHANGED <<listaCPUs, disponible, pcb, fase, enCpu, pcp>>
  PROVE  CpuInv'
<1>1. CpusTipo
  BY CpusTipado
<1>2. (\A x \in Cpu : x # c => Igual(x) /\ pc'[x] = pc[x]) /\ Igual(c) /\ pc'[c] = d
  BY <1>1 DEF Igual, EnLista, CpusTipo
<1>3. EnSuSitio(c) /\ disponible[c] \in BOOLEAN
  BY <1>1 DEF CpuInv, CpusTipo
<1>4. EnSuSitio(c)'
  BY <1>2, <1>3 DEF EnSuSitio, Igual, Devuelto, Atiende, Ocupado
<1> QED BY <1>2, <1>4, CpusUna DEF CpuInv, Igual

\* What a CPU in a burst asks.
LEMMA Cpus_PedidoCpu ==
  ASSUME TipoInv, CpuInv, NEW c \in Cpu, PedidoCpu(c)
  PROVE  CpuInv'
<1>1. CASE FinalizacionQuantum(c) \/ FinalizacionProceso(c)
  <2>1. /\ EnRafaga(c) /\ Devuelve(c) /\ UNCHANGED <<listaCPUs, disponible, pcb, pcp>>
        /\ \E d \in {"libera", "q_estado"} : pc' = [pc EXCEPT ![c] = d]
    BY <1>1 DEF FinalizacionQuantum, FinalizacionProceso, EmpiezaTerminar, Ir, cpus
  <2> QED BY <2>1, SitioEnRafaga, Cpus_Devuelve DEF Devuelto
<1>2. ASSUME NEW s \in Sem, PedirSemaforo(c, s) PROVE CpuInv'
  <2>1. /\ EnRafaga(c) /\ UNCHANGED <<listaCPUs, disponible, pcb, fase, enCpu, pcp>>
        /\ \E d \in {"signal", "wait"} : pc' = [pc EXCEPT ![c] = d]
    BY <1>2 DEF PedirSemaforo, Ir, cpus
  <2> QED BY <2>1, SitioEnRafaga, Cpus_Hilo DEF Atiende
<1>3. CASE SinInfo(c)
  BY <1>3, CpusAjeno DEF SinInfo, Cae, cpus, externo, hilos
<1> QED BY <1>1, <1>2, <1>3 DEF PedidoCpu

\* desocupar_cpu, at the end of a handler and when a program ends.
LEMMA Cpus_Desocupar ==
  ASSUME TipoInv, CpuInv, NEW c \in Cpu, DesocuparCpu(c) \/ TerminarLiberar(c)
  PROVE  CpuInv'
<1>1. CpusTipo /\ EnSuSitio(c)
  BY CpusTipado DEF CpuInv
<1>2. /\ pc[c] \in {"desocupa", "libera"} /\ UNCHANGED <<listaCPUs, pcb, fase, enCpu, pcp>>
      /\ EnLista(c) => disponible' = [disponible EXCEPT ![c] = TRUE]
      /\ ~ EnLista(c) => UNCHANGED disponible
  BY DEF DesocuparCpu, TerminarLiberar, En, Desocupar, externo
<1>3. PICK d \in {"libre", "resta"} : pc' = [pc EXCEPT ![c] = d]
  BY DEF DesocuparCpu, TerminarLiberar, TerminaPlanificador, Ir
<1>4. \A x \in Cpu : x # c => Igual(x) /\ pc'[x] = pc[x]
  BY <1>1, <1>2, <1>3 DEF Igual, EnLista, CpusTipo
<1>5. /\ pc'[c] = d /\ EnLista(c)' = EnLista(c) /\ (EnLista(c) => disponible'[c])
      /\ (disponible[c] => disponible'[c]) /\ disponible[c] \in BOOLEAN
  BY <1>1, <1>2, <1>3 DEF CpusTipo, EnLista
<1>6. EnSuSitio(c)'
  BY <1>1, <1>2, <1>5 DEF EnSuSitio, Devuelto, Atiende, Ocupado
<1> QED BY <1>2, <1>4, <1>5, <1>6, CpusUna DEF CpuInv

\* PROC_BLOCKED: the CPU gives the PCB back.
LEMMA Cpus_RecibirBloqueado ==
  ASSUME TipoInv, CpuInv, NEW c \in Cpu, RecibirBloqueado(c)
  PROVE  CpuInv'
<1>1. CpusTipo /\ EnSuSitio(c)
  BY CpusTipado DEF CpuInv
<1>2. /\ pc[c] = "w_recibe" /\ fase[c] = "corre" /\ Devuelve(c)
      /\ UNCHANGED <<listaCPUs, disponible, pcb, pcp>>
      /\ \E d \in {"libera", "desocupa"} : pc' = [pc EXCEPT ![c] = d]
  BY DEF RecibirBloqueado, EmpiezaTerminar, En, Ir, cpus
<1>3. EnLista(c) /\ ~ disponible[c]
  BY <1>1, <1>2 DEF EnSuSitio, Atiende, CpusTipo
<1> QED BY <1>2, <1>3, Cpus_Devuelve DEF Devuelto

\* A CPU leaves the list.
LEMMA Cpus_SeVa ==
  ASSUME TipoInv, CpuInv, NEW c \in Cpu, EliminarCpu(c) \/ CpuCaida(c)
  PROVE  CpuInv'
<1>1. CpusTipo /\ EnSuSitio(c) /\ disponible[c] \in BOOLEAN
  BY CpusTipado DEF CpuInv, CpusTipo
<1>2. CASE EliminarCpu(c) /\ pcb[c] = Nadie
  BY <1>2, CpusAjeno DEF EliminarCpu, Cae, cpus, externo, hilos
<1>3. CASE ~ (EliminarCpu(c) /\ pcb[c] = Nadie)
  <2>1. /\ fase[c] \in {"apagada", "caida"} /\ pc[c] = "libre"
        /\ fase' = [fase EXCEPT ![c] = "ida"] /\ listaCPUs' = SinCpu(c)
        /\ UNCHANGED <<disponible, pcb, pcp>>
    BY <1>3 DEF EliminarCpu, CpuCaida, En
  <2>2. /\ CpuFragil # {} /\ EnLista(c)
    BY <1>1, <2>1 DEF EnSuSitio
  <2>3. ~ Repite(listaCPUs') /\ \A x : EnLista(x)' <=> EnLista(x) /\ x # c
    <3>1. \A x : EnLista(x)' <=> EnCola(x, SinCpu(c))
      BY <2>1 DEF EnLista, EnCola
    <3> QED BY <2>1, <3>1, ColaSinCpu DEF CpuInv, TipoInv
  <2>4. PICK d \in {"libre", "caida", "libera"} :
          /\ pc' = [pc EXCEPT ![c] = d] /\ (d = "caida" => disponible[c])
          /\ UNCHANGED enCpu \/ enCpu' = [enCpu EXCEPT ![c] = Nadie]
    <3>1. CASE EliminarCpu(c)
      BY <1>1, <1>3, <2>1, <3>1 DEF EliminarCpu, externo, hilos, CpusTipo
    <3>2. CASE CpuCaida(c)
      BY <3>2 DEF CpuCaida, TerminarSiTenia, EmpiezaTerminar, Ir
    <3> QED BY <3>1, <3>2
  <2>5. \A x \in Cpu : x # c => Igual(x) /\ pc'[x] = pc[x]
    <3>1. \A x \in Cpu : x # c => EnLista(x)' = EnLista(x)
      BY <2>3 DEF EnLista
    <3> QED BY <1>1, <2>1, <2>4, <3>1 DEF Igual, CpusTipo
  <2>6. /\ fase'[c] = "ida" /\ ~ EnLista(c)' /\ pc'[c] = d
        /\ enCpu'[c] \in {enCpu[c], Nadie}
    BY <1>1, <2>1, <2>3, <2>4 DEF CpusTipo
  <2>7. EnSuSitio(c)'
    BY <1>1, <2>2, <2>4, <2>6 DEF EnSuSitio, Devuelto, Atiende, Ocupado
  <2> QED BY <2>1, <2>3, <2>5, <2>6, <2>7, CpusUna
<1> QED BY <1>2, <1>3

\* The handler of a CPU that died had its place in semCPUs_disponibles to wait for.
LEMMA Cpus_CpuCaidaEspera ==
  ASSUME TipoInv, CpuInv, NEW c \in Cpu, CpuCaidaEspera(c)
  PROVE  CpuInv'
<1>1. CpusTipo /\ EnSuSitio(c)
  BY CpusTipado DEF CpuInv
<1>2. /\ pc[c] = "caida" /\ fase[c] = "ida" /\ enCpu[c] = Nadie
      /\ UNCHANGED <<listaCPUs, disponible, pcb, fase, pcp>>
  BY <1>1 DEF CpuCaidaEspera, En, EnSuSitio, cpus
<1>3. PICK d \in {"libre", "libera"} :
        /\ pc' = [pc EXCEPT ![c] = d]
        /\ UNCHANGED enCpu \/ enCpu' = [enCpu EXCEPT ![c] = Nadie]
  BY DEF CpuCaidaEspera, TerminarSiTenia, EmpiezaTerminar, Ir
<1>4. (\A x \in Cpu : x # c => Igual(x) /\ pc'[x] = pc[x]) /\ Igual(c) /\ pc'[c] = d
  BY <1>1, <1>2, <1>3 DEF Igual, EnLista, CpusTipo
<1>5. EnSuSitio(c)'
  BY <1>1, <1>2, <1>4 DEF EnSuSitio, Igual, Devuelto, Atiende, Ocupado
<1> QED BY <1>2, <1>4, <1>5, CpusUna DEF CpuInv, Igual

LEMMA Cpus_HiloCpu ==
  ASSUME TipoInv, CpuInv, NEW c \in Cpu, HiloCpu(c)
  PROVE  CpuInv'
<1>1. CASE DesocuparCpu(c) \/ TerminarLiberar(c)
  BY <1>1, Cpus_Desocupar
<1>2. CASE LeerCantResta(c) \/ GuardarCantResta(c)
  <2>1. UNCHANGED <<listaCPUs, disponible, pcb, fase, enCpu, pcp>>
    BY <1>2 DEF LeerCantResta, GuardarCantResta, cpus, externo
  <2>2. \E d \in {"guarda_resta", "plp"} : pc[c] \notin Ocupado /\ pc' = [pc EXCEPT ![c] = d]
    BY <1>2 DEF LeerCantResta, GuardarCantResta, En, Ir, Ocupado, Atiende, Devuelto
  <2>3. c \in Hilo /\ {"guarda_resta", "plp"} \subseteq Donde \ Ocupado
    BY DEF Hilo, Donde, EnPlanificador, PasosCpu, Ocupado, Atiende, Devuelto
  <2> QED BY <2>1, <2>2, <2>3, CpusAjeno
<1>3. CASE \/ QuantumAnotarReady(c) \/ RealizarSignal(c) \/ SignalAnotarReady(c)
           \/ RealizarWait(c) \/ BloqueadoNoLlega(c)
  <2>1. UNCHANGED <<listaCPUs, disponible, pcb, fase, enCpu, pcp>>
    BY <1>3 DEF QuantumAnotarReady, RealizarSignal, SignalAnotarReady, RealizarWait, BloqueadoNoLlega,
                cpus, externo
  <2>2. \E d : /\ pc' = [pc EXCEPT ![c] = d]
               /\ \/ pc[c] \in {"signal", "wait", "w_recibe", "s_estado"} /\ d = "libre"
                  \/ pc[c] \in Atiende /\ d \in Atiende
                  \/ pc[c] = "q_estado" /\ d = "desocupa"
    BY <1>3 DEF QuantumAnotarReady, RealizarSignal, SignalAnotarReady, RealizarWait, BloqueadoNoLlega,
                TerminaPlanificador, En, Ir, Atiende
  <2>3. "libre" \notin Devuelto \cup Atiende \cup {"caida"}
    BY DEF Devuelto, Atiende
  <2> QED BY <2>1, <2>2, <2>3, Cpus_Hilo
<1>4. CASE RecibirBloqueado(c)
  BY <1>4, Cpus_RecibirBloqueado
<1>5. CASE EliminarCpu(c) \/ CpuCaida(c) \/ CpuCaidaEspera(c)
  BY <1>5, Cpus_SeVa, Cpus_CpuCaidaEspera
<1> QED BY <1>1, <1>2, <1>3, <1>4, <1>5 DEF HiloCpu

\* HANDSHAKE_CPU.
LEMMA Cpus_Conectar ==
  ASSUME TipoInv, CpuInv, NEW c \in Cpu, Conectar(c)
  PROVE  CpuInv'
<1>1. CpusTipo /\ EnSuSitio(c)
  BY CpusTipado DEF CpuInv
<1>2. /\ fase[c] = "fuera" /\ fase' = [fase EXCEPT ![c] = "ociosa"]
      /\ listaCPUs' = Append(listaCPUs, c) /\ disponible' = [disponible EXCEPT ![c] = TRUE]
      /\ UNCHANGED <<pcb, pc, pcp, enCpu>>
  BY DEF Conectar, hilos
<1>3. ~ EnLista(c) /\ enCpu[c] = Nadie /\ pc[c] \notin Ocupado
  BY <1>1, <1>2 DEF EnSuSitio
<1>4. ~ Repite(listaCPUs') /\ \A x : EnLista(x)' <=> EnLista(x) \/ x = c
  <2>1. \A x : EnLista(x) <=> EnCola(x, listaCPUs)
    BY DEF EnLista, EnCola
  <2>2. \A x : EnLista(x)' <=> EnCola(x, Append(listaCPUs, c))
    BY <1>2 DEF EnLista, EnCola
  <2> QED BY <1>1, <1>2, <1>3, <2>1, <2>2, ColaAppend DEF CpuInv, CpusTipo
<1>5. \A x \in Cpu : x # c => Igual(x) /\ pc'[x] = pc[x]
  <2>1. \A x \in Cpu : x # c => EnLista(x)' = EnLista(x)
    BY <1>4 DEF EnLista
  <2> QED BY <1>1, <1>2, <2>1 DEF Igual, CpusTipo
<1>6. EnLista(c)' /\ fase'[c] = "ociosa" /\ disponible'[c] /\ UNCHANGED <<enCpu[c], pc[c]>>
  BY <1>1, <1>2, <1>4 DEF CpusTipo
<1>7. EnSuSitio(c)'
  BY <1>3, <1>6 DEF EnSuSitio, Ocupado
<1> QED BY <1>2, <1>4, <1>5, <1>6, <1>7, CpusUna

\* A burst begins, SIGUSR1 comes, a CPU dies.
LEMMA Cpus_Fase ==
  ASSUME TipoInv, CpuInv, NEW c \in Cpu, ComenzarEjecucion(c) \/ Sigusr1(c) \/ CpuMuere(c)
  PROVE  CpuInv'
<1>1. CpusTipo /\ EnSuSitio(c)
  BY CpusTipado DEF CpuInv
<1>2. PICK f \in {"corre", "apagada", "caida"} :
        /\ fase[c] \in {"ociosa", "corre"} /\ fase' = [fase EXCEPT ![c] = f]
        /\ UNCHANGED <<listaCPUs, disponible, pcb, pc, pcp, enCpu>>
        /\ \/ f = "corre" /\ enCpu[c] # Nadie
           \/ f = "apagada" /\ fase[c] = "ociosa" /\ c \in CpuFragil
           \/ f = "caida" /\ c \in CpuFragil
  BY DEF ComenzarEjecucion, Sigusr1, CpuMuere, cpus, hilos
<1>3. \A x \in Cpu : x # c => Igual(x) /\ pc'[x] = pc[x]
  BY <1>1, <1>2 DEF Igual, EnLista, CpusTipo
<1>4. fase'[c] = f /\ EnLista(c)' = EnLista(c)
  BY <1>1, <1>2 DEF EnLista, CpusTipo
<1>5. EnSuSitio(c)'
  BY <1>1, <1>2, <1>4 DEF EnSuSitio, Atiende, Devuelto, Ocupado
<1> QED BY <1>2, <1>3, <1>4, <1>5, CpusUna DEF CpuInv

LEMMA Cpus_Operador ==
  ASSUME TipoInv, CpuInv, Operador
  PROVE  CpuInv'
<1>1. UNCHANGED <<listaCPUs, disponible, pcb, fase, enCpu, pcp>>
  BY DEF Operador, KillProcess, GradoMultiprogramacion, StopPlanification, cpus, externo
<1>2. \/ UNCHANGED pc
      \/ pc[Interfaz] \notin Ocupado /\ pc' = [pc EXCEPT ![Interfaz] = "plp"]
  BY DEF Operador, KillProcess, GradoMultiprogramacion, StopPlanification, hilos, En, Ir,
         Ocupado, Atiende, Devuelto
<1>3. Interfaz \in Hilo /\ "plp" \in Donde \ Ocupado
  BY DEF Hilo, Donde, EnPlanificador, Ocupado, Atiende, Devuelto
<1> QED BY <1>1, <1>2, <1>3, CpusAjeno

LEMMA Cpus_Paso == TipoInv /\ CpuInv /\ [Next]_vars => CpuInv'
<1> SUFFICES ASSUME TipoInv, CpuInv, [Next]_vars PROVE CpuInv'
  OBVIOUS
<1>1. CASE Next
  BY <1>1, Cpus_HiloConsola, Cpus_LargoPlazo, Cpus_CortoPlazo, Cpus_Conectar, Cpus_Fase,
     Cpus_PedidoCpu, Cpus_HiloCpu, Cpus_Operador DEF Next
<1>2. CASE UNCHANGED vars
  BY <1>2, CpusAjeno DEF vars, cpus, hilos, externo
<1> QED BY <1>1, <1>2

\* CPUs come, go, die and are chosen while others end: each one of the list is
\* free, or has the program its cpu_t says, or its handler is about to free it.
THEOREM CpusEnSuSitio == Spec => []CpuInv
BY Cpus_Init, Cpus_Paso, TipoSiempre, PTL DEF Spec

\* obtenerCpuLibre: "si esta disponible es porque no tiene nada corriendo".
THEOREM DisponiblesOciosos == Spec => []DisponibleEsOcioso
<1>1. CpuInv => DisponibleEsOcioso
  BY DEF CpuInv, EnSuSitio, DisponibleEsOcioso
<1> QED BY <1>1, CpusEnSuSitio, PTL

-----------------------------------------------------------------------------
\* CuposDeCpu, while no CPU leaves.

Libres == {c \in Cpu : EnLista(c) /\ disponible[c]}

LEMMA LibresFinito ==
  Libres \subseteq Cpu /\ IsFiniteSet(Libres) /\ Cardinality(Libres) \in Nat
<1>1. Libres \subseteq Cpu /\ IsFiniteSet(Cpu)
  BY PlanificadorAssumption DEF Libres
<1> QED BY <1>1, FS_Subset, FS_CardinalityType

\* A step that leaves the free CPUs, their count and the planner's unit alone.
LEMMA CuposAjeno ==
  ASSUME CuposDeCpu, UNCHANGED <<listaCPUs, disponible, semCPUs>>, ConCupo' = ConCupo
  PROVE  CuposDeCpu'
BY DEF CuposDeCpu, EnLista

\* Some CPU becomes free and semCPUs_disponibles is posted.
LEMMA CuposSuma ==
  ASSUME TipoInv, CuposDeCpu, NEW c \in Cpu, c \notin Libres,
         Libres' = Libres \cup {c}, semCPUs' = semCPUs + 1, UNCHANGED pcp
  PROVE  CuposDeCpu'
<1>1. Cardinality(Libres') = Cardinality(Libres) + 1
  BY LibresFinito, FS_AddElement
<1>2. ConCupo' = ConCupo /\ ConCupo \in Int /\ semCPUs \in Int /\ Cardinality(Libres) \in Int
  BY LibresFinito DEF ConCupo, TipoInv, TypeOK
<1>3. semCPUs + ConCupo = Cardinality(Libres)
  BY DEF CuposDeCpu, Libres
<1>4. semCPUs' + ConCupo' = Cardinality(Libres')
  BY <1>1, <1>2, <1>3
<1> QED BY <1>4 DEF CuposDeCpu, Libres

LEMMA Cupos_CortoPlazo ==
  ASSUME CpuFragil = {}, TipoInv, CpuInv, CuposDeCpu, CortoPlazo
  PROVE  CuposDeCpu'
<1>1. pcp \in TipoPcp /\ semCPUs \in Nat
  BY DEF TipoInv, TypeOK
<1>2. CASE \/ EsperarReady \/ EsperarPlanificacion \/ AnotarExec \/ ElegirCpu
           \/ Despachar /\ pcp.cpu = Nadie
  <2>1. UNCHANGED <<listaCPUs, disponible, semCPUs>>
    BY <1>2 DEF EsperarReady, EsperarPlanificacion, AnotarExec, ElegirCpu, Despachar, Cae, sems, cpus
  <2>2. (pcp'.pc \in {"elegir", "despachar"}) <=> (pcp.pc \in {"elegir", "despachar"})
    BY <1>1, <1>2 DEF EsperarReady, EsperarPlanificacion, AnotarExec, ElegirCpu, Despachar, Cae,
                      EnPcp, TipoPcp
  <2> QED BY <2>1, <2>2, CuposAjeno DEF ConCupo
<1>3. CASE EsperarCpu
  <2>1. /\ UNCHANGED <<listaCPUs, disponible>> /\ semCPUs' = semCPUs - 1
        /\ pcp.pc = "cpu" /\ pcp'.pc = "elegir"
    BY <1>1, <1>3 DEF EsperarCpu, EnPcp, cpus, TipoPcp
  <2>2. Libres' = Libres
    BY <2>1 DEF Libres, EnLista
  <2>3. semCPUs + 0 = Cardinality(Libres)
    BY <2>1 DEF CuposDeCpu, Libres, ConCupo
  <2>4. semCPUs' + ConCupo' = Cardinality(Libres')
    BY <1>1, <2>1, <2>2, <2>3 DEF ConCupo
  <2> QED BY <2>4 DEF CuposDeCpu, Libres
<1>4. CASE Despachar /\ pcp.cpu # Nadie
  <2>1. PICK c \in Cpu : c = pcp.cpu
    BY <1>1, <1>4 DEF TipoPcp
  <2>2. /\ pcp.pc = "despachar" /\ pcp'.pc = "anotar" /\ UNCHANGED <<listaCPUs, semCPUs>>
        /\ disponible' = [disponible EXCEPT ![c] = FALSE] /\ disponible \in [Cpu -> BOOLEAN]
    BY <1>1, <1>4, <2>1 DEF Despachar, EnPcp, Ocupar, sems, TipoPcp, TipoInv, TypeOK
  <2>3. c \in Libres
    BY <1>4, <2>1, <2>2 DEF CpuInv, ElegidaLibre, EnSuSitio, Libres
  <2>4. Libres' = Libres \ {c}
    BY <2>2 DEF Libres, EnLista
  <2>5. Cardinality(Libres') = Cardinality(Libres) - 1
    BY <2>3, <2>4, LibresFinito, FS_RemoveElement
  <2>6. semCPUs + 1 = Cardinality(Libres)
    BY <2>2 DEF CuposDeCpu, Libres, ConCupo
  <2>7. semCPUs' + ConCupo' = Cardinality(Libres')
    BY <1>1, <2>2, <2>5, <2>6 DEF ConCupo
  <2> QED BY <2>7 DEF CuposDeCpu, Libres
<1> QED BY <1>2, <1>3, <1>4 DEF CortoPlazo

LEMMA Cupos_Cpu ==
  ASSUME CpuFragil = {}, TipoInv, CpuInv, CuposDeCpu, NEW c \in Cpu,
         \/ Conectar(c) \/ ComenzarEjecucion(c) \/ Sigusr1(c) \/ CpuMuere(c)
         \/ PedidoCpu(c) \/ HiloCpu(c)
  PROVE  CuposDeCpu'
<1>1. CpusTipo /\ EnSuSitio(c)
  BY CpusTipado DEF CpuInv
<1>2. CASE Conectar(c)
  <2>1. /\ fase[c] = "fuera" /\ listaCPUs' = Append(listaCPUs, c)
        /\ disponible' = [disponible EXCEPT ![c] = TRUE]
        /\ semCPUs' = semCPUs + 1 /\ UNCHANGED pcp
    BY <1>2 DEF Conectar
  <2>2. \A x : EnLista(x)' <=> EnLista(x) \/ x = c
    <3>1. \A x : EnLista(x) <=> EnCola(x, listaCPUs)
      BY DEF EnLista, EnCola
    <3>2. \A x : EnLista(x)' <=> EnCola(x, Append(listaCPUs, c))
      BY <2>1 DEF EnLista, EnCola
    <3> QED BY <1>1, <3>1, <3>2, ColaAppend DEF CpusTipo
  <2>3. c \notin Libres /\ Libres' = Libres \cup {c}
    BY <1>1, <2>1, <2>2 DEF Libres, EnSuSitio, CpusTipo
  <2> QED BY <2>1, <2>3, CuposSuma
<1>3. CASE DesocuparCpu(c) \/ TerminarLiberar(c)
  <2>1. pc[c] \in {"desocupa", "libera"} /\ UNCHANGED <<listaCPUs, pcp>> /\ Desocupar(c)
    BY <1>3 DEF DesocuparCpu, TerminarLiberar, En
  <2>2. EnLista(c) /\ ~ disponible[c]
    BY <1>1, <2>1 DEF EnSuSitio, Ocupado, Devuelto
  <2>3. disponible' = [disponible EXCEPT ![c] = TRUE] /\ semCPUs' = semCPUs + 1
    BY <2>1, <2>2 DEF Desocupar
  <2>4. c \notin Libres /\ Libres' = Libres \cup {c}
    BY <1>1, <2>1, <2>2, <2>3 DEF Libres, EnLista, CpusTipo
  <2> QED BY <2>1, <2>3, <2>4, CuposSuma
<1>4. CASE \/ QuantumAnotarReady(c) \/ LeerCantResta(c) \/ GuardarCantResta(c)
           \/ RealizarSignal(c) \/ SignalAnotarReady(c)
           \/ RealizarWait(c) \/ RecibirBloqueado(c) \/ BloqueadoNoLlega(c)
           \/ ComenzarEjecucion(c) \/ Sigusr1(c) \/ CpuMuere(c)
  <2>1. UNCHANGED <<listaCPUs, disponible, semCPUs, pcp>>
    BY <1>4 DEF QuantumAnotarReady, LeerCantResta, GuardarCantResta, RealizarSignal, SignalAnotarReady,
                RealizarWait, RecibirBloqueado, BloqueadoNoLlega, ComenzarEjecucion, Sigusr1, CpuMuere,
                sems, cpus
  <2> QED BY <2>1, CuposAjeno DEF ConCupo
<1>5. CASE PedidoCpu(c)
  <2>1. UNCHANGED <<listaCPUs, disponible, semCPUs, pcp>>
    BY <1>5 DEF PedidoCpu, FinalizacionQuantum, FinalizacionProceso, PedirSemaforo, SinInfo, Cae, sems, cpus
  <2> QED BY <2>1, CuposAjeno DEF ConCupo
<1>6. ~ EliminarCpu(c) /\ ~ CpuCaida(c) /\ ~ CpuCaidaEspera(c)
  BY <1>1 DEF EnSuSitio, EliminarCpu, CpuCaida, CpuCaidaEspera, En
<1> QED BY <1>2, <1>3, <1>4, <1>5, <1>6 DEF HiloCpu

LEMMA Cupos_Paso ==
  ASSUME CpuFragil = {}, TipoInv, CpuInv, CuposDeCpu, [Next]_vars
  PROVE  CuposDeCpu'
<1>1. CASE \/ \E p \in Proc : HiloConsola(p)
           \/ \E h \in Hilo : LargoPlazo(h)
           \/ Operador \/ UNCHANGED vars
  <2>1. UNCHANGED <<listaCPUs, disponible, semCPUs, pcp>>
    <3>1. CASE (\E p \in Proc : HiloConsola(p)) \/ Operador \/ UNCHANGED vars
      BY <3>1 DEF HiloConsola, EnvioCodigo, CrearInfoEstadistica, Operador, KillProcess,
                  GradoMultiprogramacion, StopPlanification, sems, cpus, vars
    <3>2. ASSUME NEW h \in Hilo, LargoPlazo(h)
          PROVE  UNCHANGED <<listaCPUs, disponible, semCPUs, pcp>>
      BY <3>2 DEF LargoPlazo, EmpezarLargoPlazo, SacarDeNew, MemoriaAcepta, MemoriaRechaza, AnotarReady,
                  EnvioCodigoMemoria, LeerCantSuma, GuardarCantSuma, Cae, sems, cpus
    <3> QED BY <1>1, <3>1, <3>2
  <2> QED BY <2>1, CuposAjeno DEF ConCupo
<1> QED BY <1>1, Cupos_CortoPlazo, Cupos_Cpu DEF Next

LEMMA Cupos_Init == Init => CuposDeCpu
<1> SUFFICES ASSUME Init PROVE CuposDeCpu
  OBVIOUS
<1>1. listaCPUs = <<>> /\ semCPUs = 0 /\ pcp.pc = "espera"
  BY DEF Init
<1>2. {c \in Cpu : EnLista(c) /\ disponible[c]} = {}
  <2>1. DOMAIN listaCPUs = {}
    BY <1>1
  <2> QED BY <2>1 DEF EnLista
<1> QED BY <1>1, <1>2, FS_EmptySet DEF CuposDeCpu, ConCupo

\* semCPUs_disponibles counts the free CPUs of the list while no CPU leaves:
\* sem_wait of planificarCortoPlazo lets through as many programs as there are
\* CPUs to run them.
THEOREM CuposExactos ==
  ASSUME CpuFragil = {}
  PROVE  Spec => []CuposDeCpu
<1>1. TipoInv /\ CpuInv /\ CuposDeCpu /\ [Next]_vars => CuposDeCpu'
  BY Cupos_Paso
<1> QED BY <1>1, Cupos_Init, TipoSiempre, CpusEnSuSitio, PTL DEF Spec

\* A planner that took a unit of the semaphore finds a CPU: obtenerCpuLibre
\* does not give it the NULL it would write through.
HayCpuLibre == pcp.pc = "elegir" => CpuLibre # Nadie

COROLLARY NuncaCpuNula ==
  ASSUME CpuFragil = {}
  PROVE  Spec => []HayCpuLibre
<1>1. TipoInv /\ CuposDeCpu => HayCpuLibre
  <2> SUFFICES ASSUME TipoInv, CuposDeCpu, pcp.pc = "elegir" PROVE CpuLibre # Nadie
    BY DEF HayCpuLibre
  <2>1. semCPUs + 1 = Cardinality(Libres) /\ semCPUs \in Nat
    BY DEF CuposDeCpu, Libres, ConCupo, TipoInv, TypeOK
  <2>2. Libres # {}
    BY <2>1, FS_EmptySet
  <2> QED BY <2>2, CpuLibreEsta DEF Libres, TipoInv
<1> QED BY <1>1, CuposExactos, TipoSiempre, PTL

-----------------------------------------------------------------------------
\* Where the programs are.  l says the place of each program, and which thread,
\* CPU or semaphore when the place is one of several.  A program is seen at a
\* place exactly when l says so; hence never at two.

Lugar == {"consola", "new", "mano", "ready", "pcp", "cpu", "bloq", "fin", "limbo", "perdido"}

\* Whose hands, CPU or semaphore a place may be.
De(a) ==
  CASE a = "mano" -> Hilo
    [] a \in {"cpu", "limbo", "perdido"} -> Cpu
    [] a = "bloq" -> Sem
    [] OTHER -> {Nadie}

Sitio == {s \in [en : Lugar, de : Hilo \cup Sem \cup {Nadie}] : s.de \in De(s.en)}

\* A CPU died, its handler waits for the CPU's unit of the semaphore, and the
\* planner had time to give it a program: the handler will end it.
EnLimbo(p, c) == pc[c] = "caida" /\ ~ disponible[c] /\ pcb[c] = p

DeInicio(l) == \A p \in Proc : pc[p] = "inicio" <=> l[p].en = "consola"
DeNew(l) ==
  ~ Repite(colaNew) /\ \A p \in Proc : EnCola(p, colaNew) <=> l[p].en = "new"
DeMano(l) ==
  \A p \in Proc, h \in Hilo :
    (pc[h] = "memoria" /\ proc[h] = p) <=> (l[p].en = "mano" /\ l[p].de = h)
DeReady(l) ==
  ~ Repite(colaReady) /\ \A p \in Proc : EnCola(p, colaReady) <=> l[p].en = "ready"
DePcp(l) == \A p \in Proc : EnManoPcp(p) <=> l[p].en = "pcp"
DeCpu(l) == \A p \in Proc, c \in Cpu : enCpu[c] = p <=> (l[p].en = "cpu" /\ l[p].de = c)
DeBloq(l) ==
  \A s \in Sem : /\ ~ Repite(bloqueos[s])
                 /\ \A p \in Proc : EnCola(p, bloqueos[s]) <=> (l[p].en = "bloq" /\ l[p].de = s)
DeFin(l) == \A p \in Proc : colaFinished[p] = IF l[p].en = "fin" THEN 1 ELSE 0
DeLimbo(l) ==
  \A p \in Proc, c \in Cpu : EnLimbo(p, c) <=> (l[p].en = "limbo" /\ l[p].de = c)

\* Only CPUs that leave lose programs.
DeFragil(l) == CpuFragil = {} => \A p \in Proc : l[p].en \notin {"limbo", "perdido"}

Reparte(l) ==
  /\ l \in [Proc -> Sitio]
  /\ DeInicio(l) /\ DeNew(l) /\ DeMano(l) /\ DeReady(l) /\ DePcp(l) /\ DeCpu(l)
  /\ DeBloq(l) /\ DeFin(l) /\ DeLimbo(l) /\ DeFragil(l)

LugInv == \E l : Reparte(l)

\* The moves that touch no CPU.
Pasa(a, b) ==
  \/ a = "consola" /\ b = "new"
  \/ a = "new" /\ b = "mano"
  \/ a = "mano" /\ b \in {"ready", "fin"}
  \/ a = "bloq" /\ b = "ready"
  \/ a = "ready" /\ b = "pcp"
  \/ a = "pcp" /\ b \in {"limbo", "perdido"}
  \/ a = "limbo" /\ b = "fin"

\* Program p goes to s.
Muda(l, p, s, m) == Reparte(l) /\ p \in Proc /\ s \in Sitio /\ m = [l EXCEPT ![p] = s]

\* What a step does: no program moves, or one does.
Traslado(l, m) ==
  \/ m = l /\ UNCHANGED enCpu
  \/ \E p \in Proc, s \in Sitio :
       /\ Muda(l, p, s, m)
       /\ \/ Pasa(l[p].en, s.en) /\ UNCHANGED enCpu
          \/ \E c \in Cpu : /\ l[p].en = "pcp" /\ s.en = "cpu"
                            /\ enCpu[c] = Nadie /\ enCpu' = [enCpu EXCEPT ![c] = p]
          \/ \E c \in Cpu : /\ l[p].en = "cpu" /\ s.en \in {"ready", "bloq", "fin"}
                            /\ enCpu[c] = p /\ enCpu' = [enCpu EXCEPT ![c] = Nadie]

-----------------------------------------------------------------------------
\* What a step leaves as it was.

IgualInicio == \A p \in Proc : pc'[p] = "inicio" <=> pc[p] = "inicio"
IgualMano   == \A p \in Proc, h \in Hilo :
                 (pc'[h] = "memoria" /\ proc'[h] = p) <=> (pc[h] = "memoria" /\ proc[h] = p)
IgualPcp    == \A p \in Proc : EnManoPcp(p)' <=> EnManoPcp(p)
IgualLimbo  == \A p \in Proc, c \in Cpu : EnLimbo(p, c)' <=> EnLimbo(p, c)

\* A place other than the one p leaves and the one it reaches.
Ajeno(a, l, p, s) == l[p].en # a /\ s.en # a

\* The places that are neither.
LEMMA Quedan ==
  ASSUME NEW l, NEW p, NEW s, NEW m, Muda(l, p, s, m)
  PROVE  /\ m \in [Proc -> Sitio] /\ m[p] = s /\ \A q \in Proc : q # p => m[q] = l[q]
         /\ IgualInicio /\ Ajeno("consola", l, p, s) => DeInicio(m)'
         /\ UNCHANGED colaNew /\ Ajeno("new", l, p, s) => DeNew(m)'
         /\ IgualMano /\ Ajeno("mano", l, p, s) => DeMano(m)'
         /\ UNCHANGED colaReady /\ Ajeno("ready", l, p, s) => DeReady(m)'
         /\ IgualPcp /\ Ajeno("pcp", l, p, s) => DePcp(m)'
         /\ UNCHANGED enCpu /\ Ajeno("cpu", l, p, s) => DeCpu(m)'
         /\ UNCHANGED bloqueos /\ Ajeno("bloq", l, p, s) => DeBloq(m)'
         /\ UNCHANGED colaFinished /\ Ajeno("fin", l, p, s) => DeFin(m)'
         /\ IgualLimbo /\ Ajeno("limbo", l, p, s) => DeLimbo(m)'
         /\ (CpuFragil # {} \/ s.en \notin {"limbo", "perdido"}) => DeFragil(m)'
<1>1. m \in [Proc -> Sitio] /\ m[p] = s /\ \A q \in Proc : q # p => m[q] = l[q]
  BY DEF Muda, Reparte
<1>2. IgualInicio /\ Ajeno("consola", l, p, s) => DeInicio(m)'
  BY <1>1 DEF Ajeno, Muda, Reparte, DeInicio, IgualInicio
<1>3. UNCHANGED colaNew /\ Ajeno("new", l, p, s) => DeNew(m)'
  BY <1>1 DEF Ajeno, Muda, Reparte, DeNew
<1>4. IgualMano /\ Ajeno("mano", l, p, s) => DeMano(m)'
  BY <1>1 DEF Ajeno, Muda, Reparte, DeMano, IgualMano
<1>5. UNCHANGED colaReady /\ Ajeno("ready", l, p, s) => DeReady(m)'
  BY <1>1 DEF Ajeno, Muda, Reparte, DeReady
<1>6. IgualPcp /\ Ajeno("pcp", l, p, s) => DePcp(m)'
  BY <1>1 DEF Ajeno, Muda, Reparte, DePcp, IgualPcp
<1>7. UNCHANGED enCpu /\ Ajeno("cpu", l, p, s) => DeCpu(m)'
  BY <1>1 DEF Ajeno, Muda, Reparte, DeCpu
<1>8. UNCHANGED bloqueos /\ Ajeno("bloq", l, p, s) => DeBloq(m)'
  BY <1>1 DEF Ajeno, Muda, Reparte, DeBloq
<1>9. UNCHANGED colaFinished /\ Ajeno("fin", l, p, s) => DeFin(m)'
  BY <1>1 DEF Ajeno, Muda, Reparte, DeFin
<1>10. IgualLimbo /\ Ajeno("limbo", l, p, s) => DeLimbo(m)'
  BY <1>1 DEF Ajeno, Muda, Reparte, DeLimbo, IgualLimbo
<1>11. (CpuFragil # {} \/ s.en \notin {"limbo", "perdido"}) => DeFragil(m)'
  BY <1>1 DEF Muda, Reparte, DeFragil
<1> QED BY <1>1, <1>2, <1>3, <1>4, <1>5, <1>6, <1>7, <1>8, <1>9, <1>10, <1>11

\* A program that leaves the CPU that had it.
LEMMA DejaCpu ==
  ASSUME NEW l, NEW p, NEW s, NEW m, Muda(l, p, s, m), s.en # "cpu",
         CpusTipo, NEW c \in Cpu, enCpu[c] = p, enCpu' = [enCpu EXCEPT ![c] = Nadie]
  PROVE  DeCpu(m)'
<1>1. l[p].en = "cpu" /\ l[p].de = c /\ p # Nadie /\ p \in Proc
  BY DEF Muda, Reparte, DeCpu, CpusTipo
<1>2. m[p] = s /\ \A q \in Proc : q # p => m[q] = l[q]
  BY DEF Muda, Reparte
<1>3. enCpu'[c] = Nadie /\ \A d \in Cpu : d # c => enCpu'[d] = enCpu[d]
  BY DEF CpusTipo
<1> QED BY <1>1, <1>2, <1>3 DEF Muda, Reparte, DeCpu, CpusTipo

\* A program that ends.
LEMMA LlegaAlFin ==
  ASSUME NEW l, NEW p, NEW s, NEW m, Muda(l, p, s, m), l[p].en # "fin", s.en = "fin",
         TipoInv, colaFinished' = [colaFinished EXCEPT ![p] = @ + 1]
  PROVE  DeFin(m)'
<1>1. m[p] = s /\ \A q \in Proc : q # p => m[q] = l[q]
  BY DEF Muda, Reparte
<1>2. /\ colaFinished[p] = 0 /\ colaFinished'[p] = colaFinished[p] + 1
      /\ \A q \in Proc : q # p => colaFinished'[q] = colaFinished[q]
  BY DEF Muda, Reparte, DeFin, TipoInv, TypeOK
<1> QED BY <1>1, <1>2 DEF Muda, Reparte, DeFin

\* A program that enters colaReady.
LEMMA LlegaAReady ==
  ASSUME NEW l, NEW p, NEW s, NEW m, Muda(l, p, s, m), l[p].en # "ready", s.en = "ready",
         TipoInv, colaReady' = Append(colaReady, p)
  PROVE  DeReady(m)'
<1>1. m[p] = s /\ \A q \in Proc : q # p => m[q] = l[q]
  BY DEF Muda, Reparte
<1>2. ~ EnCola(p, colaReady) /\ ~ Repite(colaReady) /\ colaReady \in Seq(Proc) /\ p \in Proc
  BY DEF Muda, Reparte, DeReady, TipoInv, TypeOK
<1>3. ~ Repite(colaReady') /\ \A q : EnCola(q, colaReady') <=> EnCola(q, colaReady) \/ q = p
  BY <1>2, ColaAppend
<1> QED BY <1>1, <1>3 DEF Muda, Reparte, DeReady

\* The steps of a thread at which a program is in its hands, or its console has
\* not sent it, or it waits to end one.
Marcado == {"inicio", "memoria", "caida"}

\* A step of a thread away from them.
LEMMA HilosIguales ==
  ASSUME TipoInv,
         \/ UNCHANGED <<pc, proc>>
         \/ \E h \in Hilo, d \in Donde \ Marcado :
              /\ pc[h] \notin Marcado /\ pc' = [pc EXCEPT ![h] = d]
              /\ \A g \in Hilo : g # h => proc'[g] = proc[g]
  PROVE  /\ IgualInicio /\ IgualMano
         /\ \A c \in Cpu : pc'[c] = "caida" <=> pc[c] = "caida"
<1>1. pc \in [Hilo -> Donde] /\ Proc \subseteq Hilo /\ Cpu \subseteq Hilo
  BY DEF TipoInv, TypeOK, Hilo
<1> QED BY <1>1 DEF IgualInicio, IgualMano, Marcado

\* A step that moves no program.
LEMMA LugAjeno ==
  ASSUME NEW l, Reparte(l), IgualInicio, IgualMano, IgualPcp, IgualLimbo,
         UNCHANGED <<colaNew, colaReady, bloqueos, colaFinished, enCpu>>
  PROVE  \E m : Reparte(m)' /\ Traslado(l, m)
<1>1. DeInicio(l)' /\ DeNew(l)' /\ DeReady(l)' /\ DePcp(l)'
  BY DEF Reparte, DeInicio, DeNew, DeReady, DePcp, IgualInicio, IgualPcp
<1>2. DeMano(l)' /\ DeCpu(l)'
  BY DEF Reparte, DeMano, DeCpu, IgualMano
<1>3. DeBloq(l)' /\ DeFin(l)' /\ DeLimbo(l)' /\ DeFragil(l)'
  BY DEF Reparte, DeBloq, DeFin, DeLimbo, DeFragil, IgualLimbo
<1>4. Reparte(l)'
  BY <1>1, <1>2, <1>3 DEF Reparte
<1>5. Traslado(l, l)
  BY DEF Traslado
<1> QED BY <1>4, <1>5

-----------------------------------------------------------------------------
\* The steps that move a program.

\* A program that leaves its place for another one: what is left to show is
\* about the places that changed.
LEMMA Mudanza ==
  ASSUME NEW l, NEW p, NEW s, NEW m, Muda(l, p, s, m),
         (IgualInicio /\ Ajeno("consola", l, p, s)) \/ DeInicio(m)',
         (UNCHANGED colaNew /\ Ajeno("new", l, p, s)) \/ DeNew(m)',
         (IgualMano /\ Ajeno("mano", l, p, s)) \/ DeMano(m)',
         (UNCHANGED colaReady /\ Ajeno("ready", l, p, s)) \/ DeReady(m)',
         (IgualPcp /\ Ajeno("pcp", l, p, s)) \/ DePcp(m)',
         (UNCHANGED enCpu /\ Ajeno("cpu", l, p, s)) \/ DeCpu(m)',
         (UNCHANGED bloqueos /\ Ajeno("bloq", l, p, s)) \/ DeBloq(m)',
         (UNCHANGED colaFinished /\ Ajeno("fin", l, p, s)) \/ DeFin(m)',
         (IgualLimbo /\ Ajeno("limbo", l, p, s)) \/ DeLimbo(m)',
         CpuFragil # {} \/ s.en \notin {"limbo", "perdido"}
  PROVE  Reparte(m)'
BY Quedan DEF Reparte

\* There is such a move.
LEMMA SeMuda ==
  ASSUME NEW l, Reparte(l), NEW p \in Proc, NEW a \in Lugar, NEW d \in De(a)
  PROVE  \E s, m : /\ Muda(l, p, s, m) /\ s \in Sitio /\ s.en = a /\ s.de = d
                             /\ m[p].en = a /\ m[p].de = d
                             /\ \A q \in Proc : q # p => m[q] = l[q]
<1>1. PICK s \in Sitio : s.en = a /\ s.de = d
  <2>1. [en |-> a, de |-> d] \in Sitio
    BY DEF Sitio, De, Hilo
  <2> QED BY <2>1
<1>2. PICK m : Muda(l, p, s, m)
  BY DEF Muda
<1>3. m[p] = s /\ \A q \in Proc : q # p => m[q] = l[q]
  BY <1>2 DEF Muda, Reparte
<1> QED BY <1>1, <1>2, <1>3

\* ENVIO_CODIGO: queue_push(colaNew).
LEMMA Lug_EnvioCodigo ==
  ASSUME TipoInv, NEW l, Reparte(l), NEW p \in Proc, EnvioCodigo(p)
  PROVE  \E m : Reparte(m)' /\ Traslado(l, m)
<1>1. /\ pc[p] = "inicio" /\ pc' = [pc EXCEPT ![p] = "info"] /\ colaNew' = Append(colaNew, p)
      /\ UNCHANGED <<colaReady, bloqueos, colaFinished, proc, disponible, pcb, pcp, enCpu>>
      /\ pc \in [Hilo -> Donde] /\ p \in Hilo /\ Proc \subseteq Hilo /\ Cpu \subseteq Hilo
  BY DEF EnvioCodigo, En, Ir, cpus, externo, TipoInv, TypeOK, Hilo
<1>2. /\ l[p].en = "consola" /\ ~ EnCola(p, colaNew) /\ ~ Repite(colaNew)
      /\ \A q \in Proc : EnCola(q, colaNew) <=> l[q].en = "new"
      /\ \A q \in Proc : pc[q] = "inicio" <=> l[q].en = "consola"
  BY <1>1 DEF Reparte, DeInicio, DeNew
<1>3. PICK s, m : /\ Muda(l, p, s, m) /\ s \in Sitio /\ s.en = "new" /\ m[p].en = "new"
                            /\ \A q \in Proc : q # p => m[q] = l[q]
  <2>1. "new" \in Lugar /\ Nadie \in De("new")
    BY DEF Lugar, De
  <2> QED BY <2>1, SeMuda
<1>4. IgualMano /\ IgualPcp /\ IgualLimbo
  BY <1>1 DEF IgualMano, IgualPcp, IgualLimbo, EnManoPcp, EnLimbo
<1>5. DeInicio(m)'
  BY <1>1, <1>2, <1>3 DEF DeInicio
<1>6. DeNew(m)'
  <2>1. ~ Repite(colaNew') /\ \A q : EnCola(q, colaNew') <=> EnCola(q, colaNew) \/ q = p
    BY <1>1, <1>2, ColaAppend DEF TipoInv, TypeOK
  <2> QED BY <1>2, <1>3, <2>1 DEF DeNew
<1>7. Reparte(m)'
  BY <1>1, <1>2, <1>3, <1>4, <1>5, <1>6, Mudanza DEF Ajeno
<1>8. Traslado(l, m)
  <2>1. Pasa(l[p].en, s.en) /\ UNCHANGED enCpu
    BY <1>1, <1>2, <1>3 DEF Pasa
  <2> QED BY <1>3, <2>1 DEF Traslado
<1> QED BY <1>7, <1>8

\* planificarLargoPlazo takes a program out of colaNew.
LEMMA Lug_SacarDeNew ==
  ASSUME TipoInv, NEW l, Reparte(l), NEW h \in Hilo, SacarDeNew(h), pc'[h] = "memoria"
  PROVE  \E m : Reparte(m)' /\ Traslado(l, m)
<1>1. pc \in [Hilo -> Donde] /\ proc \in [Hilo -> Proc \cup {Nadie}] /\ colaNew \in Seq(Proc)
      /\ Proc \subseteq Hilo /\ Cpu \subseteq Hilo
  BY DEF TipoInv, TypeOK, Hilo
<1>2. /\ pc[h] = "lazo" /\ pc' = [pc EXCEPT ![h] = "memoria"] /\ colaNew # <<>>
      /\ proc' = [proc EXCEPT ![h] = Head(colaNew)] /\ colaNew' = Sacar(colaNew)
      /\ UNCHANGED <<colaReady, bloqueos, colaFinished, disponible, pcb, pcp, enCpu>>
  BY <1>1 DEF SacarDeNew, TerminaPlanificador, Cae, En, Ir, cpus, externo, hilos
<1>3. PICK p \in Proc : p = Head(colaNew)
  BY <1>1, <1>2, SacarTipo
<1>4. /\ l[p].en = "new" /\ ~ Repite(colaNew)
      /\ \A q \in Proc : EnCola(q, colaNew) <=> l[q].en = "new"
      /\ \A q \in Proc, g \in Hilo :
           (pc[g] = "memoria" /\ proc[g] = q) <=> (l[q].en = "mano" /\ l[q].de = g)
  BY <1>1, <1>2, <1>3, ColaSacar DEF Reparte, DeNew, DeMano
<1>5. PICK s, m :
        /\ Muda(l, p, s, m) /\ s \in Sitio /\ s.en = "mano" /\ m[p].en = "mano" /\ m[p].de = h
        /\ \A q \in Proc : q # p => m[q] = l[q]
  <2>1. "mano" \in Lugar /\ h \in De("mano")
    BY DEF Lugar, De
  <2> QED BY <2>1, SeMuda
<1>6. IgualInicio /\ IgualPcp /\ IgualLimbo
  BY <1>1, <1>2 DEF IgualInicio, IgualPcp, IgualLimbo, EnManoPcp, EnLimbo
<1>7. DeNew(m)'
  <2>1. ~ Repite(colaNew') /\ \A q : EnCola(q, colaNew') <=> EnCola(q, colaNew) /\ q # p
    BY <1>1, <1>2, <1>3, <1>4, ColaSacar
  <2> QED BY <1>4, <1>5, <2>1 DEF DeNew
<1>8. DeMano(m)'
  BY <1>1, <1>2, <1>3, <1>4, <1>5 DEF DeMano
<1>9. Reparte(m)'
  BY <1>2, <1>4, <1>5, <1>6, <1>7, <1>8, Mudanza DEF Ajeno
<1>10. Traslado(l, m)
  <2>1. Pasa(l[p].en, s.en) /\ UNCHANGED enCpu
    BY <1>2, <1>4, <1>5 DEF Pasa
  <2> QED BY <1>5, <2>1 DEF Traslado
<1> QED BY <1>9, <1>10

\* The thread that had a program in its hands has given it away.
LEMMA SueltaMano ==
  ASSUME TipoInv, NEW l, NEW p, NEW s, NEW m, Muda(l, p, s, m), s.en # "mano",
         NEW h \in Hilo, pc[h] = "memoria", proc[h] = p, NEW d \in Donde \ Marcado,
         pc' = [pc EXCEPT ![h] = d], UNCHANGED <<proc, disponible, pcb>>
  PROVE  l[p].en = "mano" /\ DeMano(m)' /\ IgualInicio /\ IgualLimbo
<1>1. pc \in [Hilo -> Donde] /\ Proc \subseteq Hilo /\ Cpu \subseteq Hilo /\ p \in Proc
  BY DEF TipoInv, TypeOK, Hilo, Muda
<1>2. /\ l[p].en = "mano" /\ l[p].de = h
      /\ \A q \in Proc, g \in Hilo :
           (pc[g] = "memoria" /\ proc[g] = q) <=> (l[q].en = "mano" /\ l[q].de = g)
  BY <1>1 DEF Muda, Reparte, DeMano
<1>3. m[p].en # "mano" /\ \A q \in Proc : q # p => m[q] = l[q]
  BY DEF Muda, Reparte
<1>4. DeMano(m)'
  BY <1>1, <1>2, <1>3 DEF DeMano, Marcado
<1>5. IgualInicio /\ IgualLimbo
  BY <1>1 DEF IgualInicio, IgualLimbo, EnLimbo, Marcado
<1> QED BY <1>2, <1>4, <1>5

LEMMA Lug_MemoriaAcepta ==
  ASSUME TipoInv, NEW l, Reparte(l), NEW h \in Hilo, MemoriaAcepta(h)
  PROVE  \E m : Reparte(m)' /\ Traslado(l, m)
<1>1. PICK p \in Proc : p = proc[h]
  BY DEF MemoriaAcepta, En, TipoInv, Manos
<1>2. /\ pc[h] = "memoria" /\ pc' = [pc EXCEPT ![h] = "listo"] /\ colaReady' = Append(colaReady, p)
      /\ UNCHANGED <<colaNew, bloqueos, colaFinished, proc, disponible, pcb, pcp, enCpu>>
  BY <1>1 DEF MemoriaAcepta, En, Ir, cpus
<1>3. PICK s, m : Muda(l, p, s, m) /\ s \in Sitio /\ s.en = "ready"
  <2>1. "ready" \in Lugar /\ Nadie \in De("ready")
    BY DEF Lugar, De
  <2> QED BY <2>1, SeMuda
<1>4. l[p].en = "mano" /\ DeMano(m)' /\ IgualInicio /\ IgualLimbo
  <2>1. "listo" \in Donde \ Marcado
    BY DEF Donde, EnPlanificador, Marcado
  <2> QED BY <1>1, <1>2, <1>3, <2>1, SueltaMano
<1>5. DeReady(m)'
  BY <1>2, <1>3, <1>4, LlegaAReady
<1>6. IgualPcp
  BY <1>2 DEF IgualPcp, EnManoPcp
<1>7. Reparte(m)'
  BY <1>2, <1>3, <1>4, <1>5, <1>6, Mudanza DEF Ajeno
<1>8. Traslado(l, m)
  <2>1. Pasa(l[p].en, s.en) /\ UNCHANGED enCpu
    BY <1>2, <1>3, <1>4 DEF Pasa
  <2> QED BY <1>3, <2>1 DEF Traslado
<1> QED BY <1>7, <1>8

LEMMA Lug_MemoriaRechaza ==
  ASSUME TipoInv, NEW l, Reparte(l), NEW h \in Hilo, MemoriaRechaza(h), ConInfo(proc[h])
  PROVE  \E m : Reparte(m)' /\ Traslado(l, m)
<1>1. PICK p \in Proc : p = proc[h]
  BY DEF MemoriaRechaza, En, TipoInv, Manos
<1>2. /\ pc[h] = "memoria" /\ pc' = [pc EXCEPT ![h] = "lazo"]
      /\ colaFinished' = [colaFinished EXCEPT ![p] = @ + 1]
      /\ UNCHANGED <<colaNew, colaReady, bloqueos, proc, disponible, pcb, pcp, enCpu>>
  BY <1>1 DEF MemoriaRechaza, En, Ir, cpus, externo
<1>3. PICK s, m : Muda(l, p, s, m) /\ s \in Sitio /\ s.en = "fin"
  <2>1. "fin" \in Lugar /\ Nadie \in De("fin")
    BY DEF Lugar, De
  <2> QED BY <2>1, SeMuda
<1>4. l[p].en = "mano" /\ DeMano(m)' /\ IgualInicio /\ IgualLimbo
  <2>1. "lazo" \in Donde \ Marcado
    BY DEF Donde, EnPlanificador, Marcado
  <2> QED BY <1>1, <1>2, <1>3, <2>1, SueltaMano
<1>5. DeFin(m)'
  BY <1>2, <1>3, <1>4, LlegaAlFin
<1>6. IgualPcp
  BY <1>2 DEF IgualPcp, EnManoPcp
<1>7. Reparte(m)'
  BY <1>2, <1>3, <1>4, <1>5, <1>6, Mudanza DEF Ajeno
<1>8. Traslado(l, m)
  <2>1. Pasa(l[p].en, s.en) /\ UNCHANGED enCpu
    BY <1>2, <1>3, <1>4 DEF Pasa
  <2> QED BY <1>3, <2>1 DEF Traslado
<1> QED BY <1>7, <1>8

\* queue_pop of planificarCortoPlazo.
LEMMA Lug_ElegirCpu ==
  ASSUME TipoInv, NEW l, Reparte(l), ElegirCpu, colaReady # <<>>
  PROVE  \E m : Reparte(m)' /\ Traslado(l, m)
<1>1. /\ colaReady \in Seq(Proc) /\ pcp.pc = "elegir" /\ pcp'.pc = "despachar"
      /\ pcp'.proc = Head(colaReady) /\ colaReady' = Sacar(colaReady)
      /\ UNCHANGED <<colaNew, bloqueos, colaFinished, pc, proc, disponible, pcb, enCpu>>
  BY DEF ElegirCpu, EnPcp, cpus, externo, hilos, TipoInv, TypeOK
<1>2. PICK p \in Proc : p = Head(colaReady)
  BY <1>1, SacarTipo
<1>3. /\ l[p].en = "ready" /\ ~ Repite(colaReady)
      /\ \A q \in Proc : EnCola(q, colaReady) <=> l[q].en = "ready"
      /\ \A q \in Proc : EnManoPcp(q) <=> l[q].en = "pcp"
  BY <1>1, <1>2, ColaSacar DEF Reparte, DeReady, DePcp
<1>4. PICK s, m : /\ Muda(l, p, s, m) /\ s \in Sitio /\ s.en = "pcp" /\ m[p].en = "pcp"
                  /\ \A q \in Proc : q # p => m[q] = l[q]
  <2>1. "pcp" \in Lugar /\ Nadie \in De("pcp")
    BY DEF Lugar, De
  <2> QED BY <2>1, SeMuda
<1>5. IgualInicio /\ IgualMano /\ IgualLimbo
  BY <1>1 DEF IgualInicio, IgualMano, IgualLimbo, EnLimbo
<1>6. DeReady(m)'
  <2>1. ~ Repite(colaReady') /\ \A q : EnCola(q, colaReady') <=> EnCola(q, colaReady) /\ q # p
    BY <1>1, <1>2, <1>3, ColaSacar
  <2> QED BY <1>3, <1>4, <2>1 DEF DeReady
<1>7. DePcp(m)'
  BY <1>1, <1>2, <1>3, <1>4 DEF DePcp, EnManoPcp
<1>8. Reparte(m)'
  BY <1>1, <1>3, <1>4, <1>5, <1>6, <1>7, Mudanza DEF Ajeno
<1>9. Traslado(l, m)
  <2>1. Pasa(l[p].en, s.en) /\ UNCHANGED enCpu
    BY <1>1, <1>3, <1>4 DEF Pasa
  <2> QED BY <1>4, <2>1 DEF Traslado
<1> QED BY <1>8, <1>9

\* EXEC_PCB: to a CPU of the list, or through the cpu_t of one that has left.
\* In that case the handler of the CPU may still be waiting, and end the
\* program, or it is over, and nobody has the program any more.
LEMMA Lug_Despachar ==
  ASSUME TipoInv, CpuInv, NEW l, Reparte(l), Despachar, pcp.cpu # Nadie
  PROVE  \E m : Reparte(m)' /\ Traslado(l, m)
<1>1. PICK c \in Cpu, p \in Proc : c = pcp.cpu /\ p = pcp.proc
  BY DEF Despachar, EnPcp, TipoInv, Manos, TypeOK, TipoPcp
<1>2. /\ pcb \in [Cpu -> Proc \cup {Nadie}] /\ disponible \in [Cpu -> BOOLEAN]
      /\ enCpu \in [Cpu -> Proc \cup {Nadie}] /\ pcp \in TipoPcp /\ p # Nadie
  BY PlanificadorAssumption DEF TipoInv, TypeOK, Hilo
<1>3. /\ pcp.pc = "despachar" /\ pcp'.pc = "anotar"
      /\ pcb' = [pcb EXCEPT ![c] = p] /\ disponible' = [disponible EXCEPT ![c] = FALSE]
      /\ enCpu' = [enCpu EXCEPT ![c] = IF fase[c] = "ida" THEN @ ELSE p]
      /\ UNCHANGED <<colaNew, colaReady, bloqueos, colaFinished, pc, proc>>
  BY <1>1, <1>2 DEF Despachar, EnPcp, Ocupar, colas, hilos, TipoPcp
<1>4. /\ disponible[c] /\ fase[c] # "fuera" /\ EnSuSitio(c)
  BY <1>1, <1>3 DEF CpuInv, ElegidaLibre
<1>5. /\ l[p].en = "pcp" /\ \A q \in Proc : EnManoPcp(q) <=> l[q].en = "pcp"
      /\ \A q \in Proc, d \in Cpu : enCpu[d] = q <=> (l[q].en = "cpu" /\ l[q].de = d)
      /\ \A q \in Proc, d \in Cpu : EnLimbo(q, d) <=> (l[q].en = "limbo" /\ l[q].de = d)
  BY <1>1, <1>3 DEF Reparte, DePcp, EnManoPcp, DeCpu, DeLimbo
<1>6. IgualInicio /\ IgualMano
  BY <1>3 DEF IgualInicio, IgualMano
<1>7. ASSUME NEW s, NEW m, Muda(l, p, s, m), s.en # "pcp", m[p].en # "pcp"
      PROVE  DePcp(m)'
  BY <1>1, <1>3, <1>5, <1>7 DEF DePcp, EnManoPcp, Muda, Reparte
<1>8. \A a \in {"cpu", "limbo", "perdido"} : a \in Lugar /\ c \in De(a)
  BY DEF Lugar, De
<1>9. CASE fase[c] # "ida"
  <2>1. enCpu' = [enCpu EXCEPT ![c] = p] /\ enCpu[c] = Nadie /\ pc[c] # "caida"
    BY <1>2, <1>3, <1>4, <1>9 DEF EnSuSitio
  <2>2. PICK s, m : /\ Muda(l, p, s, m) /\ s \in Sitio /\ s.en = "cpu"
                    /\ m[p].en = "cpu" /\ m[p].de = c
                    /\ \A q \in Proc : q # p => m[q] = l[q]
    <3>1. "cpu" \in Lugar /\ c \in De("cpu")
      BY <1>8
    <3> QED BY <3>1, SeMuda
  <2>3. IgualLimbo
    BY <1>2, <1>3, <2>1 DEF IgualLimbo, EnLimbo
  <2>4. DeCpu(m)'
    BY <1>2, <1>5, <2>1, <2>2, PlanificadorAssumption DEF DeCpu, Hilo
  <2>5. Reparte(m)'
    BY <1>3, <1>5, <1>6, <1>7, <2>2, <2>3, <2>4, Mudanza DEF Ajeno
  <2>6. Traslado(l, m)
    BY <1>5, <2>1, <2>2 DEF Traslado
  <2> QED BY <2>5, <2>6
<1>10. CASE fase[c] = "ida"
  <2>1. UNCHANGED enCpu /\ CpuFragil # {}
    BY <1>2, <1>3, <1>4, <1>10 DEF EnSuSitio
  <2>2. PICK s, m : /\ Muda(l, p, s, m) /\ s \in Sitio /\ m[p].de = c
                    /\ s.en = (IF pc[c] = "caida" THEN "limbo" ELSE "perdido") /\ m[p].en = s.en
                    /\ \A q \in Proc : q # p => m[q] = l[q]
    <3>1. PICK a : /\ a = (IF pc[c] = "caida" THEN "limbo" ELSE "perdido")
                   /\ a \in Lugar /\ c \in De(a)
      BY <1>8
    <3>2. \E s, m : /\ Muda(l, p, s, m) /\ s \in Sitio /\ m[p].de = c
                    /\ s.en = a /\ m[p].en = a
                    /\ \A q \in Proc : q # p => m[q] = l[q]
      BY <3>1, SeMuda
    <3> QED BY <3>1, <3>2
  <2>3. DeLimbo(m)'
    BY <1>2, <1>3, <1>4, <1>5, <2>2 DEF DeLimbo, EnLimbo
  <2>4. s.en \in {"limbo", "perdido"} /\ m[p].en # "pcp"
    BY <2>2
  <2>5. Reparte(m)'
    BY <1>3, <1>5, <1>6, <1>7, <2>1, <2>2, <2>3, <2>4, Mudanza DEF Ajeno
  <2>6. Traslado(l, m)
    <3>1. Pasa(l[p].en, s.en)
      BY <1>5, <2>4 DEF Pasa
    <3> QED BY <2>1, <2>2, <3>1 DEF Traslado
  <2> QED BY <2>5, <2>6
<1> QED BY <1>9, <1>10

\* A CPU gives its program back to its handler.
LEMMA SaleDeCpu ==
  ASSUME TipoInv, NEW l, NEW c \in Cpu, NEW p \in Proc, enCpu[c] = p,
         NEW s \in Sitio, NEW m, Muda(l, p, s, m), s.en \in {"ready", "bloq", "fin"},
         NEW d \in Donde \ Marcado, pc[c] \notin Marcado, pc' = [pc EXCEPT ![c] = d],
         \A g \in Hilo : g # c => proc'[g] = proc[g],
         enCpu' = [enCpu EXCEPT ![c] = Nadie],
         UNCHANGED <<disponible, pcb, pcp, colaNew>>,
         (UNCHANGED colaReady /\ s.en # "ready") \/ DeReady(m)',
         (UNCHANGED bloqueos /\ s.en # "bloq") \/ DeBloq(m)',
         (UNCHANGED colaFinished /\ s.en # "fin") \/ DeFin(m)'
  PROVE  Reparte(m)' /\ Traslado(l, m)
<1>1. CpusTipo /\ c \in Hilo
  BY CpusTipado DEF Hilo
<1>2. l[p].en = "cpu" /\ DeCpu(m)'
  <2>1. l[p].en = "cpu"
    BY DEF Muda, Reparte, DeCpu
  <2>2. s.en # "cpu"
    OBVIOUS
  <2> QED BY <1>1, <2>1, <2>2, DejaCpu
<1>3. IgualInicio /\ IgualMano /\ \A x \in Cpu : pc'[x] = "caida" <=> pc[x] = "caida"
  BY <1>1, HilosIguales
<1>4. IgualPcp /\ IgualLimbo
  BY <1>3 DEF IgualPcp, IgualLimbo, EnManoPcp, EnLimbo
<1>5. Reparte(m)'
  BY <1>2, <1>3, <1>4, Mudanza DEF Ajeno
<1>6. Traslado(l, m)
  BY <1>2 DEF Traslado
<1> QED BY <1>5, <1>6

\* terminarProceso, of a program that comes back from its CPU.
LEMMA TerminaElDeLaCpu ==
  ASSUME TipoInv, NEW l, Reparte(l), NEW c \in Cpu, NEW p \in Proc, enCpu[c] = p,
         EmpiezaTerminar(c, p), pc[c] \notin Marcado,
         enCpu' = [enCpu EXCEPT ![c] = Nadie],
         UNCHANGED <<disponible, pcb, pcp, colaNew, colaReady, bloqueos>>
  PROVE  \E m : Reparte(m)' /\ Traslado(l, m)
<1>1. /\ pc' = [pc EXCEPT ![c] = "libera"] /\ proc' = [proc EXCEPT ![c] = p]
      /\ colaFinished' = [colaFinished EXCEPT ![p] = @ + 1] /\ l[p].en = "cpu"
  BY DEF EmpiezaTerminar, Ir, Reparte, DeCpu
<1>2. "libera" \in Donde \ Marcado /\ \A g \in Hilo : g # c => proc'[g] = proc[g]
  BY <1>1 DEF Donde, PasosCpu, Marcado, TipoInv, TypeOK
<1>3. PICK s, m : Muda(l, p, s, m) /\ s \in Sitio /\ s.en = "fin"
  <2>1. "fin" \in Lugar /\ Nadie \in De("fin")
    BY DEF Lugar, De
  <2> QED BY <2>1, SeMuda
<1>4. DeFin(m)'
  BY <1>1, <1>3, LlegaAlFin
<1>5. Reparte(m)' /\ Traslado(l, m)
  BY <1>1, <1>2, <1>3, <1>4, SaleDeCpu
<1> QED BY <1>5

\* FIN_EJECUCION.
LEMMA Lug_FinalizacionQuantum ==
  ASSUME TipoInv, NEW l, Reparte(l), NEW c \in Cpu, FinalizacionQuantum(c)
  PROVE  \E m : Reparte(m)' /\ Traslado(l, m)
<1>1. PICK p \in Proc : p = enCpu[c]
  BY DEF FinalizacionQuantum, EnRafaga, TipoInv, Manos
<1>2. /\ pc[c] = "libre" /\ enCpu' = [enCpu EXCEPT ![c] = Nadie] /\ l[p].en = "cpu"
      /\ UNCHANGED <<disponible, pcb, pcp, colaNew, bloqueos>>
  BY <1>1 DEF FinalizacionQuantum, EnRafaga, En, Devuelve, cpus, Reparte, DeCpu
<1>3. CASE EmpiezaTerminar(c, p) /\ UNCHANGED colaReady
  BY <1>1, <1>2, <1>3, TerminaElDeLaCpu DEF Marcado
<1>4. CASE /\ colaReady' = Append(colaReady, p) /\ proc' = [proc EXCEPT ![c] = p]
           /\ pc' = [pc EXCEPT ![c] = "q_estado"] /\ UNCHANGED colaFinished
  <2>1. /\ "q_estado" \in Donde \ Marcado /\ pc[c] \notin Marcado
        /\ \A g \in Hilo : g # c => proc'[g] = proc[g]
    BY <1>2, <1>4 DEF Donde, PasosCpu, Marcado, TipoInv, TypeOK
  <2>2. PICK s, m : Muda(l, p, s, m) /\ s \in Sitio /\ s.en = "ready"
    <3>1. "ready" \in Lugar /\ Nadie \in De("ready")
      BY DEF Lugar, De
    <3> QED BY <3>1, SeMuda
  <2>3. DeReady(m)'
    BY <1>2, <1>4, <2>2, LlegaAReady
  <2>4. Reparte(m)' /\ Traslado(l, m)
    BY <1>1, <1>2, <1>4, <2>1, <2>2, <2>3, SaleDeCpu
  <2> QED BY <2>4
<1> QED BY <1>1, <1>3, <1>4 DEF FinalizacionQuantum, Ir

\* FIN_PROCESO.
LEMMA Lug_FinalizacionProceso ==
  ASSUME TipoInv, NEW l, Reparte(l), NEW c \in Cpu, FinalizacionProceso(c)
  PROVE  \E m : Reparte(m)' /\ Traslado(l, m)
<1>1. PICK p \in Proc : p = enCpu[c]
  BY DEF FinalizacionProceso, EnRafaga, TipoInv, Manos
<1>2. /\ pc[c] = "libre" /\ enCpu' = [enCpu EXCEPT ![c] = Nadie] /\ EmpiezaTerminar(c, p)
      /\ UNCHANGED <<disponible, pcb, pcp, colaNew, colaReady, bloqueos>>
  BY <1>1 DEF FinalizacionProceso, EnRafaga, En, Devuelve, cpus
<1> QED BY <1>1, <1>2, TerminaElDeLaCpu DEF Marcado

\* SEM_SIGNAL: desbloquearProceso.
LEMMA Lug_RealizarSignal ==
  ASSUME TipoInv, NEW l, Reparte(l), NEW c \in Cpu, RealizarSignal(c), pc'[c] = "s_estado"
  PROVE  \E m : Reparte(m)' /\ Traslado(l, m)
<1>1. PICK z \in Sem : z = clave[c]
  BY DEF RealizarSignal, En, TipoInv, Manos
<1>2. pc \in [Hilo -> Donde] /\ proc \in [Hilo -> Proc \cup {Nadie}]
      /\ bloqueos \in [Sem -> Seq(Proc)] /\ c \in Hilo
  BY DEF TipoInv, TypeOK, Hilo
<1>3. /\ pc[c] = "signal" /\ pc' = [pc EXCEPT ![c] = "s_estado"] /\ bloqueos[z] # <<>>
      /\ colaReady' = Append(colaReady, Head(bloqueos[z]))
      /\ bloqueos' = [bloqueos EXCEPT ![z] = Sacar(bloqueos[z])]
      /\ proc' = [proc EXCEPT ![c] = Head(bloqueos[z])]
      /\ UNCHANGED <<colaNew, colaFinished, disponible, pcb, pcp, enCpu>>
  BY <1>1, <1>2 DEF RealizarSignal, En, Ir, cpus, externo
<1>4. PICK p \in Proc : p = Head(bloqueos[z])
  BY <1>2, <1>3, SacarTipo
<1>5. /\ l[p].en = "bloq" /\ l[p].de = z
      /\ \A x \in Sem : /\ ~ Repite(bloqueos[x])
                        /\ \A q \in Proc : EnCola(q, bloqueos[x]) <=> (l[q].en = "bloq" /\ l[q].de = x)
  BY <1>2, <1>3, <1>4, ColaSacar DEF Reparte, DeBloq
<1>6. PICK s, m : /\ Muda(l, p, s, m) /\ s \in Sitio /\ s.en = "ready" /\ m[p].en = "ready"
                  /\ \A q \in Proc : q # p => m[q] = l[q]
  <2>1. "ready" \in Lugar /\ Nadie \in De("ready")
    BY DEF Lugar, De
  <2> QED BY <2>1, SeMuda
<1>7. DeReady(m)'
  BY <1>3, <1>4, <1>5, <1>6, LlegaAReady
<1>8. DeBloq(m)'
  <2>1. ~ Repite(bloqueos'[z]) /\ \A q : EnCola(q, bloqueos'[z]) <=> EnCola(q, bloqueos[z]) /\ q # p
    BY <1>2, <1>3, <1>4, <1>5, ColaSacar
  <2>2. \A x \in Sem : x # z => bloqueos'[x] = bloqueos[x]
    BY <1>2, <1>3
  <2> QED BY <1>4, <1>5, <1>6, <2>1, <2>2 DEF DeBloq
<1>9. /\ IgualInicio /\ IgualMano /\ IgualPcp /\ IgualLimbo
  <2>1. /\ "s_estado" \in Donde \ Marcado /\ pc[c] \notin Marcado
        /\ \A g \in Hilo : g # c => proc'[g] = proc[g]
    BY <1>2, <1>3 DEF Donde, PasosCpu, Marcado
  <2>2. IgualInicio /\ IgualMano /\ \A x \in Cpu : pc'[x] = "caida" <=> pc[x] = "caida"
    BY <1>2, <1>3, <2>1, HilosIguales
  <2> QED BY <1>3, <2>2 DEF IgualPcp, IgualLimbo, EnManoPcp, EnLimbo
<1>10. Reparte(m)'
  BY <1>3, <1>5, <1>6, <1>7, <1>8, <1>9, Mudanza DEF Ajeno
<1>11. Traslado(l, m)
  <2>1. Pasa(l[p].en, s.en) /\ UNCHANGED enCpu
    BY <1>3, <1>5, <1>6 DEF Pasa
  <2> QED BY <1>6, <2>1 DEF Traslado
<1> QED BY <1>10, <1>11

\* PROC_BLOCKED: bloquearProceso.
LEMMA Lug_RecibirBloqueado ==
  ASSUME TipoInv, NEW l, Reparte(l), NEW c \in Cpu, RecibirBloqueado(c)
  PROVE  \E m : Reparte(m)' /\ Traslado(l, m)
<1>1. PICK p \in Proc, z \in Sem : p = enCpu[c] /\ z = clave[c]
  BY DEF RecibirBloqueado, En, TipoInv, Manos
<1>2. /\ pc[c] = "w_recibe" /\ enCpu' = [enCpu EXCEPT ![c] = Nadie] /\ l[p].en = "cpu"
      /\ UNCHANGED <<disponible, pcb, pcp, colaNew, colaReady>>
  BY <1>1 DEF RecibirBloqueado, En, Devuelve, cpus, Reparte, DeCpu
<1>3. CASE EmpiezaTerminar(c, p) /\ UNCHANGED bloqueos
  BY <1>1, <1>2, <1>3, TerminaElDeLaCpu DEF Marcado
<1>4. CASE /\ bloqueos' = [bloqueos EXCEPT ![z] = Append(@, p)] /\ pc' = [pc EXCEPT ![c] = "desocupa"]
           /\ UNCHANGED <<proc, colaFinished>>
  <2>1. "desocupa" \in Donde \ Marcado /\ pc[c] \notin Marcado /\ bloqueos \in [Sem -> Seq(Proc)]
    BY <1>2 DEF Donde, PasosCpu, Marcado, TipoInv, TypeOK
  <2>2. PICK s, m : /\ Muda(l, p, s, m) /\ s \in Sitio /\ s.en = "bloq"
                    /\ m[p].en = "bloq" /\ m[p].de = z /\ \A q \in Proc : q # p => m[q] = l[q]
    <3>1. "bloq" \in Lugar /\ z \in De("bloq")
      BY DEF Lugar, De
    <3> QED BY <3>1, SeMuda
  <2>3. \A x \in Sem : /\ ~ Repite(bloqueos[x])
                       /\ \A q \in Proc : EnCola(q, bloqueos[x]) <=> (l[q].en = "bloq" /\ l[q].de = x)
    BY DEF Reparte, DeBloq
  <2>4. DeBloq(m)'
    <3>1. ~ EnCola(p, bloqueos[z])
      BY <1>2, <2>3
    <3>2. /\ ~ Repite(bloqueos'[z])
          /\ \A q : EnCola(q, bloqueos'[z]) <=> EnCola(q, bloqueos[z]) \/ q = p
      BY <1>4, <2>1, <2>3, <3>1, ColaAppend
    <3>3. \A x \in Sem : x # z => bloqueos'[x] = bloqueos[x]
      BY <1>4, <2>1
    <3> QED BY <1>2, <2>2, <2>3, <3>2, <3>3 DEF DeBloq
  <2>5. Reparte(m)' /\ Traslado(l, m)
    BY <1>1, <1>2, <1>4, <2>1, <2>2, <2>4, SaleDeCpu
  <2> QED BY <2>5
<1> QED BY <1>1, <1>3, <1>4 DEF RecibirBloqueado, Ir

\* A closed socket: the program that the CPU had ends.
LEMMA Lug_CpuCaida ==
  ASSUME TipoInv, CpuInv, NEW l, Reparte(l), NEW c \in Cpu, CpuCaida(c)
  PROVE  \E m : Reparte(m)' /\ Traslado(l, m)
<1>1. /\ pc \in [Hilo -> Donde] /\ c \in Hilo /\ Proc \subseteq Hilo /\ Cpu \subseteq Hilo
      /\ Proc \cap Cpu = {} /\ enCpu \in [Cpu -> Proc \cup {Nadie}] /\ disponible \in [Cpu -> BOOLEAN]
  BY PlanificadorAssumption DEF TipoInv, TypeOK, Hilo
<1>2. /\ pc[c] = "libre" /\ UNCHANGED <<disponible, pcb, pcp, colaNew, colaReady, bloqueos>>
      /\ EnSuSitio(c) /\ fase[c] = "caida"
  BY DEF CpuCaida, En, CpuInv
<1>3. CASE /\ disponible[c] /\ pc' = [pc EXCEPT ![c] = "caida"]
           /\ UNCHANGED <<colaFinished, proc, enCpu>>
  <2>1. IgualInicio /\ IgualMano /\ IgualPcp /\ IgualLimbo
    BY <1>1, <1>2, <1>3 DEF IgualInicio, IgualMano, IgualPcp, IgualLimbo, EnManoPcp, EnLimbo
  <2> QED BY <1>2, <1>3, <2>1, LugAjeno
<1>4. CASE ~ disponible[c] /\ TerminarSiTenia(c)
  <2>1. enCpu[c] \in Proc /\ pcb[c] = enCpu[c]
    BY <1>1, <1>2, <1>4 DEF EnSuSitio, Devuelto
  <2>2. EmpiezaTerminar(c, enCpu[c]) /\ enCpu' = [enCpu EXCEPT ![c] = Nadie]
    BY <1>4, <2>1, PlanificadorAssumption DEF TerminarSiTenia, TeniaPrograma, Hilo
  <2> QED BY <1>2, <2>1, <2>2, TerminaElDeLaCpu DEF Marcado
<1> QED BY <1>3, <1>4 DEF CpuCaida, Ir

\* Likewise for the handler that waited for the CPU's unit: the program is the
\* one the planner sent meanwhile.
LEMMA Lug_CpuCaidaEspera ==
  ASSUME TipoInv, CpuInv, NEW l, Reparte(l), NEW c \in Cpu, CpuCaidaEspera(c)
  PROVE  \E m : Reparte(m)' /\ Traslado(l, m)
<1>1. /\ pc \in [Hilo -> Donde] /\ c \in Hilo /\ Proc \subseteq Hilo /\ Cpu \subseteq Hilo
      /\ Proc \cap Cpu = {} /\ enCpu \in [Cpu -> Proc \cup {Nadie}]
      /\ pcb \in [Cpu -> Proc \cup {Nadie}] /\ proc \in [Hilo -> Proc \cup {Nadie}]
  BY PlanificadorAssumption DEF TipoInv, TypeOK, Hilo
<1>2. /\ pc[c] = "caida" /\ UNCHANGED <<disponible, pcb, pcp, colaNew, colaReady, bloqueos>>
      /\ enCpu[c] = Nadie
  BY DEF CpuCaidaEspera, En, CpuInv, EnSuSitio, cpus
<1>3. \A q \in Proc, d \in Cpu : EnLimbo(q, d) <=> (l[q].en = "limbo" /\ l[q].de = d)
  BY DEF Reparte, DeLimbo
<1>4. CASE ~ TeniaPrograma(c)
  <2>1. pc' = [pc EXCEPT ![c] = "libre"] /\ UNCHANGED <<colaFinished, proc, enCpu>>
    BY <1>4 DEF CpuCaidaEspera, TerminarSiTenia, Ir
  <2>2. IgualInicio /\ IgualMano /\ IgualPcp
    BY <1>1, <1>2, <2>1 DEF IgualInicio, IgualMano, IgualPcp, EnManoPcp
  <2>3. IgualLimbo
    BY <1>1, <1>2, <1>4, <2>1, PlanificadorAssumption DEF IgualLimbo, EnLimbo, TeniaPrograma, Hilo
  <2> QED BY <1>2, <2>1, <2>2, <2>3, LugAjeno
<1>5. CASE TeniaPrograma(c)
  <2>1. PICK p \in Proc : p = pcb[c]
    BY <1>1, <1>5 DEF TeniaPrograma
  <2>2. /\ pc' = [pc EXCEPT ![c] = "libera"] /\ proc' = [proc EXCEPT ![c] = p]
        /\ colaFinished' = [colaFinished EXCEPT ![p] = @ + 1] /\ UNCHANGED enCpu
    BY <1>1, <1>2, <1>5, <2>1 DEF CpuCaidaEspera, TerminarSiTenia, EmpiezaTerminar, Ir
  <2>3. l[p].en = "limbo" /\ l[p].de = c
    BY <1>2, <1>3, <1>5, <2>1 DEF EnLimbo, TeniaPrograma
  <2>4. PICK s, m : /\ Muda(l, p, s, m) /\ s \in Sitio /\ s.en = "fin" /\ m[p].en = "fin"
                    /\ \A q \in Proc : q # p => m[q] = l[q]
    <3>1. "fin" \in Lugar /\ Nadie \in De("fin")
      BY DEF Lugar, De
    <3> QED BY <3>1, SeMuda
  <2>5. DeFin(m)'
    BY <2>2, <2>3, <2>4, LlegaAlFin
  <2>6. IgualInicio /\ IgualMano /\ IgualPcp
    BY <1>1, <1>2, <2>2 DEF IgualInicio, IgualMano, IgualPcp, EnManoPcp
  <2>7. DeLimbo(m)'
    BY <1>1, <1>2, <1>3, <2>1, <2>2, <2>3, <2>4 DEF DeLimbo, EnLimbo
  <2>8. Reparte(m)'
    BY <1>2, <2>2, <2>3, <2>4, <2>5, <2>6, <2>7, Mudanza DEF Ajeno
  <2>9. Traslado(l, m)
    <3>1. Pasa(l[p].en, s.en)
      BY <2>3, <2>4 DEF Pasa
    <3> QED BY <2>2, <2>4, <3>1 DEF Traslado
  <2> QED BY <2>8, <2>9
<1> QED BY <1>4, <1>5

-----------------------------------------------------------------------------
\* The other steps, and all of them.

\* A step of a thread that has no program to move.
LEMMA LugHilo ==
  ASSUME TipoInv, NEW l, Reparte(l),
         UNCHANGED <<colaNew, colaReady, bloqueos, colaFinished, enCpu>>,
         \/ UNCHANGED <<pc, proc>>
         \/ \E h \in Hilo, d \in Donde \ Marcado :
              /\ pc[h] \notin Marcado /\ pc' = [pc EXCEPT ![h] = d]
              /\ \A g \in Hilo : g # h => proc'[g] = proc[g],
         pcp' = pcp \/ "despachar" \notin {pcp.pc, pcp'.pc},
         \A c \in Cpu : \/ disponible'[c] = disponible[c] /\ pcb'[c] = pcb[c]
                        \/ pc[c] # "caida"
  PROVE  \E m : Reparte(m)' /\ Traslado(l, m)
<1>1. IgualInicio /\ IgualMano /\ \A c \in Cpu : pc'[c] = "caida" <=> pc[c] = "caida"
  BY HilosIguales
<1>2. IgualPcp /\ IgualLimbo
  BY <1>1 DEF IgualPcp, IgualLimbo, EnManoPcp, EnLimbo
<1> QED BY <1>1, <1>2, LugAjeno

LEMMA Lug_LargoPlazo ==
  ASSUME TipoInv, NEW l, Reparte(l), NEW h \in Hilo, LargoPlazo(h)
  PROVE  \E m : Reparte(m)' /\ Traslado(l, m)
<1> DEFINE D == {"libre", "lazo", "codigo", "suma", "guarda"}
<1>1. CASE SacarDeNew(h) /\ pc'[h] = "memoria"
  BY <1>1, Lug_SacarDeNew
<1>2. CASE MemoriaAcepta(h)
  BY <1>2, Lug_MemoriaAcepta
<1>3. CASE MemoriaRechaza(h) /\ ConInfo(proc[h])
  BY <1>3, Lug_MemoriaRechaza
<1>4. CASE \/ EmpezarLargoPlazo(h)
           \/ SacarDeNew(h) /\ pc'[h] # "memoria"
           \/ MemoriaRechaza(h) /\ ~ ConInfo(proc[h])
           \/ AnotarReady(h) \/ EnvioCodigoMemoria(h) \/ LeerCantSuma(h) \/ GuardarCantSuma(h)
  <2>1. pc \in [Hilo -> Donde] /\ proc \in [Hilo -> Proc \cup {Nadie}]
    BY DEF TipoInv, TypeOK
  <2>2. UNCHANGED <<colaNew, colaReady, bloqueos, colaFinished, enCpu, disponible, pcb, pcp>>
    <3>1. CASE SacarDeNew(h) /\ pc'[h] # "memoria"
      BY <2>1, <3>1 DEF SacarDeNew, Cae, Ir, colas, cpus, externo
    <3> QED BY <1>4, <3>1 DEF EmpezarLargoPlazo, MemoriaRechaza, AnotarReady, EnvioCodigoMemoria,
                          LeerCantSuma, GuardarCantSuma, Cae, colas, cpus, externo
  <2>3. \/ UNCHANGED <<pc, proc>>
        \/ \E d \in D : /\ pc[h] \notin Marcado /\ pc' = [pc EXCEPT ![h] = d]
                        /\ \A g \in Hilo : g # h => proc'[g] = proc[g]
    <3>1. CASE EmpezarLargoPlazo(h)
      BY <2>1, <3>1 DEF EmpezarLargoPlazo, TerminaPlanificador, En, Ir, Marcado
    <3>2. CASE SacarDeNew(h) /\ pc'[h] # "memoria"
      BY <2>1, <3>2 DEF SacarDeNew, TerminaPlanificador, Cae, En, Ir, hilos, Marcado
    <3> QED BY <1>4, <3>1, <3>2 DEF MemoriaRechaza, AnotarReady, EnvioCodigoMemoria, LeerCantSuma,
                                    GuardarCantSuma, Cae, En, Ir, hilos, Marcado
  <2>4. D \subseteq Donde \ Marcado
    BY DEF Donde, EnPlanificador, Marcado
  <2> HIDE DEF D
  <2> QED BY <2>2, <2>3, <2>4, LugHilo
<1> QED BY <1>1, <1>2, <1>3, <1>4 DEF LargoPlazo, ConInfo

LEMMA Lug_CortoPlazo ==
  ASSUME TipoInv, CpuInv, NEW l, Reparte(l), CortoPlazo
  PROVE  \E m : Reparte(m)' /\ Traslado(l, m)
<1>1. CASE ElegirCpu /\ colaReady # <<>>
  BY <1>1, Lug_ElegirCpu
<1>2. CASE Despachar /\ pcp.cpu # Nadie
  BY <1>2, Lug_Despachar
<1>3. CASE \/ EsperarReady \/ EsperarPlanificacion \/ EsperarCpu \/ AnotarExec
           \/ ElegirCpu /\ colaReady = <<>>
           \/ Despachar /\ pcp.cpu = Nadie
  <2>1. UNCHANGED <<colaNew, colaReady, bloqueos, colaFinished, enCpu, disponible, pcb, pc, proc>>
    BY <1>3 DEF EsperarReady, EsperarPlanificacion, EsperarCpu, AnotarExec, ElegirCpu, Despachar,
                Cae, colas, cpus, hilos, externo
  <2>2. pcp' = pcp \/ "despachar" \notin {pcp.pc, pcp'.pc}
    BY <1>3 DEF EsperarReady, EsperarPlanificacion, EsperarCpu, AnotarExec, ElegirCpu, Despachar,
                Cae, EnPcp, TipoInv, TypeOK, TipoPcp
  <2> QED BY <2>1, <2>2, LugHilo
<1> QED BY <1>1, <1>2, <1>3 DEF CortoPlazo

LEMMA Lug_Cpu ==
  ASSUME TipoInv, CpuInv, NEW l, Reparte(l), NEW c \in Cpu,
         \/ Conectar(c) \/ ComenzarEjecucion(c) \/ Sigusr1(c) \/ CpuMuere(c)
         \/ PedidoCpu(c) \/ HiloCpu(c)
  PROVE  \E m : Reparte(m)' /\ Traslado(l, m)
<1>1. /\ pc \in [Hilo -> Donde] /\ proc \in [Hilo -> Proc \cup {Nadie}] /\ c \in Hilo
      /\ disponible \in [Cpu -> BOOLEAN] /\ EnSuSitio(c)
  BY DEF TipoInv, TypeOK, Hilo, CpuInv
<1>2. CASE \/ FinalizacionQuantum(c) \/ FinalizacionProceso(c) \/ RecibirBloqueado(c)
           \/ CpuCaida(c) \/ CpuCaidaEspera(c)
           \/ RealizarSignal(c) /\ pc'[c] = "s_estado"
  BY <1>2, Lug_FinalizacionQuantum, Lug_FinalizacionProceso, Lug_RecibirBloqueado,
     Lug_RealizarSignal, Lug_CpuCaida, Lug_CpuCaidaEspera
<1>3. CASE \/ Conectar(c) \/ ComenzarEjecucion(c) \/ Sigusr1(c) \/ CpuMuere(c) \/ EliminarCpu(c)
           \/ SinInfo(c)
  <2>1. /\ UNCHANGED <<colaNew, colaReady, bloqueos, colaFinished, enCpu, pc, proc, pcp, pcb>>
        /\ \/ UNCHANGED disponible
           \/ fase[c] = "fuera" /\ disponible' = [disponible EXCEPT ![c] = TRUE]
    BY <1>3 DEF Conectar, ComenzarEjecucion, Sigusr1, CpuMuere, EliminarCpu, SinInfo, Cae,
                colas, cpus, hilos, externo
  <2>2. \A x \in Cpu : \/ disponible'[x] = disponible[x] /\ pcb'[x] = pcb[x]
                       \/ pc[x] # "caida"
    BY <1>1, <2>1 DEF EnSuSitio, Ocupado
  <2> QED BY <2>1, <2>2, LugHilo
<1>4. CASE DesocuparCpu(c) \/ TerminarLiberar(c)
  <2>1. /\ UNCHANGED <<colaNew, colaReady, bloqueos, colaFinished, enCpu, pcp, pcb>>
        /\ pc[c] \in {"desocupa", "libera"}
        /\ disponible' = [disponible EXCEPT ![c] = TRUE] \/ UNCHANGED disponible
        /\ \E d \in {"libre", "resta"} : pc' = [pc EXCEPT ![c] = d]
        /\ proc' = [proc EXCEPT ![c] = Nadie] \/ UNCHANGED proc
    BY <1>4 DEF DesocuparCpu, TerminarLiberar, Desocupar, TerminaPlanificador, En, Ir, colas, externo
  <2>2. {"libre", "resta"} \subseteq Donde \ Marcado /\ pc[c] \notin Marcado
    BY <2>1 DEF Donde, PasosCpu, Marcado
  <2>3. \A x \in Cpu : \/ disponible'[x] = disponible[x] /\ pcb'[x] = pcb[x]
                       \/ pc[x] # "caida"
    BY <1>1, <2>1
  <2>4. \A g \in Hilo : g # c => proc'[g] = proc[g]
    BY <1>1, <2>1
  <2> QED BY <1>1, <2>1, <2>2, <2>3, <2>4, LugHilo
<1>5. CASE \/ QuantumAnotarReady(c) \/ LeerCantResta(c) \/ GuardarCantResta(c)
           \/ RealizarSignal(c) /\ pc'[c] # "s_estado"
           \/ SignalAnotarReady(c) \/ RealizarWait(c) \/ BloqueadoNoLlega(c)
           \/ \E s \in Sem : PedirSemaforo(c, s)
  <2> DEFINE D == {"desocupa", "guarda_resta", "plp", "libre", "w_recibe", "signal", "wait"}
  <2>1. /\ UNCHANGED <<colaNew, colaReady, bloqueos, colaFinished, enCpu, disponible, pcb, pcp>>
        /\ pc[c] \notin Marcado
        /\ proc' = [proc EXCEPT ![c] = Nadie] \/ UNCHANGED proc
        /\ \E d \in D : pc' = [pc EXCEPT ![c] = d]
    <3>1. CASE \/ QuantumAnotarReady(c) \/ LeerCantResta(c) \/ GuardarCantResta(c)
      BY <3>1 DEF QuantumAnotarReady, LeerCantResta, GuardarCantResta, En, Ir, Marcado, colas, cpus, externo
    <3>2. CASE RealizarSignal(c) /\ pc'[c] # "s_estado"
      BY <1>1, <3>2 DEF RealizarSignal, En, Ir, Marcado, cpus, externo
    <3>3. CASE SignalAnotarReady(c) \/ BloqueadoNoLlega(c)
      BY <3>3 DEF SignalAnotarReady, BloqueadoNoLlega, TerminaPlanificador, En, Ir, Marcado, colas, cpus, externo
    <3>4. CASE RealizarWait(c)
      BY <3>4 DEF RealizarWait, En, Ir, Marcado, colas, cpus, externo
    <3>5. CASE \E s \in Sem : PedirSemaforo(c, s)
      BY <3>5 DEF PedirSemaforo, EnRafaga, En, Ir, Marcado, colas, cpus
    <3> QED BY <1>5, <3>1, <3>2, <3>3, <3>4, <3>5
  <2>2. D \subseteq Donde \ Marcado
    BY DEF Donde, EnPlanificador, PasosCpu, Marcado
  <2>3. \A g \in Hilo : g # c => proc'[g] = proc[g]
    BY <1>1, <2>1
  <2> HIDE DEF D
  <2> QED BY <1>1, <2>1, <2>2, <2>3, LugHilo
<1> QED BY <1>2, <1>3, <1>4, <1>5 DEF PedidoCpu, HiloCpu

LEMMA Lug_Paso ==
  ASSUME TipoInv, CpuInv, NEW l, Reparte(l), [Next]_vars
  PROVE  \E m : Reparte(m)' /\ Traslado(l, m)
<1>1. CASE \E p \in Proc : CrearInfoEstadistica(p)
  <2>1. PICK p \in Proc : CrearInfoEstadistica(p)
    BY <1>1
  <2>2. /\ UNCHANGED <<colaNew, colaReady, bloqueos, colaFinished, enCpu, disponible, pcb, pcp, proc>>
        /\ pc[p] \notin Marcado /\ pc' = [pc EXCEPT ![p] = "plp"]
    BY <2>1 DEF CrearInfoEstadistica, En, Ir, Marcado, colas, cpus, externo
  <2>3. p \in Hilo /\ "plp" \in Donde \ Marcado
    BY DEF Hilo, Donde, EnPlanificador, Marcado
  <2> QED BY <2>2, <2>3, LugHilo
<1>2. CASE Operador
  <2>1. UNCHANGED <<colaNew, colaReady, bloqueos, colaFinished, enCpu, disponible, pcb, pcp, proc>>
    BY <1>2 DEF Operador, KillProcess, GradoMultiprogramacion, StopPlanification, colas, cpus, hilos, externo
  <2>2. \/ UNCHANGED pc
        \/ pc[Interfaz] \notin Marcado /\ pc' = [pc EXCEPT ![Interfaz] = "plp"]
    BY <1>2 DEF Operador, KillProcess, GradoMultiprogramacion, StopPlanification, hilos, En, Ir, Marcado
  <2>3. Interfaz \in Hilo /\ "plp" \in Donde \ Marcado
    BY DEF Hilo, Donde, EnPlanificador, Marcado
  <2> QED BY <2>1, <2>2, <2>3, LugHilo
<1>3. CASE UNCHANGED vars
  <2>1. UNCHANGED <<colaNew, colaReady, bloqueos, colaFinished, enCpu, disponible, pcb, pcp, pc, proc>>
    BY <1>3 DEF vars, colas, cpus, hilos, externo
  <2> QED BY <2>1, LugHilo
<1> QED BY <1>1, <1>2, <1>3, Lug_EnvioCodigo, Lug_LargoPlazo, Lug_CortoPlazo, Lug_Cpu DEF Next, HiloConsola

LEMMA Lug_Init == Init => LugInv
<1> SUFFICES ASSUME Init PROVE LugInv
  OBVIOUS
<1> DEFINE l == [p \in Proc |-> [en |-> "consola", de |-> Nadie]]
<1>1. l \in [Proc -> Sitio] /\ \A p \in Proc : l[p].en = "consola"
  BY DEF Sitio, Lugar, De
<1>2. /\ colaNew = <<>> /\ colaReady = <<>> /\ \A s \in Sem : bloqueos[s] = <<>>
      /\ \A p \in Proc : pc[p] = "inicio" /\ colaFinished[p] = 0
      /\ \A h \in Hilo : pc[h] \in {"inicio", "libre"}
      /\ \A c \in Cpu : enCpu[c] = Nadie
      /\ pcp.pc = "espera" /\ Cpu \subseteq Hilo
  BY DEF Init, Hilo
<1>3. ~ Repite(<<>>) /\ \A p : ~ EnCola(p, <<>>)
  BY DEF Repite, EnCola
<1> HIDE DEF l
<1>4. DeInicio(l) /\ DeNew(l) /\ DeMano(l)
  BY <1>1, <1>2, <1>3 DEF DeInicio, DeNew, DeMano
<1>5. DeReady(l) /\ DeBloq(l)
  BY <1>1, <1>2, <1>3 DEF DeReady, DeBloq
<1>6. DePcp(l) /\ DeCpu(l)
  BY <1>1, <1>2, PlanificadorAssumption DEF DePcp, DeCpu, EnManoPcp, Hilo
<1>7. DeFin(l) /\ DeLimbo(l) /\ DeFragil(l)
  BY <1>1, <1>2 DEF DeFin, DeLimbo, DeFragil, EnLimbo
<1>8. Reparte(l)
  BY <1>1, <1>4, <1>5, <1>6, <1>7 DEF Reparte
<1> QED BY <1>8 DEF LugInv

\* Every program is at one place, for any schedule of threads and CPUs.
THEOREM CadaUnoEnSuLugar == Spec => []LugInv
<1>1. TipoInv /\ CpuInv /\ LugInv /\ [Next]_vars => LugInv'
  BY Lug_Paso DEF LugInv
<1> QED BY <1>1, Lug_Init, TipoSiempre, CpusEnSuSitio, PTL DEF Spec

-----------------------------------------------------------------------------
\* What the invariant says of the counts of UnSoloLugar and NuncaDosLugares.

EsperaEn(p) == {s \in Sem : EnCola(p, bloqueos[s])}

LEMMA CuentaUno ==
  ASSUME NEW S, \A x, y \in S : x = y
  PROVE  Cardinality(S) = IF S = {} THEN 0 ELSE 1
<1>1. CASE S = {}
  BY <1>1, FS_EmptySet
<1>2. CASE S # {}
  <2>1. PICK x : S = {x}
    BY <1>2
  <2> QED BY <1>2, <2>1, FS_Singleton
<1> QED BY <1>1, <1>2

LEMMA AparicionesUna ==
  ASSUME NEW cola, ~ Repite(cola), NEW p
  PROVE  Apariciones(p, cola) = IF EnCola(p, cola) THEN 1 ELSE 0
<1> DEFINE S == {i \in DOMAIN cola : cola[i] = p}
<1>1. (\A i, j \in S : i = j) /\ (S = {} <=> ~ EnCola(p, cola))
  BY DEF Repite, EnCola
<1> HIDE DEF S
<1>2. Cardinality(S) = IF EnCola(p, cola) THEN 1 ELSE 0
  BY <1>1, CuentaUno
<1> QED BY <1>2 DEF Apariciones, S

\* The places where a program is seen, as its own place says.
LEMMA Cuentas ==
  ASSUME NEW l, Reparte(l), NEW p \in Proc
  PROVE  /\ Apariciones(p, colaNew) = IF l[p].en = "new" THEN 1 ELSE 0
         /\ Apariciones(p, colaReady) = IF l[p].en = "ready" THEN 1 ELSE 0
         /\ Cardinality(EnMano(p)) = IF l[p].en = "mano" THEN 1 ELSE 0
         /\ EnManoPcp(p) <=> l[p].en = "pcp"
         /\ Cardinality(Corriendo(p)) = IF l[p].en = "cpu" THEN 1 ELSE 0
         /\ Corriendo(p) = {} <=> l[p].en # "cpu"
         /\ Cardinality(EsperaEn(p)) = IF l[p].en = "bloq" THEN 1 ELSE 0
         /\ Bloqueado(p) <=> l[p].en = "bloq"
         /\ colaFinished[p] = IF l[p].en = "fin" THEN 1 ELSE 0
         /\ EnCola(p, colaReady) <=> l[p].en = "ready"
         /\ pc[p] = "inicio" <=> l[p].en = "consola"
         /\ l[p].en \in Lugar
<1>1. l[p] \in Sitio
  BY DEF Reparte
<1>2. /\ l[p].en \in Lugar
      /\ l[p].en = "mano" => l[p].de \in Hilo
      /\ l[p].en = "cpu" => l[p].de \in Cpu
      /\ l[p].en = "bloq" => l[p].de \in Sem
  BY <1>1 DEF Sitio, De
<1>3. /\ EnMano(p) = {} <=> l[p].en # "mano"
      /\ \A g, h \in EnMano(p) : g = h
  BY <1>2 DEF Reparte, DeMano, EnMano
<1>4. /\ Corriendo(p) = {} <=> l[p].en # "cpu"
      /\ \A c, d \in Corriendo(p) : c = d
  BY <1>2 DEF Reparte, DeCpu, Corriendo
<1>5. /\ EsperaEn(p) = {} <=> l[p].en # "bloq"
      /\ \A s, z \in EsperaEn(p) : s = z
  BY <1>2 DEF Reparte, DeBloq, EsperaEn
<1>6. Bloqueado(p) <=> l[p].en = "bloq"
  BY <1>5 DEF Bloqueado, EsperaEn
<1>7. /\ Cardinality(EnMano(p)) = IF l[p].en = "mano" THEN 1 ELSE 0
      /\ Cardinality(Corriendo(p)) = IF l[p].en = "cpu" THEN 1 ELSE 0
      /\ Cardinality(EsperaEn(p)) = IF l[p].en = "bloq" THEN 1 ELSE 0
  BY <1>3, <1>4, <1>5, CuentaUno
<1>8. /\ ~ Repite(colaNew) /\ ~ Repite(colaReady)
      /\ EnCola(p, colaNew) <=> l[p].en = "new"
      /\ EnCola(p, colaReady) <=> l[p].en = "ready"
      /\ EnManoPcp(p) <=> l[p].en = "pcp"
      /\ colaFinished[p] = IF l[p].en = "fin" THEN 1 ELSE 0
      /\ pc[p] = "inicio" <=> l[p].en = "consola"
  BY DEF Reparte, DeNew, DeReady, DePcp, DeFin, DeInicio
<1>9. /\ Apariciones(p, colaNew) = IF l[p].en = "new" THEN 1 ELSE 0
      /\ Apariciones(p, colaReady) = IF l[p].en = "ready" THEN 1 ELSE 0
  BY <1>8, AparicionesUna
<1> QED BY <1>2, <1>4, <1>6, <1>7, <1>8, <1>9

\* No PCB is ever in two places, whatever CPUs leave or die at any moment.
THEOREM NuncaEnDosLugares == Spec => []NuncaDosLugares
<1>1. ASSUME NEW l, Reparte(l) PROVE NuncaDosLugares
  <2> SUFFICES ASSUME NEW p \in Proc
      PROVE  /\ Apariciones(p, colaReady) + Cardinality(EnMano(p))
                  + (IF EnManoPcp(p) THEN 1 ELSE 0) + Cardinality(Corriendo(p))
                  + Cardinality(EsperaEn(p)) <= 1
             /\ colaFinished[p] <= 1
             /\ colaFinished[p] = 1 => ~ EnCola(p, colaReady) /\ Corriendo(p) = {} /\ ~ Bloqueado(p)
    BY DEF NuncaDosLugares, EsperaEn
  <2>1. PICK a : a = l[p].en
    OBVIOUS
  <2>2. /\ Apariciones(p, colaReady) = IF a = "ready" THEN 1 ELSE 0
        /\ Cardinality(EnMano(p)) = IF a = "mano" THEN 1 ELSE 0
        /\ (IF EnManoPcp(p) THEN 1 ELSE 0) = IF a = "pcp" THEN 1 ELSE 0
        /\ Cardinality(Corriendo(p)) = IF a = "cpu" THEN 1 ELSE 0
        /\ Cardinality(EsperaEn(p)) = IF a = "bloq" THEN 1 ELSE 0
    BY <1>1, <2>1, Cuentas
  <2>3. /\ colaFinished[p] = IF a = "fin" THEN 1 ELSE 0
        /\ EnCola(p, colaReady) <=> a = "ready"
        /\ Corriendo(p) = {} <=> a # "cpu"
        /\ Bloqueado(p) <=> a = "bloq"
    BY <1>1, <2>1, Cuentas
  <2> QED BY <2>2, <2>3
<1>2. LugInv => NuncaDosLugares
  BY <1>1 DEF LugInv
<1> QED BY <1>2, CadaUnoEnSuLugar, PTL

\* While no CPU leaves none is dropped either: each program is at one place
\* exactly from the moment its console sends it.
THEOREM EnUnSoloLugar ==
  ASSUME CpuFragil = {}
  PROVE  Spec => []UnSoloLugar
<1>1. ASSUME NEW l, Reparte(l) PROVE UnSoloLugar
  <2> SUFFICES ASSUME NEW p \in Proc
      PROVE  Apariciones(p, colaNew) + Apariciones(p, colaReady)
               + Cardinality(EsperaEn(p))
               + Cardinality(EnMano(p)) + (IF EnManoPcp(p) THEN 1 ELSE 0)
               + Cardinality(Corriendo(p)) + colaFinished[p]
             = (IF pc[p] = "inicio" THEN 0 ELSE 1)
    BY DEF UnSoloLugar, EsperaEn
  <2>1. PICK a : a = l[p].en
    OBVIOUS
  <2>2. /\ Apariciones(p, colaNew) = IF a = "new" THEN 1 ELSE 0
        /\ Apariciones(p, colaReady) = IF a = "ready" THEN 1 ELSE 0
        /\ Cardinality(EsperaEn(p)) = IF a = "bloq" THEN 1 ELSE 0
        /\ Cardinality(EnMano(p)) = IF a = "mano" THEN 1 ELSE 0
        /\ (IF EnManoPcp(p) THEN 1 ELSE 0) = IF a = "pcp" THEN 1 ELSE 0
        /\ Cardinality(Corriendo(p)) = IF a = "cpu" THEN 1 ELSE 0
    BY <1>1, <2>1, Cuentas
  <2>3. /\ colaFinished[p] = IF a = "fin" THEN 1 ELSE 0
        /\ pc[p] = "inicio" <=> a = "consola"
        /\ a \in Lugar
    BY <1>1, <2>1, Cuentas
  <2>4. a \notin {"limbo", "perdido"}
    BY <1>1, <2>1 DEF Reparte, DeFragil
  <2> QED BY <2>2, <2>3, <2>4 DEF Lugar
<1>2. LugInv => UnSoloLugar
  BY <1>1 DEF LugInv
<1> QED BY <1>2, CadaUnoEnSuLugar, PTL

-----------------------------------------------------------------------------
\* The kernel implements CicloDeVida.

Situaciones == [p \in Proc |-> Situacion(p)]

\* What CicloDeVida sees of a place.
Vista(a) ==
  CASE a = "consola" -> "sinEnviar"
    [] a \in {"ready", "pcp"} -> "READY"
    [] a = "cpu" -> "EXEC"
    [] a = "bloq" -> "BLOQ"
    [] a = "fin" -> "FINISH"
    [] OTHER -> "NEW"

LEMMA SituacionVista == \A l : Reparte(l) => Situaciones = [p \in Proc |-> Vista(l[p].en)]
<1> SUFFICES ASSUME NEW l, Reparte(l), NEW p \in Proc PROVE Situacion(p) = Vista(l[p].en)
  BY DEF Situaciones
<1>1. PICK a : a = l[p].en
  OBVIOUS
<1>2. /\ colaFinished[p] = IF a = "fin" THEN 1 ELSE 0
      /\ Corriendo(p) = {} <=> a # "cpu"
      /\ Bloqueado(p) <=> a = "bloq"
      /\ EnCola(p, colaReady) <=> a = "ready"
      /\ EnManoPcp(p) <=> a = "pcp"
      /\ pc[p] = "inicio" <=> a = "consola"
  BY <1>1, Cuentas
<1> QED BY <1>1, <1>2 DEF Situacion, Vista

LEMMA CicloInicial ==
  ASSUME Init
  PROVE  Situaciones = [p \in Proc |-> "sinEnviar"] /\ enCpu = [c \in Cpu |-> Nadie]
<1>1. /\ colaReady = <<>> /\ \A s \in Sem : bloqueos[s] = <<>>
      /\ \A p \in Proc : pc[p] = "inicio" /\ colaFinished[p] = 0
      /\ \A c \in Cpu : enCpu[c] = Nadie
      /\ pcp.pc = "espera"
  BY DEF Init, Hilo
<1>2. \A p : ~ EnCola(p, <<>>)
  BY DEF EnCola
<1>3. ASSUME NEW p \in Proc
      PROVE  ~ Bloqueado(p) /\ Corriendo(p) = {} /\ ~ EnCola(p, colaReady) /\ ~ EnManoPcp(p)
  BY <1>1, <1>2, PlanificadorAssumption DEF Bloqueado, Corriendo, EnManoPcp, Hilo
<1>4. \A p \in Proc : Situacion(p) = "sinEnviar"
  BY <1>1, <1>3 DEF Situacion
<1>5. enCpu = [c \in Cpu |-> Nadie]
  BY DEF Init
<1> QED BY <1>4, <1>5 DEF Situaciones

\* A move of one program is a step of CicloDeVida, or it does not show.
LEMMA CicloMueve ==
  ASSUME CpuFragil = {}, NEW l, NEW m, NEW p, NEW s, Muda(l, p, s, m), DeFragil(m),
         Situaciones = [q \in Proc |-> Vista(l[q].en)],
         Situaciones' = [q \in Proc |-> Vista(m[q].en)],
         \/ Pasa(l[p].en, s.en) /\ UNCHANGED enCpu
         \/ \E c \in Cpu : /\ l[p].en = "pcp" /\ s.en = "cpu"
                           /\ enCpu[c] = Nadie /\ enCpu' = [enCpu EXCEPT ![c] = p]
         \/ \E c \in Cpu : /\ l[p].en = "cpu" /\ s.en \in {"ready", "bloq", "fin"}
                           /\ enCpu[c] = p /\ enCpu' = [enCpu EXCEPT ![c] = Nadie]
  PROVE  Ciclo!Next \/ UNCHANGED <<Situaciones, enCpu>>
<1>1. p \in Proc /\ m[p] = s /\ \A q \in Proc : q # p => m[q] = l[q]
  BY DEF Muda, Reparte
<1>2. s.en \notin {"limbo", "perdido"} /\ l[p].en \notin {"limbo", "perdido"}
  BY <1>1 DEF Muda, Reparte, DeFragil
<1>3. /\ Situaciones[p] = Vista(l[p].en) /\ DOMAIN Situaciones = Proc
      /\ Situaciones' = [Situaciones EXCEPT ![p] = Vista(s.en)]
  BY <1>1
<1>4. CASE Pasa(l[p].en, s.en) /\ UNCHANGED enCpu
  <2>1. CASE l[p].en = "consola" /\ s.en = "new"
    <3>1. Ciclo!Enviar(p)
      BY <1>3, <1>4, <2>1 DEF Ciclo!Enviar, Ciclo!Mueve, Situaciones, Vista
    <3> QED BY <1>1, <3>1 DEF Ciclo!Next
  <2>2. CASE l[p].en = "mano" /\ s.en = "ready"
    <3>1. Ciclo!Admitir(p)
      BY <1>3, <1>4, <2>2 DEF Ciclo!Admitir, Ciclo!Mueve, Situaciones, Vista
    <3> QED BY <1>1, <3>1 DEF Ciclo!Next
  <2>3. CASE l[p].en = "mano" /\ s.en = "fin"
    <3>1. Ciclo!Rechazar(p)
      BY <1>3, <1>4, <2>3 DEF Ciclo!Rechazar, Ciclo!Mueve, Situaciones, Vista
    <3> QED BY <1>1, <3>1 DEF Ciclo!Next
  <2>4. CASE l[p].en = "bloq" /\ s.en = "ready"
    <3>1. Ciclo!Desbloquear(p)
      BY <1>3, <1>4, <2>4 DEF Ciclo!Desbloquear, Ciclo!Mueve, Situaciones, Vista
    <3> QED BY <1>1, <3>1 DEF Ciclo!Next
  <2>5. CASE \/ l[p].en = "new" /\ s.en = "mano"
             \/ l[p].en = "ready" /\ s.en = "pcp"
    <3>1. Vista(s.en) = Vista(l[p].en)
      BY <2>5 DEF Vista
    <3>2. Situaciones' = Situaciones
      BY <1>3, <3>1
    <3> QED BY <1>4, <3>2
  <2> QED BY <1>2, <1>4, <2>1, <2>2, <2>3, <2>4, <2>5 DEF Pasa
<1>5. ASSUME NEW c \in Cpu, l[p].en = "pcp", s.en = "cpu",
             enCpu[c] = Nadie, enCpu' = [enCpu EXCEPT ![c] = p]
      PROVE  Ciclo!Next
  <2>1. Ciclo!Despachar(p, c)
    BY <1>3, <1>5 DEF Ciclo!Despachar, Ciclo!Mueve, Situaciones, Vista
  <2> QED BY <1>1, <2>1 DEF Ciclo!Next
<1>6. ASSUME NEW c \in Cpu, l[p].en = "cpu", s.en \in {"ready", "bloq", "fin"},
             enCpu[c] = p, enCpu' = [enCpu EXCEPT ![c] = Nadie]
      PROVE  Ciclo!Next
  <2>1. Ciclo!Devolver(p, c)
    BY <1>3, <1>6 DEF Ciclo!Devolver, Ciclo!Mueve, Situaciones, Vista
  <2> QED BY <1>1, <2>1 DEF Ciclo!Next
<1> QED BY <1>4, <1>5, <1>6

\* enum_estado: a program goes from NEW to READY, EXEC, BLOQ and FINISH by the
\* moves the states allow, and a CPU has one program at a time.
THEOREM CicloImplementado ==
  ASSUME CpuFragil = {}
  PROVE  Spec => CicloDeVidaSpec
<1>1. Init => Ciclo!Init
  BY CicloInicial DEF Ciclo!Init, Situaciones
<1>2. TipoInv /\ CpuInv /\ LugInv /\ (\A l : Reparte(l) => Situaciones = [p \in Proc |-> Vista(l[p].en)])'
        /\ [Next]_vars => [Ciclo!Next]_<<[p \in Proc |-> Situacion(p)], enCpu>>
  <2> SUFFICES ASSUME TipoInv, CpuInv, LugInv, [Next]_vars,
                      (\A l : Reparte(l) => Situaciones = [p \in Proc |-> Vista(l[p].en)])'
               PROVE  Ciclo!Next \/ UNCHANGED <<Situaciones, enCpu>>
    BY DEF Situaciones
  <2>1. PICK l : Reparte(l)
    BY DEF LugInv
  <2>2. PICK m : Reparte(m)' /\ Traslado(l, m)
    BY <2>1, Lug_Paso
  <2>3. /\ Situaciones = [p \in Proc |-> Vista(l[p].en)]
        /\ Situaciones' = [p \in Proc |-> Vista(m[p].en)]
    BY <2>1, <2>2, SituacionVista
  <2>4. CASE m = l /\ UNCHANGED enCpu
    BY <2>3, <2>4
  <2>5. ASSUME NEW p \in Proc, NEW s \in Sitio, Muda(l, p, s, m),
               \/ Pasa(l[p].en, s.en) /\ UNCHANGED enCpu
               \/ \E c \in Cpu : /\ l[p].en = "pcp" /\ s.en = "cpu"
                                 /\ enCpu[c] = Nadie /\ enCpu' = [enCpu EXCEPT ![c] = p]
               \/ \E c \in Cpu : /\ l[p].en = "cpu" /\ s.en \in {"ready", "bloq", "fin"}
                                 /\ enCpu[c] = p /\ enCpu' = [enCpu EXCEPT ![c] = Nadie]
        PROVE  Ciclo!Next \/ UNCHANGED <<Situaciones, enCpu>>
    <3>1. DeFragil(m)
      BY <2>2 DEF Reparte, DeFragil
    <3> QED BY <2>3, <2>5, <3>1, CicloMueve
  <2> QED BY <2>2, <2>4, <2>5 DEF Traslado
<1>3. [](\A l : Reparte(l) => Situaciones = [p \in Proc |-> Vista(l[p].en)])
  BY SituacionVista, PTL
<1> QED BY <1>1, <1>2, <1>3, TipoSiempre, CpusEnSuSitio, CadaUnoEnSuLugar, PTL
        DEF Spec, CicloDeVidaSpec, Ciclo!Spec

-----------------------------------------------------------------------------
\* A killed program that has begun its last burst is in it, on a CPU that may
\* be dead already, or is over; and the kill is still there to be read.

EnRafagaFinal(p) == \E c \in Cpu : enCpu[c] = p /\ fase[c] \in {"corre", "caida"}
Condenado(p) == condena[p] # 0 => /\ condena[p] = 1 /\ matar[p]
                                  /\ colaFinished[p] > 0 \/ EnRafagaFinal(p)
RafagaInv == \A p \in Proc : Condenado(p)

\* A step that begins no burst: the programs it takes from a CPU end, unless
\* nobody killed them.
LEMMA RafagaAjena ==
  ASSUME RafagaInv, UNCHANGED condena,
         \A p \in Proc : /\ matar[p] => matar'[p]
                         /\ colaFinished[p] > 0 => colaFinished'[p] > 0,
         \A c \in Cpu : enCpu[c] \in Proc /\ fase[c] \in {"corre", "caida"} =>
                          \/ enCpu'[c] = enCpu[c] /\ fase'[c] \in {"corre", "caida"}
                          \/ colaFinished'[enCpu[c]] > 0
                          \/ ~ matar[enCpu[c]]
  PROVE  RafagaInv'
<1> SUFFICES ASSUME NEW p \in Proc, condena[p] # 0
             PROVE  condena[p] = 1 /\ matar'[p] /\ (colaFinished'[p] > 0 \/ EnRafagaFinal(p)')
  BY DEF RafagaInv, Condenado
<1>1. condena[p] = 1 /\ matar[p] /\ (colaFinished[p] > 0 \/ EnRafagaFinal(p))
  BY DEF RafagaInv, Condenado
<1>2. ASSUME NEW c \in Cpu, enCpu[c] = p, fase[c] \in {"corre", "caida"}
      PROVE  colaFinished'[p] > 0 \/ EnRafagaFinal(p)'
  BY <1>1, <1>2 DEF EnRafagaFinal
<1> QED BY <1>1, <1>2 DEF EnRafagaFinal

LEMMA RafagaQuieta ==
  ASSUME RafagaInv, UNCHANGED <<condena, matar, colaFinished, fase, enCpu>>
  PROVE  RafagaInv'
BY RafagaAjena

\* terminarProceso counts the program as finished.
LEMMA RafagaTermina ==
  ASSUME TipoInv, NEW p \in Proc, colaFinished' = [colaFinished EXCEPT ![p] = @ + 1]
  PROVE  colaFinished'[p] > 0 /\ \A q \in Proc : colaFinished[q] > 0 => colaFinished'[q] > 0
BY DEF TipoInv, TypeOK

\* A CPU that gives its program back: the handler ends it if somebody killed it.
LEMMA Rafaga_Devuelve ==
  ASSUME TipoInv, CpuInv, RafagaInv, NEW c \in Cpu,
         \/ FinalizacionQuantum(c) \/ FinalizacionProceso(c) \/ RecibirBloqueado(c)
  PROVE  RafagaInv'
<1>1. PICK p \in Proc : p = enCpu[c]
  BY DEF FinalizacionQuantum, FinalizacionProceso, RecibirBloqueado, EnRafaga, TipoInv, Manos
<1>2. UNCHANGED <<condena, matar>>
  BY DEF FinalizacionQuantum, FinalizacionProceso, RecibirBloqueado, Devuelve
<1>3. \A d \in Cpu : d # c => fase'[d] = fase[d] /\ enCpu'[d] = enCpu[d]
  <2>1. Devuelve(c)
    BY DEF FinalizacionQuantum, FinalizacionProceso, RecibirBloqueado
  <2>2. \A d \in Cpu \ {c} : fase'[d] = fase[d] /\ enCpu' = [enCpu EXCEPT ![c] = Nadie]
    BY <2>1, DevuelveTipo DEF TipoInv
  <2> QED BY <2>2 DEF TipoInv, TypeOK
<1>4. \/ colaFinished' = [colaFinished EXCEPT ![p] = @ + 1]
      \/ ~ matar[p] /\ UNCHANGED colaFinished
  BY <1>1 DEF FinalizacionQuantum, FinalizacionProceso, RecibirBloqueado, EmpiezaTerminar, HayQueMatar
<1>5. \/ colaFinished'[p] > 0 /\ \A q \in Proc : colaFinished[q] > 0 => colaFinished'[q] > 0
      \/ ~ matar[p] /\ UNCHANGED colaFinished
  BY <1>4, RafagaTermina
<1> QED BY <1>1, <1>2, <1>3, <1>5, RafagaAjena

\* A CPU that is gone: verificarProcesosEnCpuCaida ends its program.
LEMMA Rafaga_Caida ==
  ASSUME TipoInv, CpuInv, RafagaInv, NEW c \in Cpu, CpuCaida(c) \/ CpuCaidaEspera(c)
  PROVE  RafagaInv'
<1>1. /\ enCpu \in [Cpu -> Proc \cup {Nadie}] /\ pcb \in [Cpu -> Proc \cup {Nadie}] /\ fase \in [Cpu -> Fases]
      /\ EnSuSitio(c) /\ Nadie \notin Proc
  BY PlanificadorAssumption DEF TipoInv, TypeOK, Hilo, CpuInv
<1>2. /\ UNCHANGED <<condena, matar>>
      /\ fase' = [fase EXCEPT ![c] = "ida"] \/ UNCHANGED fase
      /\ enCpu' = [enCpu EXCEPT ![c] = Nadie] \/ UNCHANGED enCpu
  BY DEF CpuCaida, CpuCaidaEspera, TerminarSiTenia
<1>3. \/ UNCHANGED colaFinished
      \/ \E p \in Proc : p = pcb[c] /\ colaFinished' = [colaFinished EXCEPT ![p] = @ + 1]
  BY <1>1 DEF CpuCaida, CpuCaidaEspera, TerminarSiTenia, TeniaPrograma, EmpiezaTerminar
<1>4. \A q \in Proc : colaFinished[q] > 0 => colaFinished'[q] > 0
  BY <1>3, RafagaTermina
<1>5. enCpu[c] \in Proc => colaFinished'[enCpu[c]] > 0
  <2> SUFFICES ASSUME enCpu[c] \in Proc PROVE colaFinished'[enCpu[c]] > 0
    OBVIOUS
  <2>1. CpuCaida(c) /\ EnLista(c) /\ ~ disponible[c] /\ pcb[c] = enCpu[c]
    BY <1>1 DEF EnSuSitio, CpuCaida, CpuCaidaEspera, En
  <2>2. colaFinished' = [colaFinished EXCEPT ![enCpu[c]] = @ + 1]
    BY <1>1, <2>1 DEF CpuCaida, TerminarSiTenia, TeniaPrograma, EmpiezaTerminar
  <2> QED BY <2>2, RafagaTermina
<1>6. \A d \in Cpu : d # c => fase'[d] = fase[d] /\ enCpu'[d] = enCpu[d]
  BY <1>1, <1>2
<1> QED BY <1>2, <1>4, <1>5, <1>6, RafagaAjena

\* A burst begins: one CPU has the program, so that no other burst of it is on.
LEMMA Rafaga_Comienza ==
  ASSUME TipoInv, LugInv, RafagaInv, NEW c \in Cpu, ComenzarEjecucion(c)
  PROVE  RafagaInv'
<1>1. PICK p \in Proc : p = enCpu[c]
  BY DEF ComenzarEjecucion, TipoInv, TypeOK
<1>2. /\ fase[c] = "ociosa" /\ fase' = [fase EXCEPT ![c] = "corre"]
      /\ condena' = [condena EXCEPT ![p] = IF matar[p] THEN @ + 1 ELSE @]
      /\ UNCHANGED <<matar, colaFinished, enCpu>>
      /\ fase \in [Cpu -> Fases] /\ condena \in [Proc -> Nat]
  BY <1>1 DEF ComenzarEjecucion, colas, info, TipoInv, TypeOK
<1>3. colaFinished[p] = 0 /\ ~ EnRafagaFinal(p)
  <2>1. PICK l : Reparte(l)
    BY DEF LugInv
  <2>2. \A d \in Cpu : enCpu[d] = p <=> (l[p].en = "cpu" /\ l[p].de = d)
    BY <2>1 DEF Reparte, DeCpu
  <2>3. colaFinished[p] = 0
    BY <1>1, <2>1, <2>2 DEF Reparte, DeFin
  <2> QED BY <1>1, <1>2, <2>2, <2>3 DEF EnRafagaFinal
<1>4. condena[p] = 0
  BY <1>3 DEF RafagaInv, Condenado
<1>5. ASSUME NEW q \in Proc, q # p PROVE Condenado(q)'
  <2>1. condena'[q] = condena[q]
    BY <1>2, <1>5
  <2>2. EnRafagaFinal(q) => EnRafagaFinal(q)'
    BY <1>1, <1>2, <1>5 DEF EnRafagaFinal
  <2> QED BY <1>2, <2>1, <2>2 DEF RafagaInv, Condenado
<1>6. Condenado(p)'
  <2>1. EnRafagaFinal(p)'
    BY <1>1, <1>2 DEF EnRafagaFinal
  <2>2. condena'[p] = IF matar[p] THEN 1 ELSE 0
    BY <1>2, <1>4
  <2> QED BY <1>2, <2>1, <2>2 DEF Condenado
<1> QED BY <1>5, <1>6 DEF RafagaInv

LEMMA Rafaga_Cpu ==
  ASSUME TipoInv, CpuInv, LugInv, RafagaInv, NEW c \in Cpu,
         \/ Conectar(c) \/ ComenzarEjecucion(c) \/ Sigusr1(c) \/ CpuMuere(c)
         \/ PedidoCpu(c) \/ HiloCpu(c)
  PROVE  RafagaInv'
<1>1. CASE \/ QuantumAnotarReady(c) \/ DesocuparCpu(c) \/ TerminarLiberar(c) \/ LeerCantResta(c)
           \/ GuardarCantResta(c) \/ RealizarSignal(c) \/ SignalAnotarReady(c) \/ RealizarWait(c)
           \/ BloqueadoNoLlega(c) \/ SinInfo(c) \/ \E s \in Sem : PedirSemaforo(c, s)
  <2>1. UNCHANGED <<condena, matar, colaFinished, fase, enCpu>>
    BY <1>1 DEF QuantumAnotarReady, DesocuparCpu, TerminarLiberar, LeerCantResta, GuardarCantResta,
                RealizarSignal, SignalAnotarReady, RealizarWait, BloqueadoNoLlega, SinInfo, PedirSemaforo,
                Cae, colas, info, externo
  <2> QED BY <2>1, RafagaQuieta
<1>2. CASE Conectar(c) \/ Sigusr1(c) \/ CpuMuere(c) \/ EliminarCpu(c)
  <2>1. /\ UNCHANGED <<condena, matar, colaFinished, enCpu>> /\ fase \in [Cpu -> Fases]
        /\ \/ UNCHANGED fase
           \/ fase[c] \notin {"corre", "caida"} /\ \E f \in Fases : fase' = [fase EXCEPT ![c] = f]
           \/ fase' = [fase EXCEPT ![c] = "caida"]
    BY <1>2 DEF Conectar, Sigusr1, CpuMuere, EliminarCpu, Cae, colas, info, externo, TipoInv, TypeOK, Fases
  <2> QED BY <2>1, RafagaAjena
<1> QED BY <1>1, <1>2, Rafaga_Devuelve, Rafaga_Caida, Rafaga_Comienza DEF PedidoCpu, HiloCpu

LEMMA Rafaga_Kernel ==
  ASSUME TipoInv, CpuInv, RafagaInv,
         \/ \E p \in Proc : HiloConsola(p)
         \/ \E h \in Hilo : LargoPlazo(h)
         \/ CortoPlazo \/ Operador \/ UNCHANGED vars
  PROVE  RafagaInv'
<1>1. CASE (\E p \in Proc : HiloConsola(p)) \/ UNCHANGED vars
  <2>1. UNCHANGED <<condena, matar, colaFinished, fase, enCpu>>
    BY <1>1 DEF HiloConsola, EnvioCodigo, CrearInfoEstadistica, colas, info, externo, vars
  <2> QED BY <2>1, RafagaQuieta
<1>2. ASSUME NEW h \in Hilo, LargoPlazo(h) PROVE RafagaInv'
  <2>1. UNCHANGED <<condena, matar, fase, enCpu>>
    BY <1>2 DEF LargoPlazo, EmpezarLargoPlazo, SacarDeNew, MemoriaAcepta, MemoriaRechaza, AnotarReady,
                EnvioCodigoMemoria, LeerCantSuma, GuardarCantSuma, Cae, info, externo
  <2>2. \/ UNCHANGED colaFinished
        \/ \E p \in Proc : colaFinished' = [colaFinished EXCEPT ![p] = @ + 1]
    <3>1. CASE MemoriaRechaza(h)
      BY <3>1 DEF MemoriaRechaza, En, Cae, colas, TipoInv, Manos
    <3> QED BY <1>2, <3>1 DEF LargoPlazo, EmpezarLargoPlazo, SacarDeNew, MemoriaAcepta, AnotarReady,
                          EnvioCodigoMemoria, LeerCantSuma, GuardarCantSuma, Cae, colas
  <2>3. \A q \in Proc : colaFinished[q] > 0 => colaFinished'[q] > 0
    BY <2>2, RafagaTermina
  <2> QED BY <2>1, <2>3, RafagaAjena
<1>3. CASE CortoPlazo
  <2>1. CASE Despachar /\ pcp.cpu # Nadie
    <3>1. PICK c \in Cpu : c = pcp.cpu
      BY <2>1 DEF TipoInv, TypeOK, TipoPcp
    <3>2. /\ UNCHANGED <<condena, matar, colaFinished, fase>> /\ enCpu \in [Cpu -> Proc \cup {Nadie}]
          /\ enCpu' = [enCpu EXCEPT ![c] = IF fase[c] = "ida" THEN @ ELSE pcp.proc]
      BY <2>1, <3>1 DEF Despachar, colas, info, TipoInv, TypeOK
    <3>3. fase[c] # "ida" => enCpu[c] = Nadie
      BY <2>1, <3>1 DEF Despachar, EnPcp, CpuInv, ElegidaLibre, EnSuSitio
    <3>4. \A d \in Cpu : enCpu[d] \in Proc => enCpu'[d] = enCpu[d]
      BY <3>2, <3>3, PlanificadorAssumption DEF Hilo
    <3> QED BY <3>2, <3>4, RafagaAjena
  <2>2. CASE \/ EsperarReady \/ EsperarPlanificacion \/ EsperarCpu \/ AnotarExec \/ ElegirCpu
             \/ Despachar /\ pcp.cpu = Nadie
    <3>1. UNCHANGED <<condena, matar, colaFinished, fase, enCpu>>
      BY <2>2 DEF EsperarReady, EsperarPlanificacion, EsperarCpu, AnotarExec, ElegirCpu, Despachar,
                  Cae, colas, info, externo
    <3> QED BY <3>1, RafagaQuieta
  <2> QED BY <1>3, <2>1, <2>2 DEF CortoPlazo
<1>4. CASE Operador
  <2>1. /\ UNCHANGED <<condena, colaFinished, fase, enCpu>>
        /\ UNCHANGED matar \/ \E p \in Proc : matar' = [matar EXCEPT ![p] = TRUE]
    BY <1>4 DEF Operador, KillProcess, GradoMultiprogramacion, StopPlanification, colas, info, externo
  <2>2. \A q \in Proc : matar[q] => matar'[q]
    BY <2>1 DEF TipoInv, TypeOK
  <2> QED BY <2>1, <2>2, RafagaAjena
<1> QED BY <1>1, <1>2, <1>3, <1>4

\* "Se termina el proceso en la siguiente rafaga": a program somebody killed
\* begins one burst at most, also when it blocks, is preempted or its CPU dies.
THEOREM UnaSolaRafagaMas == Spec => []UnaRafagaMas
<1>1. Init => RafagaInv
  <2> SUFFICES ASSUME Init PROVE \A p \in Proc : condena[p] = 0
    BY DEF RafagaInv, Condenado
  <2> QED BY DEF Init
<1>2. TipoInv /\ CpuInv /\ LugInv /\ RafagaInv /\ [Next]_vars => RafagaInv'
  BY Rafaga_Cpu, Rafaga_Kernel DEF Next
<1>3. TipoInv /\ RafagaInv => UnaRafagaMas
  BY DEF RafagaInv, Condenado, UnaRafagaMas
<1> QED BY <1>1, <1>2, <1>3, TipoSiempre, CpusEnSuSitio, CadaUnoEnSuLugar, PTL DEF Spec

=============================================================================
