--------------------------------- MODULE Cpu ---------------------------------
(***************************************************************************)
(* One CPU process: it receives a PCB and a quantum, executes instructions *)
(* and sends the PCB back. The program is any AnSISOP program: at each     *)
(* line any instruction may come. An instruction is one step: its fetch,   *)
(* its primitives with the answers of memory and kernel, and the checks of *)
(* comenzarEjecucionDePrograma. SIGUSR1 may come between two of them.      *)
(***************************************************************************)
EXTENDS Pcb, FiniteSets

CONSTANTS
  Nombre,              \* names of variables: one letter
  tamanioPagina, tamanioStack, cantPaginasCodigo,
  Inicio, UltimaLinea, \* the program's first instruction (instruccion_inicio) and last one
  Etiquetas,           \* lines that have a label
  Quantums,            \* config->quantum, 0 for FIFO
  AnchoI,              \* values of the counter of instructions: 2^16
  MaxPila, MaxPorLinea \* bounds: contexts; parameters or variables of a line

ASSUME CpuAssumption ==
  /\ tamanioPagina \in Nat \ {0} /\ tamanioStack \in Nat /\ cantPaginasCodigo \in Nat
  /\ tamanioPagina % TAMANIO_VARIABLE = 0
  /\ UltimaLinea \in Nat /\ Inicio \in 0..UltimaLinea /\ Etiquetas \subseteq 0..UltimaLinea
  /\ AnchoI \in Nat \ {0, 1} /\ Quantums \subseteq 0..(AnchoI - 2)
  /\ Nombre \cap 0..9 = {}
  /\ MaxPila \in Nat /\ MaxPorLinea \in 1..10

VARIABLES
  estado,      \* "libre", "cargada" with a PCB, "ejecuta", "muerta" by finalizarCPU,
               \* "caida" by a NULL pointer, "colgada" in a loop of the parser
  pcb,         \* the PCB; while the CPU is free, the one it gave back
  quantum, i,
  finPorError, finPrograma, cerrarCPU,
  kernel,      \* the PCB as the kernel has it, until the quantum is sent
  arrastra     \* an error flag outlived its program in a way the code allows

vars == <<estado, pcb, quantum, i, finPorError, finPrograma, cerrarCPU, kernel, arrastra>>

\* crearPCB
PcbNuevo == [pc |-> Inicio, sp |-> 0, pila |-> << >>]

Init ==
  /\ estado = "libre"
  /\ pcb = PcbNuevo
  /\ quantum = 0 /\ i = 1
  /\ finPorError = FALSE /\ finPrograma = FALSE /\ cerrarCPU = FALSE
  /\ kernel = {}
  /\ arrastra = FALSE

-----------------------------------------------------------------------------
(* The primitives, as functions of the PCB.                                *)

\* -1 as a t_puntero, cut into page and offset as any other pointer.
Posicion(puntero) == [pagina |-> puntero \div tamanioPagina, offset |-> puntero % tamanioPagina]
Ninguna == Posicion(-1)

LimiteStack == tamanioStack * tamanioPagina
Desborda(p, n) == p.sp + n * TAMANIO_VARIABLE > LimiteStack
EsArgumento(id) == id \in 0..9

PosicionLibre(p) ==
  [pagina |-> p.sp \div tamanioPagina + cantPaginasCodigo, offset |-> p.sp % tamanioPagina]

\* Defining the first variable of the main program makes its context.
Contextos(p) == IF p.pila = << >> THEN <<CrearPosicionStack(-1, Nulo)>> ELSE p.pila

DefinirVariable(p, id) ==
  LET pila == Contextos(p)
      n    == Len(pila)
      pos  == PosicionLibre(p)
      var  == [id |-> id, pagina |-> pos.pagina, offset |-> pos.offset]
  IN IF Desborda(p, 1) THEN p
     ELSE [p EXCEPT !.sp = @ + TAMANIO_VARIABLE,
                    !.pila = IF EsArgumento(id) THEN [pila EXCEPT ![n].args = Append(@, pos)]
                                                ELSE [pila EXCEPT ![n].vars = Append(@, var)]]

Definir(p, ids) ==
  LET tras[k \in 0..Len(ids)] == IF k = 0 THEN p ELSE DefinirVariable(tras[k - 1], ids[k])
  IN tras[Len(ids)]

\* An argument whose number is the count of arguments is a NULL element.
ObtenerPosicionVariable(p, id) ==
  LET c == Last(p.pila)
      esa == {k \in DOMAIN c.vars : c.vars[k].id = id}
      k   == CHOOSE k \in esa : \A j \in esa : k <= j
  IN CASE p.pila = << >>                     -> Ninguna
       [] p.pila # << >> /\ EsArgumento(id)  ->
            IF id > Len(c.args) THEN Ninguna
            ELSE IF id = Len(c.args) THEN Nulo ELSE c.args[id + 1]
       [] OTHER -> IF esa = {} THEN Ninguna
                   ELSE [pagina |-> c.vars[k].pagina, offset |-> c.vars[k].offset]

\* Mutant of IrAlLabel: it does not look whether the label was found.
IrAlLabel_SinControl(p, linea) == [p EXCEPT !.pc = linea - 1]

\* The loop of the burst adds one to what these leave in pc.
IrAlLabel(p, linea) == IF linea = -1 THEN p ELSE [p EXCEPT !.pc = linea - 1]

Llamar(p, linea, ret) ==
  IrAlLabel([p EXCEPT !.pila = Append(@, CrearPosicionStack(p.pc, ret))], linea)

Datos(c) == Len(c.args) + Len(c.vars)

\* Mutants of SinContexto: the arguments keep their room; the context removed is
\* the first one.
SinContexto_SinArgumentos(p) ==
  [p EXCEPT !.sp = @ - TAMANIO_VARIABLE * Len(Last(p.pila).vars), !.pila = Front(@)]
SinContexto_Primero(p) ==
  [p EXCEPT !.sp = @ - TAMANIO_VARIABLE * Datos(Head(p.pila)), !.pila = Tail(@)]

SinContexto(p) ==
  [p EXCEPT !.sp = @ - TAMANIO_VARIABLE * Datos(Last(p.pila)), !.pila = Front(@)]
Volver(p) == [SinContexto(p) EXCEPT !.pc = Last(p.pila).dir]

-----------------------------------------------------------------------------
(* The end of a burst.                                                     *)

\* The kernel goes on with a program that has only lost the CPU.
Sigue == {"FIN_EJECUCION", "PROC_BLOCKED"}

FinalizarPor(p, tipo) ==
  /\ pcb' = IF tipo \in Sigue THEN p ELSE PcbNuevo
  /\ \E paquete \in {SerializarPcb(p)} :
       kernel' = IF tipo \in Sigue /\ Cabe(paquete.stack) THEN {DeserializarPcb(paquete)} ELSE {}
  /\ quantum' = 0 /\ i' = 1

CerrarSiPidieron == estado' = IF cerrarCPU THEN "muerta" ELSE "libre"

\* Mutant of TerminarPrograma: finPrograma is not cleared.
TerminarPrograma_SinLimpiar(p) ==
  /\ FinalizarPor(p, "FIN_PROCESO")
  /\ finPrograma' = TRUE
  /\ finPorError' = FALSE /\ arrastra' = FALSE

TerminarPrograma(p) ==
  /\ FinalizarPor(p, "FIN_PROCESO")
  /\ finPrograma' = FALSE
  /\ finPorError' = FALSE /\ arrastra' = FALSE

\* verificarTerminarEjecucion: only the flag that it answers to is cleared.
VerificarTerminar(p, huboStackOver, error, fin) ==
  \/ /\ huboStackOver
     /\ FinalizarPor(p, "SUPERA_LIMITE_ASIGNACION_PAGINAS")
     /\ finPorError' = error /\ finPrograma' = fin
     /\ arrastra' = (error \/ fin)
  \/ /\ ~huboStackOver /\ error
     /\ FinalizarPor(p, "finErrorExitCode")
     /\ finPorError' = FALSE /\ finPrograma' = fin
     /\ arrastra' = fin
  \/ ~huboStackOver /\ ~error /\ fin /\ TerminarPrograma(p)

\* Mutant of QuedaQuantum: one instruction more.
QuedaQuantum_UnaMas == quantum = 0 \/ (i + 1) % AnchoI <= quantum + 1

\* Whether the burst goes on after the instruction that i counts.
QuedaQuantum == quantum = 0 \/ (i + 1) % AnchoI <= quantum

Seguir(p, procesoBloqueado) ==
  LET q == [p EXCEPT !.pc = @ + 1]
  IN /\ \/ /\ procesoBloqueado
           /\ FinalizarPor(q, "PROC_BLOCKED")
           /\ CerrarSiPidieron
        \/ /\ ~procesoBloqueado /\ ~QuedaQuantum
           /\ FinalizarPor(q, "FIN_EJECUCION")
           /\ CerrarSiPidieron
        \/ /\ ~procesoBloqueado /\ QuedaQuantum
           /\ pcb' = q
           /\ i' = IF quantum = 0 THEN i ELSE (i + 1) % AnchoI
           /\ UNCHANGED <<estado, quantum, kernel>>
     /\ UNCHANGED <<finPorError, finPrograma, arrastra>>

\* What follows an instruction that leaves the PCB p; huboStackOver, error and
\* fin are the flags that it raised.
Ejecutada(p, huboStackOver, error, fin, procesoBloqueado) ==
  LET e == finPorError \/ error
      f == finPrograma \/ fin
  IN /\ \/ VerificarTerminar(p, huboStackOver, e, f) /\ CerrarSiPidieron
        \/ ~huboStackOver /\ ~e /\ ~f /\ Seguir(p, procesoBloqueado)
     /\ UNCHANGED cerrarCPU

Interrumpida(como) ==
  /\ estado' = como
  /\ UNCHANGED <<pcb, quantum, i, finPorError, finPrograma, cerrarCPU, kernel, arrastra>>

-----------------------------------------------------------------------------
(* The instructions. An operand may be read with an error of memory or of  *)
(* the kernel, which raises finPorError and lets the instruction go on.    *)

Referencias == Nombre \cup 0..MaxPorLinea

\* A line that is not the last falls into the next one.
HaySiguiente == pcb.pc < UltimaLinea

Variables == \E ids \in SeqOf(Nombre, MaxPorLinea) \ {<< >>} :
  /\ HaySiguiente
  /\ Ejecutada(Definir(pcb, ids), Desborda(pcb, Len(ids)), FALSE, FALSE, FALSE)

\* Also the operations of the kernel whose answer is kept in a variable.
Asignar == \E id \in Referencias, error \in BOOLEAN :
  /\ HaySiguiente
  /\ IF ObtenerPosicionVariable(pcb, id) = Nulo THEN Interrumpida("caida")
     ELSE Ejecutada(pcb, FALSE, error, FALSE, FALSE)

\* asignarValorCompartida, escribir, leer, borrar, cerrar, moverCursor, liberar, signal
PedirAlKernel == \E error \in BOOLEAN :
  /\ HaySiguiente
  /\ Ejecutada(pcb, FALSE, error, FALSE, FALSE)

\* A string is read until its end, and a read that fails never gives it.
ImprimirTexto == \E error \in BOOLEAN :
  /\ HaySiguiente
  /\ IF error THEN Interrumpida("colgada") ELSE Ejecutada(pcb, FALSE, FALSE, FALSE, FALSE)

Wait == \E respuesta \in {"SEGUIR", "DETENER", "NO_EXISTE"} :
  /\ HaySiguiente
  /\ Ejecutada(pcb, FALSE, respuesta = "NO_EXISTE", FALSE, respuesta = "DETENER")

\* A goto, or a conditional jump whose condition holds.
Saltar == \E linea \in Etiquetas \cup {-1}, error \in BOOLEAN :
  /\ HaySiguiente \/ linea # -1
  /\ Ejecutada(IrAlLabel(pcb, linea), FALSE, error, FALSE, FALSE)

\* A function: its arguments are defined in its context, one after another.
LlamarFuncion(ret, error) == \E linea \in Etiquetas \cup {-1}, n \in 0..MaxPorLinea :
  LET p == Llamar(pcb, linea, ret)
      argumentos == [k \in 1..n |-> k - 1]
  IN /\ HaySiguiente /\ Len(pcb.pila) < MaxPila
     /\ error => n > 0
     /\ Ejecutada(Definir(p, argumentos), Desborda(p, n) /\ n > 0, error, FALSE, FALSE)

LlamarSinRetorno == \E error \in BOOLEAN : LlamarFuncion(Nulo, error)

LlamarConRetorno == \E id \in Referencias, error \in BOOLEAN :
  LET ret == ObtenerPosicionVariable(pcb, id)
  IN IF ret = Nulo THEN HaySiguiente /\ Interrumpida("caida") ELSE LlamarFuncion(ret, error)

\* Without a context it says so and goes on; a context without a place for the
\* value has a NULL retVar.
Retornar == \E error \in BOOLEAN :
  \/ /\ pcb.pila = << >> /\ HaySiguiente
     /\ Ejecutada(pcb, FALSE, error, FALSE, FALSE)
  \/ /\ pcb.pila # << >> /\ Last(pcb.pila).ret = Nulo
     /\ Interrumpida("caida")
  \/ /\ pcb.pila # << >> /\ Last(pcb.pila).ret # Nulo
     /\ Ejecutada(Volver(pcb), FALSE, error, FALSE, FALSE)

Finalizar ==
  \/ /\ pcb.pila = << >>
     /\ Ejecutada(pcb, FALSE, FALSE, TRUE, FALSE)
  \/ /\ Len(pcb.pila) = 1
     /\ Ejecutada(SinContexto(pcb), FALSE, FALSE, TRUE, FALSE)
  \/ /\ Len(pcb.pila) > 1
     /\ Ejecutada(Volver(pcb), FALSE, FALSE, FALSE, FALSE)

\* The instruction cannot be read; the flag that the answer raised stays, and a
\* SIGUSR1 is not looked at.
InstruccionPerdida ==
  /\ FinalizarPor(pcb, "ERROR_MEMORIA")
  /\ estado' = "libre"
  /\ finPorError' = TRUE /\ arrastra' = TRUE
  /\ UNCHANGED <<finPrograma, cerrarCPU>>

Instruccion ==
  /\ estado = "ejecuta"
  /\ \/ Variables \/ Asignar \/ PedirAlKernel \/ ImprimirTexto \/ Wait \/ Saltar
     \/ LlamarSinRetorno \/ LlamarConRetorno \/ Retornar \/ Finalizar
     \/ InstruccionPerdida

-----------------------------------------------------------------------------
(* The kernel and the signal.                                              *)

\* A new program, or the one that was sent back.
RecibirPcb == \E p \in kernel \cup {PcbNuevo} : \E paquete \in {SerializarPcb(p)} :
  /\ estado = "libre"
  /\ estado' = "cargada"
  /\ kernel' = {p}
  /\ pcb' = DeserializarPcb(paquete)
  /\ UNCHANGED <<quantum, i, finPorError, finPrograma, cerrarCPU, arrastra>>

ComenzarEjecucion == \E q \in Quantums :
  /\ estado = "cargada"
  /\ estado' = "ejecuta"
  /\ quantum' = q /\ i' = 1
  /\ kernel' = {}
  /\ UNCHANGED <<pcb, finPorError, finPrograma, cerrarCPU, arrastra>>

RevisarSigusr1 ==
  /\ \/ /\ estado \in {"libre", "cargada"}
        /\ estado' = "muerta"
        /\ UNCHANGED cerrarCPU
     \/ /\ estado = "ejecuta"
        /\ cerrarCPU' = TRUE
        /\ UNCHANGED estado
  /\ UNCHANGED <<pcb, quantum, i, finPorError, finPrograma, kernel, arrastra>>

Next == Instruccion \/ RecibirPcb \/ ComenzarEjecucion \/ RevisarSigusr1

Spec == Init /\ [][Next]_vars

\* Memory and kernel answer, and the CPU goes on.
FairSpec == Spec /\ WF_vars(Instruccion)

-----------------------------------------------------------------------------
(* Properties.                                                             *)

Direccion(p) == p.pagina * tamanioPagina + p.offset
DatosDe(c) == [k \in DOMAIN c.args |-> Direccion(c.args[k])]
              \o [k \in DOMAIN c.vars |-> Direccion(c.vars[k])]
DatosDePila(pila) == FlattenSeq([k \in DOMAIN pila |-> DatosDe(pila[k])])
Base == cantPaginasCodigo * tamanioPagina

\* Every variable of the CPU keeps its type, and a CPU that executes is at a line
\* of the program (irAlLabel, comenzarEjecucionDePrograma).
TypeOK ==
  /\ estado \in {"libre", "cargada", "ejecuta", "muerta", "caida", "colgada"}
  /\ pcb.pc \in -1..UltimaLinea /\ (estado = "ejecuta" => pcb.pc >= 0)
  /\ \A k \in DOMAIN pcb.pila : pcb.pila[k].dir \in -1..UltimaLinea
  /\ quantum \in Quantums \cup {0} /\ i \in 0..(AnchoI - 1)
  /\ {finPorError, finPrograma, cerrarCPU, arrastra} \subseteq BOOLEAN

\* The data of all the contexts are one after another from the start of the
\* stack, inside its pages, and stackPointer is where the next one goes: no two
\* variables of a program share bytes whatever it calls, returns and redefines
\* (definirVariable, finalizar, retornar).
PilaContigua ==
  LET d == DatosDePila(pcb.pila)
  IN /\ pcb.sp = TAMANIO_VARIABLE * Len(d) /\ pcb.sp <= LimiteStack
     /\ \A k \in DOMAIN d : d[k] = Base + TAMANIO_VARIABLE * (k - 1)

\* The place where a function returns its value is a datum of a context below
\* its own, or nowhere: it is never in a part of the stack that was given back
\* (llamarConRetorno, retornar).
RetornoVigente ==
  \A k \in DOMAIN pcb.pila :
    LET r == pcb.pila[k].ret
        debajo == DatosDePila(SubSeq(pcb.pila, 1, k - 1))
    IN r \in {Nulo, Ninguna} \/ \E j \in DOMAIN debajo : debajo[j] = Direccion(r)

\* While the PCB is on its way, kernel and CPU have the same one: what one
\* writes in the buffer the other one reads, as long as the buffer fits in the
\* 16 bits of the reader (serializarIndiceStack, deserializarIndiceStack).
PcbIntacto == estado \in {"libre", "cargada"} => kernel \subseteq {pcb}

\* No flag of a program that left the CPU is there for the next one, except
\* after a line that could not be read or an error in the same line as a stack
\* overflow (verificarTerminarEjecucion, comenzarEjecucionDePrograma).
SinErrorAjeno == (finPorError \/ finPrograma) => arrastra

\* With a quantum every burst ends: the PCB is sent back, unless the CPU falls
\* or hangs (comenzarEjecucionDePrograma).
RafagaTermina == (estado = "ejecuta" /\ quantum > 0) ~> (estado # "ejecuta")
==============================================================================
