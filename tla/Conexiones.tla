------------------------------ MODULE Conexiones ------------------------------
(***************************************************************************)
(* The kernel's connections: the select loop (escucharConexiones), the     *)
(* threads it starts for each message (trabajarMensajeConsola,             *)
(* trabajarMensajeCPU), the three sets of descriptors that all of them     *)
(* change with no lock, and the consoles and CPUs at the other end.        *)
(*                                                                         *)
(* A message is what the kernel tells apart in it; a number that was       *)
(* closed is the next one accept gives.  The planners, which Planificador  *)
(* has in full, are here what a console sees of them: its program is       *)
(* admitted or refused, and ends.  The watch on the configuration file is  *)
(* left out, and so is max_fd, which only grows.                           *)
(***************************************************************************)
EXTENDS Integers, Sequences, FiniteSetsExt, SequencesExt

CONSTANTS
  Consola,      \* consoles, one program each
  Cpu,          \* CPU processes
  Nadie,
  Numeros,      \* how many descriptors the kernel may have for them
  Interfaz,     \* the main thread
  Mensaje,      \* bound: the threads of messages there may be at a time
  Inquietos,    \* the peers whose operator stops a program or leaves, or that die
  MaxMensajes   \* bound: requests of each CPU, stops of each console

ASSUME ConexionesAssumption ==
  /\ {Numeros, MaxMensajes} \subseteq Nat \ {0}
  /\ Nadie \notin Consola \cup Cpu /\ Consola \cap Cpu = {}
  /\ Interfaz \notin Mensaje /\ Inquietos \subseteq Consola \cup Cpu

Conexion == Consola \cup Cpu
Fd       == 1..Numeros
EscuchaCPUs     == -2
EscuchaConsolas == -1
Conjunto == {"master", "setCPUs", "setConsolas"}
Hilo     == Mensaje \cup {Interfaz}

VARIABLES
  \* the kernel
  abierto,      \* connection behind each descriptor
  fds,          \* master, setCPUs and setConsolas
  hilo,         \* what each thread does
  leido,        \* read_fd, what is left of this round
  max_pid,
  info,         \* listadoEstadistico: consoles in the order of their programs
  programa,     \* of each console: pid, socketConsola, estado, and who asked for its end
  caido,        \* the kernel's process is gone
  \* its peers
  porAceptar,   \* connections in the backlog of the listening sockets
  entrada,      \* messages on their way to the kernel
  cerrada,      \* the peer has closed
  par,          \* what each peer knows: estado, pid, messages sent
  \* history
  pisado,       \* an update of a set was lost
  reusado       \* a number was given again while a thread was still clearing it

kernel == <<abierto, fds, hilo, leido>>
progs  == <<max_pid, info, programa>>
pares  == <<porAceptar, entrada, cerrada, par>>
vars   == <<kernel, progs, pares, caido, pisado, reusado>>

Libre == [pc |-> "libre", fd |-> 0, de |-> Nadie, msj |-> <<>>, pid |-> 0, ops |-> <<>>]

Init ==
  /\ abierto = [f \in Fd |-> Nadie]
  /\ fds = [s \in Conjunto |-> {}]
  /\ hilo = [h \in Hilo |-> IF h = Interfaz THEN [Libre EXCEPT !.pc = "bucle"] ELSE Libre]
  /\ leido = {} /\ max_pid = 0 /\ info = <<>>
  /\ programa = [k \in Consola |-> [pid |-> 0, fd |-> 0, estado |-> "sin_enviar", matar |-> "no"]]
  /\ porAceptar = {} /\ entrada = [x \in Conexion |-> <<>>]
  /\ cerrada = [x \in Conexion |-> FALSE]
  /\ par = [x \in Conexion |-> [estado |-> "fuera", pid |-> 0, enviados |-> 0]]
  /\ caido = FALSE /\ pisado = FALSE /\ reusado = FALSE

-----------------------------------------------------------------------------
\* Threads.

En(h, donde) == ~ caido /\ hilo[h].pc = donde /\ hilo[h].ops = <<>>
Ir(h, donde) == hilo' = [hilo EXCEPT ![h].pc = donde]

\* The thread has these updates to make, and goes on from there.
Cambiar(h, ops, donde) == hilo' = [hilo EXCEPT ![h].ops = ops, ![h].pc = donde]
Pone(s, f)  == [en |-> s, fd |-> f, pone |-> TRUE]
Quita(s, f) == [en |-> s, fd |-> f, pone |-> FALSE]

Cae == caido' = TRUE /\ UNCHANGED <<kernel, progs, pares, pisado, reusado>>

\* A message for descriptor f reaches whoever is behind it now, and a console
\* acts on it at once: the handshake is answered with the code, the PID puts
\* the program in procesos until its end.  Whatever comes instead of the PID
\* ends the console's thread.  A peer that has closed may cost a SIGPIPE.
Vive(x) == ~ caido /\ par[x].estado # "fuera" /\ ~ cerrada[x]
Mandar(x, m) == entrada' = [entrada EXCEPT ![x] = Append(@, m)]

Reaccion(p, m) ==
  CASE p.estado = "saluda"                            -> [p EXCEPT !.estado = "espera"]
    [] p.estado = "espera" /\ m[1] = "pid"            -> [p EXCEPT !.estado = "activo", !.pid = m[2]]
    [] p.estado = "espera" /\ m[1] # "pid"            -> [p EXCEPT !.estado = "terminado"]
    [] p.estado = "activo" /\ m[1] = "fin_ejecucion"  -> [p EXCEPT !.estado = "terminado"]
    [] OTHER                                          -> p

Enviar(f, m) ==
  LET x == abierto[f] IN
  IF x \in Consola /\ Vive(x)
  THEN /\ par' = [par EXCEPT ![x] = Reaccion(@, m)]
       /\ IF par[x].estado = "saluda" THEN Mandar(x, <<"codigo">>) ELSE UNCHANGED entrada
  ELSE UNCHANGED <<par, entrada>>
Roto(f) == abierto[f] # Nadie /\ cerrada[abierto[f]]

\* FD_SET and FD_CLR change one bit of a word in memory ...
Hecho(o, palabra) == IF o.pone THEN palabra \cup {o.fd} ELSE palabra \ {o.fd}
Sigue(t) == IF Len(t.ops) = 1 /\ t.pc = "sale" THEN Libre ELSE [t EXCEPT !.ops = Tail(@)]

Actualizar(h) ==
  /\ ~ caido /\ hilo[h].ops # <<>>
  /\ LET o == Head(hilo[h].ops) IN fds' = [fds EXCEPT ![o.en] = Hecho(o, @)]
  /\ hilo' = [hilo EXCEPT ![h] = Sigue(@)]
  /\ UNCHANGED <<abierto, leido, progs, pares, caido, pisado, reusado>>

\* ... that each thread reads and writes back: of two at once one is lost.
Pisar(h, g) ==
  /\ ~ caido /\ h # g /\ hilo[h].ops # <<>> /\ hilo[g].ops # <<>>
  /\ LET o == Head(hilo[h].ops) IN
     /\ o.en = Head(hilo[g].ops).en
     /\ fds' = [fds EXCEPT ![o.en] = Hecho(o, @)]
  /\ pisado' = TRUE
  /\ hilo' = [hilo EXCEPT ![h] = Sigue(@), ![g] = Sigue(@)]
  /\ UNCHANGED <<abierto, leido, progs, pares, caido, reusado>>

-----------------------------------------------------------------------------
\* The main thread.

\* What select finds: data or the end of a connection.
Libres == {f \in Fd : abierto[f] = Nadie}
Legible(f) == abierto[f] # Nadie /\ (entrada[abierto[f]] # <<>> \/ cerrada[abierto[f]])
Listos ==
  {f \in fds["master"] : Legible(f)}
    \cup {e \in {EscuchaCPUs} : porAceptar \cap Cpu # {}}
    \cup {e \in {EscuchaConsolas} : porAceptar \cap Consola # {}}

\* A descriptor of master that is closed makes select fail, and the kernel exit.
Seleccionar ==
  /\ En(Interfaz, "bucle") /\ leido = {}
  /\ \/ /\ \E f \in fds["master"] : abierto[f] = Nadie
        /\ Cae
     \/ /\ \A f \in fds["master"] : abierto[f] # Nadie
        /\ Listos # {} /\ leido' = Listos
        /\ UNCHANGED <<abierto, fds, hilo, progs, pares, caido, pisado, reusado>>

\* The listening sockets first, then the descriptors from the lowest one.
Mira == Min(leido)

\* A thread has closed f and has not cleared it everywhere.
Limpiando(f) ==
  \E h \in Mensaje : \E i \in DOMAIN hilo[h].ops : hilo[h].ops[i].fd = f /\ ~ hilo[h].ops[i].pone

\* The set where the loop looks for x.
SetDe(x) == IF x \in Cpu THEN "setCPUs" ELSE "setConsolas"

\* aceptarNuevaConexion.  With no number left accept fails, and the connection
\* waits.
Aceptar ==
  /\ En(Interfaz, "bucle") /\ leido # {} /\ Mira < 0
  /\ leido' = leido \ {Mira}
  /\ \/ /\ Libres = {}
        /\ UNCHANGED <<abierto, porAceptar, reusado, hilo>>
     \/ /\ Libres # {}
        /\ \E x \in porAceptar \cap (IF Mira = EscuchaCPUs THEN Cpu ELSE Consola) :
             LET f == Min(Libres) IN
             /\ abierto' = [abierto EXCEPT ![f] = x]
             /\ porAceptar' = porAceptar \ {x}
             /\ reusado' = (reusado \/ Limpiando(f))
             /\ Cambiar(Interfaz,
                  <<Pone("master", f), Pone(SetDe(x), f)>>, "bucle")
  /\ UNCHANGED <<fds, progs, entrada, cerrada, par, caido, pisado>>

\* Mutant of MirarConsola: the descriptor stays in its set while its thread works.
MirarConsola_SinQuitar ==
  \/ /\ Mira \in fds["setConsolas"]
     /\ Cambiar(Interfaz, <<>>, "lanza_consola")
     /\ UNCHANGED leido
  \/ /\ Mira \notin fds["setConsolas"]
     /\ leido' = leido \ {Mira}
     /\ Ir(Interfaz, "bucle")

MirarConsola ==
  \/ /\ Mira \in fds["setConsolas"]
     /\ Cambiar(Interfaz, <<Quita("setConsolas", Mira)>>, "lanza_consola")
     /\ UNCHANGED leido
  \/ /\ Mira \notin fds["setConsolas"]
     /\ leido' = leido \ {Mira}
     /\ Ir(Interfaz, "bucle")

\* A descriptor that is in setCPUs is taken off the set and given to a thread;
\* then the same with setConsolas.
Mirar ==
  /\ En(Interfaz, "bucle") /\ leido # {} /\ Mira > 0
  /\ \/ /\ Mira \in fds["setCPUs"]
        /\ Cambiar(Interfaz, <<Quita("setCPUs", Mira)>>, "lanza_cpu")
        /\ UNCHANGED leido
     \/ /\ Mira \notin fds["setCPUs"]
        /\ MirarConsola
  /\ UNCHANGED <<abierto, fds, progs, pares, caido, pisado, reusado>>

MirarTambien ==
  /\ En(Interfaz, "sigue") /\ MirarConsola
  /\ UNCHANGED <<abierto, fds, progs, pares, caido, pisado, reusado>>

\* pthread_create.
Lanzar ==
  \E h \in Mensaje :
    /\ hilo[h].pc = "libre"
    /\ \/ /\ En(Interfaz, "lanza_cpu")
          /\ hilo' = [hilo EXCEPT ![Interfaz].pc = "sigue",
                                  ![h] = [Libre EXCEPT !.pc = "cpu", !.fd = Mira]]
          /\ UNCHANGED leido
       \/ /\ En(Interfaz, "lanza_consola")
          /\ hilo' = [hilo EXCEPT ![Interfaz].pc = "bucle",
                                  ![h] = [Libre EXCEPT !.pc = "consola", !.fd = Mira]]
          /\ leido' = leido \ {Mira}
    /\ UNCHANGED <<abierto, fds, progs, pares, caido, pisado, reusado>>

-----------------------------------------------------------------------------
\* The thread of a message.

De(h)  == abierto[hilo[h].fd]
Fin(h) == IF De(h) = Nadie THEN TRUE ELSE entrada[De(h)] = <<>> /\ cerrada[De(h)]

\* Mutant of Devuelve: nobody puts it back.
Devuelve_Nada(t) == <<>>

\* The descriptor goes back to its set once its message is read.
Devuelve(t) == <<Pone(IF t.pc = "cpu" THEN "setCPUs" ELSE "setConsolas", t.fd)>>

\* recibir_paquete gives a message ...
Recibir(h) ==
  /\ En(h, "cpu") \/ En(h, "consola")
  /\ De(h) # Nadie /\ entrada[De(h)] # <<>>
  /\ entrada' = [entrada EXCEPT ![De(h)] = Tail(@)]
  /\ hilo' = [hilo EXCEPT ![h].de = De(h), ![h].msj = Head(entrada[De(h)]),
                          ![h].pc = IF @ = "cpu" THEN "sale" ELSE "procesa",
                          ![h].ops = Devuelve(hilo[h])]
  /\ UNCHANGED <<abierto, fds, leido, progs, porAceptar, cerrada, par, caido,
                 pisado, reusado>>

\* Mutant of PrimeraInfo: the last program, whatever its console.
PrimeraInfo_Ultima(f) == Len(info)

PrimeraInfo(f) == SelectInSeq(info, LAMBDA k : programa[k].fd = f)

\* ... or the end of the connection.  verificarProcesosConsolaCaida: the first program with this socket number.
\* What a CPU leaves behind is in Planificador.
Verificar(h) ==
  /\ En(h, "cpu") \/ En(h, "consola")
  /\ Fin(h)
  /\ IF hilo[h].pc = "consola"
     THEN LET i == PrimeraInfo(hilo[h].fd) IN
          IF i = 0 THEN Cae
          ELSE /\ programa' = [programa EXCEPT ![info[i]].matar =
                                 IF programa[info[i]].estado = "FINISH" THEN @ ELSE "caida"]
               /\ Ir(h, "cierra_consola")
               /\ UNCHANGED <<abierto, fds, leido, max_pid, info, pares, caido, pisado, reusado>>
     ELSE /\ Ir(h, "cierra_cpu")
          /\ UNCHANGED <<abierto, fds, leido, progs, pares, caido, pisado, reusado>>

\* close, and only then FD_CLR.  The packet that was not received is freed
\* through a pointer nobody has set.
Cerrar(h) ==
  \/ /\ En(h, "cierra_cpu") \/ En(h, "cierra_consola")
     /\ abierto' = [abierto EXCEPT ![hilo[h].fd] = Nadie]
     /\ Cambiar(h, <<Quita("master", hilo[h].fd),
                     Quita(IF hilo[h].pc = "cierra_cpu" THEN "setCPUs" ELSE "setConsolas",
                           hilo[h].fd)>>, "sale")
     /\ UNCHANGED <<fds, leido, progs, pares, caido, pisado, reusado>>
  \/ /\ En(h, "cierra_cpu") \/ En(h, "cierra_consola")
     /\ Cae

\* procesarMensajeConsola: HANDSHAKE_PROGRAMA.
Saludar(h) ==
  /\ En(h, "procesa") /\ hilo[h].msj = <<"handshake">>
  /\ \/ /\ Enviar(hilo[h].fd, <<"handshake">>)
        /\ hilo' = [hilo EXCEPT ![h] = Libre]
        /\ UNCHANGED <<abierto, fds, leido, progs, porAceptar, cerrada, caido, pisado, reusado>>
     \/ Roto(hilo[h].fd) /\ Cae

\* ENVIO_CODIGO.  asignarPid reads max_pid and writes it back ...
LeerPid(h) ==
  /\ En(h, "procesa") /\ hilo[h].msj = <<"codigo">>
  /\ hilo' = [hilo EXCEPT ![h].pid = max_pid, ![h].pc = "suma"]
  /\ UNCHANGED <<abierto, fds, leido, progs, pares, caido, pisado, reusado>>

\* ... and the program is in colaNew ...
AsignarPid(h) ==
  /\ En(h, "suma")
  /\ max_pid' = hilo[h].pid + 1
  /\ programa' = [programa EXCEPT ![hilo[h].de] =
                    [@ EXCEPT !.pid = hilo[h].pid + 1, !.fd = hilo[h].fd, !.estado = "NEW"]]
  /\ Ir(h, "info")
  /\ UNCHANGED <<abierto, fds, leido, info, pares, caido, pisado, reusado>>

\* ... and its statistics exist from here on.
CrearInfo(h) ==
  /\ En(h, "info")
  /\ info' = Append(info, hilo[h].de)
  /\ hilo' = [hilo EXCEPT ![h] = Libre]
  /\ UNCHANGED <<abierto, fds, leido, max_pid, programa, pares, caido, pisado, reusado>>

\* FINALIZAR_PROGRAMA: finalizarPrograma looks the PID up.
FinalizarPrograma(h) ==
  /\ En(h, "procesa") /\ hilo[h].msj # <<"handshake">> /\ hilo[h].msj # <<"codigo">>
  /\ LET i == SelectInSeq(info, LAMBDA k : <<"fin", programa[k].pid>> = hilo[h].msj) IN
     IF i = 0 THEN Cae
     ELSE /\ programa' = [programa EXCEPT ![info[i]].matar = "stop"]
          /\ hilo' = [hilo EXCEPT ![h] = Libre]
          /\ UNCHANGED <<abierto, fds, leido, max_pid, info, pares, caido, pisado, reusado>>

-----------------------------------------------------------------------------
\* The planners, as a console sees them.

\* planificarLargoPlazo admits the program, or memory refuses it; either way
\* the console is told its PID.
Admitir(k) ==
  /\ ~ caido /\ programa[k].estado = "NEW"
  /\ IF ~ Contains(info, k) THEN Cae
     ELSE \/ \E d \in {<<"READY", "pid">>, <<"FINISH", "rechazado">>} :
               /\ programa' = [programa EXCEPT ![k].estado = d[1]]
               /\ Enviar(programa[k].fd, <<d[2], programa[k].pid>>)
               /\ UNCHANGED <<kernel, max_pid, info, porAceptar, cerrada, caido, pisado,
                              reusado>>
          \/ Roto(programa[k].fd) /\ Cae

\* terminarProceso.  A program that was ended because its console fell tells
\* nobody.
Terminar(k) ==
  /\ ~ caido /\ programa[k].estado = "READY"
  /\ \/ /\ programa' = [programa EXCEPT ![k].estado = "FINISH"]
        /\ \/ Enviar(programa[k].fd, <<"fin_ejecucion">>)
           \/ programa[k].matar = "caida" /\ UNCHANGED <<par, entrada>>
        /\ UNCHANGED <<kernel, max_pid, info, porAceptar, cerrada, caido, pisado, reusado>>
     \/ Roto(programa[k].fd) /\ Cae

-----------------------------------------------------------------------------
\* The peers.

\* connect, and a console's handshake right after it.
Conectar(x) ==
  /\ ~ caido /\ par[x].estado = "fuera"
  /\ par' = [par EXCEPT ![x].estado = "saluda"]
  /\ porAceptar' = porAceptar \cup {x}
  /\ IF x \in Consola THEN Mandar(x, <<"handshake">>) ELSE UNCHANGED entrada
  /\ UNCHANGED <<kernel, progs, cerrada, caido, pisado, reusado>>

\* A CPU asks something.
Pedir(c) ==
  /\ Vive(c) /\ par[c].enviados < MaxMensajes
  /\ par' = [par EXCEPT ![c].enviados = @ + 1]
  /\ Mandar(c, <<"pedido">>)
  /\ UNCHANGED <<kernel, progs, porAceptar, cerrada, caido, pisado, reusado>>

\* stop.
Detener(k) ==
  /\ k \in Inquietos /\ Vive(k) /\ par[k].estado = "activo" /\ par[k].enviados < MaxMensajes
  /\ par' = [par EXCEPT ![k].enviados = @ + 1]
  /\ Mandar(k, <<"fin", par[k].pid>>)
  /\ UNCHANGED <<kernel, progs, porAceptar, cerrada, caido, pisado, reusado>>

\* disconnect tells the end of what is in procesos and exits; a process that
\* dies tells nothing.
Desconectar(x) ==
  /\ x \in Inquietos /\ Vive(x)
  /\ cerrada' = [cerrada EXCEPT ![x] = TRUE]
  /\ \/ UNCHANGED <<entrada, par>>
     \/ /\ par[x].estado = "activo"
        /\ Mandar(x, <<"fin", par[x].pid>>)
        /\ par' = [par EXCEPT ![x].estado = "terminado"]
  /\ UNCHANGED <<kernel, progs, porAceptar, caido, pisado, reusado>>

-----------------------------------------------------------------------------
Principal == Seleccionar \/ Aceptar \/ Mirar \/ MirarTambien \/ Lanzar

HiloMensaje(h) ==
  \/ Recibir(h) \/ Verificar(h) \/ Cerrar(h) \/ Saludar(h)
  \/ LeerPid(h) \/ AsignarPid(h) \/ CrearInfo(h) \/ FinalizarPrograma(h)

Next ==
  \/ Principal
  \/ \E h \in Mensaje : HiloMensaje(h)
  \/ \E h \in Hilo : Actualizar(h)
  \/ \E h, g \in Hilo : Pisar(h, g)
  \/ \E k \in Consola : Admitir(k) \/ Terminar(k) \/ Detener(k)
  \/ \E c \in Cpu : Pedir(c)
  \/ \E x \in Conexion : Conectar(x) \/ Desconectar(x)

Spec == Init /\ [][Next]_vars

-----------------------------------------------------------------------------
(* Properties.                                                             *)

\* Threads that have connection x off the loop's sets: from the moment they are
\* started until the descriptor is back (a console's, before its message is
\* processed) or closed.
Atienden(x) ==
  {h \in Mensaje :
     \/ /\ hilo[h].pc \in {"cpu", "consola", "cierra_cpu", "cierra_consola"}
        /\ abierto[hilo[h].fd] = x
     \/ /\ \E i \in DOMAIN hilo[h].ops : hilo[h].ops[i].pone
        /\ hilo[h].de = x}

\* One thread at a time reads from a connection, so that no two of them share the
\* bytes of a message: a descriptor is off its set from the launch of a thread to
\* the end of recibir_paquete, also when numbers are given again, as long as no
\* update of a set was lost (escucharConexiones, trabajarMensajeConsola).
UnLector ==
  pisado \/ \A x \in Conexion : Cardinality(Atienden(x)) <= 1

\* The loop looks at f, or will: a thread has it, or the main thread is about to
\* put it there or to launch one.
Vigilada(f) == f \in fds["master"] /\ f \in fds[SetDe(abierto[f])]
PorVigilar(x) ==
  \/ Atienden(x) # {}
  \/ hilo[Interfaz].ops # <<>> \/ hilo[Interfaz].pc \in {"lanza_cpu", "lanza_consola"}

\* No connection is forgotten: whatever is open will be looked at by select, or a
\* thread will put it back, unless an update of a set was lost or a number was
\* given again between the close of one thread and its FD_CLR, which takes the
\* new connection off the sets (operaciones.c:12-15).
ConexionAtendida ==
  caido \/ pisado \/ reusado \/ \A f \in Fd :
    abierto[f] # Nadie => Vigilada(f) \/ PorVigilar(abierto[f])

PidsDistintos ==
  \A j, k \in Consola : programa[j].pid = programa[k].pid /\ programa[k].pid # 0 => j = k

\* The connection of k has been accepted, used and closed.
Soltada(k) == cerrada[k] /\ k \notin porAceptar /\ \A f \in Fd : abierto[f] # k
\* Another program with its number has statistics before k's, which may yet come.
AntesCon(k) ==
  \E i \in DOMAIN info :
    programa[info[i]].fd = programa[k].fd /\ \A j \in 1..i : info[j] # k

\* A program is condemned because its own console asked for it or left, and one
\* whose console left is condemned or had ended, although the kernel knows
\* consoles by their numbers: as long as no update of a set was lost, asignarPid
\* gave no PID twice, and no older program had a console with the same number
\* (verificarProcesosConsolaCaida takes the first that it finds).
CondenaDeSuConsola ==
  pisado \/ (PidsDistintos => \A k \in Consola :
    /\ programa[k].matar # "no" => cerrada[k] \/ par[k].enviados > 0
    /\ Soltada(k) /\ programa[k].pid # 0 /\ ~ AntesCon(k) =>
         caido \/ programa[k].estado = "FINISH" \/ programa[k].matar # "no")

\* "Aviso a consola que se acepto" (funcionesKernel.c:627): the PID that a console
\* is told is its own program's.  It is not so when the number of a console that
\* left was given to another one before its program was admitted.
PidPropio == \A k \in Consola : par[k].estado = "activo" => par[k].pid = programa[k].pid

\* "Se termina la ejecucion del proceso %d por desconexion de la consola": said of
\* the program of that console.  It is not so when an older program had a console
\* with the same number.
CondenaPropia ==
  \A k \in Consola : Soltada(k) /\ programa[k].pid # 0 =>
    caido \/ programa[k].estado = "FINISH" \/ programa[k].matar # "no"
=============================================================================
