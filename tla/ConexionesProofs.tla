-------------------------- MODULE ConexionesProofs --------------------------
(***************************************************************************)
(* Theorems about Conexiones, for any number of consoles, CPUs, threads    *)
(* and descriptors, as long as no update of a set was lost: one thread at  *)
(* a time reads from a connection, no connection is forgotten, and         *)
(* programs are condemned by their own consoles.                           *)
(*                                                                         *)
(* ConexInv is about descriptors: each is in one place.  CondInv, which    *)
(* rests on it, is about programs: what messages of its console are under  *)
(* way, and the numbers it is known by.                                    *)
(***************************************************************************)
EXTENDS Conexiones, Extremos

\* What the kernel and its peers hold.
Mensajes == {<<>>, <<"handshake">>, <<"codigo">>, <<"pedido">>} \cup {<<"fin", n>> : n \in Nat}

Lanza    == {"lanza_cpu", "lanza_consola"}
Cierra   == {"cierra_cpu", "cierra_consola"}
Leyendo  == {"cpu", "consola"} \cup Cierra
Donde    == {"libre", "bucle", "sigue", "procesa", "suma", "info", "sale"} \cup Lanza \cup Leyendo
Cambio   == [en : Conjunto, fd : Fd, pone : BOOLEAN]
Hilos    == [pc : Donde, fd : Fd \cup {0}, de : Conexion \cup {Nadie}, msj : Mensajes,
             pid : Nat, ops : Seq(Cambio)]
Pares    == [estado : {"fuera", "saluda", "espera", "activo", "terminado"}, pid : Nat, enviados : Nat]
Programas == [pid : Nat, fd : Fd \cup {0}, estado : {"sin_enviar", "NEW", "READY", "FINISH"},
              matar : {"no", "caida", "stop"}]

TipoCx ==
  /\ abierto \in [Fd -> Conexion \cup {Nadie}]
  /\ fds \in [Conjunto -> SUBSET Fd]
  /\ hilo \in [Hilo -> Hilos]
  /\ max_pid \in Nat
  /\ info \in Seq(Conexion)
  /\ programa \in [Consola -> Programas]
  /\ porAceptar \subseteq Conexion
  /\ entrada \in [Conexion -> Seq(Mensajes)]
  /\ cerrada \in [Conexion -> BOOLEAN]
  /\ par \in [Conexion -> Pares]

\* The set of a thread's descriptor.
SuSet(t) == IF t.pc \in {"cpu", "cierra_cpu", "sale"} THEN "setCPUs" ELSE "setConsolas"

\* What a thread of a message has left to do to the sets: nothing, to put its
\* descriptor back, or to clear what it has closed.
Forma(t) ==
  /\ t.pc \in {"libre", "procesa", "suma", "info", "sale"} \cup Leyendo
  /\ t.pc # "libre" => t.fd \in Fd
  /\ t.pc \in {"procesa", "suma", "info"} => t.de \in Conexion
  /\ \/ t.ops = <<>> /\ t.pc # "sale"
     \/ t.ops = <<Pone("setCPUs", t.fd)>> /\ t.pc = "sale"
     \/ t.ops = <<Pone("setConsolas", t.fd)>> /\ t.pc = "procesa"
     \/ \E s \in {"setCPUs", "setConsolas"} :
          t.pc = "sale" /\ t.ops \in {<<Quita("master", t.fd), Quita(s, t.fd)>>, <<Quita(s, t.fd)>>}

\* The same of the main thread.
FormaPrincipal(t, m) ==
  \/ t.pc \in {"bucle", "sigue"} \cup Lanza /\ t.ops = <<>>
  \/ t.pc = "bucle" /\ \E f \in Fd, s \in {"setCPUs", "setConsolas"} :
       t.ops \in {<<Pone("master", f), Pone(s, f)>>, <<Pone(s, f)>>}
  \/ t.pc = "lanza_cpu" /\ t.ops = <<Quita("setCPUs", m)>>
  \/ t.pc = "lanza_consola" /\ t.ops = <<Quita("setConsolas", m)>>

\* A peer is behind one descriptor, or waits to be accepted, or is outside.
Unicas ==
  /\ \A f, g \in Fd : abierto[f] = abierto[g] /\ abierto[f] # Nadie => f = g
  /\ \A x \in porAceptar : par[x].estado # "fuera" /\ \A f \in Fd : abierto[f] # x
  /\ \A f \in Fd : abierto[f] # Nadie => par[abierto[f]].estado # "fuera"

FormaInv ==
  /\ \A h \in Mensaje : Forma(hilo[h])
  /\ FormaPrincipal(hilo[Interfaz], Mira)
  /\ hilo[Interfaz].pc \in Lanza => Mira \in Fd
  /\ Unicas

\* The main thread is taking f off its set and giving it to a thread, or has yet
\* to put it in a set.
Lanzando(f)     == hilo[Interfaz].pc \in Lanza /\ Mira = f
Pide(t, s, f)   == \E i \in DOMAIN t.ops : t.ops[i] = Pone(s, f)
Pendiente(s, f) == Pide(hilo[Interfaz], s, f)
Poniendo(f)     == Pendiente("setCPUs", f) \/ Pendiente("setConsolas", f)
EnSets(f)       == f \in fds["setCPUs"] \cup fds["setConsolas"]

\* Thread t has f: it reads from it, or has it to put back.  Or it has to clear it.
Tiene(t, f)  == t.fd = f /\ (t.pc \in Leyendo \/ (t.ops # <<>> /\ t.ops[1].pone))
Limpia(t, f) == t.fd = f /\ t.ops # <<>> /\ ~ t.ops[1].pone

\* The connections whose descriptors are in a set.
Clase(s) == IF s = "setCPUs" THEN Cpu ELSE Consola

\* f is in the set of what is behind it, whoever has it knows which one that is.
Suyo(f) ==
  /\ \A s \in {"setCPUs", "setConsolas"} : f \in fds[s] \/ Pendiente(s, f) => abierto[f] \in Clase(s)
  /\ Lanzando(f) => abierto[f] \in IF hilo[Interfaz].pc = "lanza_cpu" THEN Cpu ELSE Consola
  /\ \A h \in Mensaje : Tiene(hilo[h], f) =>
       abierto[f] \in Clase(SuSet(hilo[h])) /\ (hilo[h].ops # <<>> => hilo[h].de = abierto[f])

\* f is in one place: in its set, in the hands of the main thread or in those of
\* one thread.
UnLugarDe(f) ==
  /\ \A h, g \in Mensaje : Tiene(hilo[h], f) /\ Tiene(hilo[g], f) => h = g
  /\ \A h \in Mensaje : Tiene(hilo[h], f) => ~ EnSets(f) /\ ~ Lanzando(f) /\ ~ Poniendo(f)
  /\ Lanzando(f) /\ EnSets(f) => hilo[Interfaz].ops # <<>>

\* f will be looked at.
Atendida(f) ==
  /\ f \in fds["master"] \/ Pendiente("master", f)
  /\ EnSets(f) \/ Lanzando(f) \/ Poniendo(f) \/ \E h \in Mensaje : Tiene(hilo[h], f)

\* What a thread has to clear is closed.
Limpio(f) == \A h \in Mensaje : Limpia(hilo[h], f) => abierto[f] = Nadie

Bien(f) ==
  /\ Suyo(f) /\ UnLugarDe(f)
  /\ ~ reusado => Limpio(f) /\ (abierto[f] # Nadie => Atendida(f))

ConexInv == FormaInv /\ (~ pisado => \A f \in Fd : Bien(f))

-----------------------------------------------------------------------------
\* Types.

LEMMA LibreTipo == Libre \in Hilos /\ [Libre EXCEPT !.pc = "bucle"] \in Hilos
<1>1. <<>> \in Mensajes /\ <<>> \in Seq(Cambio)
  BY DEF Mensajes
<1>2. {"libre", "bucle"} \subseteq Donde
  BY DEF Donde
<1> QED BY <1>1, <1>2 DEF Libre, Hilos

LEMMA TipoInicio ==
  ASSUME ConexionesAssumption, Init
  PROVE  TipoCx
<1>1. Libre \in Hilos /\ [Libre EXCEPT !.pc = "bucle"] \in Hilos
  BY LibreTipo
<1>2. hilo \in [Hilo -> Hilos]
  BY <1>1 DEF Init
<1>3. programa \in [Consola -> Programas] /\ par \in [Conexion -> Pares]
  BY DEF Init, Programas, Pares
<1>4. entrada \in [Conexion -> Seq(Mensajes)]
  <2>1. <<>> \in Seq(Mensajes)
    OBVIOUS
  <2> QED BY <2>1 DEF Init
<1>5. abierto \in [Fd -> Conexion \cup {Nadie}] /\ fds \in [Conjunto -> SUBSET Fd]
      /\ cerrada \in [Conexion -> BOOLEAN]
  BY DEF Init
<1> QED BY <1>2, <1>3, <1>4, <1>5 DEF Init, TipoCx

\* A message is sent to whoever is behind f.
LEMMA EnviarTipo ==
  ASSUME TipoCx, NEW f, NEW m, Enviar(f, m), m[1] = "pid" => m[2] \in Nat
  PROVE  /\ par' \in [Conexion -> Pares] /\ entrada' \in [Conexion -> Seq(Mensajes)]
         /\ \A x \in Conexion : par'[x].estado = "fuera" <=> par[x].estado = "fuera"
<1>1. CASE abierto[f] \in Consola /\ Vive(abierto[f])
  <2> DEFINE x == abierto[f]
             r == Reaccion(par[x], m)
  <2>1. x \in Conexion /\ par[x] \in Pares /\ par[x].estado # "fuera"
    BY <1>1 DEF TipoCx, Conexion, Vive
  <2>2. r \in Pares /\ r.estado # "fuera"
    BY <2>1 DEF Reaccion, Pares
  <2>3. par' = [par EXCEPT ![x] = r]
    BY <1>1 DEF Enviar
  <2>4. entrada' = [entrada EXCEPT ![x] = Append(@, <<"codigo">>)] \/ entrada' = entrada
    BY <1>1 DEF Enviar, Mandar
  <2>5. \A s \in Seq(Mensajes) : Append(s, <<"codigo">>) \in Seq(Mensajes)
    BY DEF Mensajes
  <2> HIDE DEF x, r
  <2>6. entrada' \in [Conexion -> Seq(Mensajes)]
    <3> DEFINE e == Append(entrada[x], <<"codigo">>)
    <3>1. e \in Seq(Mensajes)
      BY <2>1, <2>5 DEF TipoCx
    <3>2. entrada' = [entrada EXCEPT ![x] = e] \/ entrada' = entrada
      BY <2>4
    <3> HIDE DEF e
    <3> QED BY <3>1, <3>2 DEF TipoCx
  <2> QED BY <2>1, <2>2, <2>3, <2>6 DEF TipoCx
<1>2. CASE ~ (abierto[f] \in Consola /\ Vive(abierto[f]))
  BY <1>2 DEF Enviar, TipoCx
<1> QED BY <1>1, <1>2

\* The steps that change neither what is behind a descriptor nor the sets.
LEMMA TipoHilo ==
  ASSUME TipoCx, NEW h \in Hilo, NEW t \in Hilos, hilo' = [hilo EXCEPT ![h] = t]
  PROVE  hilo' \in [Hilo -> Hilos]
BY DEF TipoCx

\* What a thread does next.
LEMMA IrTipo ==
  ASSUME TipoCx, NEW h \in Hilo, NEW donde \in Donde, Ir(h, donde)
  PROVE  hilo' \in [Hilo -> Hilos]
<1> DEFINE t == [hilo[h] EXCEPT !.pc = donde]
<1>1. t \in Hilos
  BY DEF TipoCx, Hilos
<1>2. hilo' = [hilo EXCEPT ![h] = t]
  BY DEF Ir, TipoCx
<1> HIDE DEF t
<1> QED BY <1>1, <1>2, TipoHilo

LEMMA CambiarTipo ==
  ASSUME TipoCx, NEW h \in Hilo, NEW donde \in Donde, NEW ops \in Seq(Cambio), Cambiar(h, ops, donde)
  PROVE  hilo' \in [Hilo -> Hilos]
<1> DEFINE t == [hilo[h] EXCEPT !.ops = ops, !.pc = donde]
<1>1. t \in Hilos
  BY DEF TipoCx, Hilos
<1>2. hilo' = [hilo EXCEPT ![h] = t]
  BY DEF Cambiar, TipoCx
<1> HIDE DEF t
<1> QED BY <1>1, <1>2, TipoHilo

LEMMA CambioTipo ==
  ASSUME NEW f \in Fd, NEW g \in Fd, NEW s \in Conjunto, NEW r \in Conjunto
  PROVE  /\ <<Pone(s, f)>> \in Seq(Cambio) /\ <<Pone(s, f), Pone(r, g)>> \in Seq(Cambio)
         /\ <<Quita(s, f)>> \in Seq(Cambio) /\ <<Quita(s, f), Quita(r, g)>> \in Seq(Cambio)
         /\ <<>> \in Seq(Cambio)
BY DEF Pone, Quita, Cambio

LEMMA MandarTipo ==
  ASSUME TipoCx, NEW x \in Conexion, NEW m \in Mensajes, Mandar(x, m)
  PROVE  entrada' \in [Conexion -> Seq(Mensajes)]
<1> DEFINE e == Append(entrada[x], m)
<1>1. e \in Seq(Mensajes)
  BY DEF TipoCx
<1>2. entrada' = [entrada EXCEPT ![x] = e]
  BY DEF Mandar
<1> HIDE DEF e
<1> QED BY <1>1, <1>2 DEF TipoCx

\* The update at the head of what a thread has to do.
LEMMA SigueTipo ==
  ASSUME NEW t \in Hilos, t.ops # <<>>
  PROVE  Sigue(t) \in Hilos /\ Head(t.ops) \in Cambio
<1> DEFINE o == t.ops
<1>1. o \in Seq(Cambio)
  BY DEF Hilos
<1>2. Tail(o) \in Seq(Cambio) /\ Head(o) \in Cambio
  <2> HIDE DEF o
  <2> QED BY <1>1 DEF o
<1>3. \A u \in Seq(Cambio) : [t EXCEPT !.ops = u] \in Hilos
  BY DEF Hilos
<1>4. Sigue(t) = Libre \/ Sigue(t) = [t EXCEPT !.ops = Tail(o)]
  BY DEF Sigue
<1> QED BY <1>2, <1>3, <1>4, LibreTipo

LEMMA HechoTipo ==
  ASSUME TipoCx, NEW o \in Cambio, fds' = [fds EXCEPT ![o.en] = Hecho(o, @)]
  PROVE  fds' \in [Conjunto -> SUBSET Fd]
<1>1. o.en \in Conjunto /\ o.fd \in Fd
  BY DEF Cambio
<1>2. Hecho(o, fds[o.en]) \in SUBSET Fd
  BY <1>1 DEF Hecho, TipoCx
<1> QED BY <1>1, <1>2 DEF TipoCx

LEMMA TipoActualizar ==
  ASSUME TipoCx, NEW h \in Hilo, Actualizar(h)
  PROVE  TipoCx'
<1>1. hilo[h] \in Hilos /\ hilo[h].ops # <<>>
  BY DEF TipoCx, Actualizar
<1>2. Sigue(hilo[h]) \in Hilos /\ Head(hilo[h].ops) \in Cambio
  BY <1>1, SigueTipo
<1>3. fds' \in [Conjunto -> SUBSET Fd]
  BY <1>2, HechoTipo DEF Actualizar
<1>4. hilo' \in [Hilo -> Hilos]
  BY <1>2, TipoHilo DEF Actualizar
<1> QED BY <1>3, <1>4 DEF Actualizar, TipoCx, progs, pares

LEMMA TipoPisar ==
  ASSUME TipoCx, NEW h \in Hilo, NEW g \in Hilo, Pisar(h, g)
  PROVE  TipoCx'
<1>1. hilo[h] \in Hilos /\ hilo[h].ops # <<>> /\ hilo[g] \in Hilos /\ hilo[g].ops # <<>> /\ h # g
  BY DEF TipoCx, Pisar
<1>2. Sigue(hilo[h]) \in Hilos /\ Head(hilo[h].ops) \in Cambio /\ Sigue(hilo[g]) \in Hilos
  BY <1>1, SigueTipo
<1>3. fds' \in [Conjunto -> SUBSET Fd]
  BY <1>2, HechoTipo DEF Pisar
<1>4. hilo' = [hilo EXCEPT ![h] = Sigue(hilo[h]), ![g] = Sigue(hilo[g])]
  BY <1>1 DEF Pisar, TipoCx
<1>5. hilo' \in [Hilo -> Hilos]
  BY <1>2, <1>4 DEF TipoCx
<1> QED BY <1>3, <1>5 DEF Pisar, TipoCx, progs, pares

LEMMA EsMin ==
  ASSUME NEW S, S \subseteq Nat, S # {}
  PROVE  Min(S) \in S
BY HayPrimero DEF Min

LEMMA TipoAceptar ==
  ASSUME TipoCx, Aceptar
  PROVE  TipoCx'
<1>1. CASE Libres = {}
  BY <1>1 DEF Aceptar, TipoCx, progs
<1>2. CASE Libres # {}
  <2> DEFINE f == Min(Libres)
  <2>1. f \in Fd
    BY <1>2, EsMin DEF Libres, Fd
  <2> HIDE DEF f
  <2>2. PICK x \in porAceptar :
          /\ abierto' = [abierto EXCEPT ![f] = x] /\ porAceptar' = porAceptar \ {x}
          /\ Cambiar(Interfaz, <<Pone("master", f), Pone(SetDe(x), f)>>, "bucle")
    BY <1>2 DEF Aceptar, f
  <2>3. "master" \in Conjunto /\ SetDe(x) \in Conjunto /\ "bucle" \in Donde /\ Interfaz \in Hilo
    BY DEF Conjunto, SetDe, Donde, Hilo
  <2>4. hilo' \in [Hilo -> Hilos]
    <3>1. <<Pone("master", f), Pone(SetDe(x), f)>> \in Seq(Cambio)
      BY <2>1, <2>3, CambioTipo
    <3> QED BY <2>2, <2>3, <3>1, CambiarTipo
  <2>5. abierto' \in [Fd -> Conexion \cup {Nadie}] /\ porAceptar' \subseteq Conexion
    BY <2>1, <2>2 DEF TipoCx
  <2> QED BY <2>4, <2>5 DEF Aceptar, TipoCx, progs
<1> QED BY <1>1, <1>2

LEMMA TipoMirar ==
  ASSUME TipoCx, Mirar \/ MirarTambien
  PROVE  TipoCx'
<1>1. {"lanza_cpu", "lanza_consola", "bucle"} \subseteq Donde /\ {"setCPUs", "setConsolas"} \subseteq Conjunto
      /\ Interfaz \in Hilo
  BY DEF Donde, Lanza, Conjunto, Hilo
<1>2. ASSUME NEW s \in {"setCPUs", "setConsolas"}, Mira \in fds[s], NEW d \in Lanza,
             Cambiar(Interfaz, <<Quita(s, Mira)>>, d)
      PROVE  hilo' \in [Hilo -> Hilos]
  <2>1. Mira \in Fd /\ s \in Conjunto /\ d \in Donde
    BY <1>1, <1>2 DEF TipoCx, Donde
  <2>2. <<Quita(s, Mira)>> \in Seq(Cambio)
    BY <2>1, CambioTipo
  <2> QED BY <1>1, <1>2, <2>1, <2>2, CambiarTipo
<1>3. ASSUME MirarConsola PROVE hilo' \in [Hilo -> Hilos]
  BY <1>1, <1>2, <1>3, IrTipo DEF MirarConsola, Lanza
<1>4. hilo' \in [Hilo -> Hilos]
  BY <1>2, <1>3 DEF Mirar, MirarTambien, Lanza
<1> QED BY <1>4 DEF Mirar, MirarTambien, TipoCx, progs, pares

LEMMA TipoLanzar ==
  ASSUME TipoCx, FormaInv, Lanzar
  PROVE  TipoCx'
<1>1. PICK h \in Mensaje, pc \in {"sigue", "bucle"}, d \in {"cpu", "consola"} :
        hilo' = [hilo EXCEPT ![Interfaz].pc = pc, ![h] = [Libre EXCEPT !.pc = d, !.fd = Mira]]
  BY DEF Lanzar
<1>2. Mira \in Fd
  BY DEF Lanzar, En, FormaInv, Lanza
<1>3. {"sigue", "bucle", "cpu", "consola"} \subseteq Donde /\ Interfaz \in Hilo /\ h \in Hilo
  BY DEF Donde, Leyendo, Hilo
<1> DEFINE t == [Libre EXCEPT !.pc = d, !.fd = Mira]
           u == [hilo[Interfaz] EXCEPT !.pc = pc]
<1>4. t \in Hilos
  BY <1>2, <1>3, LibreTipo DEF Hilos
<1>5. u \in Hilos
  BY <1>3 DEF Hilos, TipoCx
<1>6. hilo' = [hilo EXCEPT ![Interfaz] = u, ![h] = t]
  BY <1>1, <1>3 DEF TipoCx
<1> HIDE DEF t, u
<1>7. hilo' \in [Hilo -> Hilos]
  BY <1>3, <1>4, <1>5, <1>6 DEF TipoCx
<1> QED BY <1>7 DEF Lanzar, TipoCx, progs, pares

LEMMA TipoRecibir ==
  ASSUME TipoCx, FormaInv, NEW h \in Mensaje, Recibir(h)
  PROVE  TipoCx'
<1> DEFINE x == De(h)
           t == hilo[h]
<1>1. /\ t \in Hilos /\ t.pc \in {"cpu", "consola"} /\ t.fd \in Fd /\ h \in Hilo
  BY DEF TipoCx, Recibir, En, FormaInv, Forma, Hilo
<1>2. x \in Conexion /\ entrada[x] \in Seq(Mensajes) /\ entrada[x] # <<>>
  BY <1>1 DEF TipoCx, Recibir, De
<1>3. Devuelve(t) \in Seq(Cambio)
  BY <1>1, CambioTipo DEF Devuelve, Conjunto
<1> DEFINE e == entrada[x]
           u == [t EXCEPT !.de = x, !.msj = Head(e), !.pc = IF @ = "cpu" THEN "sale" ELSE "procesa",
                          !.ops = Devuelve(t)]
<1>4. Tail(e) \in Seq(Mensajes) /\ Head(e) \in Mensajes
  <2> HIDE DEF e
  <2> QED BY <1>2 DEF e
<1>5. hilo' = [hilo EXCEPT ![h] = u] /\ entrada' = [entrada EXCEPT ![x] = Tail(e)]
  BY <1>1, <1>2 DEF Recibir, TipoCx
<1> HIDE DEF e, x
<1>6. u \in Hilos
  <2> DEFINE m == Head(e)
             o == Devuelve(t)
  <2>1. m \in Mensajes /\ o \in Seq(Cambio)
    BY <1>3, <1>4
  <2> HIDE DEF m, o
  <2>2. {"sale", "procesa"} \subseteq Donde
    BY DEF Donde
  <2> QED BY <1>1, <1>2, <2>1, <2>2 DEF Hilos, m, o
<1> HIDE DEF u
<1>7. hilo' \in [Hilo -> Hilos]
  BY <1>1, <1>5, <1>6, TipoHilo
<1>8. entrada' \in [Conexion -> Seq(Mensajes)]
  BY <1>2, <1>4, <1>5 DEF TipoCx
<1> QED BY <1>7, <1>8 DEF Recibir, TipoCx, progs

LEMMA TipoVerificar ==
  ASSUME TipoCx, NEW h \in Mensaje, Verificar(h)
  PROVE  TipoCx'
<1>1. h \in Hilo /\ Cierra \subseteq Donde
  BY DEF Hilo, Donde, Leyendo
<1>2. CASE Cae
  BY <1>2 DEF Cae, TipoCx, kernel, progs, pares
<1>3. CASE ~ Cae
  <2>1. PICK d \in Cierra : Ir(h, d)
    BY <1>3 DEF Verificar, Cierra
  <2>2. hilo' \in [Hilo -> Hilos]
    BY <1>1, <2>1, IrTipo
  <2>3. \/ UNCHANGED programa
        \/ \E k, m : programa' = [programa EXCEPT ![k].matar = m]
                     /\ (k \in Consola => m \in {programa[k].matar, "caida"})
    BY <1>3 DEF Verificar, progs
  <2>4. programa' \in [Consola -> Programas]
    <3>1. CASE UNCHANGED programa
      BY <3>1 DEF TipoCx
    <3>2. ASSUME NEW k, NEW m, programa' = [programa EXCEPT ![k].matar = m],
                 k \in Consola => m \in {programa[k].matar, "caida"}
          PROVE  programa' \in [Consola -> Programas]
      <4>1. CASE k \in Consola
        <5>1. programa[k] \in Programas /\ m \in {programa[k].matar, "caida"}
          BY <3>2, <4>1 DEF TipoCx
        <5>2. [programa[k] EXCEPT !.matar = m] \in Programas
          BY <5>1 DEF Programas
        <5> QED BY <3>2, <4>1, <5>2 DEF TipoCx
      <4>2. CASE k \notin Consola
        BY <3>2, <4>2 DEF TipoCx
      <4> QED BY <4>1, <4>2
    <3> QED BY <2>3, <3>1, <3>2
  <2>5. UNCHANGED <<abierto, fds, max_pid, info, pares>>
    BY <1>3 DEF Verificar, progs
  <2> QED BY <2>2, <2>4, <2>5 DEF TipoCx, pares
<1> QED BY <1>2, <1>3

LEMMA TipoCerrar ==
  ASSUME TipoCx, FormaInv, NEW h \in Mensaje, Cerrar(h)
  PROVE  TipoCx'
<1>1. CASE Cae
  BY <1>1 DEF Cae, TipoCx, kernel, progs, pares
<1>2. CASE ~ Cae
  <2> DEFINE f == hilo[h].fd
             s == IF hilo[h].pc = "cierra_cpu" THEN "setCPUs" ELSE "setConsolas"
             ops == <<Quita("master", f), Quita(s, f)>>
  <2>1. /\ abierto' = [abierto EXCEPT ![f] = Nadie] /\ Cambiar(h, ops, "sale")
        /\ UNCHANGED <<fds, leido, progs, pares>>
        /\ hilo[h].pc \in Cierra
    BY <1>2 DEF Cerrar, En, Cierra
  <2>2. f \in Fd /\ h \in Hilo /\ "sale" \in Donde
    BY <2>1 DEF FormaInv, Forma, Cierra, Hilo, Donde
  <2>3. ops \in Seq(Cambio)
    <3> HIDE DEF f
    <3> QED BY <2>2, CambioTipo DEF Conjunto
  <2> HIDE DEF f, ops
  <2>4. hilo' \in [Hilo -> Hilos]
    BY <2>1, <2>2, <2>3, CambiarTipo
  <2>5. abierto' \in [Fd -> Conexion \cup {Nadie}]
    BY <2>1, <2>2 DEF TipoCx
  <2> QED BY <2>1, <2>4, <2>5 DEF TipoCx, progs, pares
<1> QED BY <1>1, <1>2

LEMMA TipoSaludar ==
  ASSUME TipoCx, NEW h \in Mensaje, Saludar(h)
  PROVE  TipoCx'
<1>1. CASE Cae
  BY <1>1 DEF Cae, TipoCx, kernel, progs, pares
<1>2. CASE ~ Cae
  <2>1. Enviar(hilo[h].fd, <<"handshake">>) /\ hilo' = [hilo EXCEPT ![h] = Libre] /\ h \in Hilo
        /\ UNCHANGED <<abierto, fds, progs, porAceptar, cerrada>>
    BY <1>2 DEF Saludar, Hilo
  <2>2. <<"handshake">>[1] # "pid"
    OBVIOUS
  <2>3. par' \in [Conexion -> Pares] /\ entrada' \in [Conexion -> Seq(Mensajes)]
    BY <2>1, <2>2, EnviarTipo
  <2>4. hilo' \in [Hilo -> Hilos]
    BY <2>1, TipoHilo, LibreTipo
  <2> QED BY <2>1, <2>3, <2>4 DEF TipoCx, progs
<1> QED BY <1>1, <1>2

\* A new program.
LEMMA TipoPid ==
  ASSUME TipoCx, FormaInv, NEW h \in Mensaje, LeerPid(h) \/ AsignarPid(h) \/ CrearInfo(h)
  PROVE  TipoCx'
<1>1. h \in Hilo /\ hilo[h] \in Hilos /\ {"suma", "info"} \subseteq Donde
  BY DEF Hilo, TipoCx, Donde
<1>2. CASE LeerPid(h)
  <2>1. hilo' = [hilo EXCEPT ![h] = [@ EXCEPT !.pid = max_pid, !.pc = "suma"]]
    BY <1>2 DEF LeerPid
  <2>2. [hilo[h] EXCEPT !.pid = max_pid, !.pc = "suma"] \in Hilos
    BY <1>1 DEF TipoCx, Hilos
  <2>3. hilo' \in [Hilo -> Hilos]
    BY <1>1, <2>1, <2>2 DEF TipoCx
  <2> QED BY <1>2, <2>3 DEF LeerPid, TipoCx, progs, pares
<1>3. CASE AsignarPid(h)
  <2> DEFINE k == hilo[h].de
             n == hilo[h].pid + 1
             f == hilo[h].fd
  <2>1. n \in Nat /\ f \in Fd \cup {0}
    BY <1>1 DEF Hilos
  <2>2. hilo' \in [Hilo -> Hilos]
    BY <1>1, <1>3, IrTipo DEF AsignarPid
  <2>3. programa' = [programa EXCEPT ![k] = [@ EXCEPT !.pid = n, !.fd = f, !.estado = "NEW"]] /\ max_pid' = n
    BY <1>3 DEF AsignarPid
  <2> HIDE DEF k, n, f
  <2>4. \A p \in Programas : [p EXCEPT !.pid = n, !.fd = f, !.estado = "NEW"] \in Programas
    BY <2>1 DEF Programas
  <2>5. programa' \in [Consola -> Programas]
    BY <2>3, <2>4 DEF TipoCx
  <2> QED BY <1>3, <2>1, <2>2, <2>3, <2>5 DEF AsignarPid, TipoCx, pares
<1>4. CASE CrearInfo(h)
  <2>1. hilo' \in [Hilo -> Hilos]
    BY <1>1, <1>4, TipoHilo, LibreTipo DEF CrearInfo
  <2>2. hilo[h].de \in Conexion
    BY <1>4 DEF CrearInfo, En, FormaInv, Forma
  <2>3. info' \in Seq(Conexion)
    BY <1>4, <2>2 DEF CrearInfo, TipoCx
  <2> QED BY <1>4, <2>1, <2>3 DEF CrearInfo, TipoCx, pares
<1> QED BY <1>2, <1>3, <1>4

LEMMA TipoFinalizar ==
  ASSUME TipoCx, NEW h \in Mensaje, FinalizarPrograma(h)
  PROVE  TipoCx'
<1>1. CASE Cae
  BY <1>1 DEF Cae, TipoCx, kernel, progs, pares
<1>2. CASE ~ Cae
  <2>1. PICK k : programa' = [programa EXCEPT ![k].matar = "stop"] /\ hilo' = [hilo EXCEPT ![h] = Libre]
                 /\ UNCHANGED <<abierto, fds, max_pid, info, pares>> /\ h \in Hilo
    BY <1>2 DEF FinalizarPrograma, Hilo
  <2>2. programa' \in [Consola -> Programas]
    <3>1. CASE k \in Consola
      <4>1. programa[k] \in Programas
        BY <3>1 DEF TipoCx
      <4>2. [programa[k] EXCEPT !.matar = "stop"] \in Programas
        BY <4>1 DEF Programas
      <4> QED BY <2>1, <3>1, <4>2 DEF TipoCx
    <3>2. CASE k \notin Consola
      BY <2>1, <3>2 DEF TipoCx
    <3> QED BY <3>1, <3>2
  <2>3. hilo' \in [Hilo -> Hilos]
    BY <2>1, TipoHilo, LibreTipo
  <2> QED BY <2>1, <2>2, <2>3 DEF TipoCx, pares
<1> QED BY <1>1, <1>2

LEMMA TipoPlanes ==
  ASSUME TipoCx, NEW k \in Consola, Admitir(k) \/ Terminar(k)
  PROVE  TipoCx'
<1>1. CASE Cae
  BY <1>1 DEF Cae, TipoCx, kernel, progs, pares
<1>2. CASE ~ Cae
  <2> DEFINE n == programa[k].pid
  <2>1. n \in Nat
    BY DEF TipoCx, Programas
  <2> HIDE DEF n
  <2>2. /\ \E e \in {"READY", "FINISH"} : programa' = [programa EXCEPT ![k].estado = e]
        /\ UNCHANGED <<abierto, fds, hilo, max_pid, info, porAceptar, cerrada>>
        /\ \/ UNCHANGED <<par, entrada>>
           \/ Enviar(programa[k].fd, <<"fin_ejecucion">>)
           \/ \E d \in {"pid", "rechazado"} : Enviar(programa[k].fd, <<d, n>>)
    <3>1. CASE Admitir(k)
      <4>1. PICK d \in {<<"READY", "pid">>, <<"FINISH", "rechazado">>} :
              /\ programa' = [programa EXCEPT ![k].estado = d[1]]
              /\ Enviar(programa[k].fd, <<d[2], n>>)
              /\ UNCHANGED <<kernel, max_pid, info, porAceptar, cerrada>>
        BY <1>2, <3>1 DEF Admitir, n
      <4>2. d[1] \in {"READY", "FINISH"} /\ d[2] \in {"pid", "rechazado"}
        BY <4>1
      <4> QED BY <4>1, <4>2 DEF kernel
    <3>2. CASE Terminar(k)
      BY <1>2, <3>2 DEF Terminar, kernel
    <3> QED BY <3>1, <3>2
  <2>3. programa' \in [Consola -> Programas]
    <3>1. \A p \in Programas : \A e \in {"READY", "FINISH"} : [p EXCEPT !.estado = e] \in Programas
      BY DEF Programas
    <3>2. PICK e \in {"READY", "FINISH"} : programa' = [programa EXCEPT ![k].estado = e]
      BY <2>2
    <3> QED BY <3>1, <3>2 DEF TipoCx
  <2>4. par' \in [Conexion -> Pares] /\ entrada' \in [Conexion -> Seq(Mensajes)]
    <3>1. CASE UNCHANGED <<par, entrada>>
      BY <3>1 DEF TipoCx
    <3>2. CASE Enviar(programa[k].fd, <<"fin_ejecucion">>)
      <4>1. <<"fin_ejecucion">>[1] # "pid"
        OBVIOUS
      <4> QED BY <3>2, <4>1, EnviarTipo
    <3>3. ASSUME NEW d, Enviar(programa[k].fd, <<d, n>>)
          PROVE  par' \in [Conexion -> Pares] /\ entrada' \in [Conexion -> Seq(Mensajes)]
      <4>1. <<d, n>>[2] \in Nat
        BY <2>1
      <4> QED BY <3>3, <4>1, EnviarTipo
    <3> QED BY <2>2, <3>1, <3>2, <3>3
  <2> QED BY <2>2, <2>3, <2>4 DEF TipoCx
<1> QED BY <1>1, <1>2

LEMMA TipoPares ==
  ASSUME TipoCx, NEW x \in Conexion,
         Conectar(x) \/ (x \in Cpu /\ Pedir(x)) \/ (x \in Consola /\ Detener(x)) \/ Desconectar(x)
  PROVE  TipoCx'
<1> DEFINE n == par[x].pid
<1>1. n \in Nat
  BY DEF TipoCx, Pares
<1>2. {<<"handshake">>, <<"pedido">>, <<"fin", n>>} \subseteq Mensajes
  <2> HIDE DEF n
  <2> QED BY <1>1 DEF Mensajes
<1>3. UNCHANGED <<kernel, progs>>
  BY DEF Conectar, Pedir, Detener, Desconectar
<1>4. entrada' \in [Conexion -> Seq(Mensajes)]
  <2>1. \/ UNCHANGED entrada \/ Mandar(x, <<"handshake">>) \/ Mandar(x, <<"pedido">>) \/ Mandar(x, <<"fin", n>>)
    BY DEF Conectar, Pedir, Detener, Desconectar
  <2> HIDE DEF n
  <2> QED BY <1>2, <2>1, MandarTipo DEF TipoCx
<1>5. par' \in [Conexion -> Pares]
  <2>1. CASE Conectar(x)
    BY <2>1 DEF Conectar, TipoCx, Pares
  <2>2. CASE (x \in Cpu /\ Pedir(x)) \/ (x \in Consola /\ Detener(x))
    <3>1. par' = [par EXCEPT ![x].enviados = @ + 1]
      BY <2>2 DEF Pedir, Detener
    <3>2. \A p \in Pares : [p EXCEPT !.enviados = @ + 1] \in Pares
      BY DEF Pares
    <3> QED BY <3>1, <3>2 DEF TipoCx
  <2>3. CASE Desconectar(x)
    <3>1. UNCHANGED par \/ par' = [par EXCEPT ![x].estado = "terminado"]
      BY <2>3 DEF Desconectar
    <3>2. \A p \in Pares : [p EXCEPT !.estado = "terminado"] \in Pares
      BY DEF Pares
    <3>3. CASE UNCHANGED par
      BY <3>3 DEF TipoCx
    <3>4. CASE par' = [par EXCEPT ![x].estado = "terminado"]
      BY <3>2, <3>4 DEF TipoCx
    <3> QED BY <3>1, <3>3, <3>4
  <2> QED BY <2>1, <2>2, <2>3
<1>6. porAceptar' \subseteq Conexion /\ cerrada' \in [Conexion -> BOOLEAN]
  BY DEF Conectar, Pedir, Detener, Desconectar, TipoCx
<1> QED BY <1>3, <1>4, <1>5, <1>6 DEF TipoCx, kernel, progs

LEMMA TipoPaso ==
  ASSUME TipoCx, FormaInv, [Next]_vars
  PROVE  TipoCx'
<1>1. CASE Principal
  <2>1. CASE Seleccionar
    BY <2>1 DEF Seleccionar, Cae, TipoCx, kernel, progs, pares
  <2> QED BY <1>1, <2>1, TipoAceptar, TipoMirar, TipoLanzar DEF Principal
<1>2. ASSUME NEW h \in Mensaje, HiloMensaje(h) PROVE TipoCx'
  BY <1>2, TipoRecibir, TipoVerificar, TipoCerrar, TipoSaludar, TipoPid, TipoFinalizar DEF HiloMensaje
<1>3. CASE \E h \in Hilo : Actualizar(h)
  BY <1>3, TipoActualizar
<1>4. CASE \E h, g \in Hilo : Pisar(h, g)
  BY <1>4, TipoPisar
<1>5. ASSUME NEW k \in Consola, Admitir(k) \/ Terminar(k) \/ Detener(k) PROVE TipoCx'
  BY <1>5, TipoPlanes, TipoPares DEF Conexion
<1>6. ASSUME NEW c \in Cpu, Pedir(c) PROVE TipoCx'
  BY <1>6, TipoPares DEF Conexion
<1>7. ASSUME NEW x \in Conexion, Conectar(x) \/ Desconectar(x) PROVE TipoCx'
  BY <1>7, TipoPares
<1>8. CASE UNCHANGED vars
  BY <1>8 DEF vars, TipoCx, kernel, progs, pares
<1> QED BY <1>1, <1>2, <1>3, <1>4, <1>5, <1>6, <1>7, <1>8 DEF Next

-----------------------------------------------------------------------------
\* What each thread has to do.

LEMMA FormaDeLibre == Forma(Libre)
BY DEF Forma, Libre, Leyendo, Cierra

\* A step of the thread of a message, which leaves the round of the main thread
\* alone.
LEMMA FormaHilo ==
  ASSUME TipoCx, FormaInv, NEW h \in Mensaje, NEW t, Forma(t), hilo' = [hilo EXCEPT ![h] = t],
         UNCHANGED leido, Unicas'
  PROVE  FormaInv'
<1>1. h \in Hilo /\ Mensaje \subseteq Hilo /\ Interfaz \in Hilo /\ h # Interfaz
  BY ConexionesAssumption DEF Hilo
<1>2. hilo'[Interfaz] = hilo[Interfaz]
  BY <1>1 DEF TipoCx
<1>3. \A g \in Mensaje : hilo'[g] = IF g = h THEN t ELSE hilo[g]
  BY <1>1 DEF TipoCx
<1>4. Mira' = Mira
  BY DEF Mira
<1>5. \A g \in Mensaje : Forma(hilo'[g])
  BY <1>3 DEF FormaInv
<1>6. FormaPrincipal(hilo'[Interfaz], Mira') /\ (hilo'[Interfaz].pc \in Lanza => Mira' \in Fd)
  BY <1>2, <1>4 DEF FormaInv
<1> QED BY <1>5, <1>6 DEF FormaInv

\* A step of the main thread.
LEMMA FormaMain ==
  ASSUME TipoCx, FormaInv, NEW t, hilo' = [hilo EXCEPT ![Interfaz] = t],
         FormaPrincipal(t, Mira'), t.pc \in Lanza => Mira' \in Fd, Unicas'
  PROVE  FormaInv'
<1>1. Mensaje \subseteq Hilo /\ Interfaz \in Hilo /\ Interfaz \notin Mensaje
  BY ConexionesAssumption DEF Hilo
<1>2. hilo'[Interfaz] = t
  BY <1>1 DEF TipoCx
<1>3. \A g \in Mensaje : hilo'[g] = hilo[g]
  BY <1>1 DEF TipoCx
<1>4. \A g \in Mensaje : Forma(hilo'[g])
  BY <1>3 DEF FormaInv
<1> QED BY <1>2, <1>4 DEF FormaInv

\* Nobody comes in: descriptors are closed, peers leave the backlog.
LEMMA UnicasIgual ==
  ASSUME TipoCx, Unicas, \A f \in Fd : abierto'[f] \in {abierto[f], Nadie},
         porAceptar' \subseteq porAceptar,
         \A x \in Conexion : par[x].estado # "fuera" => par'[x].estado # "fuera"
  PROVE  Unicas'
<1>0. Nadie \notin Conexion
  BY ConexionesAssumption DEF Conexion
<1>1. \A f, g \in Fd : abierto'[f] = abierto'[g] /\ abierto'[f] # Nadie => f = g
  BY DEF Unicas
<1>2. \A x \in porAceptar' : par'[x].estado # "fuera" /\ \A f \in Fd : abierto'[f] # x
  BY <1>0 DEF Unicas, TipoCx
<1>3. \A f \in Fd : abierto'[f] # Nadie => par'[abierto'[f]].estado # "fuera"
  BY DEF Unicas, TipoCx
<1> QED BY <1>1, <1>2, <1>3 DEF Unicas

\* The main thread's round matters only while it is launching a thread.
LEMMA FormaEnBucle ==
  ASSUME NEW t, NEW m, NEW n, FormaPrincipal(t, m), t.pc \notin Lanza
  PROVE  FormaPrincipal(t, n)
BY DEF FormaPrincipal, Lanza

\* What is left to do is one or two updates.
LEMMA UnPendiente ==
  ASSUME NEW o
  PROVE  /\ <<o>> # <<>> /\ Len(<<o>>) = 1 /\ Head(<<o>>) = o /\ Tail(<<o>>) = <<>> /\ <<o>>[1] = o
         /\ DOMAIN <<o>> = {1}
OBVIOUS

LEMMA DosPendientes ==
  ASSUME NEW o, NEW p
  PROVE  /\ <<o, p>> # <<>> /\ Len(<<o, p>>) = 2 /\ Head(<<o, p>>) = o /\ Tail(<<o, p>>) = <<p>>
         /\ <<o, p>>[1] = o /\ <<o, p>>[2] = p /\ DOMAIN <<o, p>> = {1, 2}
OBVIOUS

\* A thread that has made its update goes on as one that had it to make.
LEMMA FormaSigue ==
  ASSUME NEW t \in Hilos, Forma(t), t.ops # <<>>
  PROVE  Forma(Sigue(t))
<1>1. t.fd \in Fd
  BY DEF Forma, Cierra, Leyendo
<1>2. CASE t.ops = <<Pone("setCPUs", t.fd)>> /\ t.pc = "sale"
  <2>1. Sigue(t) = Libre
    BY <1>2, UnPendiente DEF Sigue
  <2> QED BY <2>1, FormaDeLibre
<1>3. CASE t.ops = <<Pone("setConsolas", t.fd)>> /\ t.pc = "procesa"
  <2>1. Sigue(t) = [t EXCEPT !.ops = <<>>]
    BY <1>3, UnPendiente DEF Sigue
  <2> QED BY <1>3, <2>1 DEF Forma, Hilos
<1>4. ASSUME NEW s \in {"setCPUs", "setConsolas"}, t.pc = "sale",
             t.ops = <<Quita("master", t.fd), Quita(s, t.fd)>>
      PROVE  Forma(Sigue(t))
  <2>1. Sigue(t) = [t EXCEPT !.ops = <<Quita(s, t.fd)>>]
    BY <1>4, DosPendientes DEF Sigue
  <2> DEFINE u == [t EXCEPT !.ops = <<Quita(s, t.fd)>>]
  <2>2. u.pc = "sale" /\ u.fd = t.fd /\ u.ops = <<Quita(s, u.fd)>>
    BY <1>4 DEF Hilos
  <2> HIDE DEF u
  <2>3. Forma(u)
    BY <1>1, <2>2 DEF Forma
  <2> QED BY <2>1, <2>3 DEF u
<1>5. ASSUME NEW s \in {"setCPUs", "setConsolas"}, t.pc = "sale", t.ops = <<Quita(s, t.fd)>>
      PROVE  Forma(Sigue(t))
  <2>1. Sigue(t) = Libre
    BY <1>5, UnPendiente DEF Sigue
  <2> QED BY <2>1, FormaDeLibre
<1> QED BY <1>2, <1>3, <1>4, <1>5 DEF Forma

LEMMA FormaPrincipalSigue ==
  ASSUME NEW t \in Hilos, NEW m, FormaPrincipal(t, m), t.ops # <<>>
  PROVE  FormaPrincipal(Sigue(t), m) /\ Sigue(t).pc = t.pc
<1>1. ASSUME NEW f \in Fd, NEW s \in {"setCPUs", "setConsolas"}, t.pc = "bucle",
             t.ops = <<Pone("master", f), Pone(s, f)>>
      PROVE  FormaPrincipal(Sigue(t), m) /\ Sigue(t).pc = t.pc
  <2> DEFINE u == [t EXCEPT !.ops = <<Pone(s, f)>>]
  <2>1. Sigue(t) = u
    BY <1>1, DosPendientes DEF Sigue
  <2>2. u.pc = "bucle" /\ u.ops = <<Pone(s, f)>>
    BY <1>1 DEF Hilos
  <2> HIDE DEF u
  <2> QED BY <1>1, <2>1, <2>2 DEF FormaPrincipal
<1>2. ASSUME NEW o, t.ops = <<o>>, t.pc \in {"bucle"} \cup Lanza
      PROVE  FormaPrincipal(Sigue(t), m) /\ Sigue(t).pc = t.pc
  <2> DEFINE u == [t EXCEPT !.ops = <<>>]
  <2>1. Sigue(t) = u
    BY <1>2, UnPendiente DEF Sigue, Lanza
  <2>2. u.pc = t.pc /\ u.ops = <<>>
    BY DEF Hilos
  <2> HIDE DEF u
  <2> QED BY <1>2, <2>1, <2>2 DEF FormaPrincipal
<1> QED BY <1>1, <1>2 DEF FormaPrincipal, Lanza

LEMMA FormaActualizar ==
  ASSUME TipoCx, FormaInv, NEW h \in Hilo, Actualizar(h)
  PROVE  FormaInv'
<1> DEFINE t == hilo[h]
           u == Sigue(t)
<1>1. t \in Hilos /\ t.ops # <<>> /\ hilo' = [hilo EXCEPT ![h] = u] /\ UNCHANGED <<abierto, leido, pares>>
  BY DEF Actualizar, TipoCx
<1>2. Unicas'
  BY <1>1, UnicasIgual DEF FormaInv, pares
<1>3. CASE h \in Mensaje
  <2>1. Forma(u)
    BY <1>1, <1>3, FormaSigue DEF FormaInv
  <2> HIDE DEF u
  <2> QED BY <1>1, <1>2, <1>3, <2>1, FormaHilo
<1>4. CASE h = Interfaz
  <2>1. FormaPrincipal(u, Mira) /\ u.pc = t.pc
    BY <1>1, <1>4, FormaPrincipalSigue DEF FormaInv
  <2>2. Mira' = Mira
    BY <1>1 DEF Mira
  <2>3. u.pc \in Lanza => Mira' \in Fd
    BY <1>4, <2>1, <2>2 DEF FormaInv
  <2> HIDE DEF u
  <2> QED BY <1>1, <1>2, <1>4, <2>1, <2>2, <2>3, FormaMain
<1> QED BY <1>3, <1>4 DEF Hilo

LEMMA FormaPisar ==
  ASSUME TipoCx, FormaInv, NEW h \in Hilo, NEW g \in Hilo, Pisar(h, g)
  PROVE  FormaInv'
<1>1. /\ h # g /\ hilo[h] \in Hilos /\ hilo[h].ops # <<>> /\ hilo[g] \in Hilos /\ hilo[g].ops # <<>>
      /\ hilo' = [hilo EXCEPT ![h] = Sigue(@), ![g] = Sigue(@)] /\ UNCHANGED <<abierto, leido, pares>>
  BY DEF Pisar, TipoCx
<1>2. Unicas'
  BY <1>1, UnicasIgual DEF FormaInv, pares
<1>3. Mensaje \subseteq Hilo /\ Interfaz \in Hilo /\ Interfaz \notin Mensaje
  BY ConexionesAssumption DEF Hilo
<1>4. \A j \in Hilo : hilo'[j] = IF j \in {h, g} THEN Sigue(hilo[j]) ELSE hilo[j]
  BY <1>1 DEF TipoCx
<1>5. \A j \in Mensaje : Forma(hilo'[j])
  <2> TAKE j \in Mensaje
  <2>1. CASE j \in {h, g}
    <3>1. Forma(Sigue(hilo[j]))
      BY <1>1, <2>1, FormaSigue DEF FormaInv
    <3> QED BY <1>3, <1>4, <2>1, <3>1
  <2>2. CASE j \notin {h, g}
    BY <1>3, <1>4, <2>2 DEF FormaInv
  <2> QED BY <2>1, <2>2
<1>6. Mira' = Mira
  BY <1>1 DEF Mira
<1>7. FormaPrincipal(hilo'[Interfaz], Mira) /\ hilo'[Interfaz].pc = hilo[Interfaz].pc
  <2>1. CASE Interfaz \in {h, g}
    <3>1. FormaPrincipal(Sigue(hilo[Interfaz]), Mira) /\ Sigue(hilo[Interfaz]).pc = hilo[Interfaz].pc
      BY <1>1, <2>1, FormaPrincipalSigue DEF FormaInv
    <3> QED BY <1>3, <1>4, <2>1, <3>1
  <2>2. CASE Interfaz \notin {h, g}
    BY <1>3, <1>4, <2>2 DEF FormaInv
  <2> QED BY <2>1, <2>2
<1> QED BY <1>2, <1>5, <1>6, <1>7 DEF FormaInv

LEMMA EsLibre ==
  ASSUME TipoCx, Libres # {}
  PROVE  Min(Libres) \in Fd /\ abierto[Min(Libres)] = Nadie
<1>1. Libres \subseteq Nat
  BY DEF Libres, Fd
<1>2. Min(Libres) \in Libres
  BY <1>1, EsMin
<1> QED BY <1>2 DEF Libres

LEMMA FormaAceptar ==
  ASSUME TipoCx, FormaInv, Aceptar
  PROVE  FormaInv'
<1>0. Interfaz \in Hilo /\ hilo[Interfaz] \in Hilos
  BY DEF Hilo, TipoCx
<1>1. CASE Libres = {}
  <2>1. UNCHANGED <<abierto, hilo, porAceptar, par>> /\ hilo[Interfaz].pc = "bucle"
    BY <1>1 DEF Aceptar, En
  <2>2. Unicas'
    BY <2>1, UnicasIgual DEF FormaInv
  <2>3. FormaPrincipal(hilo[Interfaz], Mira')
    BY <2>1, FormaEnBucle DEF FormaInv, Lanza
  <2> QED BY <2>1, <2>2, <2>3 DEF FormaInv, Lanza
<1>2. CASE Libres # {}
  <2> DEFINE f == Min(Libres)
  <2>1. f \in Fd /\ abierto[f] = Nadie
    BY <1>2, EsLibre
  <2> HIDE DEF f
  <2>2. PICK x \in porAceptar :
          /\ abierto' = [abierto EXCEPT ![f] = x] /\ porAceptar' = porAceptar \ {x}
          /\ Cambiar(Interfaz, <<Pone("master", f), Pone(SetDe(x), f)>>, "bucle")
          /\ UNCHANGED par
    BY <1>2 DEF Aceptar, f
  <2>3. Unicas'
    <3>1. \A g \in Fd : abierto'[g] = IF g = f THEN x ELSE abierto[g]
      BY <2>1, <2>2 DEF TipoCx
    <3>2. x \in porAceptar /\ par[x].estado # "fuera" /\ \A g \in Fd : abierto[g] # x
      BY <2>2 DEF FormaInv, Unicas
    <3>3. \A g, j \in Fd : abierto'[g] = abierto'[j] /\ abierto'[g] # Nadie => g = j
      BY <3>1, <3>2 DEF FormaInv, Unicas
    <3>4. \A y \in porAceptar' : par'[y].estado # "fuera" /\ \A g \in Fd : abierto'[g] # y
      BY <2>2, <3>1 DEF FormaInv, Unicas
    <3>5. \A g \in Fd : abierto'[g] # Nadie => par'[abierto'[g]].estado # "fuera"
      BY <2>2, <3>1, <3>2 DEF FormaInv, Unicas
    <3> QED BY <3>3, <3>4, <3>5 DEF Unicas
  <2> DEFINE ops == <<Pone("master", f), Pone(SetDe(x), f)>>
             t   == [hilo[Interfaz] EXCEPT !.ops = ops, !.pc = "bucle"]
  <2>4. hilo' = [hilo EXCEPT ![Interfaz] = t]
    BY <2>2, <1>0 DEF Cambiar, TipoCx
  <2>5. t.pc = "bucle" /\ t.ops = ops
    BY <1>0 DEF Hilos
  <2>6. SetDe(x) \in {"setCPUs", "setConsolas"}
    BY DEF SetDe
  <2> HIDE DEF t
  <2>7. FormaPrincipal(t, Mira')
    BY <2>1, <2>5, <2>6 DEF FormaPrincipal
  <2> QED BY <2>3, <2>4, <2>5, <2>7, FormaMain DEF Lanza
<1> QED BY <1>1, <1>2

LEMMA FormaMirar ==
  ASSUME TipoCx, FormaInv, Mirar \/ MirarTambien
  PROVE  FormaInv'
<1>0. Interfaz \in Hilo /\ hilo[Interfaz] \in Hilos
  BY DEF Hilo, TipoCx
<1>1. UNCHANGED <<abierto, porAceptar, par>> /\ hilo[Interfaz].ops = <<>>
  BY DEF Mirar, MirarTambien, pares, En
<1>2. Unicas'
  BY <1>1, UnicasIgual DEF FormaInv
<1>3. ASSUME NEW s \in {"setCPUs", "setConsolas"}, NEW d \in Lanza, Mira \in fds[s], UNCHANGED leido,
             Cambiar(Interfaz, <<Quita(s, Mira)>>, d), d = "lanza_cpu" <=> s = "setCPUs"
      PROVE  FormaInv'
  <2> DEFINE m == Mira
             ops == <<Quita(s, m)>>
             t == [hilo[Interfaz] EXCEPT !.ops = ops, !.pc = d]
  <2>1. m \in Fd /\ Mira' = m
    BY <1>3 DEF TipoCx, Mira, Conjunto
  <2>2. hilo' = [hilo EXCEPT ![Interfaz] = t]
    BY <1>0, <1>3 DEF Cambiar, TipoCx
  <2>3. t.pc = d /\ t.ops = ops
    BY <1>0 DEF Hilos
  <2> HIDE DEF t, m
  <2>4. FormaPrincipal(t, m)
    BY <1>3, <2>3 DEF FormaPrincipal, Lanza
  <2> QED BY <1>2, <2>1, <2>2, <2>4, FormaMain
<1>4. ASSUME Ir(Interfaz, "bucle") PROVE FormaInv'
  <2> DEFINE t == [hilo[Interfaz] EXCEPT !.pc = "bucle"]
  <2>1. hilo' = [hilo EXCEPT ![Interfaz] = t] /\ t.pc = "bucle" /\ t.ops = <<>>
    BY <1>0, <1>1, <1>4 DEF Ir, TipoCx, Hilos
  <2> HIDE DEF t
  <2>2. FormaPrincipal(t, Mira')
    BY <2>1 DEF FormaPrincipal
  <2> QED BY <1>2, <2>1, <2>2, FormaMain DEF Lanza
<1> QED BY <1>3, <1>4 DEF Mirar, MirarTambien, MirarConsola, Lanza

LEMMA FormaLanzar ==
  ASSUME TipoCx, FormaInv, Lanzar
  PROVE  FormaInv'
<1>1. PICK h \in Mensaje, pc \in {"sigue", "bucle"}, d \in {"cpu", "consola"} :
        hilo' = [hilo EXCEPT ![Interfaz].pc = pc, ![h] = [Libre EXCEPT !.pc = d, !.fd = Mira]]
  BY DEF Lanzar
<1>2. Mira \in Fd /\ hilo[Interfaz].ops = <<>> /\ UNCHANGED <<abierto, pares>>
  BY DEF Lanzar, En, FormaInv, Lanza
<1>3. Interfaz \in Hilo /\ Mensaje \subseteq Hilo /\ Interfaz \notin Mensaje
  BY ConexionesAssumption DEF Hilo
<1> DEFINE t == [Libre EXCEPT !.pc = d, !.fd = Mira]
           u == [hilo[Interfaz] EXCEPT !.pc = pc]
<1>4. Forma(t)
  <2>1. t.pc = d /\ t.fd = Mira /\ t.ops = <<>>
    BY DEF Libre
  <2> HIDE DEF t
  <2> QED BY <1>2, <2>1 DEF Forma, Leyendo
<1>5. hilo' = [hilo EXCEPT ![Interfaz] = u, ![h] = t]
  BY <1>1, <1>3 DEF TipoCx
<1>6. u.pc = pc /\ u.ops = <<>>
  BY <1>2, <1>3 DEF TipoCx, Hilos
<1> HIDE DEF t, u
<1>7. hilo'[Interfaz] = u /\ \A g \in Mensaje : hilo'[g] = IF g = h THEN t ELSE hilo[g]
  BY <1>3, <1>5 DEF TipoCx
<1>8. FormaPrincipal(u, Mira') /\ u.pc \notin Lanza
  BY <1>6 DEF FormaPrincipal, Lanza
<1>9. Unicas'
  BY <1>2, UnicasIgual DEF FormaInv, pares
<1> QED BY <1>4, <1>7, <1>8, <1>9 DEF FormaInv

\* The thread that goes on with nothing to do to the sets.
LEMMA FormaIr ==
  ASSUME TipoCx, FormaInv, NEW h \in Mensaje, hilo[h].ops = <<>>,
         NEW t \in Hilos, t.ops = <<>>, t.fd \in Fd, t.pc \in {"procesa", "suma", "info"} \cup Leyendo,
         t.pc \in {"procesa", "suma", "info"} => t.de \in Conexion
  PROVE  Forma(t)
BY DEF Forma, Leyendo, Cierra

LEMMA FormaRecibir ==
  ASSUME TipoCx, FormaInv, NEW h \in Mensaje, Recibir(h)
  PROVE  FormaInv'
<1> DEFINE x == De(h)
           t == hilo[h]
           m == Head(entrada[x])
           u == [t EXCEPT !.de = x, !.msj = m, !.pc = IF @ = "cpu" THEN "sale" ELSE "procesa",
                          !.ops = Devuelve(t)]
<1>1. t \in Hilos /\ t.pc \in {"cpu", "consola"} /\ t.fd \in Fd /\ h \in Hilo
  BY DEF TipoCx, Recibir, En, FormaInv, Forma, Hilo, Leyendo
<1>2. x \in Conexion
  BY <1>1 DEF TipoCx, Recibir, De
<1>3. hilo' = [hilo EXCEPT ![h] = u]
  BY <1>1 DEF Recibir, TipoCx
<1> HIDE DEF x, m
<1>4. /\ u.fd = t.fd /\ u.de = x /\ u.pc = IF t.pc = "cpu" THEN "sale" ELSE "procesa"
      /\ u.ops = <<Pone(IF t.pc = "cpu" THEN "setCPUs" ELSE "setConsolas", t.fd)>>
  BY <1>1 DEF Hilos, Devuelve
<1> HIDE DEF u
<1>5. Forma(u)
  BY <1>1, <1>2, <1>4 DEF Forma
<1>6. UNCHANGED <<abierto, leido, porAceptar, par>>
  BY DEF Recibir
<1>7. Unicas'
  BY <1>6, UnicasIgual DEF FormaInv
<1> QED BY <1>3, <1>5, <1>6, <1>7, FormaHilo

\* A thread that goes to another place with its descriptor.
LEMMA FormaVa ==
  ASSUME TipoCx, FormaInv, NEW h \in Mensaje, hilo[h].ops = <<>>, hilo[h].pc # "libre",
         NEW d \in {"suma", "info"} \cup Cierra,
         d \in {"suma", "info"} => hilo[h].pc \in {"procesa", "suma"},
         NEW n, hilo' = [hilo EXCEPT ![h] = [@ EXCEPT !.pid = n, !.pc = d]] \/ Ir(h, d),
         UNCHANGED leido, Unicas'
  PROVE  FormaInv'
<1>1. hilo[h] \in Hilos /\ Forma(hilo[h]) /\ h \in Hilo
  BY DEF TipoCx, FormaInv, Hilo
<1>2. PICK t : hilo' = [hilo EXCEPT ![h] = t] /\ t.pc = d /\ t.ops = <<>> /\ t.fd = hilo[h].fd /\ t.de = hilo[h].de
  <2>1. CASE hilo' = [hilo EXCEPT ![h] = [@ EXCEPT !.pid = n, !.pc = d]]
    <3> DEFINE t == [hilo[h] EXCEPT !.pid = n, !.pc = d]
    <3>1. t.pc = d /\ t.ops = <<>> /\ t.fd = hilo[h].fd /\ t.de = hilo[h].de
      BY <1>1 DEF Hilos
    <3>2. hilo' = [hilo EXCEPT ![h] = t]
      BY <1>1, <2>1 DEF TipoCx
    <3> QED BY <3>1, <3>2
  <2>2. CASE Ir(h, d)
    <3> DEFINE t == [hilo[h] EXCEPT !.pc = d]
    <3>1. t.pc = d /\ t.ops = <<>> /\ t.fd = hilo[h].fd /\ t.de = hilo[h].de
      BY <1>1 DEF Hilos
    <3>2. hilo' = [hilo EXCEPT ![h] = t]
      BY <1>1, <2>2 DEF TipoCx, Ir
    <3> QED BY <3>1, <3>2
  <2> QED BY <2>1, <2>2
<1>3. Forma(t)
  BY <1>1, <1>2 DEF Forma, Leyendo, Cierra
<1> QED BY <1>2, <1>3, FormaHilo

LEMMA FormaLibera ==
  ASSUME TipoCx, FormaInv, NEW h \in Mensaje, hilo' = [hilo EXCEPT ![h] = Libre], UNCHANGED leido, Unicas'
  PROVE  FormaInv'
BY FormaDeLibre, FormaHilo

LEMMA FormaCae ==
  ASSUME FormaInv, UNCHANGED <<kernel, pares>>
  PROVE  FormaInv'
<1>1. UNCHANGED <<abierto, hilo, leido, porAceptar, par>>
  BY DEF kernel, pares
<1>2. Mira' = Mira
  BY <1>1 DEF Mira
<1>3. Unicas'
  BY <1>1 DEF FormaInv, Unicas
<1> QED BY <1>1, <1>2, <1>3 DEF FormaInv

LEMMA FormaCerrar ==
  ASSUME TipoCx, FormaInv, NEW h \in Mensaje, Cerrar(h)
  PROVE  FormaInv'
<1>1. CASE Cae
  BY <1>1, FormaCae DEF Cae
<1>2. CASE ~ Cae
  <2> DEFINE f == hilo[h].fd
             s == IF hilo[h].pc = "cierra_cpu" THEN "setCPUs" ELSE "setConsolas"
             ops == <<Quita("master", f), Quita(s, f)>>
             t == [hilo[h] EXCEPT !.ops = ops, !.pc = "sale"]
  <2>1. /\ abierto' = [abierto EXCEPT ![f] = Nadie] /\ Cambiar(h, ops, "sale")
        /\ UNCHANGED <<leido, porAceptar, par>> /\ hilo[h].pc \in Cierra
    BY <1>2 DEF Cerrar, En, Cierra, pares
  <2>2. f \in Fd /\ h \in Hilo /\ hilo[h] \in Hilos /\ s \in {"setCPUs", "setConsolas"}
    BY <2>1 DEF FormaInv, Forma, Cierra, Hilo, TipoCx
  <2> HIDE DEF s
  <2>3. hilo' = [hilo EXCEPT ![h] = t]
    BY <2>1, <2>2 DEF Cambiar, TipoCx
  <2>4. t.pc = "sale" /\ t.fd = f /\ t.ops = ops
    BY <2>2 DEF Hilos
  <2> HIDE DEF t, f
  <2>5. Forma(t)
    BY <2>2, <2>4 DEF Forma
  <2>6. Unicas'
    BY <2>1, <2>2, UnicasIgual DEF FormaInv, TipoCx
  <2> QED BY <2>1, <2>3, <2>5, <2>6, FormaHilo
<1> QED BY <1>1, <1>2

\* Verificar, Saludar, LeerPid, AsignarPid, CrearInfo and FinalizarPrograma.
LEMMA FormaMensaje ==
  ASSUME TipoCx, FormaInv, NEW h \in Mensaje,
         Verificar(h) \/ Saludar(h) \/ LeerPid(h) \/ AsignarPid(h) \/ CrearInfo(h) \/ FinalizarPrograma(h)
  PROVE  FormaInv'
<1>1. CASE Cae
  BY <1>1, FormaCae DEF Cae
<1>2. CASE ~ Cae
  <2>1. UNCHANGED <<abierto, leido, porAceptar>>
    BY <1>2 DEF Verificar, Saludar, LeerPid, AsignarPid, CrearInfo, FinalizarPrograma, pares
  <2>2. UNCHANGED par \/ Enviar(hilo[h].fd, <<"handshake">>)
    BY <1>2 DEF Verificar, Saludar, LeerPid, AsignarPid, CrearInfo, FinalizarPrograma, pares
  <2>3. \A x \in Conexion : par[x].estado # "fuera" => par'[x].estado # "fuera"
    <3>1. <<"handshake">>[1] # "pid"
      OBVIOUS
    <3> QED BY <2>2, <3>1, EnviarTipo
  <2>4. Unicas'
    BY <2>1, <2>3, UnicasIgual DEF FormaInv
  <2>5. CASE hilo' = [hilo EXCEPT ![h] = Libre]
    BY <2>1, <2>4, <2>5, FormaLibera
  <2>6. CASE Verificar(h)
    <3>1. hilo[h].ops = <<>> /\ hilo[h].pc # "libre" /\ \E d \in Cierra : Ir(h, d)
      BY <1>2, <2>6 DEF Verificar, En, Cierra
    <3> QED BY <2>1, <2>4, <3>1, FormaVa DEF Cierra
  <2>7. CASE LeerPid(h)
    <3>1. hilo[h].ops = <<>> /\ hilo[h].pc = "procesa"
          /\ hilo' = [hilo EXCEPT ![h] = [@ EXCEPT !.pid = max_pid, !.pc = "suma"]]
      BY <2>7 DEF LeerPid, En
    <3> QED BY <2>1, <2>4, <3>1, FormaVa
  <2>8. CASE AsignarPid(h)
    <3>1. hilo[h].ops = <<>> /\ hilo[h].pc = "suma" /\ Ir(h, "info")
      BY <2>8 DEF AsignarPid, En
    <3> QED BY <2>1, <2>4, <3>1, FormaVa
  <2> QED BY <1>2, <2>5, <2>6, <2>7, <2>8 DEF Saludar, CrearInfo, FinalizarPrograma
<1> QED BY <1>1, <1>2

LEMMA FormaPlanes ==
  ASSUME TipoCx, FormaInv, NEW k \in Consola, Admitir(k) \/ Terminar(k)
  PROVE  FormaInv'
<1>1. CASE Cae
  BY <1>1, FormaCae DEF Cae
<1>2. CASE ~ Cae
  <2> DEFINE n == programa[k].pid
  <2>0. n \in Nat
    BY DEF TipoCx, Programas
  <2> HIDE DEF n
  <2>1. /\ UNCHANGED <<kernel, porAceptar>>
        /\ \/ UNCHANGED <<par, entrada>>
           \/ Enviar(programa[k].fd, <<"fin_ejecucion">>)
           \/ \E d \in {"pid", "rechazado"} : Enviar(programa[k].fd, <<d, n>>)
    <3>1. CASE Admitir(k)
      <4>1. PICK d \in {<<"READY", "pid">>, <<"FINISH", "rechazado">>} :
              Enviar(programa[k].fd, <<d[2], n>>) /\ UNCHANGED <<kernel, porAceptar>>
        BY <1>2, <3>1 DEF Admitir, n
      <4>2. d[2] \in {"pid", "rechazado"}
        BY <4>1
      <4> QED BY <4>1, <4>2
    <3>2. CASE Terminar(k)
      BY <1>2, <3>2 DEF Terminar
    <3> QED BY <3>1, <3>2
  <2>2. \A x \in Conexion : par[x].estado # "fuera" => par'[x].estado # "fuera"
    <3>1. CASE Enviar(programa[k].fd, <<"fin_ejecucion">>)
      <4>1. <<"fin_ejecucion">>[1] # "pid"
        OBVIOUS
      <4> QED BY <3>1, <4>1, EnviarTipo
    <3>2. ASSUME NEW d, Enviar(programa[k].fd, <<d, n>>)
          PROVE  \A x \in Conexion : par[x].estado # "fuera" => par'[x].estado # "fuera"
      <4>1. <<d, n>>[2] \in Nat
        BY <2>0
      <4> QED BY <3>2, <4>1, EnviarTipo
    <3> QED BY <2>1, <3>1, <3>2
  <2>3. Unicas'
    BY <2>1, <2>2, UnicasIgual DEF FormaInv, kernel
  <2>4. Mira' = Mira
    BY <2>1 DEF Mira, kernel
  <2> QED BY <2>1, <2>3, <2>4 DEF FormaInv, kernel
<1> QED BY <1>1, <1>2

LEMMA FormaPares ==
  ASSUME TipoCx, FormaInv, NEW x \in Conexion,
         Conectar(x) \/ (x \in Cpu /\ Pedir(x)) \/ (x \in Consola /\ Detener(x)) \/ Desconectar(x)
  PROVE  FormaInv'
<1>1. UNCHANGED <<abierto, hilo, leido>>
  BY DEF Conectar, Pedir, Detener, Desconectar, kernel
<1>2. CASE Conectar(x)
  <2>1. par[x].estado = "fuera" /\ porAceptar' = porAceptar \cup {x} /\ par' = [par EXCEPT ![x].estado = "saluda"]
    BY <1>2 DEF Conectar
  <2>2. \A y \in Conexion : par'[y].estado = IF y = x THEN "saluda" ELSE par[y].estado
    BY <2>1 DEF TipoCx, Pares
  <2>3. \A f \in Fd : abierto[f] # x
    BY <2>1, ConexionesAssumption DEF FormaInv, Unicas, Conexion
  <2>4. Unicas'
    <3>1. \A y \in porAceptar' : y \in Conexion /\ par'[y].estado # "fuera" /\ \A f \in Fd : abierto'[f] # y
      BY <1>1, <2>1, <2>2, <2>3 DEF FormaInv, Unicas, TipoCx
    <3>2. \A f \in Fd : abierto'[f] # Nadie => par'[abierto'[f]].estado # "fuera"
      BY <1>1, <2>2 DEF FormaInv, Unicas, TipoCx
    <3> QED BY <1>1, <3>1, <3>2 DEF FormaInv, Unicas
  <2>5. Mira' = Mira
    BY <1>1 DEF Mira
  <2> QED BY <1>1, <2>4, <2>5 DEF FormaInv
<1>3. CASE ~ Conectar(x)
  <2>1. UNCHANGED porAceptar
    BY <1>3 DEF Pedir, Detener, Desconectar
  <2>2. \A y \in Conexion : par[y].estado # "fuera" => par'[y].estado # "fuera"
    <3>1. \/ UNCHANGED par \/ par' = [par EXCEPT ![x].estado = "terminado"]
          \/ par' = [par EXCEPT ![x].enviados = @ + 1]
      BY <1>3 DEF Pedir, Detener, Desconectar
    <3>2. CASE par' = [par EXCEPT ![x].estado = "terminado"]
      BY <3>2 DEF TipoCx, Pares
    <3>3. CASE par' = [par EXCEPT ![x].enviados = @ + 1]
      BY <3>3 DEF TipoCx, Pares
    <3> QED BY <3>1, <3>2, <3>3
  <2>3. Unicas'
    BY <1>1, <2>1, <2>2, UnicasIgual DEF FormaInv
  <2>4. Mira' = Mira
    BY <1>1 DEF Mira
  <2> QED BY <1>1, <2>3, <2>4 DEF FormaInv
<1> QED BY <1>2, <1>3

LEMMA FormaPaso ==
  ASSUME TipoCx, FormaInv, [Next]_vars
  PROVE  FormaInv'
<1>1. CASE Principal
  <2>1. CASE Seleccionar
    <3>1. CASE Cae
      BY <3>1, FormaCae DEF Cae
    <3>2. CASE ~ Cae
      <4>1. UNCHANGED <<abierto, hilo, pares>> /\ hilo[Interfaz].pc = "bucle"
        BY <2>1, <3>2 DEF Seleccionar, En
      <4>2. FormaPrincipal(hilo[Interfaz], Mira')
        BY <4>1, FormaEnBucle DEF FormaInv, Lanza
      <4>3. Unicas'
        BY <4>1, UnicasIgual DEF FormaInv, pares
      <4> QED BY <4>1, <4>2, <4>3 DEF FormaInv, Lanza
    <3> QED BY <3>1, <3>2
  <2> QED BY <1>1, <2>1, FormaAceptar, FormaMirar, FormaLanzar DEF Principal
<1>2. ASSUME NEW h \in Mensaje, HiloMensaje(h) PROVE FormaInv'
  BY <1>2, FormaRecibir, FormaCerrar, FormaMensaje DEF HiloMensaje
<1>3. CASE \E h \in Hilo : Actualizar(h)
  BY <1>3, FormaActualizar
<1>4. CASE \E h, g \in Hilo : Pisar(h, g)
  BY <1>4, FormaPisar
<1>5. ASSUME NEW k \in Consola, Admitir(k) \/ Terminar(k) \/ Detener(k) PROVE FormaInv'
  BY <1>5, FormaPlanes, FormaPares DEF Conexion
<1>6. ASSUME NEW c \in Cpu, Pedir(c) PROVE FormaInv'
  BY <1>6, FormaPares DEF Conexion
<1>7. ASSUME NEW x \in Conexion, Conectar(x) \/ Desconectar(x) PROVE FormaInv'
  BY <1>7, FormaPares
<1>8. CASE UNCHANGED vars
  BY <1>8, FormaCae DEF vars
<1> QED BY <1>1, <1>2, <1>3, <1>4, <1>5, <1>6, <1>7, <1>8 DEF Next

-----------------------------------------------------------------------------
\* Where each descriptor is.

LEMMA Pedidos ==
  ASSUME NEW t, NEW s, NEW f
  PROVE  /\ t.ops = <<>> => ~ Pide(t, s, f)
         /\ \A o : t.ops = <<o>> => (Pide(t, s, f) <=> o = Pone(s, f))
         /\ \A o, p : t.ops = <<o, p>> => (Pide(t, s, f) <=> o = Pone(s, f) \/ p = Pone(s, f))
<1>1. t.ops = <<>> => ~ Pide(t, s, f)
  BY DEF Pide
<1>2. ASSUME NEW o, t.ops = <<o>> PROVE Pide(t, s, f) <=> o = Pone(s, f)
  BY <1>2, UnPendiente DEF Pide
<1>3. ASSUME NEW o, NEW p, t.ops = <<o, p>>
      PROVE  Pide(t, s, f) <=> o = Pone(s, f) \/ p = Pone(s, f)
  BY <1>3, DosPendientes DEF Pide
<1> QED BY <1>1, <1>2, <1>3

LEMMA Ponen ==
  ASSUME NEW s, NEW f, NEW r, NEW g
  PROVE  /\ Pone(s, f) = Pone(r, g) <=> s = r /\ f = g
         /\ Quita(s, f) # Pone(r, g)
         /\ Pone(s, f).pone /\ ~ Quita(s, f).pone
         /\ Pone(s, f).fd = f /\ Pone(s, f).en = s /\ Quita(s, f).fd = f /\ Quita(s, f).en = s
BY DEF Pone, Quita

\* A thread that goes from t to u is with f, which has x behind it, as it was.
MismoHilo(t, u, x, f) ==
  /\ Tiene(u, f) <=> Tiene(t, f)
  /\ Limpia(u, f) => Limpia(t, f)
  /\ Tiene(t, f) => SuSet(u) = SuSet(t) /\ (u.ops # <<>> => u.de = x)

LEMMA Lejos ==
  ASSUME NEW f, NEW t, NEW u, NEW x, t.fd # f, u.fd # f
  PROVE  MismoHilo(t, u, x, f)
BY DEF MismoHilo, Tiene, Limpia

\* A step that does nothing to f.
LEMMA Aparte ==
  ASSUME TipoCx, NEW f \in Fd, Bien(f), abierto'[f] = abierto[f],
         \A s \in Conjunto : f \in fds'[s] <=> f \in fds[s],
         \A s \in Conjunto : Pide(hilo'[Interfaz], s, f) <=> Pide(hilo[Interfaz], s, f),
         Lanzando(f)' <=> Lanzando(f), Lanzando(f) => hilo'[Interfaz] = hilo[Interfaz],
         \A h \in Mensaje : MismoHilo(hilo[h], hilo'[h], abierto[f], f),
         reusado => reusado'
  PROVE  Bien(f)'
<1>0. {"setCPUs", "setConsolas", "master"} = Conjunto
  BY DEF Conjunto
<1>1. (EnSets(f)' <=> EnSets(f)) /\ (Poniendo(f)' <=> Poniendo(f))
  BY <1>0 DEF EnSets, Poniendo, Pendiente
<1>2. \A h \in Mensaje : (Tiene(hilo'[h], f) <=> Tiene(hilo[h], f)) /\ (Limpia(hilo'[h], f) => Limpia(hilo[h], f))
  BY DEF MismoHilo
<1>3. Suyo(f)'
  <2>1. \A s \in {"setCPUs", "setConsolas"} : f \in fds'[s] \/ Pendiente(s, f)' => abierto'[f] \in Clase(s)
    BY <1>0 DEF Bien, Suyo, Pendiente
  <2>2. Lanzando(f)' => abierto'[f] \in IF hilo'[Interfaz].pc = "lanza_cpu" THEN Cpu ELSE Consola
    BY DEF Bien, Suyo
  <2>3. \A h \in Mensaje : Tiene(hilo'[h], f) =>
          abierto'[f] \in Clase(SuSet(hilo'[h])) /\ (hilo'[h].ops # <<>> => hilo'[h].de = abierto'[f])
    BY DEF Bien, Suyo, MismoHilo
  <2> QED BY <2>1, <2>2, <2>3 DEF Suyo, Clase
<1>4. UnLugarDe(f)'
  <2>1. \A h, g \in Mensaje : Tiene(hilo'[h], f) /\ Tiene(hilo'[g], f) => h = g
    BY <1>2 DEF Bien, UnLugarDe
  <2>2. \A h \in Mensaje : Tiene(hilo'[h], f) => ~ EnSets(f)' /\ ~ Lanzando(f)' /\ ~ Poniendo(f)'
    BY <1>1, <1>2 DEF Bien, UnLugarDe
  <2>3. Lanzando(f)' /\ EnSets(f)' => hilo'[Interfaz].ops # <<>>
    BY <1>1 DEF Bien, UnLugarDe
  <2> QED BY <2>1, <2>2, <2>3 DEF UnLugarDe
<1>5. ASSUME ~ reusado' PROVE Limpio(f)'
  BY <1>2, <1>5 DEF Bien, Limpio
<1>6. ASSUME ~ reusado', abierto'[f] # Nadie PROVE Atendida(f)'
  <2>1. Atendida(f)
    BY <1>6 DEF Bien
  <2>2. f \in fds'["master"] \/ Pendiente("master", f)'
    BY <1>0, <2>1 DEF Atendida, Pendiente
  <2>3. EnSets(f)' \/ Lanzando(f)' \/ Poniendo(f)' \/ \E h \in Mensaje : Tiene(hilo'[h], f)
    BY <1>1, <1>2, <2>1 DEF Atendida
  <2> QED BY <2>2, <2>3 DEF Atendida
<1> QED BY <1>3, <1>4, <1>5, <1>6 DEF Bien

\* What a step of the thread of a message leaves alone.
LEMMA OtrosHilos ==
  ASSUME TipoCx, NEW h \in Mensaje, NEW u, hilo' = [hilo EXCEPT ![h] = u], UNCHANGED leido
  PROVE  /\ hilo'[Interfaz] = hilo[Interfaz]
         /\ \A g \in Mensaje : hilo'[g] = IF g = h THEN u ELSE hilo[g]
         /\ Mira' = Mira
         /\ \A f : Lanzando(f)' <=> Lanzando(f)
<1>1. h \in Hilo /\ Mensaje \subseteq Hilo /\ Interfaz \in Hilo /\ h # Interfaz
  BY ConexionesAssumption DEF Hilo
<1>2. hilo'[Interfaz] = hilo[Interfaz] /\ \A g \in Mensaje : hilo'[g] = IF g = h THEN u ELSE hilo[g]
  BY <1>1 DEF TipoCx
<1>3. Mira' = Mira
  BY DEF Mira
<1> QED BY <1>2, <1>3 DEF Lanzando

LEMMA AparteHilo ==
  ASSUME TipoCx, NEW h \in Mensaje, NEW u, hilo' = [hilo EXCEPT ![h] = u], UNCHANGED leido,
         NEW f \in Fd, Bien(f), MismoHilo(hilo[h], u, abierto[f], f), abierto'[f] = abierto[f],
         \A s \in Conjunto : f \in fds'[s] <=> f \in fds[s], reusado => reusado'
  PROVE  Bien(f)'
<1>1. /\ hilo'[Interfaz] = hilo[Interfaz]
      /\ \A g \in Mensaje : hilo'[g] = IF g = h THEN u ELSE hilo[g]
      /\ Lanzando(f)' <=> Lanzando(f)
  BY OtrosHilos
<1>2. \A g \in Mensaje : MismoHilo(hilo[g], hilo[g], abierto[f], f)
  BY DEF Bien, Suyo, MismoHilo
<1>3. \A g \in Mensaje : MismoHilo(hilo[g], hilo'[g], abierto[f], f)
  BY <1>1, <1>2
<1> QED BY <1>1, <1>3, Aparte

LEMMA BienRecibir ==
  ASSUME TipoCx, FormaInv, NEW h \in Mensaje, Recibir(h), NEW f \in Fd, Bien(f)
  PROVE  Bien(f)'
<1> DEFINE x == De(h)
           t == hilo[h]
           m == Head(entrada[x])
           u == [t EXCEPT !.de = x, !.msj = m, !.pc = IF @ = "cpu" THEN "sale" ELSE "procesa",
                          !.ops = Devuelve(t)]
<1>1. t \in Hilos /\ t.pc \in {"cpu", "consola"} /\ t.fd \in Fd /\ h \in Hilo /\ t.ops = <<>>
  BY DEF TipoCx, Recibir, En, FormaInv, Forma, Hilo, Leyendo
<1>3. hilo' = [hilo EXCEPT ![h] = u] /\ x = abierto[t.fd]
  BY <1>1 DEF Recibir, TipoCx, De
<1> HIDE DEF x, m
<1>4. /\ u.fd = t.fd /\ u.de = x /\ u.pc = IF t.pc = "cpu" THEN "sale" ELSE "procesa"
      /\ u.ops = <<Pone(IF t.pc = "cpu" THEN "setCPUs" ELSE "setConsolas", t.fd)>>
  BY <1>1 DEF Hilos, Devuelve
<1> HIDE DEF u
<1>5. u.ops # <<>> /\ u.ops[1].pone
  BY <1>4, UnPendiente, Ponen
<1>6. UNCHANGED <<abierto, leido, fds, reusado>>
  BY DEF Recibir
<1>7. MismoHilo(t, u, abierto[f], f)
  <2>1. CASE t.fd # f
    BY <1>4, <2>1, Lejos
  <2>2. CASE t.fd = f
    <3>1. Tiene(t, f) /\ Tiene(u, f) /\ ~ Limpia(u, f)
      BY <1>1, <1>4, <1>5, <2>2 DEF Tiene, Limpia, Leyendo
    <3>2. SuSet(u) = SuSet(t) /\ u.de = abierto[f]
      BY <1>1, <1>3, <1>4, <2>2 DEF SuSet
    <3> QED BY <3>1, <3>2 DEF MismoHilo
  <2> QED BY <2>1, <2>2
<1> QED BY <1>3, <1>6, <1>7, AparteHilo

\* The thread that goes on with nothing to do to the sets, now or then, has the
\* same descriptor or none.
LEMMA MismoVa ==
  ASSUME NEW t, NEW u, NEW x, NEW f \in Fd, t.ops = <<>>, u.ops = <<>>,
         \/ t.pc \notin Leyendo /\ u.pc \notin Leyendo
         \/ u.fd = t.fd /\ t.pc = "cpu" /\ u.pc = "cierra_cpu"
         \/ u.fd = t.fd /\ t.pc = "consola" /\ u.pc = "cierra_consola"
  PROVE  MismoHilo(t, u, x, f)
BY DEF MismoHilo, Tiene, Limpia, SuSet, Leyendo, Cierra

LEMMA BienQuieto ==
  ASSUME TipoCx, NEW f \in Fd, Bien(f), UNCHANGED <<abierto, fds, hilo, leido, reusado>>
  PROVE  Bien(f)'
<1>1. \A h \in Mensaje : MismoHilo(hilo[h], hilo'[h], abierto[f], f)
  BY DEF Bien, Suyo, MismoHilo
<1>2. Mira' = Mira
  BY DEF Mira
<1>3. Lanzando(f)' <=> Lanzando(f)
  BY <1>2 DEF Lanzando
<1> QED BY <1>1, <1>3, Aparte

LEMMA BienMensaje ==
  ASSUME TipoCx, FormaInv, NEW h \in Mensaje, NEW f \in Fd, Bien(f),
         Verificar(h) \/ Saludar(h) \/ LeerPid(h) \/ AsignarPid(h) \/ CrearInfo(h) \/ FinalizarPrograma(h)
  PROVE  Bien(f)'
<1>1. CASE Cae
  BY <1>1, BienQuieto DEF Cae, kernel
<1>2. CASE ~ Cae
  <2>1. UNCHANGED <<abierto, fds, leido, reusado>>
    BY <1>2 DEF Verificar, Saludar, LeerPid, AsignarPid, CrearInfo, FinalizarPrograma
  <2>2. hilo[h].ops = <<>> /\ hilo[h] \in Hilos /\ h \in Hilo
    BY DEF Verificar, Saludar, LeerPid, AsignarPid, CrearInfo, FinalizarPrograma, En, TipoCx, Hilo
  <2>3. PICK u : hilo' = [hilo EXCEPT ![h] = u] /\ MismoHilo(hilo[h], u, abierto[f], f)
    <3>1. CASE hilo' = [hilo EXCEPT ![h] = Libre] /\ hilo[h].pc \in {"procesa", "info"}
      <4>1. Libre.ops = <<>> /\ Libre.pc \notin Leyendo
        BY DEF Libre, Leyendo, Cierra
      <4>2. hilo[h].pc \notin Leyendo
        BY <3>1 DEF Leyendo, Cierra
      <4>3. MismoHilo(hilo[h], Libre, abierto[f], f)
        BY <2>2, <4>1, <4>2, MismoVa
      <4> QED BY <3>1, <4>3
    <3>2. CASE Verificar(h)
      <4>1. PICK d : /\ Ir(h, d)
                     /\ \/ hilo[h].pc = "cpu" /\ d = "cierra_cpu"
                        \/ hilo[h].pc = "consola" /\ d = "cierra_consola"
        BY <1>2, <3>2 DEF Verificar, En
      <4> DEFINE u == [hilo[h] EXCEPT !.pc = d]
      <4>2. hilo' = [hilo EXCEPT ![h] = u]
        BY <2>2, <4>1 DEF Ir, TipoCx
      <4>3. u.pc = d /\ u.ops = <<>> /\ u.fd = hilo[h].fd
        BY <2>2 DEF Hilos
      <4> HIDE DEF u
      <4>4. MismoHilo(hilo[h], u, abierto[f], f)
        BY <2>2, <4>1, <4>3, MismoVa
      <4> QED BY <4>2, <4>4
    <3>3. CASE LeerPid(h)
      <4> DEFINE u == [hilo[h] EXCEPT !.pid = max_pid, !.pc = "suma"]
      <4>1. hilo' = [hilo EXCEPT ![h] = u]
        BY <2>2, <3>3 DEF LeerPid, TipoCx
      <4>2. u.pc = "suma" /\ u.ops = <<>> /\ hilo[h].pc = "procesa"
        BY <2>2, <3>3 DEF Hilos, LeerPid, En
      <4> HIDE DEF u
      <4>3. u.pc \notin Leyendo /\ hilo[h].pc \notin Leyendo
        BY <4>2 DEF Leyendo, Cierra
      <4>4. MismoHilo(hilo[h], u, abierto[f], f)
        BY <2>2, <4>2, <4>3, MismoVa
      <4> QED BY <4>1, <4>4
    <3>4. CASE AsignarPid(h)
      <4> DEFINE u == [hilo[h] EXCEPT !.pc = "info"]
      <4>1. hilo' = [hilo EXCEPT ![h] = u]
        BY <2>2, <3>4 DEF AsignarPid, TipoCx, Ir
      <4>2. u.pc = "info" /\ u.ops = <<>> /\ hilo[h].pc = "suma"
        BY <2>2, <3>4 DEF Hilos, AsignarPid, En
      <4> HIDE DEF u
      <4>3. u.pc \notin Leyendo /\ hilo[h].pc \notin Leyendo
        BY <4>2 DEF Leyendo, Cierra
      <4>4. MismoHilo(hilo[h], u, abierto[f], f)
        BY <2>2, <4>2, <4>3, MismoVa
      <4> QED BY <4>1, <4>4
    <3>5. CASE Saludar(h) \/ CrearInfo(h) \/ FinalizarPrograma(h)
      <4>1. hilo' = [hilo EXCEPT ![h] = Libre] /\ hilo[h].pc \in {"procesa", "info"}
        BY <1>2, <3>5 DEF Saludar, CrearInfo, FinalizarPrograma, En
      <4> QED BY <3>1, <4>1
    <3> QED BY <3>2, <3>3, <3>4, <3>5
  <2> QED BY <2>1, <2>3, AparteHilo
<1> QED BY <1>1, <1>2

\* A closed descriptor that nobody has.
LEMMA EnNingunLado ==
  ASSUME NEW f \in Fd, \A h \in Mensaje : ~ Tiene(hilo'[h], f),
         ~ EnSets(f)', ~ Lanzando(f)', ~ Poniendo(f)', abierto'[f] = Nadie
  PROVE  Bien(f)'
<1>1. Suyo(f)'
  BY DEF Suyo, EnSets, Poniendo
<1>2. UnLugarDe(f)'
  BY DEF UnLugarDe
<1>3. Limpio(f)'
  BY DEF Limpio
<1> QED BY <1>1, <1>2, <1>3 DEF Bien

LEMMA BienCerrar ==
  ASSUME TipoCx, FormaInv, NEW h \in Mensaje, Cerrar(h), NEW f \in Fd, Bien(f)
  PROVE  Bien(f)'
<1>1. CASE Cae
  BY <1>1, BienQuieto DEF Cae, kernel
<1>2. CASE ~ Cae
  <2> DEFINE t == hilo[h]
             d == hilo[h].fd
             s == IF hilo[h].pc = "cierra_cpu" THEN "setCPUs" ELSE "setConsolas"
             ops == <<Quita("master", d), Quita(s, d)>>
             u == [hilo[h] EXCEPT !.ops = ops, !.pc = "sale"]
  <2>1. /\ abierto' = [abierto EXCEPT ![d] = Nadie] /\ Cambiar(h, ops, "sale")
        /\ UNCHANGED <<fds, leido, reusado>> /\ t.pc \in Cierra
    BY <1>2 DEF Cerrar, En, Cierra
  <2>2. d \in Fd /\ h \in Hilo /\ t \in Hilos
    BY <2>1 DEF FormaInv, Forma, Cierra, Hilo, TipoCx
  <2> HIDE DEF s
  <2>3. hilo' = [hilo EXCEPT ![h] = u]
    BY <2>1, <2>2 DEF Cambiar, TipoCx
  <2>4. u.pc = "sale" /\ u.fd = d /\ u.ops = ops /\ t.fd = d
    BY <2>2 DEF Hilos
  <2>5. ~ ops[1].pone
    BY DosPendientes, Ponen
  <2> HIDE DEF u, ops, d
  <2>6. CASE f # d
    <3>1. MismoHilo(t, u, abierto[f], f)
      BY <2>4, <2>6, Lejos
    <3>2. abierto'[f] = abierto[f]
      BY <2>1, <2>6 DEF TipoCx
    <3> QED BY <2>1, <2>3, <3>1, <3>2, AparteHilo
  <2>7. CASE f = d
    <3>1. Tiene(t, f)
      BY <2>1, <2>4, <2>7 DEF Tiene, Leyendo
    <3>2. ~ Tiene(u, f)
      BY <2>4, <2>5 DEF Tiene, Leyendo, Cierra
    <3>3. /\ hilo'[Interfaz] = hilo[Interfaz]
          /\ \A g \in Mensaje : hilo'[g] = IF g = h THEN u ELSE hilo[g]
          /\ Lanzando(f)' <=> Lanzando(f)
      BY <2>1, <2>3, OtrosHilos
    <3>4. \A g \in Mensaje : ~ Tiene(hilo'[g], f)
      BY <3>1, <3>2, <3>3 DEF Bien, UnLugarDe
    <3>5. ~ EnSets(f) /\ ~ Lanzando(f) /\ ~ Poniendo(f)
      BY <3>1 DEF Bien, UnLugarDe
    <3>6. ~ EnSets(f)' /\ ~ Poniendo(f)'
      BY <2>1, <3>3, <3>5 DEF EnSets, Poniendo, Pendiente
    <3>7. abierto'[f] = Nadie
      BY <2>1, <2>2, <2>7 DEF TipoCx
    <3> QED BY <3>3, <3>4, <3>5, <3>6, <3>7, EnNingunLado
  <2> QED BY <2>6, <2>7
<1> QED BY <1>1, <1>2

\* The thread that has f puts it back in its set.
LEMMA BienPone ==
  ASSUME TipoCx, NEW h \in Mensaje, NEW u, hilo' = [hilo EXCEPT ![h] = u],
         NEW f \in Fd, Bien(f), NEW s \in {"setCPUs", "setConsolas"},
         Tiene(hilo[h], f), SuSet(hilo[h]) = s, ~ Tiene(u, f), ~ Limpia(u, f),
         fds' = [fds EXCEPT ![s] = @ \cup {f}], UNCHANGED <<abierto, leido, reusado>>
  PROVE  Bien(f)'
<1>1. /\ hilo'[Interfaz] = hilo[Interfaz]
      /\ \A g \in Mensaje : hilo'[g] = IF g = h THEN u ELSE hilo[g]
      /\ Lanzando(f)' <=> Lanzando(f)
  BY OtrosHilos
<1>2. \A g \in Mensaje : ~ Tiene(hilo'[g], f)
  BY <1>1 DEF Bien, UnLugarDe
<1>3. ~ EnSets(f) /\ ~ Lanzando(f) /\ ~ Poniendo(f) /\ abierto[f] \in Clase(s)
  BY DEF Bien, UnLugarDe, Suyo
<1>4. \A r \in Conjunto : f \in fds'[r] <=> r = s \/ f \in fds[r]
  BY DEF TipoCx, Conjunto
<1>5. (Poniendo(f)' <=> Poniendo(f)) /\ \A r : Pendiente(r, f)' <=> Pendiente(r, f)
  BY <1>1 DEF Poniendo, Pendiente
<1>6. Suyo(f)'
  <2>1. \A r \in {"setCPUs", "setConsolas"} : f \in fds'[r] \/ Pendiente(r, f)' => r = s
    BY <1>3, <1>4, <1>5 DEF EnSets, Poniendo, Conjunto
  <2> QED BY <1>1, <1>2, <1>3, <2>1 DEF Suyo, Clase
<1>7. UnLugarDe(f)'
  BY <1>1, <1>2, <1>3 DEF UnLugarDe
<1>8. ASSUME ~ reusado PROVE Limpio(f)'
  BY <1>1, <1>8 DEF Bien, Limpio
<1>9. ASSUME ~ reusado, abierto[f] # Nadie PROVE Atendida(f)'
  <2>1. f \in fds["master"] \/ Pendiente("master", f)
    BY <1>9 DEF Bien, Atendida
  <2>2. f \in fds'["master"] \/ Pendiente("master", f)'
    BY <1>4, <1>5, <2>1 DEF Conjunto
  <2>3. EnSets(f)'
    BY <1>4 DEF EnSets, Conjunto
  <2> QED BY <2>2, <2>3 DEF Atendida
<1> QED BY <1>6, <1>7, <1>8, <1>9 DEF Bien

\* The thread that closed f takes it off a set.
LEMMA BienQuita ==
  ASSUME TipoCx, NEW h \in Mensaje, NEW u, hilo' = [hilo EXCEPT ![h] = u],
         NEW f \in Fd, Bien(f), NEW s \in Conjunto, Limpia(hilo[h], f), ~ Tiene(u, f),
         fds' = [fds EXCEPT ![s] = @ \ {f}], UNCHANGED <<abierto, leido, reusado>>
  PROVE  Bien(f)'
<1>1. /\ hilo'[Interfaz] = hilo[Interfaz]
      /\ \A g \in Mensaje : hilo'[g] = IF g = h THEN u ELSE hilo[g]
      /\ Lanzando(f)' <=> Lanzando(f)
  BY OtrosHilos
<1>2. \A g \in Mensaje : Tiene(hilo'[g], f) => hilo'[g] = hilo[g] /\ Tiene(hilo[g], f)
  BY <1>1
<1>3. \A r \in Conjunto : f \in fds'[r] => f \in fds[r]
  BY DEF TipoCx
<1>4. (EnSets(f)' => EnSets(f)) /\ (Poniendo(f)' <=> Poniendo(f)) /\ \A r : Pendiente(r, f)' <=> Pendiente(r, f)
  BY <1>1, <1>3 DEF EnSets, Poniendo, Pendiente, Conjunto
<1>5. Suyo(f)'
  <2>1. \A r \in {"setCPUs", "setConsolas"} : f \in fds'[r] \/ Pendiente(r, f)' => abierto[f] \in Clase(r)
    BY <1>3, <1>4 DEF Bien, Suyo, Conjunto
  <2>2. Lanzando(f)' => abierto[f] \in IF hilo'[Interfaz].pc = "lanza_cpu" THEN Cpu ELSE Consola
    BY <1>1 DEF Bien, Suyo
  <2>3. \A g \in Mensaje : Tiene(hilo'[g], f) =>
          abierto[f] \in Clase(SuSet(hilo'[g])) /\ (hilo'[g].ops # <<>> => hilo'[g].de = abierto[f])
    BY <1>2 DEF Bien, Suyo
  <2> QED BY <2>1, <2>2, <2>3 DEF Suyo, Clase
<1>6. UnLugarDe(f)'
  BY <1>1, <1>2, <1>4 DEF Bien, UnLugarDe
<1>7. ASSUME ~ reusado PROVE abierto[f] = Nadie
  BY <1>7 DEF Bien, Limpio
<1>8. ASSUME ~ reusado PROVE Limpio(f)'
  BY <1>7, <1>8 DEF Limpio
<1> QED BY <1>5, <1>6, <1>7, <1>8 DEF Bien

LEMMA FormaCasos ==
  ASSUME NEW t, Forma(t), t.ops # <<>>
  PROVE  \/ t.ops = <<Pone("setCPUs", t.fd)>> /\ t.pc = "sale"
         \/ t.ops = <<Pone("setConsolas", t.fd)>> /\ t.pc = "procesa"
         \/ \E s \in {"setCPUs", "setConsolas"} : t.pc = "sale" /\ t.ops = <<Quita("master", t.fd), Quita(s, t.fd)>>
         \/ \E s \in {"setCPUs", "setConsolas"} : t.pc = "sale" /\ t.ops = <<Quita(s, t.fd)>>
<1>1. CASE t.ops = <<Pone("setCPUs", t.fd)>> /\ t.pc = "sale"
  BY <1>1
<1>2. CASE t.ops = <<Pone("setConsolas", t.fd)>> /\ t.pc = "procesa"
  BY <1>2
<1>3. ASSUME NEW s \in {"setCPUs", "setConsolas"}, t.pc = "sale",
             t.ops = <<Quita("master", t.fd), Quita(s, t.fd)>> \/ t.ops = <<Quita(s, t.fd)>>
      PROVE  \/ \E r \in {"setCPUs", "setConsolas"} : t.pc = "sale" /\ t.ops = <<Quita("master", t.fd), Quita(r, t.fd)>>
             \/ \E r \in {"setCPUs", "setConsolas"} : t.pc = "sale" /\ t.ops = <<Quita(r, t.fd)>>
  BY <1>3
<1> QED BY <1>1, <1>2, <1>3 DEF Forma

LEMMA BienActualizarHilo ==
  ASSUME TipoCx, FormaInv, NEW h \in Mensaje, Actualizar(h), NEW f \in Fd, Bien(f)
  PROVE  Bien(f)'
<1> DEFINE t == hilo[h]
           u == Sigue(t)
           o == Head(t.ops)
<1>1. /\ t \in Hilos /\ t.ops # <<>> /\ Forma(t) /\ hilo' = [hilo EXCEPT ![h] = u]
      /\ fds' = [fds EXCEPT ![o.en] = Hecho(o, @)] /\ UNCHANGED <<abierto, leido, reusado>>
  BY DEF Actualizar, TipoCx, FormaInv, Hilo
<1>2. ASSUME NEW s \in Conjunto, o = Pone(s, t.fd) \/ o = Quita(s, t.fd)
      PROVE  /\ fds' = [fds EXCEPT ![s] = IF o.pone THEN @ \cup {t.fd} ELSE @ \ {t.fd}]
             /\ f # t.fd => \A r \in Conjunto : f \in fds'[r] <=> f \in fds[r]
  <2>1. o.en = s /\ o.fd = t.fd
    BY <1>2, Ponen
  <2>2. fds' = [fds EXCEPT ![s] = IF o.pone THEN @ \cup {t.fd} ELSE @ \ {t.fd}]
    BY <1>1, <2>1 DEF Hecho
  <2> QED BY <2>2 DEF TipoCx
<1>3. u.fd \in {t.fd, 0} /\ t.fd \in Fd
  BY <1>1 DEF Sigue, Libre, Hilos, Forma, Leyendo, Cierra
<1>4. ASSUME NEW s \in Conjunto, o = Pone(s, t.fd) \/ o = Quita(s, t.fd), f # t.fd
      PROVE  Bien(f)'
  <2>1. MismoHilo(t, u, abierto[f], f)
    BY <1>3, <1>4, Lejos DEF Fd
  <2>2. \A r \in Conjunto : f \in fds'[r] <=> f \in fds[r]
    BY <1>2, <1>4
  <2> HIDE DEF u
  <2> QED BY <1>1, <2>1, <2>2, AparteHilo
<1>5. ASSUME NEW s \in {"setCPUs", "setConsolas"}, t.ops = <<Pone(s, t.fd)>>,
             (s = "setCPUs" /\ t.pc = "sale") \/ (s = "setConsolas" /\ t.pc = "procesa")
      PROVE  Bien(f)'
  <2>1. o = Pone(s, t.fd) /\ o.pone /\ s \in Conjunto /\ t.ops[1].pone
    BY <1>5, UnPendiente, Ponen DEF Conjunto
  <2>2. CASE f = t.fd
    <3>1. u = Libre \/ (u = [t EXCEPT !.ops = <<>>] /\ t.pc = "procesa")
      BY <1>5, UnPendiente DEF Sigue
    <3>2. u.pc \in {"libre", "procesa"} /\ u.ops = <<>>
      BY <1>1, <3>1 DEF Libre, Hilos
    <3>3. ~ Tiene(u, f) /\ ~ Limpia(u, f)
      BY <3>2 DEF Tiene, Limpia, Leyendo, Cierra
    <3>4. Tiene(t, f) /\ SuSet(t) = s
      BY <1>1, <1>5, <2>1, <2>2 DEF Tiene, SuSet
    <3>5. fds' = [fds EXCEPT ![s] = @ \cup {f}]
      BY <1>2, <2>1, <2>2
    <3> HIDE DEF u
    <3> QED BY <1>1, <3>3, <3>4, <3>5, BienPone
  <2> QED BY <1>4, <2>1, <2>2
<1>6. ASSUME NEW s \in Conjunto, o = Quita(s, t.fd), ~ t.ops[1].pone, t.pc = "sale",
             u = Libre \/ \E r : u.ops = <<Quita(r, t.fd)>> /\ u.pc = t.pc
      PROVE  Bien(f)'
  <2>1. CASE f = t.fd
    <3>1. Limpia(t, f)
      BY <1>1, <1>6, <2>1 DEF Limpia
    <3>2. ~ Tiene(u, f)
      <4>1. CASE u = Libre
        BY <4>1 DEF Tiene, Libre, Leyendo, Cierra
      <4>2. ASSUME NEW r, u.ops = <<Quita(r, t.fd)>>, u.pc = t.pc PROVE ~ Tiene(u, f)
        BY <1>6, <4>2, UnPendiente, Ponen DEF Tiene, Leyendo, Cierra
      <4> QED BY <1>6, <4>1, <4>2
    <3>3. fds' = [fds EXCEPT ![s] = @ \ {f}]
      BY <1>2, <1>6, <2>1, Ponen
    <3> HIDE DEF u
    <3> QED BY <1>1, <1>6, <3>1, <3>2, <3>3, BienQuita
  <2> QED BY <1>4, <1>6, <2>1
<1>7. ASSUME NEW s \in {"setCPUs", "setConsolas"}, t.pc = "sale",
             t.ops = <<Quita("master", t.fd), Quita(s, t.fd)>>
      PROVE  Bien(f)'
  <2>1. o = Quita("master", t.fd) /\ "master" \in Conjunto /\ ~ t.ops[1].pone
    BY <1>7, DosPendientes, Ponen DEF Conjunto
  <2>2. u = [t EXCEPT !.ops = <<Quita(s, t.fd)>>]
    BY <1>7, DosPendientes DEF Sigue
  <2>3. u.ops = <<Quita(s, t.fd)>> /\ u.pc = t.pc
    BY <1>1, <2>2 DEF Hilos
  <2> QED BY <1>6, <1>7, <2>1, <2>3
<1>8. ASSUME NEW s \in {"setCPUs", "setConsolas"}, t.pc = "sale", t.ops = <<Quita(s, t.fd)>>
      PROVE  Bien(f)'
  <2>1. o = Quita(s, t.fd) /\ s \in Conjunto /\ ~ t.ops[1].pone
    BY <1>8, UnPendiente, Ponen DEF Conjunto
  <2>2. u = Libre
    BY <1>8, UnPendiente DEF Sigue
  <2> QED BY <1>6, <1>8, <2>1, <2>2
<1>9. \/ t.ops = <<Pone("setCPUs", t.fd)>> /\ t.pc = "sale"
      \/ t.ops = <<Pone("setConsolas", t.fd)>> /\ t.pc = "procesa"
      \/ \E s \in {"setCPUs", "setConsolas"} : t.pc = "sale" /\ t.ops = <<Quita("master", t.fd), Quita(s, t.fd)>>
      \/ \E s \in {"setCPUs", "setConsolas"} : t.pc = "sale" /\ t.ops = <<Quita(s, t.fd)>>
  BY <1>1, FormaCasos
<1> HIDE DEF t, u, o
<1>10. CASE t.ops = <<Pone("setCPUs", t.fd)>> /\ t.pc = "sale"
  <2>1. "setCPUs" \in {"setCPUs", "setConsolas"}
    OBVIOUS
  <2> QED BY <1>5, <1>10, <2>1
<1>11. CASE t.ops = <<Pone("setConsolas", t.fd)>> /\ t.pc = "procesa"
  <2>1. "setConsolas" \in {"setCPUs", "setConsolas"}
    OBVIOUS
  <2> QED BY <1>5, <1>11, <2>1
<1> QED BY <1>7, <1>8, <1>9, <1>10, <1>11

\* What a step of the main thread leaves alone.
LEMMA OtrosMain ==
  ASSUME TipoCx, NEW u, hilo' = [hilo EXCEPT ![Interfaz] = u]
  PROVE  hilo'[Interfaz] = u /\ \A g \in Mensaje : hilo'[g] = hilo[g]
<1>1. Mensaje \subseteq Hilo /\ Interfaz \in Hilo /\ Interfaz \notin Mensaje
  BY ConexionesAssumption DEF Hilo
<1> QED BY <1>1 DEF TipoCx

LEMMA AparteMain ==
  ASSUME TipoCx, NEW u, hilo' = [hilo EXCEPT ![Interfaz] = u], NEW f \in Fd, Bien(f),
         abierto'[f] = abierto[f], \A s \in Conjunto : f \in fds'[s] <=> f \in fds[s],
         \A s \in Conjunto : ~ Pide(u, s, f) /\ ~ Pide(hilo[Interfaz], s, f),
         ~ Lanzando(f), ~ Lanzando(f)', reusado => reusado'
  PROVE  Bien(f)'
<1>1. hilo'[Interfaz] = u /\ \A g \in Mensaje : hilo'[g] = hilo[g]
  BY OtrosMain
<1>2. \A g \in Mensaje : MismoHilo(hilo[g], hilo'[g], abierto[f], f)
  BY <1>1 DEF Bien, Suyo, MismoHilo
<1> QED BY <1>1, <1>2, Aparte

LEMMA BienAceptar ==
  ASSUME TipoCx, FormaInv, Aceptar, NEW f \in Fd, Bien(f)
  PROVE  Bien(f)'
<1>0. Interfaz \in Hilo /\ hilo[Interfaz] \in Hilos /\ hilo[Interfaz].ops = <<>> /\ hilo[Interfaz].pc = "bucle"
  BY DEF Hilo, TipoCx, Aceptar, En
<1>1. ~ Lanzando(f) /\ \A s : ~ Pide(hilo[Interfaz], s, f)
  BY <1>0, Pedidos DEF Lanzando, Lanza
<1>2. CASE Libres = {}
  <2>1. UNCHANGED <<abierto, fds, hilo, reusado>>
    BY <1>2 DEF Aceptar
  <2>2. ~ Lanzando(f)'
    BY <1>0, <2>1 DEF Lanzando, Lanza
  <2>3. hilo' = [hilo EXCEPT ![Interfaz] = hilo[Interfaz]]
    BY <1>0, <2>1 DEF TipoCx
  <2> QED BY <1>1, <2>1, <2>2, <2>3, AparteMain
<1>3. CASE Libres # {}
  <2> DEFINE d == Min(Libres)
  <2>1. d \in Fd /\ abierto[d] = Nadie
    BY <1>3, EsLibre
  <2> HIDE DEF d
  <2>2. PICK x \in porAceptar :
          /\ abierto' = [abierto EXCEPT ![d] = x] /\ reusado' = (reusado \/ Limpiando(d))
          /\ Cambiar(Interfaz, <<Pone("master", d), Pone(SetDe(x), d)>>, "bucle")
          /\ UNCHANGED fds
    BY <1>3 DEF Aceptar, d
  <2> DEFINE ops == <<Pone("master", d), Pone(SetDe(x), d)>>
             u   == [hilo[Interfaz] EXCEPT !.ops = ops, !.pc = "bucle"]
  <2>3. hilo' = [hilo EXCEPT ![Interfaz] = u]
    BY <2>2, <1>0 DEF Cambiar, TipoCx
  <2>4. u.pc = "bucle" /\ u.ops = ops
    BY <1>0 DEF Hilos
  <2> HIDE DEF u
  <2>5. hilo'[Interfaz] = u /\ \A g \in Mensaje : hilo'[g] = hilo[g]
    BY <2>3, OtrosMain
  <2>6. ~ Lanzando(f)'
    BY <2>4, <2>5 DEF Lanzando, Lanza
  <2>7. \A s : Pide(u, s, f) <=> f = d /\ s \in {"master", SetDe(x)}
    <3> TAKE s
    <3>1. Pide(u, s, f) <=> Pone("master", d) = Pone(s, f) \/ Pone(SetDe(x), d) = Pone(s, f)
      BY <2>4, Pedidos
    <3> QED BY <3>1, Ponen
  <2>8. CASE f # d
    <3>1. abierto'[f] = abierto[f]
      BY <2>2, <2>8 DEF TipoCx
    <3> QED BY <1>1, <2>2, <2>3, <2>6, <2>7, <2>8, <3>1, AparteMain
  <2>9. CASE f = d
    <3>1. abierto'[f] = x /\ x \in Conexion
      BY <2>1, <2>2, <2>9 DEF TipoCx
    <3>2. Nadie \notin Clase("setCPUs") /\ Nadie \notin Clase("setConsolas") /\ \A t : SuSet(t) \in {"setCPUs", "setConsolas"}
      BY ConexionesAssumption DEF Clase, SuSet
    <3>3. ~ EnSets(f) /\ \A h \in Mensaje : ~ Tiene(hilo[h], f)
      BY <2>1, <2>9, <3>2 DEF Bien, Suyo, EnSets
    <3>4. ~ EnSets(f)' /\ \A h \in Mensaje : ~ Tiene(hilo'[h], f)
      BY <2>2, <2>5, <3>3 DEF EnSets
    <3>5. x \in Clase(SetDe(x)) /\ SetDe(x) \in {"setCPUs", "setConsolas"}
      BY <3>1 DEF SetDe, Clase, Conexion
    <3>6. Suyo(f)'
      <4>1. \A s \in {"setCPUs", "setConsolas"} : f \in fds'[s] \/ Pendiente(s, f)' => s = SetDe(x)
        BY <2>5, <2>7, <3>4 DEF EnSets, Pendiente
      <4> QED BY <2>6, <3>1, <3>4, <3>5, <4>1 DEF Suyo, Clase
    <3>7. UnLugarDe(f)'
      BY <2>6, <3>4 DEF UnLugarDe
    <3>8. ASSUME ~ reusado' PROVE Limpio(f)'
      <4>1. ASSUME NEW h \in Mensaje, Limpia(hilo[h], f) PROVE Limpiando(d)
        <5> DEFINE t == hilo[h]
        <5>1. Forma(t) /\ t.ops # <<>> /\ t.fd = f /\ ~ t.ops[1].pone
          BY <4>1 DEF Limpia, FormaInv
        <5>2. 1 \in DOMAIN t.ops /\ t.ops[1].fd = f
          <6> HIDE DEF t
          <6> QED BY <5>1, UnPendiente, DosPendientes, Ponen DEF Forma
        <5> QED BY <2>9, <5>1, <5>2 DEF Limpiando
      <4>2. \A h \in Mensaje : ~ Limpia(hilo'[h], f)
        BY <2>2, <2>5, <3>8, <4>1
      <4> QED BY <4>2 DEF Limpio
    <3>9. Atendida(f)'
      BY <2>5, <2>7, <2>9, <3>5 DEF Atendida, Poniendo, Pendiente
    <3> QED BY <3>6, <3>7, <3>8, <3>9 DEF Bien
  <2> QED BY <2>8, <2>9
<1> QED BY <1>2, <1>3

\* The main thread puts in a set a descriptor that it has accepted.
LEMMA BienPoneMain ==
  ASSUME TipoCx, NEW u, hilo' = [hilo EXCEPT ![Interfaz] = u], NEW f \in Fd, Bien(f),
         NEW s \in Conjunto, Pide(hilo[Interfaz], s, f),
         \A r \in Conjunto : Pide(u, r, f) => Pide(hilo[Interfaz], r, f),
         \A r \in Conjunto : Pide(hilo[Interfaz], r, f) => r = s \/ Pide(u, r, f),
         \/ s # "master" \/ \E r \in {"setCPUs", "setConsolas"} : Pide(u, r, f),
         hilo[Interfaz].pc = "bucle", u.pc = "bucle",
         fds' = [fds EXCEPT ![s] = @ \cup {f}], UNCHANGED <<abierto, reusado>>
  PROVE  Bien(f)'
<1>0. Conjunto = {"setCPUs", "setConsolas", "master"}
  BY DEF Conjunto
<1>1. hilo'[Interfaz] = u /\ \A g \in Mensaje : hilo'[g] = hilo[g]
  BY OtrosMain
<1>2. ~ Lanzando(f) /\ ~ Lanzando(f)'
  BY <1>1 DEF Lanzando, Lanza
<1>3. \A r \in Conjunto : f \in fds'[r] <=> r = s \/ f \in fds[r]
  BY DEF TipoCx
<1>4. Poniendo(f)
  BY <1>0 DEF Poniendo, Pendiente
<1>5. \A g \in Mensaje : ~ Tiene(hilo'[g], f)
  BY <1>1, <1>4 DEF Bien, UnLugarDe
<1>6. EnSets(f)' \/ Poniendo(f)'
  BY <1>0, <1>1, <1>3 DEF EnSets, Poniendo, Pendiente
<1>7. Suyo(f)'
  <2>1. \A r \in {"setCPUs", "setConsolas"} : f \in fds'[r] \/ Pendiente(r, f)' => abierto[f] \in Clase(r)
    BY <1>0, <1>1, <1>3 DEF Bien, Suyo, Pendiente
  <2> QED BY <1>2, <1>5, <2>1 DEF Suyo, Clase
<1>8. UnLugarDe(f)'
  BY <1>2, <1>5 DEF UnLugarDe
<1>9. ASSUME ~ reusado PROVE Limpio(f)'
  BY <1>1, <1>9 DEF Bien, Limpio
<1>10. ASSUME ~ reusado, abierto[f] # Nadie PROVE Atendida(f)'
  <2>1. f \in fds["master"] \/ Pendiente("master", f)
    BY <1>10 DEF Bien, Atendida
  <2>2. f \in fds'["master"] \/ Pendiente("master", f)'
    BY <1>0, <1>1, <1>3, <2>1 DEF Pendiente
  <2> QED BY <1>6, <2>2 DEF Atendida
<1> QED BY <1>7, <1>8, <1>9, <1>10 DEF Bien

\* The main thread takes the descriptor that it gives to a thread off its set.
LEMMA BienQuitaMain ==
  ASSUME TipoCx, NEW u, hilo' = [hilo EXCEPT ![Interfaz] = u], NEW f \in Fd, Bien(f),
         hilo[Interfaz].pc \in Lanza, u.pc = hilo[Interfaz].pc, Mira = f, UNCHANGED leido,
         NEW s, s = IF u.pc = "lanza_cpu" THEN "setCPUs" ELSE "setConsolas",
         \A r : ~ Pide(u, r, f) /\ ~ Pide(hilo[Interfaz], r, f),
         fds' = [fds EXCEPT ![s] = @ \ {f}], UNCHANGED <<abierto, reusado>>
  PROVE  Bien(f)'
<1>0. Conjunto = {"setCPUs", "setConsolas", "master"}
  BY DEF Conjunto
<1>1. hilo'[Interfaz] = u /\ \A g \in Mensaje : hilo'[g] = hilo[g]
  BY OtrosMain
<1>2. Lanzando(f) /\ Lanzando(f)'
  <2>1. Mira' = Mira
    BY DEF Mira
  <2> QED BY <1>1, <2>1 DEF Lanzando
<1>3. \A r \in Conjunto : f \in fds'[r] <=> r # s /\ f \in fds[r]
  BY <1>0 DEF TipoCx
<1>4. abierto[f] \in IF u.pc = "lanza_cpu" THEN Cpu ELSE Consola
  BY <1>2 DEF Bien, Suyo
<1>5. ~ EnSets(f)'
  <2>1. \A r \in {"setCPUs", "setConsolas"} : r # s => f \notin fds[r]
    BY <1>4, ConexionesAssumption DEF Bien, Suyo, Clase
  <2> QED BY <1>0, <1>3, <2>1 DEF EnSets
<1>6. \A g \in Mensaje : ~ Tiene(hilo'[g], f)
  BY <1>1, <1>2 DEF Bien, UnLugarDe
<1>7. Suyo(f)'
  BY <1>1, <1>4, <1>5, <1>6 DEF Suyo, Clase, EnSets, Pendiente
<1>8. UnLugarDe(f)'
  BY <1>5, <1>6 DEF UnLugarDe
<1>9. ASSUME ~ reusado PROVE Limpio(f)'
  BY <1>1, <1>9 DEF Bien, Limpio
<1>10. ASSUME ~ reusado, abierto[f] # Nadie PROVE Atendida(f)'
  <2>1. f \in fds["master"]
    BY <1>10 DEF Bien, Atendida, Pendiente
  <2>2. f \in fds'["master"]
    BY <1>0, <1>3, <2>1
  <2> QED BY <1>2, <2>2 DEF Atendida
<1> QED BY <1>7, <1>8, <1>9, <1>10 DEF Bien

LEMMA BienActualizarMain ==
  ASSUME TipoCx, FormaInv, Actualizar(Interfaz), NEW f \in Fd, Bien(f)
  PROVE  Bien(f)'
<1> DEFINE t == hilo[Interfaz]
           u == Sigue(t)
           o == Head(t.ops)
<1>1. /\ t \in Hilos /\ t.ops # <<>> /\ FormaPrincipal(t, Mira) /\ hilo' = [hilo EXCEPT ![Interfaz] = u]
      /\ fds' = [fds EXCEPT ![o.en] = Hecho(o, @)] /\ UNCHANGED <<abierto, leido, reusado>>
  BY DEF Actualizar, TipoCx, FormaInv, Hilo
<1>2. ASSUME NEW s \in Conjunto, NEW d, o = Pone(s, d) \/ o = Quita(s, d)
      PROVE  /\ fds' = [fds EXCEPT ![s] = IF o.pone THEN @ \cup {d} ELSE @ \ {d}]
             /\ f # d => \A r \in Conjunto : f \in fds'[r] <=> f \in fds[r]
  <2>1. o.en = s /\ o.fd = d
    BY <1>2, Ponen
  <2>2. fds' = [fds EXCEPT ![s] = IF o.pone THEN @ \cup {d} ELSE @ \ {d}]
    BY <1>1, <2>1 DEF Hecho
  <2> QED BY <2>2 DEF TipoCx
<1>3. u.pc = t.pc
  BY <1>1, FormaPrincipalSigue
<1>4. hilo'[Interfaz] = u /\ Mira' = Mira
  BY <1>1, OtrosMain DEF Mira
<1>5. ASSUME NEW d \in Fd, NEW s \in {"setCPUs", "setConsolas"}, t.pc = "bucle",
             t.ops = <<Pone("master", d), Pone(s, d)>>
      PROVE  Bien(f)'
  <2>1. o = Pone("master", d) /\ o.pone /\ "master" \in Conjunto
    BY <1>5, DosPendientes, Ponen DEF Conjunto
  <2>2. u.ops = <<Pone(s, d)>>
    <3>1. u = [t EXCEPT !.ops = <<Pone(s, d)>>]
      BY <1>5, DosPendientes DEF Sigue
    <3> QED BY <1>1, <3>1 DEF Hilos
  <2>3. \A r : /\ Pide(u, r, f) <=> r = s /\ f = d
               /\ Pide(t, r, f) <=> r \in {"master", s} /\ f = d
    <3> TAKE r
    <3>1. Pide(u, r, f) <=> Pone(s, d) = Pone(r, f)
      BY <2>2, Pedidos
    <3>2. Pide(t, r, f) <=> Pone("master", d) = Pone(r, f) \/ Pone(s, d) = Pone(r, f)
      BY <1>5, Pedidos
    <3> QED BY <3>1, <3>2, Ponen
  <2> HIDE DEF u, t, o
  <2>4. CASE f = d
    <3>1. fds' = [fds EXCEPT !["master"] = @ \cup {f}]
      BY <1>2, <2>1, <2>4
    <3> QED BY <1>1, <1>3, <1>5, <2>1, <2>3, <2>4, <3>1, BienPoneMain DEF t
  <2>5. CASE f # d
    <3>1. ~ Lanzando(f) /\ ~ Lanzando(f)'
      BY <1>3, <1>4, <1>5 DEF Lanzando, Lanza, t
    <3>2. \A r \in Conjunto : f \in fds'[r] <=> f \in fds[r]
      BY <1>2, <2>1, <2>5
    <3>3. \A r \in Conjunto : ~ Pide(u, r, f) /\ ~ Pide(hilo[Interfaz], r, f)
      BY <2>3, <2>5 DEF t
    <3>4. hilo' = [hilo EXCEPT ![Interfaz] = u] /\ UNCHANGED <<abierto, reusado>>
      BY <1>1
    <3> QED BY <3>1, <3>2, <3>3, <3>4, AparteMain
  <2> QED BY <2>4, <2>5
<1>6. ASSUME NEW d \in Fd, NEW s \in {"setCPUs", "setConsolas"}, t.pc = "bucle", t.ops = <<Pone(s, d)>>
      PROVE  Bien(f)'
  <2>1. o = Pone(s, d) /\ o.pone /\ s \in Conjunto /\ s # "master"
    BY <1>6, UnPendiente, Ponen DEF Conjunto
  <2>2. u.ops = <<>>
    <3>1. u = [t EXCEPT !.ops = <<>>]
      BY <1>6, UnPendiente DEF Sigue
    <3> QED BY <1>1, <3>1 DEF Hilos
  <2>3. \A r : ~ Pide(u, r, f) /\ (Pide(t, r, f) <=> r = s /\ f = d)
    <3> TAKE r
    <3>1. ~ Pide(u, r, f)
      BY <2>2, Pedidos
    <3>2. Pide(t, r, f) <=> Pone(s, d) = Pone(r, f)
      BY <1>6, Pedidos
    <3> QED BY <3>1, <3>2, Ponen
  <2> HIDE DEF u, t, o
  <2>4. CASE f = d
    <3>1. fds' = [fds EXCEPT ![s] = @ \cup {f}]
      BY <1>2, <2>1, <2>4
    <3>2. /\ Pide(hilo[Interfaz], s, f)
          /\ \A r \in Conjunto : Pide(u, r, f) => Pide(hilo[Interfaz], r, f)
          /\ \A r \in Conjunto : Pide(hilo[Interfaz], r, f) => r = s \/ Pide(u, r, f)
          /\ s # "master" \/ \E r \in {"setCPUs", "setConsolas"} : Pide(u, r, f)
      BY <2>1, <2>3, <2>4 DEF t
    <3>3. hilo[Interfaz].pc = "bucle" /\ u.pc = "bucle"
      BY <1>3, <1>6 DEF t
    <3>4. hilo' = [hilo EXCEPT ![Interfaz] = u] /\ UNCHANGED <<abierto, reusado>>
      BY <1>1
    <3>5. s \in Conjunto /\ Bien(f) /\ TipoCx
      BY <2>1
    <3> QED BY <3>1, <3>2, <3>3, <3>4, <3>5, BienPoneMain
  <2>5. CASE f # d
    <3>1. ~ Lanzando(f) /\ ~ Lanzando(f)'
      BY <1>3, <1>4, <1>6 DEF Lanzando, Lanza, t
    <3>2. \A r \in Conjunto : f \in fds'[r] <=> f \in fds[r]
      BY <1>2, <2>1, <2>5
    <3>3. \A r \in Conjunto : ~ Pide(u, r, f) /\ ~ Pide(hilo[Interfaz], r, f)
      BY <2>3, <2>5 DEF t
    <3>4. hilo' = [hilo EXCEPT ![Interfaz] = u] /\ UNCHANGED <<abierto, reusado>>
      BY <1>1
    <3> QED BY <3>1, <3>2, <3>3, <3>4, AparteMain
  <2> QED BY <2>4, <2>5
<1>7. ASSUME NEW s \in {"setCPUs", "setConsolas"}, t.pc \in Lanza, t.ops = <<Quita(s, Mira)>>,
             s = IF t.pc = "lanza_cpu" THEN "setCPUs" ELSE "setConsolas"
      PROVE  Bien(f)'
  <2> DEFINE m == Mira
  <2>1. o = Quita(s, m) /\ ~ o.pone /\ s \in Conjunto
    BY <1>7, UnPendiente, Ponen DEF Conjunto
  <2>2. u.ops = <<>>
    <3>1. u = [t EXCEPT !.ops = <<>>]
      BY <1>7, UnPendiente DEF Sigue, Lanza
    <3> QED BY <1>1, <3>1 DEF Hilos
  <2>3. \A r : ~ Pide(u, r, f) /\ ~ Pide(t, r, f)
    <3> TAKE r
    <3>1. ~ Pide(u, r, f)
      BY <2>2, Pedidos
    <3>2. Pide(t, r, f) <=> Quita(s, m) = Pone(r, f)
      BY <1>7, Pedidos
    <3> QED BY <3>1, <3>2, Ponen
  <2> HIDE DEF u, t, o, m
  <2>4. CASE f = m
    <3>1. fds' = [fds EXCEPT ![s] = @ \ {f}]
      BY <1>2, <2>1, <2>4
    <3>2. Mira = f
      BY <2>4 DEF m
    <3> QED BY <1>1, <1>3, <1>7, <2>3, <3>1, <3>2, BienQuitaMain DEF t
  <2>5. CASE f # m
    <3>1. ~ Lanzando(f) /\ ~ Lanzando(f)'
      BY <1>4, <2>5 DEF Lanzando, m
    <3>2. \A r \in Conjunto : f \in fds'[r] <=> f \in fds[r]
      BY <1>2, <2>1, <2>5
    <3>3. \A r \in Conjunto : ~ Pide(u, r, f) /\ ~ Pide(hilo[Interfaz], r, f)
      BY <2>3, <2>5 DEF t
    <3>4. hilo' = [hilo EXCEPT ![Interfaz] = u] /\ UNCHANGED <<abierto, reusado>>
      BY <1>1
    <3> QED BY <3>1, <3>2, <3>3, <3>4, AparteMain
  <2> QED BY <2>4, <2>5
<1>8. CASE t.pc = "lanza_cpu" /\ t.ops = <<Quita("setCPUs", Mira)>>
  <2>1. "setCPUs" \in {"setCPUs", "setConsolas"} /\ t.pc \in Lanza
    BY <1>8 DEF Lanza
  <2> HIDE DEF u, t, o
  <2> QED BY <1>7, <1>8, <2>1
<1>9. CASE t.pc = "lanza_consola" /\ t.ops = <<Quita("setConsolas", Mira)>>
  <2>1. "setConsolas" \in {"setCPUs", "setConsolas"} /\ t.pc \in Lanza
    BY <1>9 DEF Lanza
  <2> HIDE DEF u, t, o
  <2> QED BY <1>7, <1>9, <2>1
<1> HIDE DEF u, t, o
<1>10. \/ \E d \in Fd, s \in {"setCPUs", "setConsolas"} : t.pc = "bucle" /\ t.ops = <<Pone("master", d), Pone(s, d)>>
       \/ \E d \in Fd, s \in {"setCPUs", "setConsolas"} : t.pc = "bucle" /\ t.ops = <<Pone(s, d)>>
       \/ t.pc = "lanza_cpu" /\ t.ops = <<Quita("setCPUs", Mira)>>
       \/ t.pc = "lanza_consola" /\ t.ops = <<Quita("setConsolas", Mira)>>
  BY <1>1 DEF FormaPrincipal
<1> QED BY <1>5, <1>6, <1>8, <1>9, <1>10

\* The main thread goes on with the round and launches nothing.
LEMMA BienBucle ==
  ASSUME TipoCx, NEW f \in Fd, Bien(f), hilo[Interfaz].ops = <<>>, hilo[Interfaz].pc \notin Lanza,
         Ir(Interfaz, "bucle"), UNCHANGED <<abierto, fds, reusado>>
  PROVE  Bien(f)'
<1> DEFINE u == [hilo[Interfaz] EXCEPT !.pc = "bucle"]
<1>1. Interfaz \in Hilo /\ hilo[Interfaz] \in Hilos
  BY DEF Hilo, TipoCx
<1>2. hilo' = [hilo EXCEPT ![Interfaz] = u] /\ u.ops = <<>> /\ u.pc = "bucle"
  BY <1>1 DEF Ir, TipoCx, Hilos
<1> HIDE DEF u
<1>3. hilo'[Interfaz] = u
  BY <1>2, OtrosMain
<1>4. ~ Lanzando(f) /\ ~ Lanzando(f)'
  BY <1>2, <1>3 DEF Lanzando, Lanza
<1>5. \A s : ~ Pide(u, s, f) /\ ~ Pide(hilo[Interfaz], s, f)
  BY <1>2, Pedidos
<1> QED BY <1>2, <1>4, <1>5, AparteMain

\* The main thread is going to give f to a thread.
LEMMA BienLanza ==
  ASSUME TipoCx, NEW f \in Fd, Bien(f), hilo[Interfaz].ops = <<>>, hilo[Interfaz].pc \notin Lanza,
         NEW s \in {"setCPUs", "setConsolas"}, Mira \in fds[s],
         NEW d \in Lanza, d = "lanza_cpu" <=> s = "setCPUs",
         Cambiar(Interfaz, <<Quita(s, Mira)>>, d), UNCHANGED <<abierto, fds, leido, reusado>>
  PROVE  Bien(f)'
<1> DEFINE m == Mira
           ops == <<Quita(s, m)>>
           u == [hilo[Interfaz] EXCEPT !.ops = ops, !.pc = d]
<1>1. Interfaz \in Hilo /\ hilo[Interfaz] \in Hilos
  BY DEF Hilo, TipoCx
<1>2. hilo' = [hilo EXCEPT ![Interfaz] = u] /\ u.ops = ops /\ u.pc = d
  BY <1>1 DEF Cambiar, TipoCx, Hilos
<1>3. Mira' = m
  BY DEF Mira
<1> HIDE DEF m
<1>4. \A r : ~ Pide(u, r, f) /\ ~ Pide(hilo[Interfaz], r, f)
  <2> TAKE r
  <2>1. Pide(u, r, f) <=> Quita(s, m) = Pone(r, f)
    BY <1>2, Pedidos
  <2> QED BY <2>1, Pedidos, Ponen
<1>5. ops # <<>>
  BY UnPendiente
<1> HIDE DEF u, ops
<1>6. hilo'[Interfaz] = u /\ \A g \in Mensaje : hilo'[g] = hilo[g]
  BY <1>2, OtrosMain
<1>7. ~ Lanzando(f) /\ (Lanzando(f)' <=> f = m)
  BY <1>2, <1>3, <1>6 DEF Lanzando
<1>8. CASE f # m
  BY <1>2, <1>4, <1>7, <1>8, AparteMain
<1>9. CASE f = m
  <2>1. f \in fds[s] /\ EnSets(f)
    BY <1>9 DEF EnSets, m
  <2>2. abierto[f] \in Clase(s) /\ \A g \in Mensaje : ~ Tiene(hilo'[g], f)
    BY <1>6, <2>1 DEF Bien, Suyo, UnLugarDe
  <2>3. Suyo(f)'
    <3>1. \A r \in {"setCPUs", "setConsolas"} : f \in fds'[r] \/ Pendiente(r, f)' => abierto[f] \in Clase(r)
      BY <1>4, <1>6 DEF Bien, Suyo, Pendiente
    <3>2. abierto[f] \in IF hilo'[Interfaz].pc = "lanza_cpu" THEN Cpu ELSE Consola
      BY <1>2, <1>6, <2>2 DEF Clase
    <3> QED BY <2>2, <3>1, <3>2 DEF Suyo, Clase
  <2>4. UnLugarDe(f)'
    BY <1>2, <1>5, <1>6, <2>2 DEF UnLugarDe
  <2>5. ASSUME ~ reusado PROVE Limpio(f)'
    BY <1>6, <2>5 DEF Bien, Limpio
  <2>6. ASSUME ~ reusado, abierto[f] # Nadie PROVE Atendida(f)'
    <3>1. f \in fds["master"]
      BY <1>4, <2>6 DEF Bien, Atendida, Pendiente
    <3> QED BY <1>7, <1>9, <3>1 DEF Atendida
  <2> QED BY <2>3, <2>4, <2>5, <2>6 DEF Bien
<1> QED BY <1>8, <1>9

LEMMA BienMirar ==
  ASSUME TipoCx, FormaInv, Mirar \/ MirarTambien, NEW f \in Fd, Bien(f)
  PROVE  Bien(f)'
<1>1. /\ hilo[Interfaz].ops = <<>> /\ hilo[Interfaz].pc \notin Lanza
      /\ UNCHANGED <<abierto, fds, reusado>>
  BY DEF Mirar, MirarTambien, En, Lanza
<1>2. ASSUME MirarConsola PROVE Bien(f)'
  <2>1. CASE Ir(Interfaz, "bucle")
    BY <1>1, <2>1, BienBucle
  <2>2. CASE Mira \in fds["setConsolas"] /\ Cambiar(Interfaz, <<Quita("setConsolas", Mira)>>, "lanza_consola")
             /\ UNCHANGED leido
    BY <1>1, <2>2, BienLanza DEF Lanza
  <2> QED BY <1>2, <2>1, <2>2 DEF MirarConsola
<1>3. CASE Mira \in fds["setCPUs"] /\ Cambiar(Interfaz, <<Quita("setCPUs", Mira)>>, "lanza_cpu")
           /\ UNCHANGED leido
  BY <1>1, <1>3, BienLanza DEF Lanza
<1> QED BY <1>2, <1>3 DEF Mirar, MirarTambien

LEMMA BienLanzar ==
  ASSUME TipoCx, FormaInv, Lanzar, NEW f \in Fd, Bien(f)
  PROVE  Bien(f)'
<1> DEFINE m == Mira
<1>1. PICK h \in Mensaje, pc \in {"sigue", "bucle"}, d \in {"cpu", "consola"} :
        /\ hilo' = [hilo EXCEPT ![Interfaz].pc = pc, ![h] = [Libre EXCEPT !.pc = d, !.fd = m]]
        /\ hilo[h].pc = "libre" /\ hilo[Interfaz].pc = IF d = "cpu" THEN "lanza_cpu" ELSE "lanza_consola"
  BY DEF Lanzar, En
<1>2. UNCHANGED <<abierto, fds, reusado>> /\ hilo[Interfaz].ops = <<>>
  BY DEF Lanzar, En
<1>3. Interfaz \in Hilo /\ Mensaje \subseteq Hilo /\ Interfaz \notin Mensaje
  BY ConexionesAssumption DEF Hilo
<1> DEFINE t == [Libre EXCEPT !.pc = d, !.fd = m]
           u == [hilo[Interfaz] EXCEPT !.pc = pc]
<1>4. t.pc = d /\ t.fd = m /\ t.ops = <<>>
  BY DEF Libre
<1>5. u.pc = pc /\ u.ops = <<>>
  BY <1>2, <1>3 DEF TipoCx, Hilos
<1>6. hilo' = [hilo EXCEPT ![Interfaz] = u, ![h] = t]
  BY <1>1, <1>3 DEF TipoCx
<1> HIDE DEF t, u
<1>7. hilo'[Interfaz] = u /\ \A g \in Mensaje : hilo'[g] = IF g = h THEN t ELSE hilo[g]
  BY <1>3, <1>6 DEF TipoCx
<1>8. ~ Lanzando(f)' /\ \A s : ~ Pide(u, s, f) /\ ~ Pide(hilo[Interfaz], s, f)
  BY <1>2, <1>5, <1>7, Pedidos DEF Lanzando, Lanza
<1>9. Lanzando(f) <=> f = m
  BY <1>1 DEF Lanzando, Lanza
<1>10. ~ Tiene(hilo[h], f) /\ ~ Limpia(hilo[h], f) /\ ~ Limpia(t, f)
  <2>1. hilo[h].ops = <<>>
    BY <1>1 DEF FormaInv, Forma
  <2> QED BY <1>1, <1>4, <2>1 DEF Tiene, Limpia, Leyendo, Cierra
<1> HIDE DEF m
<1>11. CASE f # m
  <2>1. ~ Tiene(t, f)
    BY <1>4, <1>11 DEF Tiene
  <2>2. \A g \in Mensaje : MismoHilo(hilo[g], hilo'[g], abierto[f], f)
    BY <1>7, <1>10, <2>1 DEF Bien, Suyo, MismoHilo
  <2> QED BY <1>2, <1>7, <1>8, <1>9, <1>11, <2>2, Aparte
<1>12. CASE f = m
  <2>1. ~ EnSets(f) /\ ~ EnSets(f)' /\ \A g \in Mensaje : ~ Tiene(hilo[g], f)
    BY <1>2, <1>9, <1>12 DEF Bien, UnLugarDe, EnSets
  <2>2. \A g \in Mensaje : Tiene(hilo'[g], f) => g = h
    BY <1>7, <2>1
  <2>3. Tiene(hilo'[h], f)
    BY <1>4, <1>7, <1>12 DEF Tiene, Leyendo
  <2>4. abierto[f] \in Clase(SuSet(t))
    <3>1. abierto[f] \in IF hilo[Interfaz].pc = "lanza_cpu" THEN Cpu ELSE Consola
      BY <1>9, <1>12 DEF Bien, Suyo
    <3> QED BY <1>1, <1>4, <3>1 DEF Clase, SuSet
  <2>5. Suyo(f)'
    <3>1. \A s \in {"setCPUs", "setConsolas"} : ~ (f \in fds'[s] \/ Pendiente(s, f)')
      BY <1>7, <1>8, <2>1 DEF EnSets, Pendiente
    <3>2. \A g \in Mensaje : Tiene(hilo'[g], f) =>
            abierto[f] \in Clase(SuSet(hilo'[g])) /\ (hilo'[g].ops # <<>> => hilo'[g].de = abierto[f])
      BY <1>4, <1>7, <2>2, <2>4
    <3> QED BY <1>2, <1>8, <3>1, <3>2 DEF Suyo, Clase
  <2>6. UnLugarDe(f)'
    BY <1>7, <1>8, <2>1, <2>2 DEF UnLugarDe, Poniendo, Pendiente
  <2>7. ASSUME ~ reusado PROVE Limpio(f)'
    BY <1>2, <1>7, <1>10, <2>7 DEF Bien, Limpio
  <2>8. ASSUME ~ reusado, abierto[f] # Nadie PROVE Atendida(f)'
    <3>1. f \in fds'["master"]
      BY <1>2, <1>8, <2>8 DEF Bien, Atendida, Pendiente
    <3> QED BY <2>3, <3>1 DEF Atendida
  <2> QED BY <1>2, <2>5, <2>6, <2>7, <2>8 DEF Bien
<1> QED BY <1>11, <1>12

LEMMA BienSeleccionar ==
  ASSUME TipoCx, Seleccionar, NEW f \in Fd, Bien(f)
  PROVE  Bien(f)'
<1>1. CASE Cae
  BY <1>1, BienQuieto DEF Cae, kernel
<1>2. CASE ~ Cae
  <2>1. UNCHANGED <<abierto, fds, hilo, reusado>> /\ hilo[Interfaz].pc = "bucle"
    BY <1>2 DEF Seleccionar, En
  <2>2. ~ Lanzando(f) /\ ~ Lanzando(f)'
    BY <2>1 DEF Lanzando, Lanza
  <2>3. \A h \in Mensaje : MismoHilo(hilo[h], hilo'[h], abierto[f], f)
    BY <2>1 DEF Bien, Suyo, MismoHilo
  <2> QED BY <2>1, <2>2, <2>3, Aparte
<1> QED BY <1>1, <1>2

\* An update of a set is lost for ever, and only in Pisar.
LEMMA SoloPisar ==
  ASSUME [Next]_vars, ~ pisado'
  PROVE  ~ pisado /\ ~ \E h, g \in Hilo : Pisar(h, g)
<1>1. ASSUME NEW h, NEW g, Pisar(h, g) PROVE FALSE
  BY <1>1 DEF Pisar
<1>2. ASSUME Principal PROVE pisado' = pisado
  BY <1>2 DEF Principal, Seleccionar, Aceptar, Mirar, MirarTambien, Lanzar, Cae
<1>3. ASSUME \E h \in Mensaje : HiloMensaje(h) PROVE pisado' = pisado
  BY <1>3 DEF HiloMensaje, Recibir, Verificar, Cerrar, Saludar, LeerPid, AsignarPid, CrearInfo,
              FinalizarPrograma, Cae
<1>4. ASSUME \E h \in Hilo : Actualizar(h) PROVE pisado' = pisado
  BY <1>4 DEF Actualizar
<1>5. ASSUME \E k \in Consola : Admitir(k) \/ Terminar(k) \/ Detener(k) PROVE pisado' = pisado
  BY <1>5 DEF Admitir, Terminar, Detener, Cae
<1>6. ASSUME (\E c \in Cpu : Pedir(c)) \/ (\E x \in Conexion : Conectar(x) \/ Desconectar(x)) PROVE pisado' = pisado
  BY <1>6 DEF Pedir, Conectar, Desconectar
<1>7. ASSUME UNCHANGED vars PROVE pisado' = pisado
  BY <1>7 DEF vars
<1>8. ~ \E h, g \in Hilo : Pisar(h, g)
  BY <1>1
<1>9. ~ pisado
  <2>1. pisado' = pisado
    BY <1>2, <1>3, <1>4, <1>5, <1>6, <1>7, <1>8 DEF Next
  <2> QED BY <2>1
<1> QED BY <1>8, <1>9

LEMMA BienPaso ==
  ASSUME TipoCx, FormaInv, [Next]_vars, ~ pisado', NEW f \in Fd, Bien(f)
  PROVE  Bien(f)'
<1>1. CASE Principal
  BY <1>1, BienSeleccionar, BienAceptar, BienMirar, BienLanzar DEF Principal
<1>2. ASSUME NEW h \in Mensaje, HiloMensaje(h) PROVE Bien(f)'
  BY <1>2, BienRecibir, BienCerrar, BienMensaje DEF HiloMensaje
<1>3. CASE \E h \in Hilo : Actualizar(h)
  BY <1>3, BienActualizarHilo, BienActualizarMain DEF Hilo
<1>4. ASSUME NEW k \in Consola, Admitir(k) \/ Terminar(k) PROVE Bien(f)'
  <2>1. UNCHANGED kernel /\ UNCHANGED reusado
    BY <1>4 DEF Admitir, Terminar, Cae
  <2> QED BY <2>1, BienQuieto DEF kernel
<1>5. ASSUME NEW x \in Conexion, Conectar(x) \/ Pedir(x) \/ Detener(x) \/ Desconectar(x) PROVE Bien(f)'
  <2>1. UNCHANGED kernel /\ UNCHANGED reusado
    BY <1>5 DEF Conectar, Pedir, Detener, Desconectar
  <2> QED BY <2>1, BienQuieto DEF kernel
<1>6. CASE UNCHANGED vars
  BY <1>6, BienQuieto DEF vars, kernel
<1>7. ~ \E h, g \in Hilo : Pisar(h, g)
  BY SoloPisar
<1> QED BY <1>1, <1>2, <1>3, <1>4, <1>5, <1>6, <1>7 DEF Next, Conexion

LEMMA InicioConex ==
  ASSUME Init
  PROVE  ConexInv
<1>1. Mensaje \subseteq Hilo /\ Interfaz \in Hilo /\ Interfaz \notin Mensaje
  BY ConexionesAssumption DEF Hilo
<1>2. \A h \in Mensaje : hilo[h] = Libre
  BY <1>1 DEF Init
<1>3. hilo[Interfaz].pc = "bucle" /\ hilo[Interfaz].ops = <<>>
  BY <1>1 DEF Init, Libre
<1>4. Unicas
  BY DEF Init, Unicas
<1>5. FormaInv
  BY <1>2, <1>3, <1>4, FormaDeLibre DEF FormaInv, FormaPrincipal, Lanza
<1>6. ASSUME NEW f \in Fd PROVE Bien(f)
  <2>1. ~ Tiene(Libre, f) /\ ~ Limpia(Libre, f)
    BY DEF Tiene, Limpia, Libre, Leyendo, Cierra
  <2>2. ~ EnSets(f) /\ ~ Lanzando(f) /\ \A s : ~ Pendiente(s, f)
    BY <1>3, Pedidos DEF Init, EnSets, Conjunto, Lanzando, Lanza, Pendiente
  <2>3. Suyo(f) /\ UnLugarDe(f)
    BY <1>2, <2>1, <2>2 DEF Suyo, UnLugarDe, EnSets, Poniendo
  <2>4. Limpio(f) /\ abierto[f] = Nadie
    BY <1>2, <2>1 DEF Limpio, Init
  <2> QED BY <2>3, <2>4 DEF Bien
<1> QED BY <1>5, <1>6 DEF ConexInv

\* Every descriptor is in one place.
THEOREM CadaDescriptorEnSuLugar == Spec => [](TipoCx /\ ConexInv)
<1>1. Init => TipoCx /\ ConexInv
  BY TipoInicio, InicioConex, ConexionesAssumption
<1>2. TipoCx /\ ConexInv /\ [Next]_vars => (TipoCx /\ ConexInv)'
  <2> SUFFICES ASSUME TipoCx, ConexInv, [Next]_vars PROVE TipoCx' /\ ConexInv'
    OBVIOUS
  <2>1. TipoCx' /\ FormaInv'
    BY TipoPaso, FormaPaso DEF ConexInv
  <2>2. ASSUME ~ pisado', NEW f \in Fd PROVE Bien(f)'
    <3>1. ~ pisado
      BY <2>2, SoloPisar
    <3> QED BY <2>2, <3>1, BienPaso DEF ConexInv
  <2> QED BY <2>1, <2>2 DEF ConexInv
<1> QED BY <1>1, <1>2, PTL DEF Spec

-----------------------------------------------------------------------------
\* The properties.

\* A thread that attends x has a descriptor, which x is behind.
LEMMA QuienAtiende ==
  ASSUME TipoCx, ConexInv, ~ pisado, NEW x \in Conexion, NEW h \in Mensaje
  PROVE  h \in Atienden(x) <=> hilo[h].fd \in Fd /\ Tiene(hilo[h], hilo[h].fd) /\ abierto[hilo[h].fd] = x
<1> DEFINE t == hilo[h]
<1>1. Forma(t)
  BY DEF ConexInv, FormaInv
<1>2. CASE t.pc \in Leyendo
  <2>1. t.ops = <<>> /\ t.fd \in Fd
    BY <1>1, <1>2 DEF Forma, Leyendo, Cierra
  <2>2. Tiene(t, t.fd)
    BY <1>2 DEF Tiene
  <2>3. h \in Atienden(x) <=> abierto[t.fd] = x
    BY <1>2, <2>1 DEF Atienden, Leyendo, Cierra
  <2> QED BY <2>1, <2>2, <2>3
<1>3. CASE t.pc \notin Leyendo /\ t.ops = <<>>
  <2>1. ~ Tiene(t, t.fd)
    BY <1>3 DEF Tiene
  <2>2. h \notin Atienden(x)
    BY <1>3 DEF Atienden, Leyendo, Cierra
  <2> QED BY <2>1, <2>2
<1>4. CASE t.pc \notin Leyendo /\ t.ops # <<>>
  <2>1. t.fd \in Fd
    BY <1>1, <1>4 DEF Forma, Leyendo, Cierra
  <2>2. 1 \in DOMAIN t.ops /\ ((\E i \in DOMAIN t.ops : t.ops[i].pone) <=> t.ops[1].pone)
    <3> HIDE DEF t
    <3>1. CASE t.ops = <<Pone("setCPUs", t.fd)>> \/ t.ops = <<Pone("setConsolas", t.fd)>>
      BY <3>1, UnPendiente
    <3>2. ASSUME NEW s, t.ops = <<Quita("master", t.fd), Quita(s, t.fd)>>
          PROVE  1 \in DOMAIN t.ops /\ ((\E i \in DOMAIN t.ops : t.ops[i].pone) <=> t.ops[1].pone)
      BY <3>2, DosPendientes, Ponen
    <3>3. ASSUME NEW s, t.ops = <<Quita(s, t.fd)>>
          PROVE  1 \in DOMAIN t.ops /\ ((\E i \in DOMAIN t.ops : t.ops[i].pone) <=> t.ops[1].pone)
      BY <3>3, UnPendiente
    <3> QED BY <1>1, <1>4, <3>1, <3>2, <3>3, FormaCasos
  <2>3. h \in Atienden(x) <=> t.ops[1].pone /\ t.de = x
    BY <1>4, <2>2 DEF Atienden, Leyendo, Cierra
  <2>4. Tiene(t, t.fd) <=> t.ops[1].pone
    BY <1>4 DEF Tiene
  <2>5. Tiene(t, t.fd) => t.de = abierto[t.fd]
    BY <1>4, <2>1 DEF ConexInv, Bien, Suyo
  <2> QED BY <2>1, <2>3, <2>4, <2>5
<1> QED BY <1>2, <1>3, <1>4

LEMMA ConexDaUnLector ==
  ASSUME TipoCx, ConexInv
  PROVE  UnLector
<1> SUFFICES ASSUME ~ pisado, NEW x \in Conexion PROVE Cardinality(Atienden(x)) <= 1
  BY DEF UnLector
<1>1. x # Nadie
  BY ConexionesAssumption DEF Conexion
<1>2. ASSUME NEW g \in Atienden(x), NEW h \in Atienden(x) PROVE g = h
  <2>1. g \in Mensaje /\ h \in Mensaje
    BY DEF Atienden
  <2>2. /\ hilo[g].fd \in Fd /\ Tiene(hilo[g], hilo[g].fd) /\ abierto[hilo[g].fd] = x
        /\ hilo[h].fd \in Fd /\ Tiene(hilo[h], hilo[h].fd) /\ abierto[hilo[h].fd] = x
    BY <2>1, QuienAtiende
  <2>3. hilo[g].fd = hilo[h].fd
    BY <1>1, <2>2 DEF ConexInv, FormaInv, Unicas
  <2> QED BY <2>1, <2>2, <2>3 DEF ConexInv, Bien, UnLugarDe
<1>3. CASE Atienden(x) = {}
  <2>1. Cardinality(Atienden(x)) = 0
    BY <1>3, FS_EmptySet
  <2> QED BY <2>1
<1>4. CASE Atienden(x) # {}
  <2>1. PICK g : g \in Atienden(x)
    BY <1>4
  <2>2. Atienden(x) = {g}
    BY <1>2, <2>1
  <2>3. Cardinality(Atienden(x)) = 1
    BY <2>2, FS_Singleton
  <2> QED BY <2>3
<1> QED BY <1>3, <1>4

LEMMA ConexDaAtendida ==
  ASSUME TipoCx, ConexInv
  PROVE  ConexionAtendida
<1> SUFFICES ASSUME ~ pisado, ~ reusado, NEW f \in Fd, abierto[f] # Nadie,
                    hilo[Interfaz].ops = <<>>, hilo[Interfaz].pc \notin Lanza
             PROVE  Vigilada(f) \/ Atienden(abierto[f]) # {}
  BY DEF ConexionAtendida, PorVigilar, Lanza
<1>1. Bien(f) /\ Atendida(f) /\ abierto[f] \in Conexion
  BY DEF ConexInv, Bien, TipoCx
<1>2. ~ Lanzando(f) /\ \A s : ~ Pendiente(s, f)
  BY Pedidos DEF Lanzando, Pendiente
<1>3. f \in fds["master"]
  BY <1>1, <1>2 DEF Atendida
<1>4. CASE EnSets(f)
  <2>1. f \in fds[SetDe(abierto[f])]
    BY <1>1, <1>4, ConexionesAssumption DEF EnSets, Bien, Suyo, Clase, SetDe
  <2> QED BY <1>3, <2>1 DEF Vigilada
<1>5. ASSUME NEW h \in Mensaje, Tiene(hilo[h], f) PROVE Atienden(abierto[f]) # {}
  <2>1. hilo[h].fd = f
    BY <1>5 DEF Tiene
  <2>2. h \in Atienden(abierto[f])
    BY <1>1, <1>5, <2>1, QuienAtiende
  <2> QED BY <2>2
<1> QED BY <1>1, <1>2, <1>4, <1>5 DEF Atendida, Poniendo

\* One thread at a time reads from a connection, whatever numbers are given again,
\* as long as no update of a set was lost (escucharConexiones,
\* trabajarMensajeConsola, trabajarMensajeCPU).
THEOREM UnSoloLector == Spec => []UnLector
<1>1. TipoCx /\ ConexInv => UnLector
  BY ConexDaUnLector
<1> QED BY <1>1, CadaDescriptorEnSuLugar, PTL

\* No connection is forgotten: select looks at it, or somebody has it to put back,
\* unless an update was lost or a number was given again before it was cleared.
THEOREM NadieOlvidado == Spec => []ConexionAtendida
<1>1. TipoCx /\ ConexInv => ConexionAtendida
  BY ConexDaAtendida
<1> QED BY <1>1, CadaDescriptorEnSuLugar, PTL

-----------------------------------------------------------------------------
(* Who is condemned.                                                       *)

\* The code of k's program is sent once: it travels, then a thread has it, then
\* the program exists.
Alta(k)    == programa[k].pid # 0
Codigos(k) == {i \in DOMAIN entrada[k] : entrada[k][i] = <<"codigo">>}
Trae(t, k) == t.de = k /\ (t.pc \in {"suma", "info"} \/ (t.pc = "procesa" /\ t.msj = <<"codigo">>))
SinHilo(k) == \A h \in Mensaje : ~ Trae(hilo[h], k)
SinHablar(k) == par[k].estado \in {"fuera", "saluda"}

UnCodigo(k) ==
  /\ SinHablar(k) => Codigos(k) = {}
  /\ SinHablar(k) \/ Codigos(k) # {} => ~ Alta(k) /\ SinHilo(k)
  /\ \A i, j \in Codigos(k) : i = j
  /\ \A h, g \in Mensaje : Trae(hilo[h], k) /\ Trae(hilo[g], k) => h = g
  /\ \A h \in Mensaje : Trae(hilo[h], k) => (Alta(k) <=> hilo[h].pc = "info")
  /\ programa[k].estado = "sin_enviar" <=> ~ Alta(k)
  /\ ~ Alta(k) => programa[k].matar = "no" /\ \A i \in DOMAIN info : info[i] # k

\* The numbers k's program is known by, before and after it exists: k is behind
\* them, or its connection was closed.  From the thread that finds the end of
\* the connection on, the program is condemned, or an older one is in its place.
NumeroDe(k, f) == \/ Alta(k) /\ programa[k].fd = f
                  \/ \E h \in Mensaje : Trae(hilo[h], k) /\ hilo[h].fd = f
Condenado(k)   == programa[k].estado = "FINISH" \/ programa[k].matar # "no"
Ante(k, f)     == \E i \in DOMAIN info : programa[info[i]].fd = f /\ \A j \in 1..i : info[j] # k
SeVa(k)        == \/ Soltada(k)
                  \/ \E h \in Mensaje : hilo[h].pc = "cierra_consola" /\ abierto[hilo[h].fd] = k
NumerosBien(k) ==
  \A f \in Fd \cup {0} : NumeroDe(k, f) =>
    /\ f \in Fd /\ (abierto[f] = k \/ Soltada(k))
    /\ SeVa(k) => caido \/ Condenado(k) \/ Ante(k, f)

\* A console asks for the end of its own program, or of one whose console left.
Pidio(x)      == cerrada[x] \/ par[x].enviados > 0
PidDe(x, n)   == n # 0 /\ \E k \in Consola : programa[k].pid = n /\ (k = x \/ cerrada[k])
EnCurso(x, m) ==
  \/ \E i \in DOMAIN entrada[x] : entrada[x][i] = m
  \/ \E h \in Mensaje : hilo[h].pc = "procesa" /\ hilo[h].de = x /\ hilo[h].msj = m
Fines(x) ==
  /\ par[x].estado = "activo" => PidDe(x, par[x].pid)
  /\ \A n \in Nat : EnCurso(x, <<"fin", n>>) => PidDe(x, n) /\ Pidio(x)

ManosCx ==
  /\ \A h \in Mensaje : /\ hilo[h].pc \in {"procesa", "suma", "info"} => hilo[h].de \in Consola
                        /\ hilo[h].pc \in Cierra => cerrada[abierto[hilo[h].fd]]
  /\ \A i \in DOMAIN info : info[i] \in Consola

Condenas == PidsDistintos => \A k \in Consola : programa[k].matar # "no" => Pidio(k)

CondInv == ManosCx /\ Condenas /\ \A k \in Consola : UnCodigo(k) /\ NumerosBien(k) /\ Fines(k)

-----------------------------------------------------------------------------
\* What no step undoes.
Firme ==
  /\ \A k \in Consola : Alta(k) => programa'[k].pid = programa[k].pid
  /\ PidsDistintos =>
       \A k \in Consola : programa'[k].matar # "no" => programa[k].matar # "no" \/ Pidio(k)
  /\ \A x \in Conexion : /\ cerrada[x] => cerrada'[x]
                         /\ par'[x].enviados >= par[x].enviados
  /\ caido => caido'

\* Thread t goes on as u: it has no message that it had not.
Menos(t, u) ==
  \/ u.pc \notin {"procesa", "suma", "info"}
  \/ /\ u.de = t.de /\ u.fd = t.fd /\ u.msj = t.msj
     /\ u.pc = t.pc \/ (t.pc = "procesa" /\ t.msj = <<"codigo">> /\ u.pc = "suma")

LEMMA MenosDa ==
  ASSUME NEW t, NEW u, Menos(t, u)
  PROVE  /\ \A k : Trae(u, k) => Trae(t, k) /\ u.fd = t.fd /\ (u.pc = "info" <=> t.pc = "info")
         /\ u.pc = "procesa" => u.pc = t.pc /\ u.de = t.de /\ u.msj = t.msj
         /\ u.pc \in {"procesa", "suma", "info"} => t.pc \in {"procesa", "suma", "info"} /\ u.de = t.de
BY DEF Menos, Trae

LEMMA CodigoMarco ==
  ASSUME NEW k \in Consola, UnCodigo(k),
         Alta(k)' <=> Alta(k), programa'[k].estado = "sin_enviar" <=> programa[k].estado = "sin_enviar",
         ~ Alta(k) => programa'[k].matar = programa[k].matar,
         \A i \in DOMAIN info' : Alta(info'[i]),
         SinHablar(k)' => SinHablar(k), Codigos(k)' = Codigos(k),
         \A h \in Mensaje : Trae(hilo'[h], k) => Trae(hilo[h], k) /\ (hilo'[h].pc = "info" <=> hilo[h].pc = "info")
  PROVE  UnCodigo(k)'
<1>1. SinHilo(k) => SinHilo(k)'
  BY DEF SinHilo
<1>2. (SinHablar(k)' => Codigos(k)' = {}) /\ (SinHablar(k)' \/ Codigos(k)' # {} => ~ Alta(k)' /\ SinHilo(k)')
  BY <1>1 DEF UnCodigo
<1>3. \A i, j \in Codigos(k)' : i = j
  BY DEF UnCodigo
<1>4. /\ \A h, g \in Mensaje : Trae(hilo'[h], k) /\ Trae(hilo'[g], k) => h = g
      /\ \A h \in Mensaje : Trae(hilo'[h], k) => (Alta(k)' <=> hilo'[h].pc = "info")
  BY DEF UnCodigo
<1>5. ~ Alta(k)' => programa'[k].matar = "no" /\ \A i \in DOMAIN info' : info'[i] # k
  BY DEF UnCodigo
<1>6. programa'[k].estado = "sin_enviar" <=> ~ Alta(k)'
  BY DEF UnCodigo
<1> QED BY <1>2, <1>3, <1>4, <1>5, <1>6 DEF UnCodigo

LEMMA NumerosMarco ==
  ASSUME NEW k \in Consola, NumerosBien(k), caido => caido',
         \A f \in Fd \cup {0} : NumeroDe(k, f)' => NumeroDe(k, f),
         \A f \in Fd : abierto[f] = k => abierto'[f] = k \/ Soltada(k)',
         Soltada(k) => Soltada(k)', SeVa(k)' => SeVa(k),
         Condenado(k) => Condenado(k)', \A f \in Fd : Ante(k, f) => Ante(k, f)'
  PROVE  NumerosBien(k)'
BY DEF NumerosBien

LEMMA PidFirme ==
  ASSUME TipoCx, TipoCx', Firme, NEW x \in Consola
  PROVE  (\A n : PidDe(x, n) => PidDe(x, n)') /\ (Pidio(x) => Pidio(x)')
<1>1. ASSUME NEW n, PidDe(x, n) PROVE PidDe(x, n)'
  <2>1. PICK k \in Consola : n # 0 /\ programa[k].pid = n /\ (k = x \/ cerrada[k])
    BY <1>1 DEF PidDe
  <2>2. programa'[k].pid = n /\ (k = x \/ cerrada'[k])
    BY <2>1 DEF Firme, Alta, Conexion
  <2> QED BY <2>1, <2>2 DEF PidDe
<1>2. par[x].enviados \in Nat /\ par'[x].enviados \in Nat
  BY DEF TipoCx, Pares, Conexion
<1>3. ASSUME Pidio(x) PROVE Pidio(x)'
  BY <1>2, <1>3 DEF Pidio, Firme, Conexion
<1> QED BY <1>1, <1>3

LEMMA FinesMarco ==
  ASSUME TipoCx, TipoCx', Firme, NEW x \in Consola, Fines(x),
         par'[x].estado = "activo" => \/ par[x].estado = "activo" /\ par'[x].pid = par[x].pid
                                      \/ PidDe(x, par'[x].pid),
         \A n \in Nat : EnCurso(x, <<"fin", n>>)' =>
           EnCurso(x, <<"fin", n>>) \/ (PidDe(x, n) /\ Pidio(x)')
  PROVE  Fines(x)'
<1>1. ASSUME par'[x].estado = "activo" PROVE PidDe(x, par[x].pid)'
  <2>1. PICK n : n = par'[x].pid
    OBVIOUS
  <2>2. PidDe(x, n)
    BY <1>1, <2>1 DEF Fines
  <2>3. PidDe(x, n)'
    BY <2>2, PidFirme
  <2> QED BY <2>1, <2>3 DEF PidDe
<1>2. ASSUME NEW n \in Nat, EnCurso(x, <<"fin", n>>)' PROVE PidDe(x, n)' /\ Pidio(x)'
  BY <1>2, PidFirme DEF Fines
<1> QED BY <1>1, <1>2 DEF Fines

\* A PID given twice stays so.
LEMMA CondenasMarco ==
  ASSUME TipoCx, TipoCx', Firme, Condenas
  PROVE  Condenas'
<1> SUFFICES ASSUME PidsDistintos', NEW k \in Consola, programa'[k].matar # "no" PROVE Pidio(k)'
  BY DEF Condenas
<1>1. PidsDistintos
  <2> SUFFICES ASSUME NEW i \in Consola, NEW j \in Consola, programa[i].pid = programa[j].pid, programa[j].pid # 0
               PROVE  i = j
    BY DEF PidsDistintos
  <2>1. programa'[i].pid = programa[i].pid /\ programa'[j].pid = programa[j].pid
    BY DEF Firme, Alta
  <2> QED BY <2>1 DEF PidsDistintos
<1>2. Pidio(k)
  BY <1>1 DEF Firme, Condenas
<1> QED BY <1>2, PidFirme

\* What a step that begins no program leaves of the invariant.
MismosProgramas ==
  \A k \in Consola : /\ programa'[k].pid = programa[k].pid /\ programa'[k].fd = programa[k].fd
                     /\ programa'[k].estado = "sin_enviar" <=> programa[k].estado = "sin_enviar"
                     /\ ~ Alta(k) => programa'[k].matar = programa[k].matar
                     /\ Condenado(k) => Condenado(k)'

MasInfo ==
  /\ \A i \in DOMAIN info' : info'[i] \in Consola /\ Alta(info'[i])
  /\ \A i \in DOMAIN info : \A j \in 1..i : j \in DOMAIN info' /\ info'[j] = info[j]

HabloLoMismo(k) == (SinHablar(k)' => SinHablar(k)) /\ Codigos(k)' = Codigos(k)

MismosFines(x) ==
  /\ par'[x].estado = "activo" => \/ par[x].estado = "activo" /\ par'[x].pid = par[x].pid
                                  \/ PidDe(x, par'[x].pid)
  /\ \A n \in Nat : EnCurso(x, <<"fin", n>>)' =>
       EnCurso(x, <<"fin", n>>) \/ (PidDe(x, n) /\ Pidio(x)')

Conservan(k) ==
  \A f \in Fd : NumeroDe(k, f) =>
    /\ abierto[f] = k => abierto'[f] = k \/ Soltada(k)'
    /\ Soltada(k) => Soltada(k)'
    /\ SeVa(k)' => SeVa(k) \/ caido' \/ Condenado(k)' \/ Ante(k, f)

LEMMA AnteFirme ==
  ASSUME TipoCx, TipoCx', ManosCx, MismosProgramas, MasInfo, NEW k \in Consola, NEW f, Ante(k, f)
  PROVE  Ante(k, f)'
<1>1. PICK i \in DOMAIN info : programa[info[i]].fd = f /\ \A j \in 1..i : info[j] # k
  BY DEF Ante
<1>2. i \in 1..i
  BY DEF TipoCx
<1>3. i \in DOMAIN info' /\ \A j \in 1..i : info'[j] = info[j]
  BY <1>2 DEF MasInfo
<1>4. programa'[info'[i]].fd = f
  BY <1>1, <1>2, <1>3 DEF MismosProgramas, ManosCx
<1> QED BY <1>1, <1>3, <1>4 DEF Ante

LEMMA CondMarco ==
  ASSUME TipoCx, TipoCx', CondInv, Firme, MismosProgramas, MasInfo,
         \A h \in Mensaje : Menos(hilo[h], hilo'[h]),
         \A h \in Mensaje : hilo'[h].pc \in Cierra => cerrada'[abierto'[hilo'[h].fd]],
         \A k \in Consola : (UnCodigo(k)' \/ HabloLoMismo(k)) /\ MismosFines(k) /\ Conservan(k)
  PROVE  CondInv'
<1>1. ManosCx'
  BY MenosDa DEF CondInv, ManosCx, MasInfo
<1>2. Condenas'
  BY CondenasMarco DEF CondInv
<1>3. ASSUME NEW k \in Consola PROVE UnCodigo(k)'
  <2> SUFFICES ASSUME HabloLoMismo(k) PROVE UnCodigo(k)'
    OBVIOUS
  <2>1. (Alta(k)' <=> Alta(k)) /\ UnCodigo(k)
    BY DEF MismosProgramas, Alta, CondInv
  <2>2. \A h \in Mensaje : Trae(hilo'[h], k) => Trae(hilo[h], k) /\ (hilo'[h].pc = "info" <=> hilo[h].pc = "info")
    BY MenosDa
  <2> QED BY <2>1, <2>2, CodigoMarco DEF MismosProgramas, MasInfo, HabloLoMismo
<1>4. ASSUME NEW k \in Consola PROVE NumerosBien(k)'
  <2>1. NumerosBien(k) /\ Conservan(k)
    BY DEF CondInv
  <2>2. \A h \in Mensaje : Trae(hilo'[h], k) => Trae(hilo[h], k) /\ hilo'[h].fd = hilo[h].fd
    BY MenosDa
  <2>3. ASSUME NEW f \in Fd \cup {0}, NumeroDe(k, f)' PROVE NumeroDe(k, f)
    BY <2>2, <2>3 DEF NumeroDe, MismosProgramas, Alta
  <2>4. \A f \in Fd : Ante(k, f) => Ante(k, f)'
    BY AnteFirme DEF CondInv
  <2>5. (caido => caido') /\ (Condenado(k) => Condenado(k)')
    BY DEF Firme, MismosProgramas
  <2>6. ASSUME NEW f \in Fd \cup {0}, NumeroDe(k, f)'
        PROVE  f \in Fd /\ (abierto'[f] = k \/ Soltada(k)') /\ (SeVa(k)' => caido' \/ Condenado(k)' \/ Ante(k, f)')
    <3>1. f \in Fd /\ (abierto[f] = k \/ Soltada(k)) /\ (SeVa(k) => caido \/ Condenado(k) \/ Ante(k, f)) /\ NumeroDe(k, f)
      BY <2>1, <2>3, <2>6 DEF NumerosBien
    <3> QED BY <2>1, <2>4, <2>5, <3>1 DEF Conservan
  <2> QED BY <2>6 DEF NumerosBien
<1>5. ASSUME NEW k \in Consola PROVE Fines(k)'
  BY FinesMarco DEF CondInv, MismosFines
<1> QED BY <1>1, <1>2, <1>3, <1>4, <1>5 DEF CondInv

-----------------------------------------------------------------------------
LEMMA ProgramasInfo ==
  ASSUME TipoCx, CondInv, UNCHANGED info
  PROVE  MasInfo
<1>1. ASSUME NEW i \in DOMAIN info PROVE info[i] \in Consola /\ Alta(info[i])
  BY DEF CondInv, ManosCx, UnCodigo
<1>2. \A i \in DOMAIN info : \A j \in 1..i : j \in DOMAIN info
  BY DEF TipoCx
<1> QED BY <1>1, <1>2 DEF MasInfo

LEMMA ProgramasIguales ==
  ASSUME TipoCx, CondInv, UNCHANGED <<programa, info>>
  PROVE  MismosProgramas /\ MasInfo
<1>1. MismosProgramas
  BY DEF MismosProgramas, Condenado
<1> QED BY <1>1, ProgramasInfo

LEMMA EsPrimero ==
  ASSUME NEW S, S \subseteq Nat, NEW j \in S
  PROVE  Min(S) <= j
<1>1. \E b \in S : \A c \in S : b <= c
  BY HayPrimero
<1> QED BY <1>1 DEF Min

LEMMA EnCursoIgual ==
  ASSUME NEW x, NEW m, \A h \in Mensaje : Menos(hilo[h], hilo'[h]), entrada'[x] = entrada[x], EnCurso(x, m)'
  PROVE  EnCurso(x, m)
<1>1. \A h \in Mensaje : hilo'[h].pc = "procesa" => hilo[h].pc = "procesa" /\ hilo'[h].de = hilo[h].de /\ hilo'[h].msj = hilo[h].msj
  BY MenosDa
<1> QED BY <1>1 DEF EnCurso

LEMMA CodigosIguales ==
  ASSUME NEW k, entrada'[k] = entrada[k]
  PROVE  Codigos(k)' = Codigos(k)
BY DEF Codigos

LEMMA HablanIgual ==
  ASSUME NEW k, UNCHANGED <<par, entrada>>, \A h \in Mensaje : Menos(hilo[h], hilo'[h])
  PROVE  HabloLoMismo(k) /\ MismosFines(k)
<1>1. HabloLoMismo(k)
  BY CodigosIguales DEF HabloLoMismo, SinHablar
<1>2. MismosFines(k)
  BY EnCursoIgual DEF MismosFines
<1> QED BY <1>1, <1>2

LEMMA ConservanIgual ==
  ASSUME NEW k, UNCHANGED <<abierto, porAceptar, cerrada>>,
         \A h \in Mensaje : hilo'[h].pc = "cierra_consola" => hilo[h].pc = "cierra_consola" /\ hilo'[h].fd = hilo[h].fd
  PROVE  Conservan(k)
<1>1. Soltada(k)' <=> Soltada(k)
  BY DEF Soltada
<1>2. SeVa(k)' => SeVa(k)
  BY <1>1 DEF SeVa
<1> QED BY <1>1, <1>2 DEF Conservan

\* Whoever reads has its connection behind its descriptor.
LEMMA DetrasDe ==
  ASSUME TipoCx, ConexInv, ~ pisado, NEW h \in Mensaje, hilo[h].pc \in Leyendo
  PROVE  /\ hilo[h].fd \in Fd /\ hilo[h].ops = <<>> /\ Tiene(hilo[h], hilo[h].fd)
         /\ abierto[hilo[h].fd] \in Conexion /\ abierto[hilo[h].fd] # Nadie
         /\ hilo[h].pc \in {"consola", "cierra_consola"} => abierto[hilo[h].fd] \in Consola
         /\ hilo[h].pc \in {"cpu", "cierra_cpu"} => abierto[hilo[h].fd] \in Cpu
<1> DEFINE t == hilo[h]
<1>1. Forma(t)
  BY DEF ConexInv, FormaInv
<1>2. t.fd \in Fd /\ t.ops = <<>>
  BY <1>1 DEF Forma, Leyendo, Cierra
<1>3. Tiene(t, t.fd)
  BY DEF Tiene
<1>4. abierto[t.fd] \in Clase(SuSet(t))
  BY <1>2, <1>3 DEF ConexInv, Bien, Suyo
<1>5. /\ t.pc \in {"consola", "cierra_consola"} => Clase(SuSet(t)) = Consola
      /\ t.pc \in {"cpu", "cierra_cpu"} => Clase(SuSet(t)) = Cpu
  BY DEF Clase, SuSet
<1>6. t.pc \in {"cpu", "consola", "cierra_cpu", "cierra_consola"}
  BY DEF Leyendo, Cierra
<1> QED BY <1>2, <1>3, <1>4, <1>5, <1>6, ConexionesAssumption DEF Conexion

\* A step that changes nothing but threads, descriptors and sets.
LEMMA CondHilos ==
  ASSUME TipoCx, TipoCx', CondInv, UNCHANGED <<programa, info, entrada, cerrada, par>>, caido => caido',
         \A h \in Mensaje : Menos(hilo[h], hilo'[h]),
         \A h \in Mensaje : hilo'[h].pc \in Cierra => cerrada[abierto'[hilo'[h].fd]],
         \A k \in Consola : Conservan(k)
  PROVE  CondInv'
<1>1. MismosProgramas /\ MasInfo
  BY ProgramasIguales
<1>2. \A k \in Consola : HabloLoMismo(k) /\ MismosFines(k)
  BY HablanIgual
<1>3. Firme
  <2>1. \A x \in Conexion : par[x].enviados \in Nat
    BY DEF TipoCx, Pares
  <2> QED BY <2>1 DEF Firme, Alta
<1> QED BY <1>1, <1>2, <1>3, CondMarco

\* The thread of a message that goes on, and nothing else.
LEMMA MenosIgual ==
  ASSUME NEW t
  PROVE  Menos(t, t)
BY DEF Menos

LEMMA CondQuieta ==
  ASSUME TipoCx, TipoCx', CondInv, UNCHANGED <<programa, info, pares, abierto>>, caido => caido',
         \A h \in Mensaje : \/ hilo'[h] = hilo[h]
                            \/ hilo'[h].pc \notin {"procesa", "suma", "info"} \cup Cierra
                            \/ Menos(hilo[h], hilo'[h]) /\ hilo'[h].pc \in {"procesa", "suma", "info"}
  PROVE  CondInv'
<1>1. UNCHANGED <<entrada, cerrada, par, porAceptar>>
  BY DEF pares
<1>2. \A h \in Mensaje : Menos(hilo[h], hilo'[h])
  BY MenosIgual DEF Menos
<1>3. \A h \in Mensaje : hilo'[h].pc \in Cierra => hilo'[h] = hilo[h]
  BY DEF Cierra
<1>4. \A h \in Mensaje : hilo'[h].pc \in Cierra => cerrada[abierto'[hilo'[h].fd]]
  BY <1>3 DEF CondInv, ManosCx
<1>5. \A h \in Mensaje : hilo'[h].pc = "cierra_consola" => hilo[h].pc = "cierra_consola" /\ hilo'[h].fd = hilo[h].fd
  BY <1>3 DEF Cierra
<1>6. \A k \in Consola : Conservan(k)
  BY <1>1, <1>5, ConservanIgual
<1> QED BY <1>1, <1>2, <1>4, <1>6, CondHilos

-----------------------------------------------------------------------------
\* The main thread.

LEMMA CondMain ==
  ASSUME TipoCx, TipoCx', CondInv, UNCHANGED <<programa, info, pares, abierto>>, caido => caido',
         \A h \in Mensaje : hilo'[h] = hilo[h] \/ hilo'[h].pc \in {"libre", "cpu", "consola"}
  PROVE  CondInv'
<1>1. \A h \in Mensaje : hilo'[h] = hilo[h] \/ hilo'[h].pc \notin {"procesa", "suma", "info"} \cup Cierra
  BY DEF Cierra
<1> QED BY <1>1, CondQuieta

LEMMA CondSeleccionar ==
  ASSUME TipoCx, TipoCx', CondInv, Seleccionar
  PROVE  CondInv'
<1>1. UNCHANGED <<programa, info, pares, abierto, hilo>>
  BY DEF Seleccionar, Cae, progs, kernel, pares
<1>2. caido => caido'
  BY DEF Seleccionar, Cae
<1> QED BY <1>1, <1>2, CondMain

LEMMA CondMirar ==
  ASSUME TipoCx, TipoCx', CondInv, Mirar \/ MirarTambien
  PROVE  CondInv'
<1>1. UNCHANGED <<programa, info, pares, abierto>> /\ (caido => caido')
  BY DEF Mirar, MirarTambien, progs
<1>2. \E u : hilo' = [hilo EXCEPT ![Interfaz] = u]
  <2>1. \A donde : Ir(Interfaz, donde) => \E u : hilo' = [hilo EXCEPT ![Interfaz] = u]
    BY DEF Ir
  <2>2. \A o, donde : Cambiar(Interfaz, o, donde) => \E u : hilo' = [hilo EXCEPT ![Interfaz] = u]
    BY DEF Cambiar
  <2> QED BY <2>1, <2>2 DEF Mirar, MirarTambien, MirarConsola
<1>3. \A h \in Mensaje : hilo'[h] = hilo[h]
  BY <1>2, OtrosMain
<1> QED BY <1>1, <1>3, CondMain

LEMMA CondLanzar ==
  ASSUME TipoCx, TipoCx', CondInv, Lanzar
  PROVE  CondInv'
<1>1. UNCHANGED <<programa, info, pares, abierto>> /\ (caido => caido')
  BY DEF Lanzar, progs
<1>2. PICK h \in Mensaje, pc \in {"sigue", "bucle"}, d \in {"cpu", "consola"} :
        hilo' = [hilo EXCEPT ![Interfaz].pc = pc, ![h] = [Libre EXCEPT !.pc = d, !.fd = Mira]]
  BY DEF Lanzar
<1>3. Interfaz \in Hilo /\ Mensaje \subseteq Hilo /\ Interfaz \notin Mensaje
  BY ConexionesAssumption DEF Hilo
<1> DEFINE t == [Libre EXCEPT !.pc = d, !.fd = Mira]
           u == [hilo[Interfaz] EXCEPT !.pc = pc]
<1>4. t.pc = d
  BY DEF Libre
<1>5. hilo' = [hilo EXCEPT ![Interfaz] = u, ![h] = t]
  BY <1>2, <1>3 DEF TipoCx
<1> HIDE DEF t, u
<1>6. \A g \in Mensaje : hilo'[g] = IF g = h THEN t ELSE hilo[g]
  BY <1>3, <1>5 DEF TipoCx
<1> QED BY <1>1, <1>4, <1>6, CondMain

LEMMA CondAceptar ==
  ASSUME TipoCx, TipoCx', CondInv, ConexInv, ~ pisado, Aceptar
  PROVE  CondInv'
<1>1. UNCHANGED <<programa, info, entrada, cerrada, par>> /\ (caido => caido')
  BY DEF Aceptar, progs
<1>2. CASE Libres = {}
  BY <1>1, <1>2, CondMain DEF Aceptar, pares
<1>3. CASE Libres # {}
  <2> DEFINE f == Min(Libres)
  <2>1. f \in Fd /\ abierto[f] = Nadie
    BY <1>3, EsLibre
  <2> HIDE DEF f
  <2>2. PICK x \in porAceptar : /\ abierto' = [abierto EXCEPT ![f] = x] /\ porAceptar' = porAceptar \ {x}
                                /\ Cambiar(Interfaz, <<Pone("master", f), Pone(SetDe(x), f)>>, "bucle")
    BY <1>3 DEF Aceptar, f
  <2>3. \E u : hilo' = [hilo EXCEPT ![Interfaz] = u]
    BY <2>2 DEF Cambiar
  <2>4. \A h \in Mensaje : hilo'[h] = hilo[h]
    BY <2>3, OtrosMain
  <2>5. \A h \in Mensaje : Menos(hilo[h], hilo'[h])
    BY <2>4, MenosIgual
  <2>6. ASSUME NEW h \in Mensaje, hilo'[h].pc \in Cierra
        PROVE  cerrada[abierto'[hilo'[h].fd]] /\ abierto'[hilo'[h].fd] = abierto[hilo[h].fd]
    <3>1. hilo[h].pc \in Cierra /\ hilo[h].pc \in Leyendo
      BY <2>4, <2>6 DEF Leyendo
    <3>2. hilo[h].fd \in Fd /\ hilo[h].fd # f
      BY <2>1, <3>1, DetrasDe
    <3>3. abierto'[hilo[h].fd] = abierto[hilo[h].fd]
      BY <2>1, <2>2, <3>2 DEF TipoCx
    <3> QED BY <2>4, <3>1, <3>3 DEF CondInv, ManosCx
  <2>7. ASSUME NEW k \in Consola PROVE Conservan(k)
    <3>1. \A g \in Fd : abierto'[g] = IF g = f THEN x ELSE abierto[g]
      BY <2>1, <2>2 DEF TipoCx
    <3>2. k # Nadie
      BY ConexionesAssumption
    <3>3. Soltada(k)' <=> Soltada(k)
      BY <1>1, <2>1, <2>2, <3>1, <3>2 DEF Soltada
    <3>4. SeVa(k)' => SeVa(k)
      BY <2>4, <2>6, <3>3 DEF SeVa, Cierra
    <3>5. \A g \in Fd : abierto[g] = k => abierto'[g] = k
      BY <2>1, <3>1, <3>2
    <3> QED BY <3>3, <3>4, <3>5 DEF Conservan
  <2> QED BY <1>1, <2>5, <2>6, <2>7, CondHilos
<1> QED BY <1>2, <1>3

LEMMA CondActualizar ==
  ASSUME TipoCx, TipoCx', CondInv, NEW h \in Hilo, Actualizar(h)
  PROVE  CondInv'
<1>1. UNCHANGED <<programa, info, pares, abierto>> /\ (caido => caido')
  BY DEF Actualizar, progs
<1> DEFINE u == Sigue(hilo[h])
<1>2. \A g \in Mensaje : hilo'[g] = hilo[g] \/ hilo'[g] = Sigue(hilo[g])
  BY DEF Actualizar, TipoCx, Hilo
<1>3. ASSUME NEW t \in Hilos
      PROVE  Sigue(t) = Libre \/ (Sigue(t).pc = t.pc /\ Sigue(t).de = t.de /\ Sigue(t).fd = t.fd /\ Sigue(t).msj = t.msj)
  BY DEF Sigue, Hilos
<1>4. ASSUME NEW g \in Mensaje
      PROVE  Menos(hilo[g], hilo'[g]) /\ (hilo'[g].pc \in Cierra => hilo[g].pc = hilo'[g].pc /\ hilo[g].fd = hilo'[g].fd)
  <2>1. hilo[g] \in Hilos
    BY DEF TipoCx, Hilo
  <2>2. hilo'[g] = hilo[g] \/ hilo'[g] = Libre \/ (hilo'[g].pc = hilo[g].pc /\ hilo'[g].de = hilo[g].de /\ hilo'[g].fd = hilo[g].fd /\ hilo'[g].msj = hilo[g].msj)
    BY <1>2, <1>3, <2>1
  <2>3. Libre.pc = "libre"
    BY DEF Libre
  <2> QED BY <2>2, <2>3, MenosIgual DEF Menos, Cierra
<1>5. \A g \in Mensaje : hilo'[g].pc \in Cierra => cerrada[abierto'[hilo'[g].fd]]
  BY <1>1, <1>4 DEF CondInv, ManosCx
<1>6. ASSUME NEW k \in Consola PROVE Conservan(k)
  BY <1>1, <1>4, ConservanIgual DEF pares, Cierra
<1> QED BY <1>1, <1>4, <1>5, <1>6, CondHilos DEF pares

-----------------------------------------------------------------------------
\* The thread of a message.

\* It goes to donde with nothing more in its hands.
LEMMA CondVa ==
  ASSUME TipoCx, TipoCx', CondInv, NEW h \in Mensaje, NEW u, hilo' = [hilo EXCEPT ![h] = u],
         UNCHANGED <<leido, programa, info, pares, abierto, caido>>,
         \/ u.pc \in {"libre", "cierra_cpu", "sale"} /\ (u.pc \in Cierra => cerrada[abierto[u.fd]])
         \/ u.pc \in {"procesa", "suma", "info"} /\ Menos(hilo[h], u)
  PROVE  CondInv'
<1>1. \A g \in Mensaje : hilo'[g] = IF g = h THEN u ELSE hilo[g]
  BY OtrosHilos
<1>2. UNCHANGED <<entrada, cerrada, par, porAceptar>>
  BY DEF pares
<1>3. \A g \in Mensaje : Menos(hilo[g], hilo'[g])
  <2>1. Menos(hilo[h], u)
    BY DEF Menos
  <2> QED BY <1>1, <2>1, MenosIgual
<1>4. \A g \in Mensaje : hilo'[g].pc \in Cierra => cerrada[abierto'[hilo'[g].fd]]
  BY <1>1 DEF CondInv, ManosCx, Cierra
<1>5. \A g \in Mensaje : hilo'[g].pc = "cierra_consola" => hilo[g].pc = "cierra_consola" /\ hilo'[g].fd = hilo[g].fd
  BY <1>1
<1>6. \A k \in Consola : Conservan(k)
  BY <1>2, <1>5, ConservanIgual
<1> QED BY <1>2, <1>3, <1>4, <1>6, CondHilos

LEMMA CondCae ==
  ASSUME TipoCx, TipoCx', CondInv, Cae
  PROVE  CondInv'
<1>1. UNCHANGED <<programa, info, pares, abierto, hilo>> /\ (caido => caido')
  BY DEF Cae, progs, kernel
<1> QED BY <1>1, CondMain

LEMMA HiloTipo ==
  ASSUME TipoCx, NEW h \in Mensaje
  PROVE  h \in Hilo /\ hilo[h] \in Hilos /\ DOMAIN hilo = Hilo
BY DEF TipoCx, Hilo

LEMMA CondLeerPid ==
  ASSUME TipoCx, TipoCx', CondInv, NEW h \in Mensaje, LeerPid(h)
  PROVE  CondInv'
<1> DEFINE t == hilo[h]
           u == [t EXCEPT !.pid = max_pid, !.pc = "suma"]
<1>1. h \in Hilo /\ t \in Hilos
  BY HiloTipo
<1>2. hilo' = [hilo EXCEPT ![h] = u]
  BY <1>1 DEF LeerPid, TipoCx
<1>3. u.pc = "suma" /\ u.de = t.de /\ u.fd = t.fd /\ u.msj = t.msj
  BY <1>1 DEF Hilos
<1>4. t.pc = "procesa" /\ t.msj = <<"codigo">>
  BY DEF LeerPid, En
<1> HIDE DEF u
<1>5. Menos(t, u)
  BY <1>3, <1>4 DEF Menos
<1>6. UNCHANGED <<leido, programa, info, pares, abierto, caido>>
  BY DEF LeerPid, progs
<1> QED BY <1>2, <1>3, <1>5, <1>6, CondVa

LEMMA CondCerrar ==
  ASSUME TipoCx, TipoCx', CondInv, ConexInv, ~ pisado, NEW h \in Mensaje, Cerrar(h)
  PROVE  CondInv'
<1> DEFINE t == hilo[h]
           f == t.fd
           ops == <<Quita("master", f), Quita(IF t.pc = "cierra_cpu" THEN "setCPUs" ELSE "setConsolas", f)>>
           u == [t EXCEPT !.ops = ops, !.pc = "sale"]
<1>1. h \in Hilo /\ t \in Hilos
  BY HiloTipo
<1>2. t.pc \in Cierra /\ t.pc \in Leyendo
  BY DEF Cerrar, En, Cierra, Leyendo
<1>3. f \in Fd /\ Tiene(t, f) /\ abierto[f] \in Conexion /\ (t.pc = "cierra_consola" => abierto[f] \in Consola)
      /\ (t.pc = "cierra_cpu" => abierto[f] \in Cpu)
  BY <1>2, DetrasDe
<1>4. CASE Cae
  BY <1>4, CondCae
<1>5. CASE ~ Cae
  <2>1. /\ hilo' = [hilo EXCEPT ![h] = u] /\ abierto' = [abierto EXCEPT ![f] = Nadie]
        /\ UNCHANGED <<leido, programa, info, pares, caido>>
    BY <1>1, <1>5 DEF Cerrar, Cambiar, progs, TipoCx
  <2>2. u.pc = "sale"
    BY <1>1 DEF Hilos
  <2> HIDE DEF u
  <2>3. \A g \in Mensaje : hilo'[g] = IF g = h THEN u ELSE hilo[g]
    BY <2>1, OtrosHilos
  <2>4. \A g \in Mensaje : Menos(hilo[g], hilo'[g])
    <3>1. Menos(t, u)
      BY <2>2 DEF Menos
    <3> QED BY <2>3, <3>1, MenosIgual
  <2>5. \A g \in Fd : abierto'[g] = IF g = f THEN Nadie ELSE abierto[g]
    BY <1>3, <2>1 DEF TipoCx
  <2>6. UNCHANGED <<entrada, cerrada, par, porAceptar>>
    BY <2>1 DEF pares
  <2>7. ASSUME NEW g \in Mensaje, hilo'[g].pc \in Cierra
        PROVE  hilo'[g] = hilo[g] /\ hilo[g].fd \in Fd /\ hilo[g].fd # f
    <3>1. g # h /\ hilo'[g] = hilo[g]
      BY <2>2, <2>3, <2>7 DEF Cierra
    <3>2. hilo[g].pc \in Leyendo
      BY <2>7, <3>1 DEF Leyendo
    <3>3. hilo[g].fd \in Fd /\ Tiene(hilo[g], hilo[g].fd)
      BY <3>2, DetrasDe
    <3>4. hilo[g].fd # f
      BY <1>3, <3>1, <3>3 DEF ConexInv, Bien, UnLugarDe
    <3> QED BY <3>1, <3>3, <3>4
  <2>8. \A g \in Mensaje : hilo'[g].pc \in Cierra => cerrada[abierto'[hilo'[g].fd]]
    BY <2>5, <2>7 DEF CondInv, ManosCx
  <2>9. ASSUME NEW k \in Consola PROVE Conservan(k)
    <3>1. k # Nadie /\ k \notin Cpu
      BY ConexionesAssumption
    <3>2. Soltada(k) => Soltada(k)'
      BY <2>5, <2>6, <3>1 DEF Soltada
    <3>3. CASE abierto[f] = k
      <4>1. t.pc = "cierra_consola" /\ cerrada[k]
        BY <1>2, <1>3, <3>1, <3>3 DEF Cierra, CondInv, ManosCx
      <4>2. SeVa(k)
        BY <3>3, <4>1 DEF SeVa
      <4>3. k \notin porAceptar /\ \A g \in Fd : abierto[g] = k => g = f
        BY <1>3, <3>1, <3>3 DEF ConexInv, FormaInv, Unicas
      <4>4. Soltada(k)'
        BY <2>5, <2>6, <3>1, <4>1, <4>3 DEF Soltada
      <4> QED BY <4>2, <4>4 DEF Conservan
    <3>4. CASE abierto[f] # k
      <4>1. \A g \in Fd : abierto[g] = k => abierto'[g] = k
        BY <2>5, <3>4
      <4>2. Soltada(k)' => Soltada(k)
        BY <2>6, <4>1 DEF Soltada
      <4>3. SeVa(k)' => SeVa(k)
        BY <2>5, <2>7, <4>2 DEF SeVa, Cierra
      <4> QED BY <3>2, <4>1, <4>3 DEF Conservan
    <3> QED BY <3>3, <3>4
  <2> QED BY <2>1, <2>4, <2>6, <2>8, <2>9, CondHilos
<1> QED BY <1>4, <1>5

LEMMA CondRecibe ==
  ASSUME NEW s \in Seq(Mensajes), s # <<>>
  PROVE  /\ Tail(s) \in Seq(Mensajes) /\ 1 \in DOMAIN s /\ Head(s) = s[1]
         /\ \A i \in DOMAIN Tail(s) : i + 1 \in DOMAIN s /\ Tail(s)[i] = s[i + 1] /\ i \in Nat \ {0}
OBVIOUS

\* The message received was on its way; the console is still behind f.
LEMMA CondRecibir ==
  ASSUME TipoCx, TipoCx', CondInv, ConexInv, ~ pisado, NEW h \in Mensaje, Recibir(h)
  PROVE  CondInv'
<1>0. PICK x, f : x = De(h) /\ f = hilo[h].fd
  OBVIOUS
<1> DEFINE t == hilo[h]
           m == Head(entrada[x])
           donde == IF t.pc = "cpu" THEN "sale" ELSE "procesa"
           u == [t EXCEPT !.de = x, !.msj = m, !.pc = donde, !.ops = Devuelve(t)]
<1>1. h \in Hilo /\ t \in Hilos /\ t.pc \in {"cpu", "consola"} /\ t.pc \in Leyendo
  BY HiloTipo DEF Recibir, En, Leyendo
<1>2. /\ f \in Fd /\ Tiene(t, f) /\ x \in Conexion /\ abierto[f] = x
      /\ (t.pc = "consola" => x \in Consola) /\ (t.pc = "cpu" => x \in Cpu)
  BY <1>0, <1>1, DetrasDe DEF De
<1>3. entrada[x] \in Seq(Mensajes) /\ entrada[x] # <<>>
  BY <1>0, <1>2 DEF TipoCx, Recibir
<1>4. /\ hilo' = [hilo EXCEPT ![h] = u]
      /\ \A y \in Conexion : entrada'[y] = IF y = x THEN Tail(entrada[x]) ELSE entrada[y]
  BY <1>0, <1>1, <1>2 DEF Recibir, TipoCx
<1>5. /\ UNCHANGED <<abierto, leido, programa, info, porAceptar, cerrada, par, caido>>
  BY DEF Recibir, progs
<1>6. u.pc = donde /\ u.de = x /\ u.msj = m /\ u.fd = f
  BY <1>0, <1>1 DEF Hilos
<1> DEFINE e == entrada[x]
<1>7. /\ 1 \in DOMAIN e /\ m = e[1]
      /\ \A i \in DOMAIN Tail(e) : i + 1 \in DOMAIN e /\ Tail(e)[i] = e[i + 1] /\ i \in Nat \ {0}
  BY <1>3, CondRecibe
<1>8. \A i \in DOMAIN entrada'[x] : i + 1 \in DOMAIN e /\ entrada'[x][i] = e[i + 1] /\ i \in Nat \ {0}
  BY <1>2, <1>4, <1>7
<1> HIDE DEF u, m, e
<1>9. \A g \in Mensaje : hilo'[g] = IF g = h THEN u ELSE hilo[g]
  BY <1>4, <1>5, OtrosHilos
<1>10. MismosProgramas /\ MasInfo /\ Firme
  <2>1. \A y \in Conexion : par[y].enviados \in Nat
    BY DEF TipoCx, Pares
  <2> QED BY <1>5, <2>1, ProgramasIguales DEF Firme, Alta
<1>11. \A g \in Mensaje : hilo'[g].pc \in Cierra => hilo'[g] = hilo[g]
  BY <1>6, <1>9 DEF Cierra
<1>12. \A g \in Mensaje : hilo'[g].pc \in Cierra => cerrada'[abierto'[hilo'[g].fd]]
  BY <1>5, <1>11 DEF CondInv, ManosCx
<1>13. \A k \in Consola : Conservan(k)
  BY <1>5, <1>11, ConservanIgual DEF Cierra
<1>14. CASE t.pc = "cpu"
  <2>1. Menos(t, u)
    BY <1>6, <1>14 DEF Menos
  <2>2. \A g \in Mensaje : Menos(hilo[g], hilo'[g])
    BY <1>9, <2>1, MenosIgual
  <2>3. ASSUME NEW k \in Consola PROVE HabloLoMismo(k) /\ MismosFines(k)
    <3>1. entrada'[k] = entrada[k]
      BY <1>2, <1>4, <1>14, ConexionesAssumption DEF Conexion
    <3> QED BY <1>5, <2>2, <3>1, CodigosIguales, EnCursoIgual DEF HabloLoMismo, MismosFines, SinHablar
  <2> QED BY <1>10, <1>12, <1>13, <2>2, <2>3, CondMarco
<1>15. CASE t.pc = "consola"
  <2>1. x \in Consola /\ u.pc = "procesa"
    BY <1>2, <1>6, <1>15
  <2>2. ManosCx'
    <3>1. \A g \in Mensaje : hilo'[g].pc \in {"procesa", "suma", "info"} => hilo'[g].de \in Consola
      BY <1>6, <1>9, <2>1 DEF CondInv, ManosCx
    <3> QED BY <1>10, <1>12, <3>1 DEF ManosCx, MasInfo
  <2>3. Condenas'
    BY <1>10, CondenasMarco DEF CondInv
  <2>4. ASSUME NEW k \in Consola, k # x PROVE UnCodigo(k)' /\ NumerosBien(k)' /\ Fines(k)'
    <3>1. entrada'[k] = entrada[k]
      BY <1>4, <2>4 DEF Conexion
    <3>2. ~ Trae(u, k)
      BY <1>6, <2>4 DEF Trae
    <3>3. \A g \in Mensaje : Trae(hilo'[g], k) => Trae(hilo[g], k) /\ hilo'[g] = hilo[g]
      BY <1>9, <3>2
    <3>4. UnCodigo(k)'
      <4>1. UnCodigo(k) /\ Codigos(k)' = Codigos(k)
        BY <3>1, CodigosIguales DEF CondInv
      <4>2. \A i \in DOMAIN info' : Alta(info'[i])
        BY <1>10 DEF MasInfo
      <4> QED BY <1>5, <3>3, <4>1, <4>2, CodigoMarco DEF Alta, SinHablar
    <3>5. NumerosBien(k)'
      <4>1. \A g \in Fd \cup {0} : NumeroDe(k, g)' => NumeroDe(k, g)
        BY <1>5, <3>3 DEF NumeroDe, Alta
      <4>2. (SeVa(k)' => SeVa(k)) /\ (Soltada(k)' <=> Soltada(k))
        BY <1>5, <1>11 DEF SeVa, Soltada, Cierra
      <4> QED BY <1>5, <4>1, <4>2 DEF CondInv, NumerosBien, Condenado, Ante
    <3>6. Fines(k)'
      <4>1. \A n \in Nat : EnCurso(k, <<"fin", n>>)' => EnCurso(k, <<"fin", n>>)
        BY <1>6, <1>9, <2>4, <3>1 DEF EnCurso
      <4> QED BY <1>5, <1>10, <4>1, FinesMarco DEF CondInv
    <3> QED BY <3>4, <3>5, <3>6
  <2>5. UnCodigo(x)'
    <3>1. UnCodigo(x) /\ (SinHablar(x)' <=> SinHablar(x)) /\ (Alta(x)' <=> Alta(x))
      BY <1>5, <2>1 DEF CondInv, SinHablar, Alta
    <3>2. /\ programa'[x] = programa[x]
          /\ ~ Alta(x)' => programa'[x].matar = "no" /\ \A i \in DOMAIN info' : info'[i] # x
      BY <1>5, <3>1 DEF UnCodigo
    <3>3. \A i \in Codigos(x)' : i + 1 \in Codigos(x) /\ i \in Nat \ {0}
      BY <1>8 DEF Codigos, e
    <3>4. \A i, j \in Codigos(x)' : i = j
      <4> SUFFICES ASSUME NEW i \in Codigos(x)', NEW j \in Codigos(x)' PROVE i = j
        OBVIOUS
      <4>1. i + 1 = j + 1 /\ i \in Nat /\ j \in Nat
        BY <3>1, <3>3 DEF UnCodigo
      <4> QED BY <4>1
    <3>5. CASE m = <<"codigo">>
      <4>1. 1 \in Codigos(x)
        BY <1>7, <3>5 DEF Codigos, e
      <4>2. ~ Alta(x) /\ SinHilo(x) /\ ~ SinHablar(x)
        BY <3>1, <4>1 DEF UnCodigo
      <4>3. Codigos(x)' = {}
        <5> SUFFICES ASSUME NEW i \in Codigos(x)' PROVE FALSE
          OBVIOUS
        <5>1. i + 1 = 1 /\ i \in Nat \ {0}
          BY <3>1, <3>3, <4>1 DEF UnCodigo
        <5> QED BY <5>1
      <4>4. \A g \in Mensaje : Trae(hilo'[g], x) => g = h
        BY <1>9, <4>2 DEF SinHilo
      <4>5. hilo'[h].pc # "info"
        BY <1>9, <2>1
      <4> QED BY <3>1, <3>2, <3>4, <4>2, <4>3, <4>4, <4>5 DEF UnCodigo
    <3>6. CASE m # <<"codigo">>
      <4>1. ~ Trae(u, x)
        BY <1>6, <2>1, <3>6 DEF Trae
      <4>2. \A g \in Mensaje : Trae(hilo'[g], x) => Trae(hilo[g], x) /\ hilo'[g] = hilo[g]
        BY <1>9, <4>1
      <4>3. (SinHilo(x) => SinHilo(x)') /\ (Codigos(x)' # {} => Codigos(x) # {})
        BY <3>3, <4>2 DEF SinHilo
      <4>4. \A g \in Mensaje : Trae(hilo'[g], x) => (Alta(x)' <=> hilo'[g].pc = "info")
        BY <3>1, <4>2 DEF UnCodigo
      <4>5. \A g, r \in Mensaje : Trae(hilo'[g], x) /\ Trae(hilo'[r], x) => g = r
        BY <3>1, <4>2 DEF UnCodigo
      <4> QED BY <3>1, <3>2, <3>4, <4>3, <4>4, <4>5 DEF UnCodigo
    <3> QED BY <3>5, <3>6
  <2>6. NumerosBien(x)'
    <3>1. ~ SeVa(x)'
      <4>1. ~ Soltada(x)'
        BY <1>2, <1>5 DEF Soltada
      <4>2. ASSUME NEW g \in Mensaje, hilo'[g].pc = "cierra_consola", abierto'[hilo'[g].fd] = x PROVE FALSE
        <5>1. hilo'[g] = hilo[g] /\ hilo[g].pc \in Leyendo /\ g # h
          BY <1>9, <1>11, <2>1, <4>2 DEF Cierra, Leyendo
        <5>2. hilo[g].fd \in Fd /\ Tiene(hilo[g], hilo[g].fd) /\ abierto[hilo[g].fd] = x /\ x # Nadie
          BY <1>5, <2>1, <4>2, <5>1, DetrasDe, ConexionesAssumption
        <5>3. hilo[g].fd = f
          BY <1>2, <5>2 DEF ConexInv, FormaInv, Unicas
        <5> QED BY <1>2, <5>1, <5>2, <5>3 DEF ConexInv, Bien, UnLugarDe
      <4> QED BY <4>1, <4>2 DEF SeVa
    <3>2. ASSUME NEW g \in Fd \cup {0}, NumeroDe(x, g)' PROVE g \in Fd /\ (abierto'[g] = x \/ Soltada(x)')
      <4>1. NumeroDe(x, g) \/ g = f
        BY <1>5, <1>6, <1>9, <3>2 DEF NumeroDe, Alta
      <4>2. CASE NumeroDe(x, g)
        <5>1. g \in Fd /\ (abierto[g] = x \/ Soltada(x))
          BY <2>1, <4>2 DEF CondInv, NumerosBien
        <5> QED BY <1>5, <5>1 DEF Soltada
      <4> QED BY <1>2, <1>5, <4>1, <4>2
    <3> QED BY <3>1, <3>2 DEF NumerosBien
  <2>7. Fines(x)'
    <3>1. ASSUME NEW n \in Nat, EnCurso(x, <<"fin", n>>)' PROVE EnCurso(x, <<"fin", n>>)
      <4>1. ASSUME NEW i \in DOMAIN entrada'[x], entrada'[x][i] = <<"fin", n>> PROVE EnCurso(x, <<"fin", n>>)
        BY <1>8, <4>1 DEF EnCurso, e
      <4>2. ASSUME NEW g \in Mensaje, hilo'[g].pc = "procesa", hilo'[g].de = x, hilo'[g].msj = <<"fin", n>>
            PROVE  EnCurso(x, <<"fin", n>>)
        <5>1. CASE g = h
          BY <1>6, <1>7, <1>9, <4>2, <5>1 DEF EnCurso, e
        <5>2. CASE g # h
          BY <1>9, <4>2, <5>2 DEF EnCurso
        <5> QED BY <5>1, <5>2
      <4> QED BY <3>1, <4>1, <4>2 DEF EnCurso
    <3> QED BY <1>5, <1>10, <2>1, <3>1, FinesMarco DEF CondInv
  <2> QED BY <2>2, <2>3, <2>4, <2>5, <2>6, <2>7 DEF CondInv
<1> QED BY <1>1, <1>14, <1>15

\* The first program with the number of the connection that ended.
LEMMA CondVerificar ==
  ASSUME TipoCx, TipoCx', CondInv, ConexInv, ~ pisado, NEW h \in Mensaje, Verificar(h)
  PROVE  CondInv'
<1>0. PICK f : f = hilo[h].fd
  OBVIOUS
<1> DEFINE t == hilo[h]
<1>1. h \in Hilo /\ t \in Hilos /\ t.pc \in {"cpu", "consola"} /\ t.pc \in Leyendo
  BY HiloTipo DEF Verificar, En, Leyendo
<1>2. /\ f \in Fd /\ Tiene(t, f) /\ abierto[f] \in Conexion /\ abierto[f] # Nadie
      /\ (t.pc = "consola" => abierto[f] \in Consola) /\ (t.pc = "cpu" => abierto[f] \in Cpu)
  BY <1>0, <1>1, DetrasDe
<1>3. cerrada[abierto[f]]
  BY <1>0, <1>2 DEF Verificar, Fin, De
<1>4. CASE Cae
  BY <1>4, CondCae
<1>5. CASE ~ Cae /\ t.pc = "cpu"
  <2> DEFINE u == [t EXCEPT !.pc = "cierra_cpu"]
  <2>1. /\ hilo' = [hilo EXCEPT ![h] = u]
        /\ UNCHANGED <<leido, programa, info, pares, abierto, caido>>
    BY <1>1, <1>5 DEF Verificar, Ir, TipoCx, progs
  <2>2. u.pc = "cierra_cpu" /\ u.fd = f
    BY <1>0, <1>1 DEF Hilos
  <2> HIDE DEF u
  <2> QED BY <1>3, <2>1, <2>2, CondVa
<1>6. CASE ~ Cae /\ t.pc = "consola"
  <2> DEFINE u == [t EXCEPT !.pc = "cierra_consola"]
             I == {j \in 1..Len(info) : programa[info[j]].fd = f}
  <2>1. PICK i : i = PrimeraInfo(f)
    OBVIOUS
  <2>2. /\ hilo' = [hilo EXCEPT ![h] = u] /\ i # 0
        /\ programa' = [programa EXCEPT ![info[i]].matar = IF programa[info[i]].estado = "FINISH" THEN @ ELSE "caida"]
        /\ UNCHANGED <<leido, info, pares, abierto, caido>>
    BY <1>0, <1>1, <1>6, <2>1 DEF Verificar, Ir, TipoCx
  <2>3. u.pc = "cierra_consola" /\ u.fd = f
    BY <1>0, <1>1 DEF Hilos
  <2> HIDE DEF u
  <2>4. i \in DOMAIN info /\ programa[info[i]].fd = f
    <3>1. I # {} /\ i = Min(I)
      BY <2>1, <2>2 DEF PrimeraInfo, SelectInSeq
    <3>2. I \subseteq Nat /\ DOMAIN info = 1..Len(info)
      BY DEF TipoCx
    <3> HIDE DEF I
    <3>3. i \in I
      BY <3>1, <3>2, EsMin
    <3> QED BY <3>2, <3>3 DEF I
  <2>5. PICK y : y = info[i]
    OBVIOUS
  <2>6. y \in Consola /\ Alta(y) /\ programa[y].fd = f
    BY <2>4, <2>5 DEF CondInv, ManosCx, UnCodigo
  <2>7. programa' = [programa EXCEPT ![y].matar = IF programa[y].estado = "FINISH" THEN @ ELSE "caida"]
    BY <2>2, <2>5
  <2>8. /\ \A k \in Consola : k # y => programa'[k] = programa[k]
        /\ programa'[y].pid = programa[y].pid /\ programa'[y].fd = programa[y].fd /\ programa'[y].estado = programa[y].estado
        /\ Condenado(y)'
    BY <2>6, <2>7 DEF TipoCx, Programas, Condenado
  <2>9. MismosProgramas
    BY <2>6, <2>8 DEF MismosProgramas, Condenado
  <2>10. MasInfo
    BY <2>2, ProgramasInfo
  <2>11. cerrada[y]
    <3>1. abierto[f] = y \/ Soltada(y)
      BY <1>2, <2>6 DEF CondInv, NumerosBien, NumeroDe
    <3> QED BY <1>3, <3>1 DEF Soltada
  <2>12. Firme
    <3>1. \A x \in Conexion : par[x].enviados \in Nat
      BY DEF TipoCx, Pares
    <3>2. \A x \in Conexion : par'[x].enviados >= par[x].enviados /\ (cerrada[x] => cerrada'[x])
      BY <2>2, <3>1 DEF pares
    <3>3. ASSUME NEW k \in Consola
          PROVE  programa'[k].pid = programa[k].pid /\ (programa'[k].matar # "no" => programa[k].matar # "no" \/ Pidio(k))
      BY <2>8, <2>11, <3>3 DEF Pidio
    <3> QED BY <2>2, <3>2, <3>3 DEF Firme
  <2>13. \A g \in Mensaje : hilo'[g] = IF g = h THEN u ELSE hilo[g]
    BY <2>2, OtrosHilos
  <2>14. \A g \in Mensaje : Menos(hilo[g], hilo'[g])
    <3>1. Menos(t, u)
      BY <2>3 DEF Menos
    <3> QED BY <2>13, <3>1, MenosIgual
  <2>15. \A g \in Mensaje : hilo'[g].pc \in Cierra => cerrada'[abierto'[hilo'[g].fd]]
    BY <1>3, <2>2, <2>3, <2>13 DEF CondInv, ManosCx, pares
  <2>16. \A k \in Consola : HabloLoMismo(k) /\ MismosFines(k)
    BY <2>2, <2>14, HablanIgual DEF pares
  <2>17. ASSUME NEW k \in Consola PROVE Conservan(k)
    <3>1. (Soltada(k)' <=> Soltada(k)) /\ (SeVa(k)' => SeVa(k) \/ abierto[f] = k)
      BY <2>2, <2>3, <2>13 DEF SeVa, Soltada, pares
    <3>2. ASSUME abierto[f] = k, NEW g \in Fd \cup {0}, NumeroDe(k, g) PROVE g = f
      <4>1. ~ Soltada(k)
        BY <1>2, <3>2 DEF Soltada
      <4>2. g \in Fd /\ abierto[g] = k
        BY <3>2, <4>1 DEF CondInv, NumerosBien
      <4> QED BY <1>2, <3>2, <4>2 DEF ConexInv, FormaInv, Unicas
    <3>3. ASSUME abierto[f] = k PROVE Condenado(k)' \/ Ante(k, f)
      <4>1. CASE y = k
        BY <2>8, <4>1
      <4>2. CASE y # k
        <5>1. ASSUME NEW j \in 1..i, info[j] = k PROVE FALSE
          <6>1. Alta(k) /\ programa[k].fd \in Fd \cup {0} /\ j \in DOMAIN info
            <7>1. k \in Consola /\ programa[k] \in Programas
              BY DEF CondInv, TipoCx
            <7>2. j \in DOMAIN info
              BY <2>4, <5>1 DEF TipoCx
            <7>3. Alta(k) /\ programa[k].fd \in Fd \cup {0}
              BY <5>1, <7>1, <7>2 DEF CondInv, UnCodigo, Programas
            <7> QED BY <7>2, <7>3
          <6>2. programa[k].fd = f
            <7>1. PICK g : g = programa[k].fd
              OBVIOUS
            <7>2. NumeroDe(k, g) /\ g \in Fd \cup {0}
              BY <6>1, <7>1 DEF NumeroDe
            <7>3. g = f
              BY <3>2, <3>3, <7>2
            <7> QED BY <7>1, <7>3
          <6>3. j \in I /\ I \subseteq Nat /\ i = Min(I)
            <7>1. i = Min(I)
              BY <2>1, <2>2 DEF PrimeraInfo, SelectInSeq
            <7>2. DOMAIN info = 1..Len(info) /\ Len(info) \in Nat
              BY DEF TipoCx
            <7> QED BY <5>1, <6>1, <6>2, <7>1, <7>2
          <6>4. i <= j
            <7> HIDE DEF I
            <7> QED BY <6>3, EsPrimero
          <6>5. j = i
            BY <2>4, <5>1, <6>4 DEF TipoCx
          <6> QED BY <2>5, <4>2, <5>1, <6>5
        <5> QED BY <2>4, <5>1 DEF Ante
      <4> QED BY <4>1, <4>2
    <3>4. ASSUME NEW g \in Fd, NumeroDe(k, g) PROVE SeVa(k)' => SeVa(k) \/ Condenado(k)' \/ Ante(k, g)
      BY <3>1, <3>2, <3>3, <3>4
    <3> QED BY <2>2, <3>1, <3>4 DEF Conservan
  <2> QED BY <2>9, <2>10, <2>12, <2>14, <2>15, <2>16, <2>17, CondMarco
<1> QED BY <1>1, <1>4, <1>5, <1>6

\* No message is two messages.
LEMMA Distintos ==
  ASSUME NEW n
  PROVE  <<"fin", n>> \notin {<<>>, <<"codigo">>, <<"handshake">>, <<"pedido">>}
<1>1. Len(<<"fin", n>>) = 2 /\ Len(<<"codigo">>) = 1 /\ Len(<<"handshake">>) = 1 /\ Len(<<"pedido">>) = 1 /\ Len(<<>>) = 0
  OBVIOUS
<1> QED BY <1>1

LEMMA DosFines ==
  ASSUME NEW n, NEW m, <<"fin", n>> = <<"fin", m>>
  PROVE  n = m
OBVIOUS

\* One more message.
LEMMA UnoMas ==
  ASSUME NEW s \in Seq(Mensajes), NEW m
  PROVE  /\ \A i \in DOMAIN s : i \in DOMAIN Append(s, m) /\ Append(s, m)[i] = s[i]
         /\ \A i \in DOMAIN Append(s, m) : i \in DOMAIN s \/ (i = Len(s) + 1 /\ Append(s, m)[i] = m)
         /\ Append(s, m)[Len(s) + 1] = m /\ Len(s) + 1 \in DOMAIN Append(s, m)
OBVIOUS

LEMMA MandaOtro ==
  ASSUME TipoCx, NEW k \in Conexion, NEW m, Mandar(k, m) \/ entrada'[k] = entrada[k] \/ \E x \in Conexion \ {k} : Mandar(x, m)
  PROVE  /\ m # <<"codigo">> => Codigos(k)' = Codigos(k)
         /\ \A n : (\E i \in DOMAIN entrada'[k] : entrada'[k][i] = n) => n = m \/ \E i \in DOMAIN entrada[k] : entrada[k][i] = n
<1>1. CASE Mandar(k, m)
  <2> DEFINE s == entrada[k]
             r == Append(s, m)
  <2>1. s \in Seq(Mensajes) /\ entrada'[k] = r
    BY <1>1 DEF Mandar, TipoCx
  <2>2. /\ \A i \in DOMAIN s : i \in DOMAIN r /\ r[i] = s[i]
        /\ \A i \in DOMAIN r : i \in DOMAIN s \/ (i = Len(s) + 1 /\ r[i] = m)
    BY <2>1, UnoMas
  <2> HIDE DEF r
  <2> QED BY <2>1, <2>2 DEF Codigos
<1>2. CASE ~ Mandar(k, m)
  <2>1. entrada'[k] = entrada[k]
    BY <1>2 DEF Mandar, TipoCx
  <2> QED BY <2>1 DEF Codigos
<1> QED BY <1>1, <1>2

\* What the kernel tells a console.
LEMMA EnviarHabla ==
  ASSUME TipoCx, CondInv, MismosProgramas, MasInfo, NEW f, NEW m, Enviar(f, m),
         \A h \in Mensaje : Menos(hilo[h], hilo'[h]), NEW k \in Consola,
         abierto[f] = k /\ m[1] = "pid" => PidDe(k, m[2])
  PROVE  (UnCodigo(k)' \/ HabloLoMismo(k)) /\ MismosFines(k)
<1> DEFINE p == par[k]
<1>0. k \in Conexion /\ p \in Pares
  BY DEF TipoCx, Conexion
<1>1. CASE abierto[f] # k \/ ~ Vive(k)
  <2>1. par'[k] = par[k] /\ entrada'[k] = entrada[k]
    BY <1>0, <1>1 DEF Enviar, Mandar, TipoCx
  <2> QED BY <2>1, CodigosIguales, EnCursoIgual DEF HabloLoMismo, MismosFines, SinHablar
<1>2. CASE abierto[f] = k /\ Vive(k) /\ p.estado # "saluda"
  <2>1. par'[k] = Reaccion(p, m) /\ entrada'[k] = entrada[k] /\ p.estado # "fuera"
    BY <1>0, <1>2 DEF Enviar, TipoCx, Vive
  <2>2. /\ par'[k].estado \notin {"fuera", "saluda"}
        /\ par'[k].estado = "activo" => \/ p.estado = "activo" /\ par'[k].pid = p.pid
                                        \/ m[1] = "pid" /\ par'[k].pid = m[2]
    BY <1>0, <1>2, <2>1 DEF Reaccion, Pares
  <2>3. HabloLoMismo(k)
    BY <2>1, <2>2, CodigosIguales DEF HabloLoMismo, SinHablar
  <2>4. MismosFines(k)
    BY <1>2, <2>1, <2>2, EnCursoIgual DEF MismosFines
  <2> QED BY <2>3, <2>4
<1>3. CASE abierto[f] = k /\ Vive(k) /\ p.estado = "saluda"
  <2> DEFINE s == entrada[k]
             r == Append(s, <<"codigo">>)
  <2>1. par'[k] = Reaccion(p, m) /\ entrada'[k] = r /\ s \in Seq(Mensajes)
    BY <1>0, <1>3 DEF Enviar, Mandar, TipoCx
  <2>2. par'[k].estado = "espera"
    BY <1>0, <1>3, <2>1 DEF Reaccion, Pares
  <2>3. \A i \in DOMAIN r : i \in DOMAIN s \/ (i = Len(s) + 1 /\ r[i] = <<"codigo">>)
    BY <2>1, UnoMas
  <2>4. \A i \in DOMAIN s : r[i] = s[i]
    BY <2>1, UnoMas
  <2> HIDE DEF r
  <2>5. UnCodigo(k) /\ Codigos(k) = {} /\ ~ Alta(k) /\ SinHilo(k)
    BY <1>3 DEF CondInv, UnCodigo, SinHablar
  <2>6. \A i \in Codigos(k)' : i = Len(s) + 1
    BY <2>1, <2>3, <2>4, <2>5 DEF Codigos
  <2>7. SinHilo(k)' /\ ~ Alta(k)'
    BY <2>5, MenosDa DEF SinHilo, MismosProgramas, Alta
  <2>8. ~ SinHablar(k)'
    BY <2>2 DEF SinHablar
  <2>9. programa'[k].estado = "sin_enviar" /\ programa'[k].matar = "no" /\ \A i \in DOMAIN info' : info'[i] # k
    BY <2>5 DEF UnCodigo, MismosProgramas, MasInfo
  <2>10. UnCodigo(k)'
    BY <2>6, <2>7, <2>8, <2>9 DEF UnCodigo, SinHilo
  <2>11. ASSUME NEW n \in Nat, EnCurso(k, <<"fin", n>>)' PROVE EnCurso(k, <<"fin", n>>)
    <3>1. \A h \in Mensaje : hilo'[h].pc = "procesa" => hilo[h].pc = "procesa" /\ hilo'[h].de = hilo[h].de /\ hilo'[h].msj = hilo[h].msj
      BY MenosDa
    <3>2. <<"codigo">> # <<"fin", n>>
      BY Distintos
    <3>3. ASSUME NEW i \in DOMAIN entrada'[k], entrada'[k][i] = <<"fin", n>>
          PROVE  i \in DOMAIN s /\ s[i] = <<"fin", n>>
      BY <2>1, <2>3, <2>4, <3>2, <3>3
    <3> QED BY <2>11, <3>1, <3>3 DEF EnCurso
  <2>12. MismosFines(k)
    BY <2>2, <2>11 DEF MismosFines
  <2> QED BY <2>10, <2>12
<1> QED BY <1>1, <1>2, <1>3

LEMMA EnviarCuenta ==
  ASSUME TipoCx, NEW f, NEW m, Enviar(f, m), NEW x \in Conexion
  PROVE  par'[x].enviados = par[x].enviados /\ par[x].enviados \in Nat
<1>1. par[x] \in Pares
  BY DEF TipoCx
<1>2. par'[x] = par[x] \/ par'[x] = Reaccion(par[x], m)
  BY DEF Enviar, TipoCx
<1> QED BY <1>1, <1>2 DEF Reaccion, Pares

LEMMA CondSaludar ==
  ASSUME TipoCx, TipoCx', CondInv, NEW h \in Mensaje, Saludar(h)
  PROVE  CondInv'
<1>1. CASE Cae
  BY <1>1, CondCae
<1>2. CASE ~ Cae
  <2>1. PICK f : f = hilo[h].fd
    OBVIOUS
  <2>2. /\ Enviar(f, <<"handshake">>) /\ hilo' = [hilo EXCEPT ![h] = Libre]
        /\ UNCHANGED <<leido, programa, info, abierto, porAceptar, cerrada, caido>>
    BY <1>2, <2>1 DEF Saludar, progs
  <2>3. \A g \in Mensaje : hilo'[g] = IF g = h THEN Libre ELSE hilo[g]
    BY <2>2, OtrosHilos
  <2>4. Libre.pc = "libre"
    BY DEF Libre
  <2>5. \A g \in Mensaje : Menos(hilo[g], hilo'[g])
    <3>1. Menos(hilo[h], Libre)
      BY <2>4 DEF Menos
    <3> QED BY <2>3, <3>1, MenosIgual
  <2>6. MismosProgramas /\ MasInfo
    BY <2>2, ProgramasIguales
  <2>7. Firme
    BY <2>2, EnviarCuenta DEF Firme, Alta
  <2>8. \A g \in Mensaje : hilo'[g].pc \in Cierra => hilo'[g] = hilo[g]
    BY <2>3, <2>4 DEF Cierra
  <2>9. \A g \in Mensaje : hilo'[g].pc \in Cierra => cerrada'[abierto'[hilo'[g].fd]]
    BY <2>2, <2>8 DEF CondInv, ManosCx
  <2>10. \A k \in Consola : Conservan(k)
    BY <2>2, <2>8, ConservanIgual DEF Cierra
  <2>11. <<"handshake">>[1] # "pid"
    OBVIOUS
  <2>12. \A k \in Consola : (UnCodigo(k)' \/ HabloLoMismo(k)) /\ MismosFines(k)
    BY <2>2, <2>5, <2>6, <2>11, EnviarHabla
  <2> QED BY <2>5, <2>6, <2>7, <2>9, <2>10, <2>12, CondMarco
<1> QED BY <1>1, <1>2

LEMMA CondCrearInfo ==
  ASSUME TipoCx, TipoCx', CondInv, NEW h \in Mensaje, CrearInfo(h)
  PROVE  CondInv'
<1>1. PICK k : k = hilo[h].de
  OBVIOUS
<1> DEFINE nuevo == Append(info, k)
<1>2. /\ info' = nuevo /\ hilo' = [hilo EXCEPT ![h] = Libre] /\ hilo[h].pc = "info"
      /\ UNCHANGED <<leido, programa, pares, abierto, caido>>
  BY <1>1 DEF CrearInfo, En
<1>3. k \in Consola /\ Alta(k)
  <2>1. k \in Consola /\ Trae(hilo[h], k)
    BY <1>1, <1>2 DEF CondInv, ManosCx, Trae
  <2> QED BY <1>2, <2>1 DEF CondInv, UnCodigo
<1>4. /\ \A i \in DOMAIN info : i \in DOMAIN nuevo /\ nuevo[i] = info[i]
      /\ \A i \in DOMAIN nuevo : i \in DOMAIN info \/ nuevo[i] = k
  BY DEF TipoCx
<1>5. \A i \in DOMAIN info : info[i] \in Consola /\ Alta(info[i])
  BY DEF CondInv, ManosCx, UnCodigo
<1>6. \A i \in DOMAIN info : \A j \in 1..i : j \in DOMAIN info
  BY DEF TipoCx
<1> HIDE DEF nuevo
<1>7. MasInfo
  BY <1>2, <1>3, <1>4, <1>5, <1>6 DEF MasInfo
<1>8. MismosProgramas
  BY <1>2 DEF MismosProgramas, Condenado
<1>9. \A g \in Mensaje : hilo'[g] = IF g = h THEN Libre ELSE hilo[g]
  BY <1>2, OtrosHilos
<1>10. Libre.pc = "libre"
  BY DEF Libre
<1>11. \A g \in Mensaje : Menos(hilo[g], hilo'[g])
  <2>1. Menos(hilo[h], Libre)
    BY <1>10 DEF Menos
  <2> QED BY <1>9, <2>1, MenosIgual
<1>12. Firme
  <2>1. \A x \in Conexion : par[x].enviados \in Nat
    BY DEF TipoCx, Pares
  <2> QED BY <1>2, <2>1 DEF Firme, Alta, pares
<1>13. \A g \in Mensaje : hilo'[g].pc \in Cierra => hilo'[g] = hilo[g]
  BY <1>9, <1>10 DEF Cierra
<1>14. \A g \in Mensaje : hilo'[g].pc \in Cierra => cerrada'[abierto'[hilo'[g].fd]]
  BY <1>2, <1>13 DEF CondInv, ManosCx, pares
<1>15. \A j \in Consola : Conservan(j)
  BY <1>2, <1>13, ConservanIgual DEF Cierra, pares
<1>16. \A j \in Consola : HabloLoMismo(j) /\ MismosFines(j)
  BY <1>2, <1>11, HablanIgual DEF pares
<1> QED BY <1>7, <1>8, <1>11, <1>12, <1>14, <1>15, <1>16, CondMarco

\* The program whose PID came in the message.
LEMMA CondFinalizar ==
  ASSUME TipoCx, TipoCx', CondInv, NEW h \in Mensaje, FinalizarPrograma(h)
  PROVE  CondInv'
<1> DEFINE m == hilo[h].msj
           I == {j \in 1..Len(info) : <<"fin", programa[info[j]].pid>> = m}
<1>1. CASE Cae
  BY <1>1, CondCae
<1>2. CASE ~ Cae
  <2>1. PICK i : i = SelectInSeq(info, LAMBDA k : <<"fin", programa[k].pid>> = m)
    OBVIOUS
  <2>2. /\ i # 0 /\ programa' = [programa EXCEPT ![info[i]].matar = "stop"]
        /\ hilo' = [hilo EXCEPT ![h] = Libre] /\ hilo[h].pc = "procesa"
        /\ UNCHANGED <<leido, info, pares, abierto, caido>>
    BY <1>2, <2>1 DEF FinalizarPrograma, En
  <2>3. i \in DOMAIN info /\ <<"fin", programa[info[i]].pid>> = m
    <3>1. I # {} /\ i = Min(I)
      BY <2>1, <2>2 DEF SelectInSeq
    <3>2. I \subseteq Nat /\ DOMAIN info = 1..Len(info)
      BY DEF TipoCx
    <3> HIDE DEF I
    <3>3. i \in I
      BY <3>1, <3>2, EsMin
    <3> QED BY <3>2, <3>3 DEF I
  <2>4. PICK y, x, n : y = info[i] /\ x = hilo[h].de /\ n = programa[y].pid
    OBVIOUS
  <2>5. y \in Consola /\ Alta(y) /\ x \in Consola /\ m = <<"fin", n>> /\ n \in Nat
    BY <2>2, <2>3, <2>4 DEF CondInv, ManosCx, UnCodigo, TipoCx, Programas
  <2>6. PidDe(x, n) /\ Pidio(x)
    <3>1. EnCurso(x, <<"fin", n>>)
      BY <2>2, <2>4, <2>5 DEF EnCurso
    <3> QED BY <2>5, <3>1 DEF CondInv, Fines
  <2>7. ASSUME PidsDistintos PROVE Pidio(y)
    <3>1. PICK k \in Consola : n # 0 /\ programa[k].pid = n /\ (k = x \/ cerrada[k])
      BY <2>6 DEF PidDe
    <3>2. k = y
      BY <2>4, <2>5, <2>7, <3>1 DEF PidsDistintos
    <3> QED BY <2>6, <3>1, <3>2 DEF Pidio
  <2>8. programa' = [programa EXCEPT ![y].matar = "stop"]
    BY <2>2, <2>4
  <2>9. /\ \A k \in Consola : k # y => programa'[k] = programa[k]
        /\ programa'[y].pid = programa[y].pid /\ programa'[y].fd = programa[y].fd /\ programa'[y].estado = programa[y].estado
        /\ Condenado(y)'
    BY <2>5, <2>8 DEF TipoCx, Programas, Condenado
  <2>10. MismosProgramas /\ MasInfo
    <3>1. MismosProgramas
      BY <2>5, <2>9 DEF MismosProgramas, Condenado
    <3> QED BY <2>2, <3>1, ProgramasInfo
  <2>11. Firme
    <3>1. \A z \in Conexion : par[z].enviados \in Nat
      BY DEF TipoCx, Pares
    <3>2. \A z \in Conexion : par'[z].enviados >= par[z].enviados /\ (cerrada[z] => cerrada'[z])
      BY <2>2, <3>1 DEF pares
    <3>3. ASSUME NEW k \in Consola
          PROVE  programa'[k].pid = programa[k].pid
                 /\ (PidsDistintos /\ programa'[k].matar # "no" => programa[k].matar # "no" \/ Pidio(k))
      BY <2>7, <2>9, <3>3
    <3> QED BY <2>2, <3>2, <3>3 DEF Firme
  <2>12. \A g \in Mensaje : hilo'[g] = IF g = h THEN Libre ELSE hilo[g]
    BY <2>2, OtrosHilos
  <2>13. Libre.pc = "libre"
    BY DEF Libre
  <2>14. \A g \in Mensaje : Menos(hilo[g], hilo'[g])
    <3>1. Menos(hilo[h], Libre)
      BY <2>13 DEF Menos
    <3> QED BY <2>12, <3>1, MenosIgual
  <2>15. \A g \in Mensaje : hilo'[g].pc \in Cierra => hilo'[g] = hilo[g]
    BY <2>12, <2>13 DEF Cierra
  <2>16. \A g \in Mensaje : hilo'[g].pc \in Cierra => cerrada'[abierto'[hilo'[g].fd]]
    BY <2>2, <2>15 DEF CondInv, ManosCx, pares
  <2>17. \A k \in Consola : Conservan(k)
    BY <2>2, <2>15, ConservanIgual DEF Cierra, pares
  <2>18. \A k \in Consola : HabloLoMismo(k) /\ MismosFines(k)
    BY <2>2, <2>14, HablanIgual DEF pares
  <2> QED BY <2>10, <2>11, <2>14, <2>16, <2>17, <2>18, CondMarco
<1> QED BY <1>1, <1>2

\* The program exists from here on.
LEMMA CondAsignar ==
  ASSUME TipoCx, TipoCx', CondInv, FormaInv, NEW h \in Mensaje, AsignarPid(h)
  PROVE  CondInv'
<1>1. PICK k, f, n : k = hilo[h].de /\ f = hilo[h].fd /\ n = hilo[h].pid + 1
  OBVIOUS
<1> DEFINE u == [hilo[h] EXCEPT !.pc = "info"]
<1>2. h \in Hilo /\ hilo[h] \in Hilos /\ hilo[h].pc = "suma"
  BY HiloTipo DEF AsignarPid, En
<1>3. /\ programa' = [programa EXCEPT ![k] = [@ EXCEPT !.pid = n, !.fd = f, !.estado = "NEW"]]
      /\ hilo' = [hilo EXCEPT ![h] = u]
      /\ UNCHANGED <<leido, info, pares, abierto, caido>>
  BY <1>1, <1>2 DEF AsignarPid, Ir, TipoCx
<1>4. u.pc = "info" /\ u.de = k /\ u.fd = f
  BY <1>1, <1>2 DEF Hilos
<1> HIDE DEF u
<1>5. k \in Consola /\ Trae(hilo[h], k) /\ UnCodigo(k) /\ NumerosBien(k)
  BY <1>1, <1>2 DEF CondInv, ManosCx, Trae
<1>6. ~ Alta(k) /\ Codigos(k) = {} /\ ~ SinHablar(k) /\ \A g \in Mensaje : Trae(hilo[g], k) => g = h
  BY <1>2, <1>5 DEF UnCodigo, SinHilo
<1>7. n \in Nat /\ n # 0 /\ f \in Fd
  BY <1>1, <1>2 DEF Hilos, FormaInv, Forma
<1>8. /\ \A j \in Consola : j # k => programa'[j] = programa[j]
      /\ programa'[k].pid = n /\ programa'[k].fd = f /\ programa'[k].estado = "NEW" /\ programa'[k].matar = programa[k].matar
  BY <1>3, <1>5 DEF TipoCx, Programas
<1>9. \A g \in Mensaje : hilo'[g] = IF g = h THEN u ELSE hilo[g]
  BY <1>3, OtrosHilos
<1>10. \A g \in Mensaje : hilo'[g].pc \in Cierra => hilo'[g] = hilo[g]
  BY <1>4, <1>9 DEF Cierra
<1>11. Firme
  <2>1. \A z \in Conexion : par[z].enviados \in Nat
    BY DEF TipoCx, Pares
  <2>2. \A z \in Conexion : par'[z].enviados >= par[z].enviados /\ (cerrada[z] => cerrada'[z])
    BY <1>3, <2>1 DEF pares
  <2>3. ASSUME NEW j \in Consola
        PROVE  (Alta(j) => programa'[j].pid = programa[j].pid) /\ programa'[j].matar = programa[j].matar
    BY <1>6, <1>8, <2>3
  <2> QED BY <1>3, <2>2, <2>3 DEF Firme
<1>12. ManosCx'
  <2>1. \A g \in Mensaje : hilo'[g].pc \in {"procesa", "suma", "info"} => hilo'[g].de \in Consola
    BY <1>4, <1>5, <1>9 DEF CondInv, ManosCx
  <2>2. \A g \in Mensaje : hilo'[g].pc \in Cierra => cerrada'[abierto'[hilo'[g].fd]]
    BY <1>3, <1>10 DEF CondInv, ManosCx, pares
  <2> QED BY <1>3, <2>1, <2>2 DEF CondInv, ManosCx
<1>13. Condenas'
  BY <1>11, CondenasMarco DEF CondInv
<1>14. ASSUME NEW j \in Consola PROVE Fines(j)'
  <2>1. \A m : EnCurso(j, <<"fin", m>>)' => EnCurso(j, <<"fin", m>>)
    BY <1>3, <1>4, <1>9 DEF EnCurso, pares
  <2> QED BY <1>3, <1>11, <2>1, FinesMarco DEF CondInv, pares
<1>15. \A i \in DOMAIN info : info[i] \in Consola /\ Alta(info[i]) /\ info[i] # k
  BY <1>6 DEF CondInv, ManosCx, UnCodigo
<1>16. \A j : \A g : Ante(j, g) => Ante(j, g)'
  BY <1>3, <1>8, <1>15 DEF Ante
<1>17. \A j : (SeVa(j)' <=> SeVa(j)) /\ (Soltada(j)' <=> Soltada(j))
  <2> TAKE j
  <2>1. Soltada(j)' <=> Soltada(j)
    BY <1>3 DEF Soltada, pares
  <2>2. \A g \in Mensaje : hilo'[g].pc = "cierra_consola" <=> hilo[g].pc = "cierra_consola"
    BY <1>2, <1>4, <1>9
  <2>3. \A g \in Mensaje : hilo'[g].pc = "cierra_consola" => hilo'[g] = hilo[g]
    BY <1>10 DEF Cierra
  <2> QED BY <1>3, <2>1, <2>2, <2>3 DEF SeVa
<1>18. ASSUME NEW j \in Consola, j # k PROVE UnCodigo(j)' /\ NumerosBien(j)'
  <2>1. \A g \in Mensaje : Trae(hilo'[g], j) => Trae(hilo[g], j) /\ hilo'[g] = hilo[g]
    <3>1. ~ Trae(u, j)
      BY <1>4, <1>18 DEF Trae
    <3> QED BY <1>9, <3>1
  <2>2. programa'[j] = programa[j] /\ entrada'[j] = entrada[j] /\ par'[j] = par[j]
    BY <1>3, <1>8, <1>18 DEF pares
  <2>3. UnCodigo(j)'
    <3>1. UnCodigo(j) /\ Codigos(j)' = Codigos(j)
      BY <2>2, CodigosIguales DEF CondInv
    <3>2. \A i \in DOMAIN info' : Alta(info'[i])
      BY <1>3, <1>15
    <3> QED BY <2>1, <2>2, <3>1, <3>2, CodigoMarco DEF Alta, SinHablar
  <2>4. NumerosBien(j)'
    <3>1. \A g \in Fd \cup {0} : NumeroDe(j, g)' => NumeroDe(j, g)
      BY <2>1, <2>2 DEF NumeroDe, Alta
    <3>2. Condenado(j) => Condenado(j)'
      BY <2>2 DEF Condenado
    <3>3. NumerosBien(j)
      BY DEF CondInv
    <3> QED BY <1>3, <1>16, <1>17, <3>1, <3>2, <3>3, NumerosMarco
  <2> QED BY <2>3, <2>4
<1>19. UnCodigo(k)'
  <2>1. Codigos(k)' = {} /\ ~ SinHablar(k)' /\ Alta(k)'
    <3>1. entrada'[k] = entrada[k] /\ par'[k] = par[k]
      BY <1>3 DEF pares
    <3> QED BY <1>6, <1>7, <1>8, <3>1, CodigosIguales DEF SinHablar, Alta
  <2>2. \A g \in Mensaje : Trae(hilo'[g], k) => g = h
    BY <1>6, <1>9
  <2> QED BY <1>4, <1>8, <1>9, <2>1, <2>2 DEF UnCodigo
<1>20. NumerosBien(k)'
  <2>1. NumeroDe(k, f)
    BY <1>1, <1>5 DEF NumeroDe
  <2>2. ASSUME NEW g \in Fd \cup {0}, NumeroDe(k, g)' PROVE g = f
    <3>1. \A r \in Mensaje : Trae(hilo'[r], k) => hilo'[r].fd = f
      BY <1>4, <1>6, <1>9
    <3> QED BY <1>8, <2>2, <3>1 DEF NumeroDe
  <2>3. ~ Condenado(k)
    BY <1>5, <1>6 DEF UnCodigo, Condenado
  <2>4. (abierto[f] = k \/ Soltada(k)) /\ (SeVa(k) => caido \/ Ante(k, f))
    BY <1>5, <1>7, <2>1, <2>3 DEF NumerosBien
  <2>5. (abierto'[f] = k \/ Soltada(k)') /\ (SeVa(k)' => caido' \/ Ante(k, f)')
    BY <1>3, <1>16, <1>17, <2>4
  <2> QED BY <1>7, <2>2, <2>5 DEF NumerosBien
<1> QED BY <1>12, <1>13, <1>14, <1>18, <1>19, <1>20 DEF CondInv

-----------------------------------------------------------------------------
\* The planners.

LEMMA CondPlan ==
  ASSUME TipoCx, TipoCx', CondInv, NEW k \in Consola, NEW d \in {"READY", "FINISH"},
         programa[k].estado # "sin_enviar",
         programa' = [programa EXCEPT ![k].estado = d], UNCHANGED <<kernel, info, porAceptar, cerrada, caido>>,
         programa[k].estado # "FINISH", NEW m,
         Enviar(programa[k].fd, m) \/ UNCHANGED <<par, entrada>>,
         m[1] = "pid" => m[2] = programa[k].pid
  PROVE  CondInv'
<1>1. PICK f, n : f = programa[k].fd /\ n = programa[k].pid
  OBVIOUS
<1>2. Alta(k) /\ f \in Fd /\ (abierto[f] = k \/ Soltada(k)) /\ n # 0
  <2>1. Alta(k)
    BY DEF CondInv, UnCodigo
  <2>2. f \in Fd \cup {0} /\ NumeroDe(k, f)
    BY <1>1, <2>1 DEF TipoCx, Programas, NumeroDe
  <2>3. NumerosBien(k)
    BY DEF CondInv
  <2> QED BY <1>1, <2>1, <2>2, <2>3 DEF NumerosBien, Alta
<1>3. UNCHANGED <<abierto, hilo>>
  BY DEF kernel
<1>4. /\ \A j \in Consola : j # k => programa'[j] = programa[j]
      /\ programa'[k].pid = programa[k].pid /\ programa'[k].fd = programa[k].fd
      /\ programa'[k].matar = programa[k].matar /\ programa'[k].estado = d
  BY DEF TipoCx, Programas
<1>5. MismosProgramas /\ MasInfo
  <2>1. MismosProgramas
    BY <1>2, <1>4 DEF MismosProgramas, Condenado
  <2> QED BY <2>1, ProgramasInfo
<1>6. \A h \in Mensaje : Menos(hilo[h], hilo'[h])
  BY <1>3, MenosIgual
<1>7. Firme
  <2>1. \A x \in Conexion : par'[x].enviados = par[x].enviados /\ par[x].enviados \in Nat
    BY EnviarCuenta DEF TipoCx, Pares
  <2>2. \A j \in Consola : programa'[j].pid = programa[j].pid /\ programa'[j].matar = programa[j].matar
    BY <1>4
  <2> QED BY <2>1, <2>2 DEF Firme
<1>8. \A h \in Mensaje : hilo'[h].pc \in Cierra => cerrada'[abierto'[hilo'[h].fd]]
  BY <1>3 DEF CondInv, ManosCx
<1>9. \A j \in Consola : Conservan(j)
  BY <1>3, ConservanIgual
<1>10. ASSUME NEW j \in Consola PROVE (UnCodigo(j)' \/ HabloLoMismo(j)) /\ MismosFines(j)
  <2>1. CASE Enviar(f, m)
    <3>1. ASSUME abierto[f] = j, m[1] = "pid" PROVE PidDe(j, m[2])
      BY <1>1, <1>2, <3>1 DEF PidDe, Soltada
    <3> QED BY <1>5, <1>6, <2>1, <3>1, EnviarHabla
  <2>2. CASE UNCHANGED <<par, entrada>>
    BY <1>6, <2>2, HablanIgual
  <2> QED BY <1>1, <2>1, <2>2
<1> QED BY <1>5, <1>6, <1>7, <1>8, <1>9, <1>10, CondMarco

LEMMA CondAdmitir ==
  ASSUME TipoCx, TipoCx', CondInv, NEW k \in Consola, Admitir(k)
  PROVE  CondInv'
<1>1. CASE Cae
  BY <1>1, CondCae
<1>2. CASE ~ Cae
  <2>1. PICK d \in {<<"READY", "pid">>, <<"FINISH", "rechazado">>} :
          /\ programa' = [programa EXCEPT ![k].estado = d[1]]
          /\ Enviar(programa[k].fd, <<d[2], programa[k].pid>>)
          /\ UNCHANGED <<kernel, info, porAceptar, cerrada, caido>> /\ programa[k].estado = "NEW"
    BY <1>2 DEF Admitir
  <2>2. PICK e \in {"READY", "FINISH"} : e = d[1]
    BY <2>1
  <2>3. programa' = [programa EXCEPT ![k].estado = e]
    BY <2>1, <2>2
  <2> DEFINE m == <<d[2], programa[k].pid>>
  <2>4. m[1] = "pid" => m[2] = programa[k].pid
    OBVIOUS
  <2>5. Enviar(programa[k].fd, m)
    BY <2>1
  <2> HIDE DEF m
  <2> QED BY <2>1, <2>3, <2>4, <2>5, CondPlan
<1> QED BY <1>1, <1>2

LEMMA CondTerminar ==
  ASSUME TipoCx, TipoCx', CondInv, NEW k \in Consola, Terminar(k)
  PROVE  CondInv'
<1>1. CASE Cae
  BY <1>1, CondCae
<1>2. CASE ~ Cae
  <2> DEFINE m == <<"fin_ejecucion">>
  <2>1. /\ programa' = [programa EXCEPT ![k].estado = "FINISH"]
        /\ Enviar(programa[k].fd, m) \/ UNCHANGED <<par, entrada>>
        /\ UNCHANGED <<kernel, info, porAceptar, cerrada, caido>> /\ programa[k].estado = "READY"
    BY <1>2 DEF Terminar
  <2>2. m[1] # "pid"
    OBVIOUS
  <2> HIDE DEF m
  <2> QED BY <2>1, <2>2, CondPlan
<1> QED BY <1>1, <1>2

-----------------------------------------------------------------------------
\* The peers.

LEMMA CondPar ==
  ASSUME TipoCx, TipoCx', CondInv, ConexInv, ~ pisado, UNCHANGED <<kernel, progs, caido>>, NEW x \in Conexion, NEW m,
         m # <<"codigo">>, Mandar(x, m) \/ UNCHANGED entrada,
         \A y \in Conexion : y # x => par'[y] = par[y] /\ cerrada'[y] = cerrada[y],
         cerrada[x] => cerrada'[x], par'[x].enviados >= par[x].enviados,
         x \in Consola /\ SinHablar(x)' => SinHablar(x),
         par'[x].estado = "activo" => par[x].estado = "activo" /\ par'[x].pid = par[x].pid,
         x \in Consola => \A n \in Nat : m = <<"fin", n>> => PidDe(x, n) /\ Pidio(x)',
         \A k \in Consola : Conservan(k)
  PROVE  CondInv'
<1>1. UNCHANGED <<abierto, hilo, programa, info>>
  BY DEF kernel, progs
<1>2. MismosProgramas /\ MasInfo
  BY <1>1, ProgramasIguales
<1>3. \A h \in Mensaje : Menos(hilo[h], hilo'[h])
  BY <1>1, MenosIgual
<1>4. \A y \in Conexion : (cerrada[y] => cerrada'[y]) /\ par'[y].enviados >= par[y].enviados
  <2>1. \A y \in Conexion : par[y].enviados \in Nat
    BY DEF TipoCx, Pares
  <2> QED BY <2>1
<1>5. Firme
  BY <1>1, <1>4 DEF Firme, Alta
<1>6. ASSUME NEW h \in Mensaje, hilo'[h].pc \in Cierra PROVE cerrada'[abierto'[hilo'[h].fd]]
  <2>1. cerrada[abierto[hilo[h].fd]]
    BY <1>1, <1>6 DEF CondInv, ManosCx
  <2>2. abierto[hilo[h].fd] \in Conexion
    BY <1>1, <1>6, DetrasDe DEF Leyendo
  <2> QED BY <1>1, <1>4, <2>1, <2>2
<1>7. ASSUME NEW k \in Consola PROVE HabloLoMismo(k) /\ MismosFines(k)
  <2>1. k \in Conexion
    BY DEF Conexion
  <2>2. Mandar(k, m) \/ entrada'[k] = entrada[k] \/ \E y \in Conexion \ {k} : Mandar(y, m)
    OBVIOUS
  <2>3. /\ Codigos(k)' = Codigos(k)
        /\ \A n : (\E i \in DOMAIN entrada'[k] : entrada'[k][i] = n) => n = m \/ \E i \in DOMAIN entrada[k] : entrada[k][i] = n
    BY <2>1, <2>2, MandaOtro
  <2>4. HabloLoMismo(k)
    <3>1. SinHablar(k)' => SinHablar(k)
      BY <2>1 DEF SinHablar
    <3> QED BY <2>3, <3>1 DEF HabloLoMismo
  <2>5. par'[k].estado = "activo" => par[k].estado = "activo" /\ par'[k].pid = par[k].pid
    BY <2>1
  <2>6. ASSUME NEW n \in Nat, EnCurso(k, <<"fin", n>>)' PROVE EnCurso(k, <<"fin", n>>) \/ (PidDe(k, n) /\ Pidio(k)')
    <3>1. CASE k = x
      BY <1>1, <2>3, <2>6, <3>1 DEF EnCurso
    <3>2. CASE k # x
      <4>1. entrada'[k] = entrada[k]
        BY <2>1, <3>2 DEF Mandar, TipoCx
      <4> QED BY <1>1, <2>6, <4>1 DEF EnCurso
    <3> QED BY <3>1, <3>2
  <2>7. MismosFines(k)
    BY <2>5, <2>6 DEF MismosFines
  <2> QED BY <2>4, <2>7
<1> QED BY <1>2, <1>3, <1>5, <1>6, <1>7, CondMarco

LEMMA CondConectar ==
  ASSUME TipoCx, TipoCx', CondInv, ConexInv, ~ pisado, NEW x \in Conexion, Conectar(x)
  PROVE  CondInv'
<1> DEFINE m == <<"handshake">>
<1>1. /\ par[x].estado = "fuera" /\ par' = [par EXCEPT ![x].estado = "saluda"]
      /\ Mandar(x, m) \/ UNCHANGED entrada
      /\ porAceptar' = porAceptar \cup {x} /\ UNCHANGED <<kernel, progs, cerrada, caido>>
  BY DEF Conectar
<1>2. m # <<"codigo">> /\ \A n : m # <<"fin", n>>
  <2>1. \A n : m # <<"fin", n>>
    BY Distintos
  <2> QED BY <2>1
<1> HIDE DEF m
<1>3. /\ \A y \in Conexion : y # x => par'[y] = par[y]
      /\ par'[x].estado = "saluda" /\ par'[x].enviados = par[x].enviados /\ par[x].enviados \in Nat
  BY <1>1 DEF TipoCx, Pares
<1>4. SinHablar(x)
  BY <1>1 DEF SinHablar
<1>5. ASSUME NEW k \in Consola PROVE Conservan(k)
  <2>1. CASE k = x
    <3>1. \A f : ~ NumeroDe(k, f)
      BY <1>4, <2>1 DEF CondInv, UnCodigo, NumeroDe, SinHilo
    <3> QED BY <3>1 DEF Conservan
  <2>2. CASE k # x
    <3>1. Soltada(k)' <=> Soltada(k)
      BY <1>1, <2>2 DEF Soltada, kernel
    <3>2. SeVa(k)' => SeVa(k)
      BY <1>1, <3>1 DEF SeVa, kernel
    <3> QED BY <1>1, <3>1, <3>2 DEF Conservan, kernel
  <2> QED BY <2>1, <2>2
<1> QED BY <1>1, <1>2, <1>3, <1>4, <1>5, CondPar

LEMMA ConservanTodo ==
  ASSUME UNCHANGED <<kernel, porAceptar, cerrada>>, NEW k
  PROVE  Conservan(k)
<1>1. UNCHANGED <<abierto, hilo>>
  BY DEF kernel
<1> QED BY <1>1, ConservanIgual

LEMMA CondPedir ==
  ASSUME TipoCx, TipoCx', CondInv, ConexInv, ~ pisado, NEW x \in Cpu, Pedir(x)
  PROVE  CondInv'
<1> DEFINE m == <<"pedido">>
<1>1. /\ par' = [par EXCEPT ![x].enviados = @ + 1] /\ Mandar(x, m)
      /\ UNCHANGED <<kernel, progs, porAceptar, cerrada, caido>>
  BY DEF Pedir
<1>2. m # <<"codigo">> /\ x \in Conexion /\ x \notin Consola
  BY ConexionesAssumption DEF Conexion
<1> HIDE DEF m
<1>3. /\ \A y \in Conexion : y # x => par'[y] = par[y]
      /\ par'[x].estado = par[x].estado /\ par'[x].pid = par[x].pid /\ par'[x].enviados >= par[x].enviados
  BY <1>1, <1>2 DEF TipoCx, Pares
<1>4. \A k \in Consola : Conservan(k)
  BY <1>1, ConservanTodo
<1> QED BY <1>1, <1>2, <1>3, <1>4, CondPar

LEMMA CondDetener ==
  ASSUME TipoCx, TipoCx', CondInv, ConexInv, ~ pisado, NEW x \in Consola, Detener(x)
  PROVE  CondInv'
<1>1. PICK q : q = par[x].pid
  OBVIOUS
<1> DEFINE m == <<"fin", q>>
<1>2. /\ par' = [par EXCEPT ![x].enviados = @ + 1] /\ Mandar(x, m) /\ par[x].estado = "activo"
      /\ UNCHANGED <<kernel, progs, porAceptar, cerrada, caido>>
  BY <1>1 DEF Detener
<1>3. m # <<"codigo">> /\ \A n : m = <<"fin", n>> => n = q
  BY Distintos, DosFines
<1> HIDE DEF m
<1>4. x \in Conexion
  BY DEF Conexion
<1>5. /\ \A y \in Conexion : y # x => par'[y] = par[y]
      /\ par'[x].estado = par[x].estado /\ par'[x].pid = par[x].pid /\ par'[x].enviados >= par[x].enviados
      /\ par'[x].enviados > 0
  BY <1>2, <1>4 DEF TipoCx, Pares
<1>6. PidDe(x, q) /\ Pidio(x)'
  BY <1>1, <1>2, <1>5 DEF CondInv, Fines, Pidio
<1>7. \A k \in Consola : Conservan(k)
  BY <1>2, ConservanTodo
<1>8. SinHablar(x)' => SinHablar(x)
  BY <1>5 DEF SinHablar
<1> QED BY <1>2, <1>3, <1>4, <1>5, <1>6, <1>7, <1>8, CondPar

\* Its program, if it has one, is still known by a number with x behind it.
LEMMA CondDesconectar ==
  ASSUME TipoCx, TipoCx', CondInv, ConexInv, ~ pisado, NEW x \in Conexion, Desconectar(x)
  PROVE  CondInv'
<1>1. PICK q : q = par[x].pid
  OBVIOUS
<1> DEFINE m == <<"fin", q>>
<1>2. /\ cerrada' = [cerrada EXCEPT ![x] = TRUE] /\ ~ cerrada[x]
      /\ UNCHANGED <<kernel, progs, porAceptar, caido>>
      /\ \/ UNCHANGED <<entrada, par>>
         \/ par[x].estado = "activo" /\ Mandar(x, m) /\ par' = [par EXCEPT ![x].estado = "terminado"]
  BY <1>1 DEF Desconectar, Vive
<1>3. m # <<"codigo">> /\ \A n : m = <<"fin", n>> => n = q
  BY Distintos, DosFines
<1> HIDE DEF m
<1>4. /\ \A y \in Conexion : y # x => par'[y] = par[y] /\ cerrada'[y] = cerrada[y]
      /\ cerrada'[x] /\ par'[x].pid = par[x].pid /\ par'[x].enviados = par[x].enviados /\ par[x].enviados \in Nat
      /\ par'[x].estado = par[x].estado \/ (par[x].estado = "activo" /\ par'[x].estado = "terminado")
  BY <1>2 DEF TipoCx, Pares
<1>5. SinHablar(x)' => SinHablar(x)
  BY <1>4 DEF SinHablar
<1>6. UNCHANGED <<abierto, hilo>>
  BY <1>2 DEF kernel
<1>7. ASSUME NEW k \in Consola PROVE Conservan(k)
  <2>1. k \in Conexion
    BY DEF Conexion
  <2>2. CASE k = x
    <3>1. ~ Soltada(k)
      BY <1>2, <2>2 DEF Soltada
    <3>2. ASSUME NEW f \in Fd, NumeroDe(k, f) PROVE abierto[f] = k
      BY <3>1, <3>2 DEF CondInv, NumerosBien
    <3>3. ASSUME NEW f \in Fd, NumeroDe(k, f), SeVa(k)' PROVE SeVa(k)
      <4>1. ~ Soltada(k)'
        BY <1>6, <3>2, <3>3 DEF Soltada
      <4> QED BY <1>6, <3>3, <4>1 DEF SeVa
    <3> QED BY <1>6, <3>1, <3>3 DEF Conservan
  <2>3. CASE k # x
    <3>1. Soltada(k)' <=> Soltada(k)
      BY <1>2, <1>4, <1>6, <2>1, <2>3 DEF Soltada
    <3>2. SeVa(k)' => SeVa(k)
      BY <1>6, <3>1 DEF SeVa
    <3> QED BY <1>6, <3>1, <3>2 DEF Conservan
  <2> QED BY <2>2, <2>3
<1>8. /\ cerrada[x] => cerrada'[x]
      /\ par'[x].enviados >= par[x].enviados
      /\ par'[x].estado = "activo" => par[x].estado = "activo" /\ par'[x].pid = par[x].pid
  BY <1>4
<1>9. CASE UNCHANGED <<entrada, par>>
  <2>1. PICK r : r = <<"handshake">>
    OBVIOUS
  <2>2. \A n : r # <<"fin", n>>
    BY <2>1, Distintos
  <2>3. r # <<"codigo">>
    BY <2>1
  <2>4. UNCHANGED entrada /\ (x \in Consola => \A n \in Nat : r = <<"fin", n>> => PidDe(x, n) /\ Pidio(x)')
    BY <1>9, <2>2
  <2> QED BY <1>2, <1>4, <1>5, <1>7, <1>8, <2>3, <2>4, CondPar
<1>10. CASE par[x].estado = "activo" /\ Mandar(x, m)
  <2>1. x \in Consola => PidDe(x, q) /\ Pidio(x)'
    BY <1>1, <1>4, <1>10 DEF CondInv, Fines, Pidio
  <2>2. x \in Consola => \A n \in Nat : m = <<"fin", n>> => PidDe(x, n) /\ Pidio(x)'
    BY <1>3, <2>1
  <2> QED BY <1>2, <1>3, <1>4, <1>5, <1>7, <1>8, <1>10, <2>2, CondPar
<1> QED BY <1>2, <1>9, <1>10

-----------------------------------------------------------------------------
LEMMA CondPaso ==
  ASSUME TipoCx, TipoCx', CondInv, ConexInv, ~ pisado, ~ pisado', [Next]_vars
  PROVE  CondInv'
<1>0. FormaInv
  BY DEF ConexInv
<1>1. CASE Principal
  BY <1>1, CondSeleccionar, CondAceptar, CondMirar, CondLanzar DEF Principal
<1>2. ASSUME NEW h \in Mensaje, HiloMensaje(h) PROVE CondInv'
  BY <1>0, <1>2, CondRecibir, CondVerificar, CondCerrar, CondSaludar, CondLeerPid, CondAsignar,
     CondCrearInfo, CondFinalizar DEF HiloMensaje
<1>3. CASE \E h \in Hilo : Actualizar(h)
  BY <1>3, CondActualizar
<1>4. ASSUME NEW k \in Consola, Admitir(k) \/ Terminar(k) \/ Detener(k) PROVE CondInv'
  BY <1>4, CondAdmitir, CondTerminar, CondDetener
<1>5. CASE \E c \in Cpu : Pedir(c)
  BY <1>5, CondPedir
<1>6. ASSUME NEW x \in Conexion, Conectar(x) \/ Desconectar(x) PROVE CondInv'
  BY <1>6, CondConectar, CondDesconectar
<1>7. CASE UNCHANGED vars
  BY <1>7, CondMain DEF vars, kernel, progs
<1>8. ~ \E h, g \in Hilo : Pisar(h, g)
  BY SoloPisar
<1> QED BY <1>1, <1>2, <1>3, <1>4, <1>5, <1>6, <1>7, <1>8 DEF Next

LEMMA CondInicio ==
  ASSUME Init
  PROVE  CondInv
<1>1. \A h \in Mensaje : hilo[h].pc = "libre"
  <2>1. \A h \in Mensaje : h \in Hilo /\ h # Interfaz
    BY ConexionesAssumption DEF Hilo
  <2> QED BY <2>1 DEF Init, Libre
<1>2. info = <<>> /\ DOMAIN info = {}
  BY DEF Init
<1>3. ASSUME NEW k \in Consola PROVE UnCodigo(k) /\ NumerosBien(k) /\ Fines(k) /\ programa[k].matar = "no"
  <2>1. /\ programa[k] = [pid |-> 0, fd |-> 0, estado |-> "sin_enviar", matar |-> "no"]
        /\ entrada[k] = <<>> /\ par[k] = [estado |-> "fuera", pid |-> 0, enviados |-> 0]
    BY DEF Init, Conexion
  <2>2. ~ Alta(k) /\ SinHilo(k) /\ Codigos(k) = {}
    BY <1>1, <2>1 DEF Alta, SinHilo, Trae, Codigos
  <2>3. UnCodigo(k)
    BY <1>2, <2>1, <2>2 DEF UnCodigo, SinHilo
  <2>4. NumerosBien(k)
    BY <2>2 DEF NumerosBien, NumeroDe, SinHilo
  <2>5. \A m : ~ EnCurso(k, m)
    BY <1>1, <2>1 DEF EnCurso
  <2>6. Fines(k)
    BY <2>1, <2>5 DEF Fines
  <2> QED BY <2>1, <2>3, <2>4, <2>6
<1>4. ManosCx
  BY <1>1, <1>2 DEF ManosCx, Cierra
<1> QED BY <1>3, <1>4 DEF CondInv, Condenas

LEMMA CondDa ==
  ASSUME TipoCx, ~ pisado => CondInv
  PROVE  CondenaDeSuConsola
<1> SUFFICES ASSUME ~ pisado, PidsDistintos, NEW k \in Consola
             PROVE  /\ programa[k].matar # "no" => cerrada[k] \/ par[k].enviados > 0
                    /\ Soltada(k) /\ programa[k].pid # 0 /\ ~ AntesCon(k) =>
                         caido \/ programa[k].estado = "FINISH" \/ programa[k].matar # "no"
  BY DEF CondenaDeSuConsola
<1>1. programa[k].matar # "no" => Pidio(k)
  BY DEF CondInv, Condenas
<1>2. ASSUME Soltada(k), programa[k].pid # 0, ~ AntesCon(k) PROVE caido \/ Condenado(k)
  <2>1. PICK f : f = programa[k].fd
    OBVIOUS
  <2>2. f \in Fd \cup {0} /\ NumeroDe(k, f)
    BY <1>2, <2>1 DEF TipoCx, Programas, NumeroDe, Alta
  <2>3. NumerosBien(k) /\ SeVa(k)
    BY <1>2 DEF CondInv, SeVa
  <2>4. caido \/ Condenado(k) \/ Ante(k, f)
    BY <2>2, <2>3 DEF NumerosBien
  <2> QED BY <1>2, <2>1, <2>4 DEF Ante, AntesCon
<1> QED BY <1>1, <1>2 DEF Pidio, Condenado

\* Who condemns a program, for any consoles, threads and descriptors: its own
\* console, while no PID is given twice and no update of a set was lost; and a
\* console that left has its program condemned unless an older one is found in
\* its place (finalizarPrograma, verificarProcesosConsolaCaida).
THEOREM CondenasPropias == Spec => []CondenaDeSuConsola
<1>1. Init => (~ pisado => CondInv)
  BY CondInicio
<1>2. TipoCx /\ ConexInv /\ (~ pisado => CondInv) /\ TipoCx' /\ ConexInv' /\ [Next]_vars => (~ pisado' => CondInv')
  BY SoloPisar, CondPaso
<1>3. TipoCx /\ (~ pisado => CondInv) => CondenaDeSuConsola
  BY CondDa
<1> QED BY <1>1, <1>2, <1>3, CadaDescriptorEnSuLugar, PTL DEF Spec
=============================================================================
