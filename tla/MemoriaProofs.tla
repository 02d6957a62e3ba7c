---------------------------- MODULE MemoriaProofs ----------------------------
(***************************************************************************)
(* Theorems about Memoria, for any programs, frames, hash and cache:       *)
(* the types; a page is in one frame, and the frame a thread has found is  *)
(* still its page's when it copies to it or from it; the cache shows what  *)
(* the frames hold, and no program has more entries than its quota; and,   *)
(* with its frames, its table, its cache and its threads, the process      *)
(* implements the store of pages of Paginas.                               *)
(***************************************************************************)
EXTENDS Memoria, Extremos

Pasos == {"libre"} \cup Lectura \cup Escritura \cup DelKernel

\* The steps of a thread that goes over the pages of a request.
Recorre == Lectura \cup Escritura

\* The requests over pages that a program may have.
Alcance == {r \in [pid : Pid, pag : Nat, falta : Nat \ {0}, dato : Dato] :
              r.pag + r.falta <= MaxPag[r.pid] + 1}

\* Any request, and none.
Peticion == [pid : Pid \cup {Nadie}, pag : Nat, falta : Nat, dato : Dato]

\* The table and the threads.
TipoMem ==
  /\ tabla \in [Marco -> [pid : Pid \cup {Nadie, Tabla}, pag : Nat \cup {-1}]]
  /\ pc \in [Hilo -> Pasos]
  /\ pedido \in [Hilo -> Peticion]
  /\ marco = [h \in Hilo |-> marco[h]]
  /\ vivo \in [Pid -> {"nuevo", "inicia", "vivo", "fin"}]

\* A thread at step x of request r, which found frame m, and the table t.
HiloBien(t, x, r, m) ==
  /\ x \in Recorre => r \in Alcance
  /\ x \in {"graba", "actualiza", "actualiza_e"} =>
       m \in Marco /\ t[m].pid = r.pid /\ t[m].pag = r.pag

\* The highest page of p in the table t is below k.
Debajo(t, p, k) == \A f \in Marco : t[f].pid = p => t[f].pag < k

\* What the kernel's thread is doing to a program's pages: nobody else serves
\* a request about a program that gives pages back, and the pages it is about
\* to number come after those of the table.
KernelBien ==
  LET p == pedido[Kernel].pid
      k == pedido[Kernel].pag
      n == pedido[Kernel].falta
  IN
  /\ pc[Kernel] \in DelKernel => p \in Pid
  /\ pc[Kernel] \in {"finaliza", "libera"} => \A c \in Cpu : pedido[c].pid # p
  /\ pc[Kernel] = "libera" => k \in Pagina(p)
  /\ pc[Kernel] \in {"frames", "toma", "asigna"} => n \in Nat \ {0} /\ vivo[p] # "nuevo"
  /\ pc[Kernel] \in {"frames", "toma"} =>
       n <= MaxPag[p] + 1 /\ Debajo(tabla, p, MaxPag[p] - n + 1)
  /\ pc[Kernel] = "asigna" => k + n <= MaxPag[p] + 1 /\ Debajo(tabla, p, k)

MemInv ==
  /\ TipoMem
  /\ UnMarcoPorPagina
  /\ \A h \in Hilo : HiloBien(tabla, pc[h], pedido[h], marco[h])
  /\ KernelBien
  /\ \A p \in Pid : vivo[p] = "nuevo" => \A f \in Marco : tabla[f].pid # p

\* What is proved of a state is enough for the property.
LEMMA MemBasta == MemInv => MarcoVigente
BY DEF MemInv, HiloBien, MarcoVigente

-----------------------------------------------------------------------------
\* The searches.

\* The hash of a page and the positions after it are frames.
LEMMA DesdeMarco ==
  ASSUME MemoriaAssumption, NEW p \in Pid, NEW k \in Pagina(p), NEW i \in Nat
  PROVE  Pos[p][k] \in Marco /\ Desde(p, k, i) \in Marco
<1>1. Pos[p][k] \in Marco /\ Marcos \in Nat
  BY DEF MemoriaAssumption
<1>2. Pos[p][k] \in Nat /\ Marcos > 0
  BY <1>1 DEF Marco
<1>3. ASSUME NEW a \in Nat PROVE (a + i) % Marcos \in 0..(Marcos - 1)
  BY <1>1, <1>2, <1>3
<1> QED BY <1>1, <1>2, <1>3 DEF Desde, Marco

\* buscarFrame gives a frame that has the page.
LEMMA MarcoHallado ==
  ASSUME MemoriaAssumption, NEW p \in Pid, NEW k \in Pagina(p), Encontro(MarcoDe(p, k))
  PROVE  MarcoDe(p, k) \in Marco /\ Tiene(MarcoDe(p, k), p, k)
<1> DEFINE I == {i \in Marco : Tiene(Desde(p, k, i), p, k)}
           primera(i) == Tiene(Desde(p, k, i), p, k) /\ \A j \in 0..(i - 1) : ~ Tiene(Desde(p, k, j), p, k)
           x == CHOOSE i \in Marco : primera(i)
<1>1. I # {} /\ MarcoDe(p, k) = Desde(p, k, x)
  BY DEF MarcoDe, Encontro
<1>2. Marco \subseteq Nat /\ I \subseteq Nat
  BY DEF Marco
<1>3. PICK b \in I : \A c \in I : b <= c
  BY <1>1, <1>2, HayPrimero
<1>4. b \in Marco /\ primera(b)
  <2>1. \A j \in 0..(b - 1) : j \in Marco /\ j < b
    BY <1>2, <1>3 DEF MemoriaAssumption, Marco
  <2>2. \A j \in 0..(b - 1) : j \notin I
    BY <1>2, <1>3, <2>1
  <2> QED BY <1>3, <2>1, <2>2
<1>5. x \in Marco /\ primera(x)
  <2> HIDE DEF primera
  <2> QED BY <1>4
<1>6. Desde(p, k, x) \in Marco
  BY <1>2, <1>5, DesdeMarco
<1> HIDE DEF x
<1> QED BY <1>1, <1>5, <1>6

\* reservarFrames writes a frame that is free.
LEMMA MarcoLibreHallado ==
  ASSUME MemoriaAssumption, NEW p \in Pid, NEW k \in Pagina(p), MarcoLibre(p, k) # Nadie
  PROVE  MarcoLibre(p, k) \in Marco /\ EstaLibre(MarcoLibre(p, k))
<1> DEFINE L == {f \in Pos[p][k]..(Marcos - 1) : EstaLibre(f)}
<1>1. Pos[p][k] \in Marco /\ Marcos \in Nat
  BY DesdeMarco DEF MemoriaAssumption
<1>2. Pos[p][k]..(Marcos - 1) \subseteq Marco
  BY <1>1 DEF Marco
<1>3. L \subseteq Marco /\ L \subseteq Nat
  BY <1>2 DEF Marco
<1>4. L # {} /\ MarcoLibre(p, k) = CHOOSE f \in L : \A g \in L : f =< g
  BY DEF MarcoLibre, Min
<1>5. \E f \in L : \A g \in L : f <= g
  BY <1>3, <1>4, HayPrimero
<1>6. MarcoLibre(p, k) \in L
  <2> HIDE DEF L
  <2> QED BY <1>4, <1>5
<1> QED BY <1>3, <1>6

\* Every page of a program is at most the last one.
LEMMA UltimaMayor ==
  ASSUME MemoriaAssumption, TipoMem, NEW p \in Pid
  PROVE  /\ UltimaPagina(p) \in Nat \cup {-1}
         /\ Debajo(tabla, p, UltimaPagina(p) + 1)
         /\ UltimaPagina(p) # -1 => \E f \in Marco : tabla[f].pid = p /\ tabla[f].pag = UltimaPagina(p)
<1> DEFINE F == {f \in Marco : tabla[f].pid = p}
           P == PaginasDe(p)
           S == P \cup {-1}
           g == [f \in F |-> tabla[f].pag]
<1>1. P \subseteq Nat \cup {-1} /\ g \in Surjection(F, P)
  BY DEF TipoMem, PaginasDe, Surjection
<1>2. IsFiniteSet(F)
  <2>1. IsFiniteSet(Marco)
    BY FS_Interval DEF Marco, MemoriaAssumption
  <2> QED BY <2>1, FS_Subset
<1>3. IsFiniteSet(S)
  <2>1. IsFiniteSet(P)
    BY <1>1, <1>2, FS_Surjection
  <2> QED BY <2>1, FS_AddElement
<1>4. S \subseteq Int /\ S # {}
  BY <1>1
<1>5. \E m \in S : \A x \in S : m >= x
  BY <1>3, <1>4, HayUltimo
<1>6. UltimaPagina(p) \in S /\ \A x \in S : UltimaPagina(p) >= x
  <2>1. UltimaPagina(p) = CHOOSE m \in S : \A x \in S : m >= x
    BY DEF UltimaPagina, Max
  <2> HIDE DEF S
  <2> QED BY <1>5, <2>1
<1>7. \A f \in Marco : tabla[f].pid = p => tabla[f].pag \in S /\ tabla[f].pag \in Nat \cup {-1}
  BY DEF TipoMem, PaginasDe
<1>8. UltimaPagina(p) \in Nat \cup {-1}
  BY <1>1, <1>6
<1>9. Debajo(tabla, p, UltimaPagina(p) + 1)
  <2> HIDE DEF S
  <2> QED BY <1>6, <1>7, <1>8 DEF Debajo
<1> QED BY <1>6, <1>8, <1>9 DEF PaginasDe
-----------------------------------------------------------------------------
\* Nobody has a page at first, and nobody is doing anything.
LEMMA MemInicio ==
  ASSUME MemoriaAssumption
  PROVE  Init => MemInv
<1> SUFFICES ASSUME Init PROVE MemInv
  OBVIOUS
<1>1. \A f \in Marco : tabla[f].pid \notin Pid
  BY DEF Init, Libre, MemoriaAssumption
<1>2. \A h \in Hilo : pc[h] = "libre"
  BY DEF Init
<1>3. TipoMem
  BY DEF Init, TipoMem, Peticion, Pasos, Libre, SinPedido, MemoriaAssumption
<1>4. UnMarcoPorPagina
  BY <1>1 DEF UnMarcoPorPagina
<1>5. KernelBien
  BY <1>2 DEF KernelBien, Hilo, DelKernel
<1>6. \A h \in Hilo : HiloBien(tabla, pc[h], pedido[h], marco[h])
  BY <1>2 DEF HiloBien, Recorre, Lectura, Escritura
<1> QED BY <1>1, <1>3, <1>4, <1>5, <1>6 DEF MemInv

\* A step that leaves the table, the threads and the programs alone.
LEMMA MemQuieta ==
  ASSUME MemInv, UNCHANGED <<tabla, vivo, pc, pedido, marco>>
  PROVE  MemInv'
BY DEF MemInv, TipoMem, UnMarcoPorPagina, KernelBien, Debajo

\* A step of one thread, not at the kernel's own requests any more, that does
\* not touch the table and takes no program the kernel is busy with.
LEMMA MemHilo ==
  ASSUME MemoriaAssumption, MemInv, NEW h \in Hilo, UNCHANGED <<tabla, vivo>>,
         NEW x \in Pasos \ DelKernel, NEW r \in Peticion, NEW m,
         pc' = [pc EXCEPT ![h] = x], pedido' = [pedido EXCEPT ![h] = r],
         marco' = [marco EXCEPT ![h] = m],
         HiloBien(tabla, x, r, m),
         \/ r.pid \in {pedido[h].pid, Nadie}
         \/ ~ (pedido[Kernel].pid = r.pid /\ pc[Kernel] \in DelKernel)
  PROVE  MemInv'
<1>1. TipoMem'
  BY DEF MemInv, TipoMem
<1>2. \A g \in Hilo : IF g = h THEN pc'[g] = x /\ pedido'[g] = r /\ marco'[g] = m
                       ELSE pc'[g] = pc[g] /\ pedido'[g] = pedido[g] /\ marco'[g] = marco[g]
  BY DEF MemInv, TipoMem
<1>3. \A g \in Hilo : HiloBien(tabla, pc[g], pedido[g], marco[g])'
  BY <1>2 DEF MemInv, HiloBien
<1>4. KernelBien'
  <2>1. Kernel \in Hilo /\ Cpu \subseteq Hilo /\ Kernel \notin Cpu
    BY DEF Hilo, MemoriaAssumption
  <2>2. CASE h = Kernel
    BY <1>2, <2>1, <2>2 DEF KernelBien, DelKernel
  <2>3. CASE h # Kernel
    <3>1. pc'[Kernel] = pc[Kernel] /\ pedido'[Kernel] = pedido[Kernel]
      BY <1>2, <2>1, <2>3
    <3>2. ASSUME pc[Kernel] \in {"finaliza", "libera"}, NEW c \in Cpu
          PROVE  pedido'[c].pid # pedido[Kernel].pid
      <4>1. /\ pc[Kernel] \in DelKernel /\ pedido[Kernel].pid \in Pid
            /\ pedido[c].pid # pedido[Kernel].pid /\ pedido[Kernel].pid # Nadie
        BY <3>2 DEF MemInv, KernelBien, DelKernel, MemoriaAssumption
      <4>2. pedido'[c] = (IF c = h THEN r ELSE pedido[c])
        BY <1>2, <2>1
      <4> QED BY <4>1, <4>2
    <3> QED BY <3>1, <3>2 DEF MemInv, KernelBien, Debajo
  <2> QED BY <2>2, <2>3
<1> QED BY <1>1, <1>3, <1>4 DEF MemInv, UnMarcoPorPagina

\* The answer of a request that changed nothing in the table.
LEMMA MemResponde ==
  ASSUME MemoriaAssumption, MemInv, NEW h \in Hilo, UNCHANGED <<tabla, vivo>>, Responder(h)
  PROVE  MemInv'
<1>1. SinPedido \in Peticion /\ SinPedido.pid = Nadie
  BY DEF SinPedido, Peticion, MemoriaAssumption
<1>2. "libre" \in Pasos \ DelKernel /\ HiloBien(tabla, "libre", SinPedido, Nadie)
  BY DEF Pasos, DelKernel, HiloBien, Recorre, Lectura, Escritura
<1> QED BY <1>1, <1>2, MemHilo DEF Responder, Ir

\* A page is done: the next one of the same request, or the answer.
LEMMA MemAvanza ==
  ASSUME MemoriaAssumption, MemInv, NEW h \in Hilo, UNCHANGED <<tabla, vivo>>,
         pc[h] \in Recorre, NEW x \in {"cache", "busca_e"}, Avanzar(h, x)
  PROVE  MemInv'
<1>1. CASE Responder(h)
  BY <1>1, MemResponde
<1>2. CASE ~ Responder(h)
  <2> DEFINE r == [pedido[h] EXCEPT !.pag = @ + 1, !.falta = @ - 1]
  <2>1. /\ pedido[h].falta > 1 /\ pc' = [pc EXCEPT ![h] = x] /\ marco' = [marco EXCEPT ![h] = Nadie]
        /\ pedido' = [pedido EXCEPT ![h].pag = @ + 1, ![h].falta = @ - 1]
    BY <1>2 DEF Avanzar, Ir
  <2>2. pedido[h] \in Peticion /\ pedido[h] \in Alcance /\ DOMAIN pedido = Hilo
    BY DEF MemInv, TipoMem, HiloBien
  <2>3. pedido' = [pedido EXCEPT ![h] = r]
    BY <2>1, <2>2
  <2>4. pedido[h].pag \in Nat /\ pedido[h].falta \in Nat /\ pedido[h].pid \in Pid /\ MaxPag[pedido[h].pid] \in Nat
    BY <2>2 DEF Alcance, MemoriaAssumption
  <2>5. r.pid = pedido[h].pid /\ r.pag = pedido[h].pag + 1 /\ r.falta = pedido[h].falta - 1
    BY <2>2 DEF Peticion
  <2>6. r \in Peticion /\ r \in Alcance
    BY <2>1, <2>2, <2>4, <2>5 DEF Peticion, Alcance
  <2>7. x \in Pasos \ DelKernel /\ HiloBien(tabla, x, r, Nadie)
    BY <2>6 DEF Pasos, Lectura, Escritura, DelKernel, HiloBien, Recorre
  <2> HIDE DEF r
  <2> QED BY <2>1, <2>3, <2>5, <2>6, <2>7, MemHilo
<1> QED BY <1>1, <1>2
-----------------------------------------------------------------------------
\* A request of a program that the kernel is not busy with is taken.
LEMMA MemRecibe ==
  ASSUME MemoriaAssumption, MemInv, NEW h \in Hilo, UNCHANGED <<tabla, vivo>>,
         NEW r \in Tramo, NEW d \in Dato, NEW x \in Recorre \cap {"cache", "busca_e"},
         Atiende(h, r[1]), Recibir(h, x, r[1], <<r[2], r[3]>>, d)
  PROVE  MemInv'
<1> DEFINE q == [pid |-> r[1], pag |-> r[2], falta |-> r[3], dato |-> d]
<1>1. /\ pc' = [pc EXCEPT ![h] = x] /\ pedido' = [pedido EXCEPT ![h] = q]
      /\ marco' = [marco EXCEPT ![h] = marco[h]]
  BY DEF Recibir, Ir, MemInv, TipoMem
<1>2. r[1] \in Pid /\ r[2] \in Nat /\ r[3] \in Nat \ {0} /\ r[2] + r[3] <= MaxPag[r[1]] + 1
  BY DEF Tramo
<1>3. q \in Peticion /\ q \in Alcance /\ q.pid = r[1]
  BY <1>2 DEF Peticion, Alcance
<1>4. x \in Pasos \ DelKernel /\ HiloBien(tabla, x, q, marco[h])
  BY <1>3 DEF Pasos, Lectura, Escritura, DelKernel, HiloBien, Recorre
<1> HIDE DEF q
<1> QED BY <1>1, <1>3, <1>4, MemHilo DEF Atiende

\* SOLICITUD_BYTES and GRABAR_BYTES arrive.
LEMMA MemPide ==
  ASSUME MemoriaAssumption, MemInv, NEW h \in Hilo, SolicitudBytes(h) \/ GrabarBytes(h)
  PROVE  MemInv'
<1>1. UNCHANGED <<tabla, vivo>> /\ Cero \in Dato /\ Lee[h] \subseteq Tramo /\ Graba[h] \subseteq Tramo
  BY DEF SolicitudBytes, GrabarBytes, tablas, MemoriaAssumption
<1>2. PICK r \in Tramo : \E x \in {"cache", "busca_e"}, d \in Dato :
                          Atiende(h, r[1]) /\ Recibir(h, x, r[1], <<r[2], r[3]>>, d)
  <2>1. CASE SolicitudBytes(h)
    BY <1>1, <2>1 DEF SolicitudBytes
  <2>2. CASE GrabarBytes(h)
    BY <1>1, <2>2 DEF GrabarBytes
  <2> QED BY <2>1, <2>2
<1>3. PICK x \in {"cache", "busca_e"}, d \in Dato :
        Atiende(h, r[1]) /\ Recibir(h, x, r[1], <<r[2], r[3]>>, d)
  BY <1>2
<1>4. x \in Recorre \cap {"cache", "busca_e"}
  BY DEF Recorre, Lectura, Escritura
<1> QED BY <1>1, <1>3, <1>4, MemRecibe

\* The next step of a thread on the same page, with the frame m.
LEMMA MemMismaPagina ==
  ASSUME MemoriaAssumption, MemInv, NEW h \in Hilo, UNCHANGED <<tabla, vivo, pedido>>,
         pc[h] \in Recorre, NEW x \in Recorre, NEW m,
         pc' = [pc EXCEPT ![h] = x], marco' = [marco EXCEPT ![h] = m],
         HiloBien(tabla, x, pedido[h], m)
  PROVE  MemInv'
<1>1. pedido' = [pedido EXCEPT ![h] = pedido[h]] /\ pedido[h] \in Peticion
  BY DEF MemInv, TipoMem
<1>2. x \in Pasos \ DelKernel
  BY DEF Recorre, Lectura, Escritura, DelKernel, Pasos
<1> QED BY <1>1, <1>2, MemHilo

\* leerCache: the frame has not been looked for yet.
LEMMA MemLeerCache ==
  ASSUME MemoriaAssumption, MemInv, NEW h \in Hilo, LeerCache(h)
  PROVE  MemInv'
<1>1. /\ pc[h] = "cache" /\ UNCHANGED <<tabla, vivo, pedido>>
      /\ marco' = [marco EXCEPT ![h] = marco[h]]
  BY DEF LeerCache, En, tablas, MemInv, TipoMem
<1>2. PICK x \in {"busca", "copia"} : pc' = [pc EXCEPT ![h] = x]
  BY DEF LeerCache, Ir
<1>3. pc[h] \in Recorre /\ x \in Recorre
  BY <1>1 DEF Recorre, Lectura
<1>4. HiloBien(tabla, x, pedido[h], marco[h])
  BY <1>3 DEF MemInv, HiloBien
<1> QED BY <1>1, <1>2, <1>3, <1>4, MemMismaPagina

\* buscarFrame: the frame found has the page.
LEMMA MemBuscarFrame ==
  ASSUME MemoriaAssumption, MemInv, NEW h \in Hilo, BuscarFrame(h)
  PROVE  MemInv'
<1> DEFINE p == pedido[h].pid
           k == pedido[h].pag
           f == MarcoDe(p, k)
<1>1. pc[h] \in {"busca", "busca_e"} /\ UNCHANGED <<tabla, vivo>>
  BY DEF BuscarFrame, tablas
<1>2. pc[h] \in Recorre
  BY <1>1 DEF Recorre, Lectura, Escritura
<1>3. pedido[h] \in Alcance
  BY <1>2 DEF MemInv, HiloBien
<1>4. p \in Pid /\ k \in Pagina(p)
  BY <1>3 DEF Alcance, Pagina, MemoriaAssumption
<1>5. CASE Responder(h)
  BY <1>1, <1>5, MemResponde
<1>6. CASE ~ Responder(h)
  <2>1. Encontro(f) /\ marco' = [marco EXCEPT ![h] = f] /\ UNCHANGED pedido
    BY <1>6 DEF BuscarFrame
  <2>2. PICK x \in {"actualiza", "graba"} : pc' = [pc EXCEPT ![h] = x]
    BY <1>6 DEF BuscarFrame, Ir
  <2>3. f \in Marco /\ Tiene(f, p, k)
    BY <1>4, <2>1, MarcoHallado
  <2> HIDE DEF f
  <2>4. x \in Recorre /\ HiloBien(tabla, x, pedido[h], f)
    BY <1>3, <2>3 DEF Recorre, Lectura, Escritura, HiloBien, Tiene
  <2> QED BY <1>1, <1>2, <2>1, <2>2, <2>4, MemMismaPagina
<1> QED BY <1>5, <1>6

\* The copy of a write, with the frame that was found.
LEMMA MemGrabar ==
  ASSUME MemoriaAssumption, MemInv, NEW h \in Hilo, Grabar(h)
  PROVE  MemInv'
<1>1. /\ pc[h] = "graba" /\ UNCHANGED <<tabla, vivo, pedido>> /\ pc' = [pc EXCEPT ![h] = "actualiza_e"]
      /\ marco' = [marco EXCEPT ![h] = marco[h]]
  BY DEF Grabar, En, Ir, tablas, MemInv, TipoMem
<1>2. pc[h] \in Recorre /\ "actualiza_e" \in Recorre
  BY <1>1 DEF Recorre, Lectura, Escritura
<1>3. HiloBien(tabla, "actualiza_e", pedido[h], marco[h])
  BY <1>1, <1>2 DEF MemInv, HiloBien
<1> QED BY <1>1, <1>2, <1>3, MemMismaPagina

\* A thread leaves the cache: a read goes on to the copy, a write to the next
\* page.
LEMMA MemDejar ==
  ASSUME MemoriaAssumption, MemInv, NEW h \in Hilo, UNCHANGED <<tabla, vivo>>, DejarEntrada(h)
  PROVE  MemInv'
<1>1. CASE pc[h] = "actualiza" /\ pc' = [pc EXCEPT ![h] = "copia"] /\ UNCHANGED <<pedido, marco>>
  <2>1. marco' = [marco EXCEPT ![h] = marco[h]]
    BY <1>1 DEF MemInv, TipoMem
  <2>2. pc[h] \in Recorre /\ "copia" \in Recorre
    BY <1>1 DEF Recorre, Lectura
  <2>3. HiloBien(tabla, "copia", pedido[h], marco[h])
    BY <1>1, <2>2 DEF MemInv, HiloBien
  <2> QED BY <1>1, <2>1, <2>2, <2>3, MemMismaPagina
<1>2. CASE pc[h] = "actualiza_e" /\ Avanzar(h, "busca_e")
  BY <1>2, MemAvanza DEF Recorre, Escritura
<1> QED BY <1>1, <1>2 DEF DejarEntrada, En, Ir

\* The steps of actualizarEntradaCache.
LEMMA MemEntrada ==
  ASSUME MemoriaAssumption, MemInv, NEW h \in Hilo, BuscarEntrada(h) \/ Reemplazar(h) \/ AnotarEntrada(h)
  PROVE  MemInv'
<1>1. UNCHANGED <<tabla, vivo>> /\ (DejarEntrada(h) \/ UNCHANGED hilos)
  BY DEF BuscarEntrada, Reemplazar, AnotarEntrada, tablas
<1> QED BY <1>1, MemDejar, MemQuieta DEF hilos

\* The end of a page that was read.
LEMMA MemCopiar ==
  ASSUME MemoriaAssumption, MemInv, NEW h \in Hilo, Copiar(h)
  PROVE  MemInv'
<1>1. UNCHANGED <<tabla, vivo>> /\ pc[h] \in Recorre
  BY DEF Copiar, En, tablas, Recorre, Lectura
<1> QED BY <1>1, MemAvanza DEF Copiar

-----------------------------------------------------------------------------
\* The kernel's thread goes to another step of its own, with the same table.
LEMMA MemKernel ==
  ASSUME MemoriaAssumption, MemInv, UNCHANGED <<tabla, marco>>,
         NEW x \in DelKernel, NEW r \in Peticion,
         pc' = [pc EXCEPT ![Kernel] = x], pedido' = [pedido EXCEPT ![Kernel] = r],
         vivo' \in [Pid -> {"nuevo", "inicia", "vivo", "fin"}],
         \A q \in Pid : vivo'[q] = "nuevo" => vivo[q] = "nuevo",
         KernelBien'
  PROVE  MemInv'
<1>1. Kernel \in Hilo
  BY DEF Hilo
<1>2. x \in Pasos /\ x \notin Recorre
  BY DEF DelKernel, Pasos, Recorre, Lectura, Escritura
<1>3. TipoMem'
  BY <1>1, <1>2 DEF MemInv, TipoMem
<1>4. \A g \in Hilo : IF g = Kernel THEN pc'[g] = x ELSE pc'[g] = pc[g] /\ pedido'[g] = pedido[g]
  BY <1>1 DEF MemInv, TipoMem
<1>5. \A g \in Hilo : HiloBien(tabla, pc[g], pedido[g], marco[g])'
  BY <1>2, <1>4 DEF MemInv, HiloBien, Recorre, Lectura, Escritura
<1> QED BY <1>3, <1>5 DEF MemInv, UnMarcoPorPagina
\* The kernel's request r, taken at step x.
LEMMA MemRecibeKernel ==
  ASSUME MemoriaAssumption, MemInv, UNCHANGED tabla, NEW p \in Pid, NEW x \in DelKernel,
         NEW k \in Nat, NEW n \in Nat, Recibir(Kernel, x, p, <<k, n>>, Cero),
         vivo' \in [Pid -> {"nuevo", "inicia", "vivo", "fin"}],
         \A q \in Pid : vivo'[q] = "nuevo" => vivo[q] = "nuevo",
         x \in {"finaliza", "libera"} => Quieto(p),
         x = "libera" => k \in Pagina(p),
         x # "asigna",
         x \in {"frames", "toma"} =>
           n # 0 /\ vivo'[p] # "nuevo" /\ n <= MaxPag[p] + 1 /\ Debajo(tabla, p, MaxPag[p] - n + 1)
  PROVE  MemInv'
<1> DEFINE r == [pid |-> p, pag |-> k, falta |-> n, dato |-> Cero]
<1>1. /\ pc' = [pc EXCEPT ![Kernel] = x] /\ pedido' = [pedido EXCEPT ![Kernel] = r]
      /\ UNCHANGED marco
  BY DEF Recibir, Ir
<1>2. r \in Peticion
  BY DEF Peticion, MemoriaAssumption
<1>3. Kernel \in Hilo /\ Cpu \subseteq Hilo /\ Kernel \notin Cpu
  BY DEF Hilo, MemoriaAssumption
<1>4. /\ pc'[Kernel] = x /\ pedido'[Kernel].pid = p /\ pedido'[Kernel].pag = k /\ pedido'[Kernel].falta = n
      /\ \A c \in Cpu : pedido'[c] = pedido[c]
  BY <1>1, <1>3 DEF MemInv, TipoMem
<1>5. KernelBien'
  <2>1. ASSUME x \in {"finaliza", "libera"}, NEW c \in Cpu PROVE pedido'[c].pid # p
    BY <1>4, <2>1 DEF Quieto
  <2>2. ASSUME x \in {"frames", "toma"} PROVE Debajo(tabla', p, MaxPag[p] - n + 1)
    BY <2>2
  <2> QED BY <1>4, <2>1, <2>2 DEF KernelBien
<1> HIDE DEF r
<1> QED BY <1>1, <1>2, <1>5, MemKernel

\* INICIAR_PROGRAMA: a program that has no page yet.
LEMMA MemIniciar ==
  ASSUME MemoriaAssumption, MemInv, NEW p \in Pid, IniciarPrograma(p)
  PROVE  MemInv'
<1>1. vivo[p] = "nuevo" /\ vivo' = [vivo EXCEPT ![p] = "inicia"] /\ UNCHANGED tabla
  BY DEF IniciarPrograma
<1>2. PICK n \in 1..(MaxPag[p] + 1) : Recibir(Kernel, "frames", p, <<0, n>>, Cero)
  BY DEF IniciarPrograma
<1>3. n \in Nat \ {0} /\ n <= MaxPag[p] + 1
  BY DEF MemoriaAssumption
<1>4. Debajo(tabla, p, MaxPag[p] - n + 1)
  BY <1>1 DEF MemInv, Debajo
<1>5. /\ vivo' \in [Pid -> {"nuevo", "inicia", "vivo", "fin"}] /\ vivo'[p] # "nuevo"
      /\ \A q \in Pid : vivo'[q] = "nuevo" => vivo[q] = "nuevo"
  BY <1>1 DEF MemInv, TipoMem
<1>6. "frames" \in DelKernel /\ 0 \in Nat
  BY DEF DelKernel
<1> QED BY <1>1, <1>2, <1>3, <1>4, <1>5, <1>6, MemRecibeKernel

\* ASIGNAR_PAGINAS.
LEMMA MemAsignarPaginas ==
  ASSUME MemoriaAssumption, MemInv, NEW p \in Pid, AsignarPaginas(p)
  PROVE  MemInv'
<1>1. vivo[p] = "vivo" /\ UNCHANGED <<tabla, vivo>>
  BY DEF AsignarPaginas, tablas
<1>2. PICK n \in 1..(MaxPag[p] - UltimaPagina(p)) : Recibir(Kernel, "frames", p, <<0, n>>, Cero)
  BY DEF AsignarPaginas
<1>3. UltimaPagina(p) \in Nat \cup {-1} /\ Debajo(tabla, p, UltimaPagina(p) + 1)
  BY UltimaMayor DEF MemInv
<1>4. n \in Nat \ {0} /\ n <= MaxPag[p] + 1 /\ UltimaPagina(p) + 1 <= MaxPag[p] - n + 1 /\ MaxPag[p] \in Nat
  BY <1>3 DEF MemoriaAssumption
<1>5. Debajo(tabla, p, MaxPag[p] - n + 1)
  <2>1. \A f \in Marco : tabla[f].pag \in Int
    BY DEF MemInv, TipoMem
  <2> QED BY <1>3, <1>4, <2>1 DEF Debajo
<1>6. /\ vivo' \in [Pid -> {"nuevo", "inicia", "vivo", "fin"}] /\ vivo'[p] # "nuevo"
      /\ \A q \in Pid : vivo'[q] = "nuevo" => vivo[q] = "nuevo"
  BY <1>1 DEF MemInv, TipoMem
<1>7. "frames" \in DelKernel /\ 0 \in Nat
  BY DEF DelKernel
<1> QED BY <1>1, <1>2, <1>4, <1>5, <1>6, <1>7, MemRecibeKernel

\* FINALIZAR_PROGRAMA and LIBERAR_PAGINA: nobody else serves the program.
LEMMA MemFinalizar ==
  ASSUME MemoriaAssumption, MemInv, NEW p \in Pid, FinalizarPrograma(p)
  PROVE  MemInv'
<1>1. /\ vivo[p] = "vivo" /\ Quieto(p) /\ vivo' = [vivo EXCEPT ![p] = "fin"] /\ UNCHANGED tabla
      /\ Recibir(Kernel, "finaliza", p, <<0, 0>>, Cero)
  BY DEF FinalizarPrograma
<1>2. /\ vivo' \in [Pid -> {"nuevo", "inicia", "vivo", "fin"}]
      /\ \A q \in Pid : vivo'[q] = "nuevo" => vivo[q] = "nuevo"
  BY <1>1 DEF MemInv, TipoMem
<1>3. "finaliza" \in DelKernel /\ 0 \in Nat
  BY DEF DelKernel
<1> QED BY <1>1, <1>2, <1>3, MemRecibeKernel

\* LIBERAR_PAGINA.
LEMMA MemLiberarPagina ==
  ASSUME MemoriaAssumption, MemInv, NEW p \in Pid, LiberarPagina(p)
  PROVE  MemInv'
<1>1. Quieto(p) /\ UNCHANGED <<tabla, vivo>>
  BY DEF LiberarPagina, tablas
<1>2. PICK k \in Pagina(p) : Recibir(Kernel, "libera", p, <<k, 0>>, Cero)
  BY DEF LiberarPagina
<1>3. /\ vivo' \in [Pid -> {"nuevo", "inicia", "vivo", "fin"}]
      /\ \A q \in Pid : vivo'[q] = "nuevo" => vivo[q] = "nuevo"
  BY <1>1 DEF MemInv, TipoMem
<1>4. "libera" \in DelKernel /\ 0 \in Nat /\ k \in Nat
  BY DEF DelKernel, Pagina, MemoriaAssumption
<1> QED BY <1>1, <1>2, <1>3, <1>4, MemRecibeKernel

-----------------------------------------------------------------------------
\* The kernel answers: the threads of the CPUs stay as they are, on frames the
\* new table gives to the same pages.
LEMMA MemRespondeKernel ==
  ASSUME MemoriaAssumption, MemInv, Responder(Kernel),
         tabla' \in [Marco -> [pid : Pid \cup {Nadie, Tabla}, pag : Nat \cup {-1}]],
         vivo' \in [Pid -> {"nuevo", "inicia", "vivo", "fin"}],
         \A q \in Pid : vivo'[q] = "nuevo" =>
           vivo[q] = "nuevo" /\ \A f \in Marco : tabla'[f].pid # q,
         UnMarcoPorPagina',
         \A c \in Cpu : pc[c] \in {"graba", "actualiza", "actualiza_e"} => tabla'[marco[c]] = tabla[marco[c]]
  PROVE  MemInv'
<1>1. Kernel \in Hilo /\ Hilo = {Kernel} \cup Cpu
  BY DEF Hilo
<1>2. /\ pc' = [pc EXCEPT ![Kernel] = "libre"] /\ pedido' = [pedido EXCEPT ![Kernel] = SinPedido]
      /\ marco' = [marco EXCEPT ![Kernel] = Nadie] /\ SinPedido \in Peticion /\ "libre" \in Pasos
  BY DEF Responder, Ir, SinPedido, Peticion, Pasos, MemoriaAssumption
<1>3. TipoMem'
  BY <1>1, <1>2 DEF MemInv, TipoMem
<1>4. pc'[Kernel] = "libre"
  BY <1>1, <1>2 DEF MemInv, TipoMem
<1>5. \A c \in Cpu : c # Kernel => pc'[c] = pc[c] /\ pedido'[c] = pedido[c] /\ marco'[c] = marco[c]
  BY <1>1, <1>2 DEF MemInv, TipoMem
<1>6. \A g \in Hilo : HiloBien(tabla, pc[g], pedido[g], marco[g])'
  BY <1>1, <1>4, <1>5 DEF MemInv, HiloBien, Recorre, Lectura, Escritura
<1>7. KernelBien'
  BY <1>4 DEF KernelBien, DelKernel
<1> QED BY <1>3, <1>6, <1>7 DEF MemInv

\* reservarFrames counts the free frames.
LEMMA MemContar ==
  ASSUME MemoriaAssumption, MemInv, ContarFrames
  PROVE  MemInv'
<1>1. pc[Kernel] = "frames" /\ UNCHANGED tabla
  BY DEF ContarFrames, En
<1>2. CASE Responder(Kernel) /\ Resolver(pedido[Kernel].pid, "fin")
  <2>1. /\ vivo' \in [Pid -> {"nuevo", "inicia", "vivo", "fin"}]
        /\ \A q \in Pid : vivo'[q] = "nuevo" => vivo[q] = "nuevo"
    BY <1>2 DEF Resolver, MemInv, TipoMem
  <2>2. tabla' \in [Marco -> [pid : Pid \cup {Nadie, Tabla}, pag : Nat \cup {-1}]] /\ UnMarcoPorPagina'
    BY <1>1 DEF MemInv, TipoMem, UnMarcoPorPagina
  <2>3. \A q \in Pid : vivo[q] = "nuevo" => \A f \in Marco : tabla'[f].pid # q
    BY <1>1 DEF MemInv
  <2> QED BY <1>1, <1>2, <2>1, <2>2, <2>3, MemRespondeKernel
<1>3. CASE ~ (Responder(Kernel) /\ Resolver(pedido[Kernel].pid, "fin"))
  <2>1. pc' = [pc EXCEPT ![Kernel] = "toma"] /\ UNCHANGED <<vivo, pedido, marco>>
    BY <1>3 DEF ContarFrames, Ir
  <2>2. Kernel \in Hilo /\ pc'[Kernel] = "toma"
    BY <2>1 DEF Hilo, MemInv, TipoMem
  <2>3. pedido' = [pedido EXCEPT ![Kernel] = pedido[Kernel]] /\ pedido[Kernel] \in Peticion
    BY <2>1, <2>2 DEF MemInv, TipoMem
  <2>4. KernelBien'
    BY <1>1, <2>1, <2>2 DEF MemInv, KernelBien, DelKernel, Debajo
  <2>5. "toma" \in DelKernel
    BY DEF DelKernel
  <2>6. vivo' \in [Pid -> {"nuevo", "inicia", "vivo", "fin"}] /\ \A q \in Pid : vivo'[q] = vivo[q]
    BY <2>1 DEF MemInv, TipoMem
  <2> QED BY <1>1, <2>1, <2>3, <2>4, <2>5, <2>6, MemKernel
<1> QED BY <1>2, <1>3
\* The number of the first page comes after the last one of the table.
LEMMA MemTomar ==
  ASSUME MemoriaAssumption, MemInv, TomarTabla
  PROVE  MemInv'
<1> DEFINE p == pedido[Kernel].pid
           n == pedido[Kernel].falta
           u == UltimaPagina(p) + 1
           r == [pedido[Kernel] EXCEPT !.pag = u]
<1>1. /\ pc[Kernel] = "toma" /\ pc' = [pc EXCEPT ![Kernel] = "asigna"]
      /\ pedido' = [pedido EXCEPT ![Kernel].pag = u] /\ UNCHANGED <<tabla, vivo, marco>>
  BY DEF TomarTabla, En, Ir
<1>2. Kernel \in Hilo /\ Cpu \subseteq Hilo /\ Kernel \notin Cpu
  BY DEF Hilo, MemoriaAssumption
<1>3. p \in Pid /\ n \in Nat \ {0} /\ n <= MaxPag[p] + 1 /\ Debajo(tabla, p, MaxPag[p] - n + 1) /\ vivo[p] # "nuevo"
  BY <1>1 DEF MemInv, KernelBien, DelKernel
<1>4. /\ UltimaPagina(p) \in Nat \cup {-1} /\ Debajo(tabla, p, u)
      /\ UltimaPagina(p) # -1 => \E f \in Marco : tabla[f].pid = p /\ tabla[f].pag = UltimaPagina(p)
  BY <1>3, UltimaMayor DEF MemInv
<1>5. u \in Nat /\ u + n <= MaxPag[p] + 1
  <2>1. MaxPag[p] \in Nat
    BY <1>3 DEF MemoriaAssumption
  <2>2. UltimaPagina(p) = -1 \/ UltimaPagina(p) < MaxPag[p] - n + 1
    BY <1>3, <1>4 DEF Debajo
  <2> HIDE DEF p, n
  <2> QED BY <1>3, <1>4, <2>1, <2>2
<1> HIDE DEF u
<1>6. pedido' = [pedido EXCEPT ![Kernel] = r] /\ r \in Peticion
  <2>1. pedido[Kernel] \in Peticion /\ Kernel \in DOMAIN pedido
    BY <1>2 DEF MemInv, TipoMem
  <2> QED BY <1>1, <1>5, <2>1 DEF Peticion
<1>7. pc'[Kernel] = "asigna" /\ pedido'[Kernel].pid = p /\ pedido'[Kernel].pag = u /\ pedido'[Kernel].falta = n
  BY <1>1, <1>2 DEF MemInv, TipoMem, Peticion
<1>8. KernelBien'
  <2>1. vivo'[p] # "nuevo" /\ Debajo(tabla', p, u)
    BY <1>1, <1>3, <1>4
  <2> HIDE DEF p, n, r
  <2> QED BY <1>3, <1>5, <1>7, <2>1 DEF KernelBien
<1>9. "asigna" \in DelKernel /\ vivo' \in [Pid -> {"nuevo", "inicia", "vivo", "fin"}]
  BY <1>1 DEF DelKernel, MemInv, TipoMem
<1> HIDE DEF r, p, n
<1> QED BY <1>1, <1>6, <1>8, <1>9, MemKernel

\* finalizarPrograma frees the frames of a program that nobody serves.
LEMMA MemBorrar ==
  ASSUME MemoriaAssumption, MemInv, BorrarPrograma
  PROVE  MemInv'
<1> DEFINE p == pedido[Kernel].pid
<1>1. /\ pc[Kernel] = "finaliza" /\ Responder(Kernel) /\ UNCHANGED vivo
      /\ tabla' = [f \in Marco |-> IF tabla[f].pid = p THEN Libre ELSE tabla[f]]
  BY DEF BorrarPrograma, En
<1>2. p \in Pid /\ \A c \in Cpu : pedido[c].pid # p
  BY <1>1 DEF MemInv, KernelBien, DelKernel
<1> HIDE DEF p
<1>3. /\ tabla' \in [Marco -> [pid : Pid \cup {Nadie, Tabla}, pag : Nat \cup {-1}]]
      /\ \A f \in Marco : tabla'[f] = Libre \/ tabla'[f] = tabla[f]
  BY <1>1 DEF MemInv, TipoMem, Libre
<1>4. Libre.pid \notin Pid
  BY DEF Libre, MemoriaAssumption
<1>5. UnMarcoPorPagina'
  BY <1>3, <1>4 DEF MemInv, UnMarcoPorPagina
<1>6. \A c \in Cpu : pc[c] \in {"graba", "actualiza", "actualiza_e"} => tabla'[marco[c]] = tabla[marco[c]]
  BY <1>1, <1>2 DEF MemInv, HiloBien, Hilo
<1>7. vivo' \in [Pid -> {"nuevo", "inicia", "vivo", "fin"}]
  BY <1>1 DEF MemInv, TipoMem
<1>8. \A q \in Pid : vivo'[q] = "nuevo" => vivo[q] = "nuevo" /\ \A f \in Marco : tabla'[f].pid # q
  BY <1>1, <1>3, <1>4 DEF MemInv
<1> QED BY <1>1, <1>3, <1>5, <1>6, <1>7, <1>8, MemRespondeKernel

\* liberarPagina frees the frame of a page that nobody serves.
LEMMA MemLiberarFrame ==
  ASSUME MemoriaAssumption, MemInv, LiberarFrame
  PROVE  MemInv'
<1> DEFINE p == pedido[Kernel].pid
           k == pedido[Kernel].pag
           f == MarcoDe(p, k)
<1>1. /\ pc[Kernel] = "libera" /\ Responder(Kernel) /\ UNCHANGED vivo
      /\ tabla' = IF Encontro(f) THEN [tabla EXCEPT ![f] = Libre] ELSE tabla
  BY DEF LiberarFrame, En
<1>2. p \in Pid /\ k \in Pagina(p) /\ \A c \in Cpu : pedido[c].pid # p
  BY <1>1 DEF MemInv, KernelBien, DelKernel
<1>3. Encontro(f) => f \in Marco /\ tabla[f].pid = p
  BY <1>2, MarcoHallado DEF Tiene
<1> HIDE DEF p, k, f
<1>4. /\ tabla' \in [Marco -> [pid : Pid \cup {Nadie, Tabla}, pag : Nat \cup {-1}]]
      /\ \A g \in Marco : tabla'[g] = tabla[g] \/ (tabla'[g] = Libre /\ tabla[g].pid = p)
  BY <1>1, <1>3 DEF MemInv, TipoMem, Libre
<1>5. Libre.pid \notin Pid
  BY DEF Libre, MemoriaAssumption
<1>6. UnMarcoPorPagina'
  BY <1>4, <1>5 DEF MemInv, UnMarcoPorPagina
<1>7. \A c \in Cpu : pc[c] \in {"graba", "actualiza", "actualiza_e"} => tabla'[marco[c]] = tabla[marco[c]]
  BY <1>2, <1>4 DEF MemInv, HiloBien, Hilo
<1>8. vivo' \in [Pid -> {"nuevo", "inicia", "vivo", "fin"}]
  BY <1>1 DEF MemInv, TipoMem
<1>9. \A q \in Pid : vivo'[q] = "nuevo" => vivo[q] = "nuevo" /\ \A g \in Marco : tabla'[g].pid # q
  BY <1>1, <1>4, <1>5 DEF MemInv
<1> QED BY <1>1, <1>4, <1>6, <1>7, <1>8, <1>9, MemRespondeKernel

\* What the table is after page k of p.
TablaSigue(p, k) ==
  /\ tabla' \in [Marco -> [pid : Pid \cup {Nadie, Tabla}, pag : Nat \cup {-1}]]
  /\ UnMarcoPorPagina'
  /\ Debajo(tabla', p, k + 1)
  /\ \A g \in Marco : tabla'[g].pid \in {tabla[g].pid, p}
  /\ \A c \in Hilo : pc[c] \in {"graba", "actualiza", "actualiza_e"} => tabla'[marco[c]] = tabla[marco[c]]

\* It is that after the page is written in frame f, which was free.
LEMMA MemAnotada ==
  ASSUME MemoriaAssumption, MemInv, NEW p \in Pid, NEW k \in Nat, NEW f \in Marco, EstaLibre(f),
         Debajo(tabla, p, k), tabla' = [tabla EXCEPT ![f] = [pid |-> p, pag |-> k]]
  PROVE  TablaSigue(p, k)
<1> DEFINE e == [pid |-> p, pag |-> k]
<1>1. /\ tabla \in [Marco -> [pid : Pid \cup {Nadie, Tabla}, pag : Nat \cup {-1}]]
      /\ tabla'[f] = e /\ \A g \in Marco : g # f => tabla'[g] = tabla[g]
  BY DEF MemInv, TipoMem
<1>2. \A g \in Marco : tabla[g] # e
  <2>1. \A g \in Marco : tabla[g].pid = p => tabla[g].pag # k
    BY <1>1 DEF Debajo
  <2> QED BY <2>1
<1>3. UnMarcoPorPagina'
  <2> SUFFICES ASSUME NEW a \in Marco, NEW b \in Marco, tabla'[a] = tabla'[b], tabla'[a].pid \in Pid
               PROVE  a = b
    BY DEF UnMarcoPorPagina
  <2> HIDE DEF e
  <2>1. a = f <=> b = f
    BY <1>1, <1>2
  <2>2. CASE a # f
    BY <1>1, <2>1, <2>2 DEF MemInv, UnMarcoPorPagina
  <2> QED BY <2>1, <2>2
<1>4. Debajo(tabla', p, k + 1)
  BY <1>1 DEF Debajo
<1>5. tabla' \in [Marco -> [pid : Pid \cup {Nadie, Tabla}, pag : Nat \cup {-1}]]
  BY <1>1
<1>6. ASSUME NEW c \in Hilo, pc[c] \in {"graba", "actualiza", "actualiza_e"}
      PROVE  tabla'[marco[c]] = tabla[marco[c]]
  <2>1. marco[c] \in Marco /\ tabla[marco[c]].pid = pedido[c].pid /\ tabla[marco[c]].pag = pedido[c].pag
    BY <1>6 DEF MemInv, HiloBien
  <2>2. pedido[c].pid \in Pid /\ pedido[c].pag \in Nat
    BY <1>6 DEF MemInv, HiloBien, Alcance, Recorre, Lectura, Escritura
  <2>3. marco[c] # f
    BY <2>1, <2>2 DEF EstaLibre, MemoriaAssumption
  <2> QED BY <1>1, <2>1, <2>3
<1> QED BY <1>1, <1>3, <1>4, <1>5, <1>6 DEF TablaSigue

\* One page of the loop of reservarFrames.
LEMMA MemAsignarPagina ==
  ASSUME MemoriaAssumption, MemInv, AsignarPagina
  PROVE  MemInv'
<1> DEFINE p == pedido[Kernel].pid
           k == pedido[Kernel].pag
           n == pedido[Kernel].falta
           f == MarcoLibre(p, k)
<1>1. pc[Kernel] = "asigna"
  BY DEF AsignarPagina, En
<1>2. Kernel \in Hilo /\ Hilo = {Kernel} \cup Cpu /\ Kernel \notin Cpu
  BY DEF Hilo, MemoriaAssumption
<1>3. /\ p \in Pid /\ n \in Nat \ {0} /\ k + n <= MaxPag[p] + 1 /\ Debajo(tabla, p, k) /\ vivo[p] # "nuevo"
      /\ pedido[Kernel] \in Peticion
  BY <1>1, <1>2 DEF MemInv, KernelBien, DelKernel, TipoMem
<1>4. k \in Nat /\ k \in Pagina(p) /\ MaxPag[p] \in Nat
  BY <1>3 DEF Peticion, Pagina, MemoriaAssumption
<1>5. /\ vivo \in [Pid -> {"nuevo", "inicia", "vivo", "fin"}]
      /\ \A q \in Pid : vivo[q] = "nuevo" => q # p /\ \A g \in Marco : tabla[g].pid # q
  BY <1>3 DEF MemInv, TipoMem
<1>6. ASSUME Responder(Kernel), UNCHANGED tabla, Resolver(p, "fin") PROVE MemInv'
  <2>2. /\ vivo' \in [Pid -> {"nuevo", "inicia", "vivo", "fin"}]
        /\ \A q \in Pid : vivo'[q] = "nuevo" => vivo[q] = "nuevo"
    BY <1>5, <1>6 DEF Resolver
  <2>3. tabla' \in [Marco -> [pid : Pid \cup {Nadie, Tabla}, pag : Nat \cup {-1}]] /\ UnMarcoPorPagina'
    BY <1>6 DEF MemInv, TipoMem, UnMarcoPorPagina
  <2> QED BY <1>5, <1>6, <2>2, <2>3, MemRespondeKernel
<1>7. ASSUME UnaAsignada(p), TablaSigue(p, k) PROVE MemInv'
  <2>2. /\ Avanzar(Kernel, "asigna")
        /\ IF n = 1 THEN Resolver(p, "vivo") ELSE UNCHANGED vivo
    BY <1>7 DEF UnaAsignada
  <2> HIDE DEF f, p, k, n
  <2>3. /\ tabla' \in [Marco -> [pid : Pid \cup {Nadie, Tabla}, pag : Nat \cup {-1}]]
        /\ UnMarcoPorPagina'
        /\ Debajo(tabla', p, k + 1)
        /\ \A g \in Marco : tabla'[g].pid \in {tabla[g].pid, p}
        /\ \A c \in Hilo : pc[c] \in {"graba", "actualiza", "actualiza_e"} => tabla'[marco[c]] = tabla[marco[c]]
    BY <1>7 DEF TablaSigue
  <2>4. /\ vivo' \in [Pid -> {"nuevo", "inicia", "vivo", "fin"}] /\ vivo'[p] # "nuevo"
        /\ \A q \in Pid : vivo'[q] = "nuevo" => vivo[q] = "nuevo"
    BY <1>3, <1>5, <2>2 DEF Resolver
  <2>5. \A q \in Pid : vivo'[q] = "nuevo" => vivo[q] = "nuevo" /\ \A g \in Marco : tabla'[g].pid # q
    BY <1>5, <2>3, <2>4
  <2>6. CASE Responder(Kernel)
    BY <1>2, <2>3, <2>4, <2>5, <2>6, MemRespondeKernel
  <2>7. CASE ~ Responder(Kernel)
    <3>1. /\ n > 1 /\ pc' = [pc EXCEPT ![Kernel] = "asigna"] /\ marco' = [marco EXCEPT ![Kernel] = Nadie]
          /\ pedido' = [pedido EXCEPT ![Kernel].pag = @ + 1, ![Kernel].falta = @ - 1]
      BY <2>2, <2>7 DEF Avanzar, Ir, n
    <3>2. \A g \in Hilo \ {Kernel} : pc'[g] = pc[g] /\ pedido'[g] = pedido[g] /\ marco'[g] = marco[g]
      BY <3>1 DEF MemInv, TipoMem
    <3>3. pc'[Kernel] = "asigna" /\ "asigna" \in Pasos /\ "asigna" \notin Recorre
      BY <1>2, <3>1 DEF MemInv, TipoMem, Pasos, DelKernel, Recorre, Lectura, Escritura
    <3>4. pedido'[Kernel].pid = p /\ pedido'[Kernel].pag = k + 1 /\ pedido'[Kernel].falta = n - 1
      BY <1>2, <1>3, <3>1 DEF MemInv, TipoMem, Peticion, p, k, n
    <3>5. pedido'[Kernel] \in Peticion /\ pedido' \in [Hilo -> Peticion]
      <4>1. k + 1 \in Nat /\ n - 1 \in Nat
        BY <1>3, <1>4, <3>1
      <4>2. pedido'[Kernel] = [pedido[Kernel] EXCEPT !.pag = k + 1, !.falta = n - 1]
        BY <1>2, <3>1 DEF MemInv, TipoMem, k, n
      <4>3. pedido'[Kernel] \in Peticion
        BY <1>3, <4>1, <4>2 DEF Peticion
      <4> QED BY <1>2, <3>1, <3>2, <4>3 DEF MemInv, TipoMem
    <3>6. TipoMem'
      BY <1>2, <2>3, <2>4, <3>1, <3>3, <3>5 DEF MemInv, TipoMem
    <3>7. \A g \in Hilo : HiloBien(tabla, pc[g], pedido[g], marco[g])'
      BY <2>3, <3>2, <3>3 DEF MemInv, HiloBien, Recorre, Lectura, Escritura
    <3>8. KernelBien'
      <4>1. n - 1 \in Nat \ {0} /\ (k + 1) + (n - 1) <= MaxPag[p] + 1
        BY <1>3, <1>4, <3>1
      <4> QED BY <1>3, <2>3, <2>4, <3>3, <3>4, <4>1 DEF KernelBien
    <3> QED BY <2>3, <2>5, <3>6, <3>7, <3>8 DEF MemInv
  <2> QED BY <2>6, <2>7
<1>8. ASSUME f # Nadie, tabla' = [tabla EXCEPT ![f] = [pid |-> p, pag |-> k]] PROVE TablaSigue(p, k)
  <2>1. f \in Marco /\ EstaLibre(f)
    BY <1>3, <1>4, <1>8, MarcoLibreHallado
  <2> HIDE DEF f, p, k, n
  <2> QED BY <1>3, <1>4, <1>8, <2>1, MemAnotada
<1>9. ASSUME UNCHANGED tabla PROVE TablaSigue(p, k)
  <2>1. tabla \in [Marco -> [pid : Pid \cup {Nadie, Tabla}, pag : Nat \cup {-1}]] /\ UnMarcoPorPagina
    BY DEF MemInv, TipoMem
  <2>2. Debajo(tabla, p, k + 1)
    <3> HIDE DEF p, k
    <3> QED BY <1>3, <1>4, <2>1 DEF Debajo
  <2> QED BY <1>9, <2>1, <2>2 DEF TablaSigue, UnMarcoPorPagina
<1> QED BY <1>6, <1>7, <1>8, <1>9 DEF AsignarPagina


-----------------------------------------------------------------------------
\* Every step of the memory process keeps the table in order.
LEMMA MemPaso ==
  ASSUME MemoriaAssumption
  PROVE  MemInv /\ [Next]_vars => MemInv'
<1> SUFFICES ASSUME MemInv, [Next]_vars PROVE MemInv'
  OBVIOUS
<1>1. ASSUME NEW h \in Hilo, SolicitudBytes(h) \/ GrabarBytes(h) \/ Sigue(h) PROVE MemInv'
  BY <1>1, MemPide, MemLeerCache, MemBuscarFrame, MemGrabar, MemCopiar, MemEntrada DEF Sigue
<1>2. CASE PedidoKernel
  BY <1>2, MemIniciar, MemAsignarPaginas, MemFinalizar, MemLiberarPagina DEF PedidoKernel
<1>3. CASE SigueKernel
  BY <1>3, MemContar, MemTomar, MemAsignarPagina, MemBorrar, MemLiberarFrame DEF SigueKernel
<1>4. CASE Flush \/ LimpiarPag \/ LimpiarPid
  BY <1>4, MemQuieta DEF Flush, LimpiarPag, LimpiarPid, tablas, hilos
<1>5. CASE UNCHANGED vars
  BY <1>5, MemQuieta DEF vars, tablas, hilos
<1> QED BY <1>1, <1>2, <1>3, <1>4, <1>5 DEF Next, OtroHilo

\* MemInv holds in every reachable state.
LEMMA MemSiempre == Spec => []MemInv
<1>1. Init => MemInv
  BY MemInicio, MemoriaAssumption
<1>2. MemInv /\ [Next]_vars => MemInv'
  BY MemPaso, MemoriaAssumption
<1> QED BY <1>1, <1>2, PTL DEF Spec

\* A page of a program is in one frame: reservarFrames numbers the pages after
\* the highest one, also when pages in between were freed.
THEOREM PaginasUnicas == Spec => []UnMarcoPorPagina
<1>1. MemInv => UnMarcoPorPagina
  BY DEF MemInv
<1> QED BY <1>1, MemSiempre, PTL

\* leer and escribir use the frame that buscarFrame found after they release
\* the lock of the table: it is still the frame of their page.
THEOREM MarcosVigentes == Spec => []MarcoVigente
BY MemBasta, MemSiempre, PTL

-----------------------------------------------------------------------------
\* The types that MemInv does not need: the frames' content, the cache, what its
\* owner has chosen, flush and the history.
TipoCache ==
  /\ cache \in [Entrada -> [pid : Pid \cup {Nadie}, pag : Nat \cup {-1}, content : Dato]]
  /\ limpia \in [entrada : 0..Entradas, pag : BOOLEAN]

TipoDatos ==
  /\ memoria \in [Marco -> Dato]
  /\ mutex \in {Kernel, Nadie}
  /\ marco \in [Hilo -> Marco \cup {Nadie}]
  /\ puntero \in [Hilo -> Entrada \cup {Nadie}]
  /\ escrita \subseteq Pid \X Nat

\* Who has cache_mutex, at the steps that take it, and what it has chosen.
TipoEleccion ==
  /\ mutexCache \in Hilo \cup {Nadie}
  /\ mutexCache = Nadie => eleccion = SinEleccion
  /\ eleccion \in [como : {"nada", "hallada", "local", "global", "nueva", "perdida"},
                   antes : SUBSET Entrada, entrada : Entrada \cup {Nadie}]
  /\ Entradas = 0 => mutexCache = Nadie
  /\ mutexCache # Nadie => pc[mutexCache] \in {"actualiza", "actualiza_e"}
  /\ eleccion.como \in {"hallada", "nueva"} => eleccion.entrada \in Entrada

\* With MemInv they are the type invariant.
LEMMA TipoBasta == MemInv /\ TipoCache /\ TipoDatos /\ TipoEleccion => TypeOK
BY DEF MemInv, TipoMem, TipoCache, TipoDatos, TipoEleccion, Peticion, Pasos, HiloBien, TypeOK

\* The page a thread goes over is a page of a program.
LEMMA PedidoBien ==
  ASSUME MemInv, NEW h \in Hilo, pc[h] \in Recorre
  PROVE  /\ pedido[h].pid \in Pid /\ pedido[h].pag \in Nat /\ pedido[h].dato \in Dato
         /\ pc[h] \in {"graba", "actualiza", "actualiza_e"} =>
              /\ marco[h] \in Marco
              /\ tabla[marco[h]].pid = pedido[h].pid /\ tabla[marco[h]].pag = pedido[h].pag
BY DEF MemInv, HiloBien, Alcance

\* The owner of cache_mutex writes in an entry, for page k of p, what its frame
\* has, and its choice is over.
Anota(h, e, p, k, d) ==
  /\ h \in Hilo /\ mutexCache = h
  /\ e = eleccion.entrada /\ e \in Entrada /\ p = pedido[h].pid /\ k = pedido[h].pag
  /\ p \in Pid /\ k \in Nat /\ d \in Dato
  /\ d = memoria[marco[h]] /\ marco[h] \in Marco
  /\ tabla[marco[h]].pid = p /\ tabla[marco[h]].pag = k
  /\ mutexCache' = Nadie /\ eleccion' = SinEleccion
  /\ \A x \in Entrada \ {e} : cache'[x] = cache[x]
  /\ cache' = Anotada(e, eleccion.como, p, k, d)
  /\ cache'[e].content = d /\ eleccion.como \in {"hallada", "nueva"}
  /\ IF eleccion.como = "hallada" THEN cache'[e].pid = cache[e].pid /\ cache'[e].pag = cache[e].pag
     ELSE cache'[e].pid = p /\ cache'[e].pag = k

LEMMA AnotaBien ==
  ASSUME MemInv, TipoCache, TipoDatos, TipoEleccion, NEW h \in Hilo, AnotarEntrada(h)
  PROVE  \E e, p, k, d : Anota(h, e, p, k, d)
<1> DEFINE e == eleccion.entrada
           p == pedido[h].pid
           k == pedido[h].pag
           d == memoria[marco[h]]
           c == eleccion.como
<1>1. /\ mutexCache = h /\ c \in {"hallada", "nueva"} /\ cache' = Anotada(e, c, p, k, d)
      /\ mutexCache' = Nadie /\ eleccion' = SinEleccion /\ pc[h] \in {"actualiza", "actualiza_e"}
  BY DEF AnotarEntrada, DejarEntrada, En
<1>2. pc[h] \in Recorre
  BY <1>1 DEF Recorre, Lectura, Escritura
<1>3. marco[h] \in Marco /\ p \in Pid /\ k \in Nat /\ tabla[marco[h]].pid = p /\ tabla[marco[h]].pag = k
  BY <1>1, <1>2, PedidoBien
<1>4. d \in Dato /\ e \in Entrada
  BY <1>1, <1>3 DEF TipoDatos, TipoEleccion
<1> HIDE DEF e, p, k, d, c
<1>5. /\ \A x \in Entrada \ {e} : cache'[x] = cache[x]
      /\ cache'[e].content = d
      /\ IF c = "hallada" THEN cache'[e].pid = cache[e].pid /\ cache'[e].pag = cache[e].pag
         ELSE cache'[e].pid = p /\ cache'[e].pag = k
  <2>1. CASE c = "hallada"
    BY <1>1, <1>4, <2>1 DEF Anotada, TipoCache
  <2>2. CASE c = "nueva"
    BY <1>1, <1>4, <2>2 DEF Anotada, TipoCache
  <2> QED BY <1>1, <2>1, <2>2
<1>6. Anota(h, e, p, k, d)
  BY <1>1, <1>3, <1>4, <1>5 DEF Anota, e, p, k, d, c
<1> QED BY <1>6

\* The entry d is the entry c, or what flush left of it.
EsMenos(d, c) == d = c \/ d = [c EXCEPT !.pag = -1] \/ d = [c EXCEPT !.pid = Nadie]

\* The cache is as it was, or flush has made one write.
SoloBorra == \A e \in Entrada : EsMenos(cache'[e], cache[e])

LEMMA FlushBorra ==
  ASSUME TipoCache, LimpiarPag \/ LimpiarPid
  PROVE  SoloBorra
<1> DEFINE i == limpia.entrada
<1>1. CASE LimpiarPag
  <2>1. cache' = [cache EXCEPT ![i].pag = -1]
    BY <1>1 DEF LimpiarPag
  <2> HIDE DEF i
  <2> QED BY <2>1 DEF SoloBorra, EsMenos, TipoCache
<1>2. CASE LimpiarPid
  <2>1. cache' = [cache EXCEPT ![i].pid = Nadie]
    BY <1>2 DEF LimpiarPid
  <2> HIDE DEF i
  <2> QED BY <2>1 DEF SoloBorra, EsMenos, TipoCache
<1> QED BY <1>1, <1>2

\* What is left of an entry.
LEMMA QuedaBien ==
  ASSUME TipoCache, SoloBorra, NEW e \in Entrada
  PROVE  /\ cache'[e].pid \in {cache[e].pid, Nadie} /\ cache'[e].content = cache[e].content
         /\ cache'[e] = cache[e] \/ cache'[e].pid = Nadie \/ cache'[e].pag = -1
<1>1. PICK c \in [pid : Pid \cup {Nadie}, pag : Nat \cup {-1}, content : Dato] : c = cache[e]
  BY DEF TipoCache
<1>2. EsMenos(cache'[e], c)
  BY <1>1 DEF SoloBorra
<1>3. CASE cache'[e] = [c EXCEPT !.pag = -1]
  BY <1>1, <1>3
<1>4. CASE cache'[e] = [c EXCEPT !.pid = Nadie]
  BY <1>1, <1>4
<1> QED BY <1>1, <1>2, <1>3, <1>4 DEF EsMenos

\* A step in which the owner of cache_mutex does nothing, if there is one: the
\* steps of the others, of which only flush's touch the cache.
Ajeno ==
  /\ UNCHANGED <<mutexCache, eleccion>>
  /\ mutexCache # Nadie =>
       pc'[mutexCache] = pc[mutexCache] /\ pedido'[mutexCache] = pedido[mutexCache]
  /\ SoloBorra

\* The steps that do not choose or write an entry.
LEMMA LosDemas ==
  ASSUME MemoriaAssumption, MemInv, TipoCache, TipoEleccion, [Next]_vars,
         ~ \E h \in Hilo : BuscarEntrada(h) \/ Reemplazar(h) \/ AnotarEntrada(h)
  PROVE  Ajeno
<1> USE DEF SoloBorra, EsMenos
<1>1. ASSUME UNCHANGED <<caches, pc, pedido>> PROVE Ajeno
  BY <1>1 DEF Ajeno, caches
<1>2. ASSUME UNCHANGED caches, NEW h \in Hilo, pc[h] \notin {"actualiza", "actualiza_e"},
             \A g \in Hilo \ {h} : pc'[g] = pc[g] /\ pedido'[g] = pedido[g]
      PROVE  Ajeno
  BY <1>2 DEF Ajeno, caches, TipoEleccion
<1>3. ASSUME UNCHANGED caches, NEW h \in Hilo, pc[h] \notin {"actualiza", "actualiza_e"},
             NEW x, pc' = [pc EXCEPT ![h] = x],
             (\E r : pedido' = [pedido EXCEPT ![h] = r]) \/ UNCHANGED pedido
             \/ pedido' = [pedido EXCEPT ![h].pag = @ + 1, ![h].falta = @ - 1]
      PROVE  Ajeno
  <2>1. \A g \in Hilo \ {h} : pc'[g] = pc[g] /\ pedido'[g] = pedido[g]
    BY <1>3 DEF MemInv, TipoMem
  <2> QED BY <1>2, <1>3, <2>1
<1>4. ASSUME NEW h \in Hilo, SolicitudBytes(h) \/ GrabarBytes(h) PROVE Ajeno
  <2>1. UNCHANGED caches /\ pc[h] = "libre"
    BY <1>4 DEF SolicitudBytes, GrabarBytes, Recibir, En
  <2>2. \E x, r : pc' = [pc EXCEPT ![h] = x] /\ pedido' = [pedido EXCEPT ![h] = r]
    BY <1>4 DEF SolicitudBytes, GrabarBytes, Recibir, Ir
  <2> QED BY <1>3, <2>1, <2>2
<1>5. ASSUME NEW h \in Hilo, LeerCache(h) \/ Grabar(h) PROVE Ajeno
  <2>1. UNCHANGED <<caches, pedido>> /\ pc[h] \in {"cache", "graba"}
    BY <1>5 DEF LeerCache, Grabar, En
  <2>2. \E x : pc' = [pc EXCEPT ![h] = x]
    BY <1>5 DEF LeerCache, Grabar, Ir
  <2> QED BY <1>3, <2>1, <2>2
<1>6. ASSUME NEW h \in Hilo, BuscarFrame(h) \/ Copiar(h) PROVE Ajeno
  <2>1. UNCHANGED caches /\ pc[h] \in {"busca", "busca_e", "copia"}
    BY <1>6 DEF BuscarFrame, Copiar, En
  <2>2. \E x : /\ pc' = [pc EXCEPT ![h] = x]
               /\ \/ \E r : pedido' = [pedido EXCEPT ![h] = r]
                  \/ UNCHANGED pedido
                  \/ pedido' = [pedido EXCEPT ![h].pag = @ + 1, ![h].falta = @ - 1]
    BY <1>6 DEF BuscarFrame, Copiar, Avanzar, Responder, Ir
  <2> QED BY <1>3, <2>1, <2>2
<1>7. Kernel \in Hilo
  BY DEF Hilo
<1>8. CASE PedidoKernel
  <2>1. UNCHANGED caches /\ pc[Kernel] = "libre"
    BY <1>8 DEF PedidoKernel, IniciarPrograma, AsignarPaginas, FinalizarPrograma, LiberarPagina, Recibir, En
  <2>2. \E x, r : pc' = [pc EXCEPT ![Kernel] = x] /\ pedido' = [pedido EXCEPT ![Kernel] = r]
    BY <1>8 DEF PedidoKernel, IniciarPrograma, AsignarPaginas, FinalizarPrograma, LiberarPagina, Recibir, Ir
  <2> QED BY <1>3, <1>7, <2>1, <2>2
<1>9. CASE ContarFrames \/ AsignarPagina \/ BorrarPrograma \/ LiberarFrame
  <2>1. UNCHANGED caches /\ pc[Kernel] \in DelKernel
    BY <1>9 DEF ContarFrames, AsignarPagina, BorrarPrograma, LiberarFrame, En, DelKernel
  <2>2. \E x : /\ pc' = [pc EXCEPT ![Kernel] = x]
               /\ \/ \E r : pedido' = [pedido EXCEPT ![Kernel] = r]
                  \/ UNCHANGED pedido
                  \/ pedido' = [pedido EXCEPT ![Kernel].pag = @ + 1, ![Kernel].falta = @ - 1]
    BY <1>9 DEF ContarFrames, AsignarPagina, UnaAsignada, BorrarPrograma, LiberarFrame, Avanzar, Responder, Ir
  <2> QED BY <1>3, <1>7, <2>1, <2>2 DEF DelKernel
<1>10. CASE TomarTabla
  <2>1. UNCHANGED caches /\ pc[Kernel] = "toma" /\ pc' = [pc EXCEPT ![Kernel] = "asigna"]
        /\ pedido' = [pedido EXCEPT ![Kernel].pag = UltimaPagina(pedido[Kernel].pid) + 1]
    BY <1>10 DEF TomarTabla, En, Ir
  <2>2. \A g \in Hilo \ {Kernel} : pc'[g] = pc[g] /\ pedido'[g] = pedido[g]
    BY <2>1 DEF MemInv, TipoMem
  <2> QED BY <1>2, <1>7, <2>1, <2>2
<1>11. CASE Flush \/ UNCHANGED vars
  BY <1>1, <1>11 DEF Flush, vars, hilos
<1>12. CASE LimpiarPag \/ LimpiarPid
  <2>1. UNCHANGED <<mutexCache, eleccion, pc, pedido>>
    BY <1>12 DEF LimpiarPag, LimpiarPid, hilos
  <2> QED BY <1>12, <2>1, FlushBorra DEF Ajeno
<1> QED BY <1>4, <1>5, <1>6, <1>8, <1>9, <1>10, <1>11, <1>12 DEF Next, OtroHilo, Sigue, SigueKernel

\* The cache keeps its type, step by step: the entry that is written, and the
\* two writes of flush.
LEMMA TipoCachePaso ==
  ASSUME MemoriaAssumption, MemInv, TipoCache, TipoDatos, TipoEleccion, [Next]_vars
  PROVE  TipoCache'
<1> DEFINE R == [pid : Pid \cup {Nadie}, pag : Nat \cup {-1}, content : Dato]
<1> HIDE DEF R
<1>1. CASE UNCHANGED <<cache, limpia>>
  BY <1>1 DEF TipoCache
<1>2. ASSUME NEW h \in Hilo, AnotarEntrada(h) PROVE TipoCache'
  <2>1. PICK e, p, k, d : Anota(h, e, p, k, d)
    BY <1>2, AnotaBien
  <2>2. e \in Entrada /\ p \in Pid /\ k \in Nat /\ d \in Dato /\ cache' = Anotada(e, eleccion.como, p, k, d)
    BY <2>1 DEF Anota
  <2>3. cache' \in [Entrada -> [pid : Pid \cup {Nadie}, pag : Nat \cup {-1}, content : Dato]]
    <3>1. CASE eleccion.como = "hallada"
      BY <2>2, <3>1 DEF Anotada, TipoCache
    <3>2. CASE eleccion.como # "hallada"
      BY <2>2, <3>2 DEF Anotada, TipoCache
    <3> QED BY <3>1, <3>2
  <2> QED BY <1>2, <2>3 DEF AnotarEntrada, TipoCache
<1>3. CASE LimpiarPag \/ LimpiarPid
  <2> DEFINE i == limpia.entrada
  <2>1. \A r \in R : [r EXCEPT !.pag = -1] \in R /\ [r EXCEPT !.pid = Nadie] \in R
    BY DEF R
  <2>2. cache \in [Entrada -> R]
    BY DEF TipoCache, R
  <2>3. (cache' = [cache EXCEPT ![i].pag = -1]) \/ (cache' = [cache EXCEPT ![i].pid = Nadie])
    BY <1>3 DEF LimpiarPag, LimpiarPid
  <2>4. limpia' \in [entrada : 0..Entradas, pag : BOOLEAN]
    <3>1. CASE LimpiarPag
      BY <3>1 DEF LimpiarPag, TipoCache
    <3>2. CASE LimpiarPid
      BY <3>2 DEF LimpiarPid, TipoCache, MemoriaAssumption
    <3> QED BY <1>3, <3>1, <3>2
  <2> HIDE DEF i
  <2>5. cache' \in [Entrada -> R]
    <3>1. CASE cache' = [cache EXCEPT ![i].pag = -1]
      BY <2>1, <2>2, <3>1
    <3>2. CASE cache' = [cache EXCEPT ![i].pid = Nadie]
      BY <2>1, <2>2, <3>2
    <3> QED BY <2>3, <3>1, <3>2
  <2> QED BY <2>4, <2>5 DEF TipoCache, R
<1>4. CASE Flush
  BY <1>4 DEF Flush, TipoCache, caches, MemoriaAssumption
<1>5. ASSUME NEW h \in Hilo,
             SolicitudBytes(h) \/ GrabarBytes(h) \/ LeerCache(h) \/ BuscarFrame(h) \/ Grabar(h) \/ Copiar(h)
             \/ BuscarEntrada(h) \/ Reemplazar(h)
      PROVE  TipoCache'
  BY <1>1, <1>5 DEF SolicitudBytes, GrabarBytes, LeerCache, BuscarFrame, Grabar, Copiar, BuscarEntrada,
     Reemplazar, caches
<1>6. CASE PedidoKernel \/ SigueKernel
  BY <1>1, <1>6 DEF PedidoKernel, IniciarPrograma, AsignarPaginas, FinalizarPrograma, LiberarPagina,
     SigueKernel, ContarFrames, TomarTabla, AsignarPagina, BorrarPrograma, LiberarFrame, caches
<1>7. CASE UNCHANGED vars
  BY <1>1, <1>7 DEF vars, caches
<1> QED BY <1>2, <1>3, <1>4, <1>5, <1>6, <1>7 DEF Next, OtroHilo, Sigue

\* A scan gives an entry that was among those it could give, or, when the
\* program has none left, any.
LEMMA LoElegido ==
  ASSUME TipoEleccion, NEW h \in Hilo, Reemplazar(h)
  PROVE  /\ mutexCache = h /\ eleccion.como \in {"local", "global"}
         /\ UNCHANGED <<tablas, cache, mutexCache, hilos, limpia>>
         /\ \/ eleccion' = Perdida
            \/ \E e \in Entrada :
                 /\ eleccion' = [como |-> "nueva", antes |-> {}, entrada |-> e]
                 /\ \/ eleccion.como = "global"
                    \/ eleccion.como = "local" /\ (e \in eleccion.antes \/ EntradasDe(pedido[h].pid) = {})
<1>1. ReemplazoGlobal \subseteq Entrada /\ ReemplazoLocal = eleccion.antes /\ eleccion.antes \subseteq Entrada
  BY DEF ReemplazoGlobal, EntradasLibres, ReemplazoLocal, TipoEleccion
<1> QED BY <1>1 DEF Reemplazar

\* The owner of cache_mutex keeps its types.
LEMMA TipoEleccionPaso ==
  ASSUME MemoriaAssumption, MemInv, TipoCache, TipoDatos, TipoEleccion, [Next]_vars
  PROVE  TipoEleccion'
<1>1. ASSUME NEW h \in Hilo, BuscarEntrada(h) PROVE TipoEleccion'
  <2> DEFINE p == pedido[h].pid
             S == EntradaDe(p, pedido[h].pag)
  <2>1. pc[h] \in {"actualiza", "actualiza_e"} /\ S \subseteq Entrada /\ EntradasDe(p) \subseteq Entrada
        /\ EntradasLibres \subseteq Entrada
    BY <1>1 DEF BuscarEntrada, EntradaDe, EntradasDe, EntradasLibres
  <2>2. CASE Entradas = 0
    <3>1. UNCHANGED caches
      BY <1>1, <2>2 DEF BuscarEntrada
    <3> QED BY <2>2, <3>1 DEF TipoEleccion, caches
  <2>3. CASE Entradas # 0
    <3>1. /\ mutexCache' = h /\ UNCHANGED pc
          /\ \/ S # {} /\ eleccion' = [como |-> "hallada", antes |-> {}, entrada |-> CHOOSE x \in S : TRUE]
             \/ eleccion' = [como |-> "local", antes |-> EntradasDe(p), entrada |-> Nadie]
             \/ eleccion' = [como |-> "global", antes |-> EntradasLibres, entrada |-> Nadie]
      BY <1>1, <2>3 DEF BuscarEntrada, hilos
    <3>2. S # {} => (CHOOSE x \in S : TRUE) \in Entrada
      BY <2>1
    <3>3. h # Nadie
      BY DEF MemoriaAssumption
    <3>4. pc'[mutexCache'] \in {"actualiza", "actualiza_e"} /\ mutexCache' \in Hilo
      BY <2>1, <3>1
    <3> DEFINE T == [como : {"nada", "hallada", "local", "global", "nueva", "perdida"},
                     antes : SUBSET Entrada, entrada : Entrada \cup {Nadie}]
    <3>5. eleccion' \in T /\ (eleccion'.como \in {"hallada", "nueva"} => eleccion'.entrada \in Entrada)
      <4> HIDE DEF S, p
      <4>1. CASE S # {} /\ eleccion' = [como |-> "hallada", antes |-> {}, entrada |-> CHOOSE x \in S : TRUE]
        BY <3>2, <4>1
      <4>2. CASE eleccion' = [como |-> "local", antes |-> EntradasDe(p), entrada |-> Nadie]
        BY <2>1, <4>2
      <4>3. CASE eleccion' = [como |-> "global", antes |-> EntradasLibres, entrada |-> Nadie]
        BY <2>1, <4>3
      <4> QED BY <3>1, <4>1, <4>2, <4>3
    <3>6. mutexCache' # Nadie
      BY <3>1, <3>3
    <3> HIDE DEF T
    <3> QED BY <2>3, <3>4, <3>5, <3>6 DEF TipoEleccion, T
  <2> QED BY <2>2, <2>3
<1>2. ASSUME NEW h \in Hilo, Reemplazar(h) PROVE TipoEleccion'
  <2>1. /\ mutexCache = h /\ UNCHANGED <<mutexCache, pc>>
        /\ (eleccion' = Perdida \/ \E e \in Entrada : eleccion' = [como |-> "nueva", antes |-> {}, entrada |-> e])
    BY <1>2, LoElegido DEF hilos
  <2>2. h # Nadie
    BY DEF MemoriaAssumption
  <2> QED BY <2>1, <2>2 DEF TipoEleccion, Perdida
<1>3. ASSUME NEW h \in Hilo, AnotarEntrada(h) PROVE TipoEleccion'
  BY <1>3 DEF AnotarEntrada, TipoEleccion, SinEleccion
<1>4. CASE ~ \E h \in Hilo : BuscarEntrada(h) \/ Reemplazar(h) \/ AnotarEntrada(h)
  BY <1>4, LosDemas DEF Ajeno, TipoEleccion
<1> QED BY <1>1, <1>2, <1>3, <1>4

\* A thread that forgets its frame and its entry.
LEMMA OlvidaTipo ==
  ASSUME TipoDatos, NEW h \in Hilo, UNCHANGED <<memoria, mutex, escrita>>,
         NEW m \in Marco \cup {Nadie}, NEW q \in Entrada \cup {Nadie},
         marco' = [marco EXCEPT ![h] = m], puntero' = [puntero EXCEPT ![h] = q]
  PROVE  TipoDatos'
BY DEF TipoDatos

\* The same of the answer and of the next page.
LEMMA AvanzaTipo ==
  ASSUME TipoDatos, NEW h \in Hilo, UNCHANGED <<memoria, mutex, escrita>>,
         Responder(h) \/ \E x : Avanzar(h, x)
  PROVE  TipoDatos'
<1>1. marco' = [marco EXCEPT ![h] = Nadie] /\ puntero' = [puntero EXCEPT ![h] = Nadie]
  BY DEF Responder, Avanzar
<1> QED BY <1>1, OlvidaTipo

\* The other types, step by step.
LEMMA TipoDatosPaso ==
  ASSUME MemoriaAssumption, MemInv, TipoCache, TipoDatos, [Next]_vars
  PROVE  TipoDatos'
<1> Kernel \in Hilo
  BY DEF Hilo
<1>1. CASE UNCHANGED <<memoria, mutex, escrita, marco, puntero>>
  BY <1>1 DEF TipoDatos
<1>2. ASSUME NEW h \in Hilo, LeerCache(h) PROVE TipoDatos'
  <2> DEFINE E == EntradaDe(pedido[h].pid, pedido[h].pag)
  <2>1. UNCHANGED <<memoria, mutex, escrita, marco>> /\ (UNCHANGED puntero \/ (E # {} /\ puntero' = [puntero EXCEPT ![h] = CHOOSE x \in E : TRUE]))
    BY <1>2 DEF LeerCache, tablas
  <2>2. E # {} => (CHOOSE x \in E : TRUE) \in Entrada
    BY DEF EntradaDe
  <2> QED BY ZenonT(40), <2>1, <2>2 DEF TipoDatos
<1>3. ASSUME NEW h \in Hilo, BuscarFrame(h) PROVE TipoDatos'
  <2> DEFINE p == pedido[h].pid
             k == pedido[h].pag
  <2>1. UNCHANGED <<memoria, mutex, escrita>> /\ pc[h] \in Recorre
    BY <1>3 DEF BuscarFrame, tablas, Recorre, Lectura, Escritura
  <2>2. p \in Pid /\ k \in Pagina(p)
    BY <2>1 DEF MemInv, HiloBien, Alcance, Pagina, MemoriaAssumption
  <2>3. CASE Responder(h)
    BY <2>1, <2>3, AvanzaTipo
  <2>4. CASE Encontro(MarcoDe(p, k)) /\ marco' = [marco EXCEPT ![h] = MarcoDe(p, k)] /\ UNCHANGED puntero
    BY <2>1, <2>2, <2>4, MarcoHallado DEF TipoDatos
  <2> QED BY <1>3, <2>3, <2>4 DEF BuscarFrame
<1>4. ASSUME NEW h \in Hilo, Grabar(h) PROVE TipoDatos'
  <2>1. pc[h] \in Recorre /\ pc[h] = "graba"
    BY <1>4 DEF Grabar, En, Recorre, Escritura
  <2>2. /\ memoria' = [memoria EXCEPT ![marco[h]] = pedido[h].dato]
        /\ escrita' = escrita \cup {<<pedido[h].pid, pedido[h].pag>>}
        /\ UNCHANGED <<mutex, marco, puntero>>
    BY <1>4 DEF Grabar
  <2> QED BY <2>1, <2>2, PedidoBien DEF TipoDatos
<1>5. ASSUME NEW h \in Hilo, BuscarEntrada(h) \/ AnotarEntrada(h) \/ Reemplazar(h) \/ Copiar(h)
      PROVE  TipoDatos'
  <2>1. /\ UNCHANGED <<memoria, mutex, escrita>>
        /\ (\E x : Avanzar(h, x)) \/ UNCHANGED <<marco, puntero>>
    BY <1>5 DEF BuscarEntrada, AnotarEntrada, Reemplazar, Copiar, DejarEntrada, tablas, hilos
  <2> QED BY <1>1, <2>1, AvanzaTipo
<1>6. ASSUME NEW h \in Hilo, SolicitudBytes(h) \/ GrabarBytes(h) PROVE TipoDatos'
  BY <1>1, <1>6 DEF SolicitudBytes, GrabarBytes, Recibir, tablas
<1>7. CASE PedidoKernel
  BY <1>1, <1>7 DEF PedidoKernel, IniciarPrograma, AsignarPaginas, FinalizarPrograma, LiberarPagina,
     Recibir, tablas
<1>8. CASE ContarFrames
  BY <1>1, <1>8, AvanzaTipo DEF ContarFrames
<1>9. CASE TomarTabla
  BY <1>9 DEF TomarTabla, TipoDatos
<1>10. CASE AsignarPagina
  <2>1. mutex' \in {mutex, Nadie} /\ escrita' \subseteq escrita
    BY <1>10 DEF AsignarPagina, UnaAsignada, Pisar
  <2>2. marco' = [marco EXCEPT ![Kernel] = Nadie] /\ puntero' = [puntero EXCEPT ![Kernel] = Nadie]
    BY <1>10 DEF AsignarPagina, UnaAsignada, Avanzar, Responder
  <2>3. UNCHANGED memoria \/ \E f : \E d \in Dato : memoria' = [memoria EXCEPT ![f] = d]
    BY <1>10 DEF AsignarPagina, Pisar
  <2>4. memoria' \in [Marco -> Dato]
    BY <2>3 DEF TipoDatos
  <2> QED BY <2>1, <2>2, <2>4 DEF TipoDatos
<1>11. CASE BorrarPrograma \/ LiberarFrame
  <2>1. UNCHANGED <<memoria, mutex>> /\ escrita' \subseteq escrita /\ Responder(Kernel)
    BY <1>11 DEF BorrarPrograma, LiberarFrame
  <2>2. marco' = [marco EXCEPT ![Kernel] = Nadie] /\ puntero' = [puntero EXCEPT ![Kernel] = Nadie]
    BY <2>1 DEF Responder
  <2> QED BY <2>1, <2>2 DEF TipoDatos
<1>12. CASE Flush \/ LimpiarPag \/ LimpiarPid
  BY <1>1, <1>12 DEF Flush, LimpiarPag, LimpiarPid, tablas, hilos
<1>13. CASE UNCHANGED vars
  BY <1>1, <1>13 DEF vars, tablas, hilos
<1> QED BY <1>2, <1>3, <1>4, <1>5, <1>6, <1>7, <1>8, <1>9, <1>10, <1>11, <1>12, <1>13 DEF Next, OtroHilo, Sigue, SigueKernel

\* Nothing is in the cache at first.
LEMMA TipoInicio ==
  ASSUME MemoriaAssumption, Init
  PROVE  TipoCache /\ TipoDatos /\ TipoEleccion
<1>1. cache = [e \in Entrada |-> SinEntrada] /\ limpia = NoLimpia
  BY DEF Init
<1>2. TipoCache
  BY <1>1 DEF TipoCache, SinEntrada, NoLimpia, MemoriaAssumption
<1>3. /\ memoria = [f \in Marco |-> Cero] /\ mutex = Nadie /\ escrita = {}
      /\ marco = [h \in Hilo |-> Nadie] /\ puntero = [h \in Hilo |-> Nadie]
  BY DEF Init
<1>4. mutexCache = Nadie /\ eleccion = SinEleccion
  BY DEF Init
<1> QED BY <1>2, <1>3, <1>4 DEF TipoDatos, TipoEleccion, SinEleccion, MemoriaAssumption

\* What the types need of each other.
Tipos == MemInv /\ TipoCache /\ TipoDatos /\ TipoEleccion

\* The types and MemInv hold in every reachable state.
LEMMA TiposSiempre == Spec => []Tipos
<1>1. Init => Tipos
  BY MemInicio, TipoInicio, MemoriaAssumption DEF Tipos
<1>2. Tipos /\ [Next]_vars => Tipos'
  <2> SUFFICES ASSUME Tipos, [Next]_vars PROVE Tipos'
    OBVIOUS
  <2>1. MemInv /\ TipoCache /\ TipoDatos /\ TipoEleccion
    BY DEF Tipos
  <2> QED BY <2>1, MemPaso, TipoCachePaso, TipoDatosPaso, TipoEleccionPaso, MemoriaAssumption DEF Tipos
<1> QED BY <1>1, <1>2, PTL DEF Spec

\* The threads, the table and the cache keep their types: no thread ever copies
\* with a frame or an entry that does not exist, but after a local replacement
\* that found none.
THEOREM TiposDeMemoria == Spec => []TypeOK
<1>1. Tipos => TypeOK
  BY TipoBasta DEF Tipos
<1> QED BY <1>1, TiposSiempre, PTL

-----------------------------------------------------------------------------
\* The quota of entries.

\* The entries that the owner of cache_mutex may still take for its page.
Candidatas ==
  CASE eleccion.como = "local"  -> eleccion.antes
    [] eleccion.como = "global" -> Entrada
    [] eleccion.como = "nueva"  -> {eleccion.entrada}
    [] OTHER -> {}

\* Without any of them, its program has less than it may: the entries it had
\* when they were counted, all but one or not all of it; or none.
HayCupo == \A e \in Candidatas :
  Cardinality(EntradasDe(pedido[mutexCache].pid) \ {e}) < MaxEntradas

CuotaInv == CuotaDeCache /\ (mutexCache # Nadie => HayCupo)

\* Fewer entries are fewer.
LEMMA MenosEntradas ==
  ASSUME MemoriaAssumption, NEW T \in SUBSET Entrada, NEW S \in SUBSET T
  PROVE  /\ IsFiniteSet(T) /\ Cardinality(S) \in Nat /\ Cardinality(T) \in Nat
         /\ Cardinality(S) <= Cardinality(T)
<1>1. IsFiniteSet(Entrada)
  BY FS_Interval DEF Entrada, MemoriaAssumption
<1>2. IsFiniteSet(T)
  BY <1>1, FS_Subset
<1> QED BY <1>2, FS_Subset, FS_CardinalityType

\* Where the quota holds and an entry is left out of a set that is within it.
LEMMA UnaMenos ==
  ASSUME MemoriaAssumption, NEW T \in SUBSET Entrada, NEW e,
         Cardinality(T) <= MaxEntradas, e \in T \/ Cardinality(T) # MaxEntradas
  PROVE  Cardinality(T \ {e}) < MaxEntradas
<1>1. /\ IsFiniteSet(T) /\ Cardinality(T) \in Nat /\ Cardinality(T \ {e}) \in Nat
      /\ Cardinality(T \ {e}) <= Cardinality(T) /\ MaxEntradas \in Nat
  BY MenosEntradas DEF MemoriaAssumption
<1>2. CASE e \in T
  <2>1. Cardinality(T \ {e}) = Cardinality(T) - 1
    BY <1>1, <1>2, FS_RemoveElement
  <2> QED BY <1>1, <2>1
<1>3. CASE e \notin T
  <2>1. Cardinality(T) # MaxEntradas
    BY <1>3
  <2> DEFINE a == Cardinality(T)
             b == Cardinality(T \ {e})
  <2>2. a \in Nat /\ b \in Nat /\ b <= a /\ a <= MaxEntradas /\ a # MaxEntradas /\ MaxEntradas \in Nat
    BY <1>1, <2>1
  <2> HIDE DEF a, b
  <2>3. b < MaxEntradas
    BY <2>2
  <2> QED BY <2>3 DEF b
<1> QED BY <1>2, <1>3

\* Programs lose entries, and none gains one.
LEMMA CuotaMenos ==
  ASSUME MemoriaAssumption, CuotaInv, \A q \in Pid : EntradasDe(q)' \subseteq EntradasDe(q)
  PROVE  CuotaDeCache'
<1> SUFFICES ASSUME NEW q \in Pid
             PROVE  Cardinality(EntradasDe(q)') <= MaxEntradas
  BY DEF CuotaDeCache, EntradasDe
<1>1. EntradasDe(q) \in SUBSET Entrada /\ EntradasDe(q)' \in SUBSET EntradasDe(q)
  BY DEF EntradasDe
<1>2. Cardinality(EntradasDe(q)) <= MaxEntradas /\ MaxEntradas \in Nat
  BY DEF CuotaInv, CuotaDeCache, EntradasDe, MemoriaAssumption
<1>3. /\ Cardinality(EntradasDe(q)') <= Cardinality(EntradasDe(q))
      /\ Cardinality(EntradasDe(q)') \in Nat /\ Cardinality(EntradasDe(q)) \in Nat
  BY <1>1, MenosEntradas
<1> QED BY <1>2, <1>3

\* What flush and the other threads do: entries may be lost, and the owner of
\* cache_mutex stays where it is.
LEMMA CuotaAjena ==
  ASSUME MemoriaAssumption, MemInv, TipoCache, TipoEleccion, CuotaInv, Ajeno
  PROVE  CuotaInv'
<1>1. \A e \in Entrada : cache'[e].pid \in {cache[e].pid, Nadie}
  BY QuedaBien DEF Ajeno
<1>2. ASSUME NEW q \in Pid PROVE EntradasDe(q)' \subseteq EntradasDe(q)
  BY <1>1 DEF EntradasDe, MemoriaAssumption
<1>3. CuotaDeCache'
  BY <1>2, CuotaMenos
<1>4. ASSUME mutexCache' # Nadie PROVE HayCupo'
  <2>1. /\ mutexCache \in Hilo /\ pc[mutexCache] \in {"actualiza", "actualiza_e"}
        /\ mutexCache' = mutexCache /\ eleccion' = eleccion /\ pedido'[mutexCache] = pedido[mutexCache] /\ HayCupo
    BY <1>4 DEF Ajeno, TipoEleccion, CuotaInv
  <2>2. PICK p \in Pid : p = pedido[mutexCache].pid
    <3>1. pc[mutexCache] \in Recorre
      BY <2>1 DEF Recorre, Lectura, Escritura
    <3> QED BY <2>1, <3>1, PedidoBien
  <2>3. Candidatas' = Candidatas
    BY <2>1 DEF Candidatas
  <2> SUFFICES ASSUME NEW e \in Candidatas
               PROVE  Cardinality(EntradasDe(p)' \ {e}) < MaxEntradas
    BY <2>1, <2>2, <2>3 DEF HayCupo, EntradasDe
  <2>4. Cardinality(EntradasDe(p) \ {e}) < MaxEntradas
    BY <2>1, <2>2 DEF HayCupo
  <2>5. EntradasDe(p) \ {e} \in SUBSET Entrada /\ EntradasDe(p)' \ {e} \in SUBSET (EntradasDe(p) \ {e})
    BY <1>2 DEF EntradasDe
  <2>6. /\ Cardinality(EntradasDe(p)' \ {e}) <= Cardinality(EntradasDe(p) \ {e})
        /\ Cardinality(EntradasDe(p)' \ {e}) \in Nat /\ Cardinality(EntradasDe(p) \ {e}) \in Nat
    BY <2>5, MenosEntradas
  <2>7. MaxEntradas \in Nat
    BY DEF MemoriaAssumption
  <2> QED BY <2>4, <2>6, <2>7
<1> QED BY <1>3, <1>4 DEF CuotaInv

\* buscarEntrada and cantEntradas: at the limit, any entry of the program will
\* do; below it, any entry.
LEMMA CuotaBuscar ==
  ASSUME MemoriaAssumption, MemInv, TipoCache, TipoEleccion, CuotaInv, NEW h \in Hilo, BuscarEntrada(h)
  PROVE  CuotaInv'
<1>1. pc[h] \in {"actualiza", "actualiza_e"} /\ UNCHANGED cache
  BY DEF BuscarEntrada, caches
<1>2. CuotaDeCache'
  BY <1>1 DEF CuotaInv, CuotaDeCache
<1>3. CASE Entradas = 0
  BY <1>2, <1>3 DEF BuscarEntrada, caches, TipoEleccion, CuotaInv
<1>4. CASE Entradas # 0
  <2>1. PICK p \in Pid : p = pedido[h].pid
    <3>1. pc[h] \in Recorre
      BY <1>1 DEF Recorre, Lectura, Escritura
    <3> QED BY <3>1, PedidoBien
  <2>2. /\ mutexCache' = h /\ UNCHANGED pedido
        /\ \/ eleccion'.como = "hallada"
           \/ LlegoAlMaximo(p) /\ eleccion'.como = "local" /\ eleccion'.antes = EntradasDe(p)
           \/ ~ LlegoAlMaximo(p) /\ eleccion'.como = "global"
    BY <1>4, <2>1 DEF BuscarEntrada, hilos
  <2>3. EntradasDe(p)' = EntradasDe(p) /\ EntradasDe(p) \in SUBSET Entrada
    BY <1>1 DEF EntradasDe
  <2>4. Cardinality(EntradasDe(p)) <= MaxEntradas
    BY DEF CuotaInv, CuotaDeCache, EntradasDe
  <2>5. ASSUME NEW e \in Candidatas' PROVE Cardinality(EntradasDe(p) \ {e}) < MaxEntradas
    <3>1. e \in EntradasDe(p) \/ Cardinality(EntradasDe(p)) # MaxEntradas
      BY <2>2, <2>5 DEF Candidatas, LlegoAlMaximo, EntradasDe
    <3> QED BY <2>3, <2>4, <3>1, UnaMenos
  <2>6. HayCupo'
    BY <2>1, <2>2, <2>3, <2>5 DEF HayCupo, EntradasDe
  <2> QED BY <1>2, <2>6 DEF CuotaInv
<1> QED BY <1>3, <1>4

\* The scan: an entry that could be taken, or any when flush left the program
\* with none.
LEMMA CuotaReemplazar ==
  ASSUME MemoriaAssumption, MemInv, TipoCache, TipoEleccion, CuotaInv, NEW h \in Hilo, Reemplazar(h)
  PROVE  CuotaInv'
<1>1. /\ mutexCache = h /\ UNCHANGED <<cache, mutexCache, pedido>> /\ h # Nadie
      /\ \/ eleccion' = Perdida
         \/ \E e \in Entrada :
              /\ eleccion' = [como |-> "nueva", antes |-> {}, entrada |-> e]
              /\ \/ eleccion.como = "global"
                 \/ eleccion.como = "local" /\ (e \in eleccion.antes \/ EntradasDe(pedido[h].pid) = {})
  BY LoElegido DEF hilos, MemoriaAssumption
<1>2. CuotaDeCache' /\ HayCupo
  BY <1>1 DEF CuotaInv, CuotaDeCache
<1>3. ASSUME NEW e \in Candidatas'
      PROVE  e \in Candidatas \/ (eleccion.como = "local" /\ EntradasDe(pedido[h].pid) = {})
  BY <1>1, <1>3 DEF Candidatas, Perdida
<1>4. EntradasDe(pedido[h].pid) = {} /\ eleccion.como = "local" => \A e : Cardinality(EntradasDe(pedido[h].pid) \ {e}) < MaxEntradas
  <2> SUFFICES ASSUME EntradasDe(pedido[h].pid) = {}, NEW e, eleccion.como = "local"
               PROVE  Cardinality(EntradasDe(pedido[h].pid) \ {e}) < MaxEntradas
    OBVIOUS
  <2>1. Cardinality(EntradasDe(pedido[h].pid) \ {e}) = 0
    BY FS_EmptySet
  <2>2. MaxEntradas \in Nat \ {0}
    BY <1>1 DEF MemoriaAssumption, TipoEleccion
  <2>3. 0 < MaxEntradas
    BY <2>2
  <2> QED BY <2>1, <2>3
<1>5. HayCupo'
  <2> SUFFICES ASSUME NEW e \in Candidatas'
               PROVE  Cardinality(EntradasDe(pedido[h].pid) \ {e}) < MaxEntradas
    BY <1>1 DEF HayCupo, EntradasDe
  <2> QED BY <1>1, <1>2, <1>3, <1>4 DEF HayCupo
<1> QED BY <1>2, <1>5 DEF CuotaInv

\* The write: without its entry the program had less than it may, and with it
\* has one more.
LEMMA CuotaAnotar ==
  ASSUME MemoriaAssumption, MemInv, TipoCache, TipoDatos, TipoEleccion, CuotaInv,
         NEW h \in Hilo, AnotarEntrada(h)
  PROVE  CuotaInv'
<1>1. PICK e, p, k, d : Anota(h, e, p, k, d)
  BY AnotaBien
<1>2. /\ e \in Entrada /\ p \in Pid /\ mutexCache' = Nadie /\ mutexCache = h /\ h # Nadie
      /\ \A x \in Entrada \ {e} : cache'[x] = cache[x]
  BY <1>1 DEF Anota, MemoriaAssumption
<1>3. CASE eleccion.como = "hallada"
  <2>1. \A x \in Entrada : cache'[x].pid = cache[x].pid
    BY <1>1, <1>2, <1>3 DEF Anota
  <2>2. \A q \in Pid : EntradasDe(q)' = EntradasDe(q)
    BY <2>1 DEF EntradasDe
  <2>3. CuotaDeCache'
    BY <2>2, CuotaMenos
  <2> QED BY <1>2, <2>3 DEF CuotaInv
<1>4. CASE eleccion.como = "nueva"
  <2>1. cache'[e].pid = p /\ e = eleccion.entrada /\ p = pedido[h].pid
    BY <1>1, <1>4 DEF Anota
  <2>2. Cardinality(EntradasDe(p) \ {e}) < MaxEntradas
    BY <1>2, <1>4, <2>1 DEF CuotaInv, HayCupo, Candidatas
  <2> SUFFICES ASSUME NEW q \in Pid PROVE Cardinality(EntradasDe(q)') <= MaxEntradas
    BY <1>2 DEF CuotaInv, CuotaDeCache, EntradasDe
  <2>3. EntradasDe(q) \in SUBSET Entrada /\ MaxEntradas \in Nat
    BY DEF EntradasDe, MemoriaAssumption
  <2>4. CASE q = p
    <3> DEFINE S == EntradasDe(p) \ {e}
    <3>1. EntradasDe(q)' = S \cup {e} /\ e \notin S
      BY <1>2, <2>1, <2>4 DEF EntradasDe
    <3>2. IsFiniteSet(S) /\ Cardinality(S) \in Nat /\ Cardinality(S) < MaxEntradas
      BY <2>2, <2>3, <2>4, MenosEntradas, FS_Subset
    <3>3. Cardinality(S \cup {e}) = Cardinality(S) + 1
      BY <3>1, <3>2, FS_AddElement
    <3>4. ASSUME NEW c \in Nat, c < MaxEntradas PROVE c + 1 <= MaxEntradas
      BY <2>3, <3>4
    <3> HIDE DEF S
    <3>5. Cardinality(S) + 1 <= MaxEntradas
      BY <3>2, <3>4
    <3> QED BY <3>1, <3>3, <3>5
  <2>5. CASE q # p
    <3>1. EntradasDe(q)' \in SUBSET EntradasDe(q)
      BY <1>2, <2>1, <2>5 DEF EntradasDe
    <3>2. /\ Cardinality(EntradasDe(q)') <= Cardinality(EntradasDe(q))
          /\ Cardinality(EntradasDe(q)') \in Nat /\ Cardinality(EntradasDe(q)) \in Nat
      BY <2>3, <3>1, MenosEntradas
    <3>3. Cardinality(EntradasDe(q)) <= MaxEntradas
      BY DEF CuotaInv, CuotaDeCache, EntradasDe
    <3> QED BY <2>3, <3>2, <3>3
  <2> QED BY <2>4, <2>5
<1>5. eleccion.como \in {"hallada", "nueva"}
  BY <1>1 DEF Anota
<1> QED BY <1>3, <1>4, <1>5

\* Every step keeps the quota, and room in it for the page being noted.
LEMMA CuotaPaso ==
  ASSUME MemoriaAssumption, Tipos, CuotaInv, [Next]_vars
  PROVE  CuotaInv'
<1>1. MemInv /\ TipoCache /\ TipoDatos /\ TipoEleccion
  BY DEF Tipos
<1>2. CASE \E h \in Hilo : BuscarEntrada(h) \/ Reemplazar(h) \/ AnotarEntrada(h)
  BY <1>1, <1>2, CuotaBuscar, CuotaReemplazar, CuotaAnotar
<1>3. CASE ~ \E h \in Hilo : BuscarEntrada(h) \/ Reemplazar(h) \/ AnotarEntrada(h)
  BY <1>1, <1>3, LosDemas, CuotaAjena
<1> QED BY <1>2, <1>3

\* No program ever has more than CACHE_X_PROC entries, also when flush, which
\* takes no lock, clears entries between the count of cantEntradas, the scan of
\* reemplazoLocal or reemplazoGlobal and the writes; an entry that reemplazoLocal
\* returns unset is any entry, as long as it is one of the cache.
THEOREM CuotaRespetada == Spec => []CuotaDeCache
<1>1. Init => CuotaInv
  <2> SUFFICES ASSUME Init PROVE CuotaInv
    OBVIOUS
  <2>1. mutexCache = Nadie
    BY DEF Init
  <2> SUFFICES ASSUME NEW p \in Pid
               PROVE  Cardinality({e \in Entrada : cache[e].pid = p}) <= MaxEntradas
    BY <2>1 DEF CuotaInv, CuotaDeCache
  <2>2. {e \in Entrada : cache[e].pid = p} = {}
    BY MemoriaAssumption DEF Init, SinEntrada, MemoriaAssumption
  <2>3. Cardinality({e \in Entrada : cache[e].pid = p}) = 0
    BY <2>2, FS_EmptySet
  <2>4. \A c : c = 0 => c <= MaxEntradas
    BY MemoriaAssumption DEF MemoriaAssumption
  <2> QED BY <2>3, <2>4
<1>2. Tipos /\ CuotaInv /\ [Next]_vars => CuotaInv'
  BY CuotaPaso, MemoriaAssumption
<1>3. CuotaInv => CuotaDeCache
  BY DEF CuotaInv
<1> QED BY <1>1, <1>2, <1>3, TiposSiempre, PTL DEF Spec

-----------------------------------------------------------------------------
\* The cache and the frames. What makes CacheCoherente inductive: a page has
\* one entry at most, so that the thread that wrote its frame puts all of it
\* right; the owner of cache_mutex knows the only entry its page may have; and
\* only pages that are in the table count as written, so that a number that is
\* given again begins with no history.
UnaEntrada ==
  \A d, e \in Entrada :
    cache[d].pid \in Pid /\ cache[d].pag \in Nat
    /\ cache[e].pid = cache[d].pid /\ cache[e].pag = cache[d].pag => d = e

Numeradas == \A f \in Marco : tabla[f].pid \in Pid => tabla[f].pag \in Nat

EscritaAsignada ==
  \A pg \in escrita : \E f \in Marco : tabla[f].pid = pg[1] /\ tabla[f].pag = pg[2]

\* Page k of p is in no entry, or only in the one that buscarEntrada found, which
\* is the page's unless flush has cleared it.
EntradaBien(p, k) ==
  /\ EntradaDe(p, k) \subseteq IF eleccion.como = "hallada" THEN {eleccion.entrada} ELSE {}
  /\ eleccion.como = "hallada" =>
       \/ eleccion.entrada \in EntradaDe(p, k)
       \/ cache[eleccion.entrada].pid = Nadie \/ cache[eleccion.entrada].pag = -1

EleccionBien ==
  mutexCache # Nadie => EntradaBien(pedido[mutexCache].pid, pedido[mutexCache].pag)

CohInv == UnaEntrada /\ EleccionBien /\ Numeradas /\ EscritaAsignada /\ CacheCoherente

\* The page of the owner of cache_mutex.
LEMMA DuenoBien ==
  ASSUME Tipos, mutexCache # Nadie
  PROVE  /\ mutexCache \in Hilo /\ pc[mutexCache] \in {"actualiza", "actualiza_e"}
         /\ pedido[mutexCache].pid \in Pid /\ pedido[mutexCache].pag \in Nat
<1>1. mutexCache \in Hilo /\ pc[mutexCache] \in {"actualiza", "actualiza_e"}
  BY DEF Tipos, TipoEleccion
<1>2. pc[mutexCache] \in Recorre
  BY <1>1 DEF Recorre, Lectura, Escritura
<1> QED BY <1>1, <1>2, PedidoBien DEF Tipos

\* What flush and the other threads leave: entries as they were or nobody's.
LEMMA CohAjena ==
  ASSUME MemoriaAssumption, Tipos, CohInv, Ajeno
  PROVE  /\ \A e \in Entrada : cache'[e] = cache[e] \/ cache'[e].pid \notin Pid \/ cache'[e].pag \notin Nat
         /\ UnaEntrada' /\ EleccionBien'
<1>1. \A e \in Entrada : cache'[e] = cache[e] \/ cache'[e].pid = Nadie \/ cache'[e].pag = -1
  BY QuedaBien DEF Ajeno, Tipos
<1>2. \A e \in Entrada : cache'[e] = cache[e] \/ cache'[e].pid \notin Pid \/ cache'[e].pag \notin Nat
  BY <1>1 DEF MemoriaAssumption
<1>3. UnaEntrada'
  BY <1>2 DEF CohInv, UnaEntrada
<1>4. ASSUME mutexCache' # Nadie PROVE EntradaBien(pedido[mutexCache].pid, pedido[mutexCache].pag)'
  <2>1. /\ mutexCache' = mutexCache /\ eleccion' = eleccion /\ pedido'[mutexCache] = pedido[mutexCache]
        /\ mutexCache # Nadie
    BY <1>4 DEF Ajeno
  <2>2. PICK p \in Pid, k \in Nat : p = pedido[mutexCache].pid /\ k = pedido[mutexCache].pag
    BY <2>1, DuenoBien
  <2>3. EntradaBien(p, k)
    BY <2>1, <2>2 DEF CohInv, EleccionBien
  <2>4. EntradaDe(p, k)' \subseteq EntradaDe(p, k)
    BY <1>2 DEF EntradaDe
  <2>5. eleccion.como = "hallada" => eleccion.entrada \in Entrada
    BY DEF Tipos, TipoEleccion
  <2>6. ASSUME eleccion.como = "hallada"
        PROVE  \/ eleccion.entrada \in EntradaDe(p, k)'
               \/ cache'[eleccion.entrada].pid = Nadie \/ cache'[eleccion.entrada].pag = -1
    BY <1>1, <2>3, <2>5, <2>6 DEF EntradaBien, EntradaDe
  <2>7. EntradaBien(p, k)'
    BY <2>1, <2>3, <2>4, <2>6 DEF EntradaBien
  <2> QED BY <2>1, <2>2, <2>7 DEF EntradaBien, EntradaDe
<1> QED BY <1>2, <1>3, <1>4 DEF EleccionBien

\* A step that writes no frame and gives no entry and no frame to a page.
LEMMA CohMenos ==
  ASSUME MemoriaAssumption, Tipos, CohInv, Ajeno, UNCHANGED memoria, escrita' \subseteq escrita,
         \A f \in Marco : tabla'[f] = tabla[f] \/ tabla'[f].pid \notin Pid,
         \A h \in Hilo : pc[h] = "actualiza_e" => pc'[h] = pc[h] /\ marco'[h] = marco[h],
         EscritaAsignada'
  PROVE  CohInv'
<1>1. /\ \A e \in Entrada : cache'[e] = cache[e] \/ cache'[e].pid \notin Pid \/ cache'[e].pag \notin Nat
      /\ UnaEntrada' /\ EleccionBien'
  BY CohAjena
<1>2. Numeradas'
  BY DEF CohInv, Numeradas
<1>3. CacheCoherente'
  <2> SUFFICES ASSUME NEW e \in Entrada, NEW f \in Marco,
                      tabla'[f].pid = cache'[e].pid, tabla'[f].pag = cache'[e].pag,
                      <<cache'[e].pid, cache'[e].pag>> \in escrita'
               PROVE  \/ cache'[e].content = memoria'[f]
                      \/ \E h \in Hilo : pc'[h] = "actualiza_e" /\ marco'[h] = f
    BY DEF CacheCoherente
  <2>1. cache'[e].pid \in Pid /\ cache'[e].pag \in Nat
    BY DEF Tipos, TipoDatos
  <2>2. cache'[e] = cache[e] /\ tabla'[f] = tabla[f]
    BY <1>1, <2>1
  <2>3. cache[e].content = memoria[f] \/ \E h \in Hilo : pc[h] = "actualiza_e" /\ marco[h] = f
    BY <2>2 DEF CohInv, CacheCoherente
  <2> QED BY <2>2, <2>3
<1> QED BY <1>1, <1>2, <1>3 DEF CohInv

\* The same when the table and the history stay as they are.
LEMMA CohQuieta ==
  ASSUME MemoriaAssumption, Tipos, CohInv, Ajeno, UNCHANGED <<memoria, escrita, tabla>>,
         \A h \in Hilo : pc[h] = "actualiza_e" => pc'[h] = pc[h] /\ marco'[h] = marco[h]
  PROVE  CohInv'
<1>1. EscritaAsignada'
  BY DEF CohInv, EscritaAsignada
<1> QED BY <1>1, CohMenos

\* A thread that is not about to put an entry right goes on.
LEMMA CohHilo ==
  ASSUME MemoriaAssumption, Tipos, CohInv, Ajeno, UNCHANGED <<memoria, escrita, tabla>>,
         NEW h \in Hilo, pc[h] # "actualiza_e", NEW x, pc' = [pc EXCEPT ![h] = x],
         \A g \in Hilo : g # h => marco'[g] = marco[g]
  PROVE  CohInv'
<1>1. \A g \in Hilo : pc[g] = "actualiza_e" => pc'[g] = pc[g] /\ marco'[g] = marco[g]
  BY DEF Tipos, MemInv, TipoMem
<1> QED BY <1>1, CohQuieta

\* The answer.
LEMMA CohResponde ==
  ASSUME MemoriaAssumption, Tipos, CohInv, Ajeno, UNCHANGED <<memoria, escrita, tabla>>,
         NEW h \in Hilo, pc[h] # "actualiza_e", Responder(h) \/ \E x : Avanzar(h, x)
  PROVE  CohInv'
<1>1. PICK x : pc' = [pc EXCEPT ![h] = x] /\ marco' = [marco EXCEPT ![h] = Nadie]
  BY DEF Responder, Avanzar, Ir
<1>2. \A g \in Hilo : g # h => marco'[g] = marco[g]
  BY <1>1 DEF Tipos, TipoDatos
<1> QED BY <1>1, <1>2, CohHilo

\* The copy of escribir: the entry of the page is put right next.
LEMMA CohGrabar ==
  ASSUME MemoriaAssumption, Tipos, CohInv, Ajeno, NEW h \in Hilo, Grabar(h)
  PROVE  CohInv'
<1> DEFINE m == marco[h]
           p == pedido[h].pid
           k == pedido[h].pag
<1>1. pc[h] = "graba" /\ pc[h] \in Recorre
  BY DEF Grabar, En, Recorre, Escritura
<1>2. m \in Marco /\ tabla[m].pid = p /\ tabla[m].pag = k /\ p \in Pid
  BY <1>1, PedidoBien DEF Tipos
<1>3. /\ memoria' = [memoria EXCEPT ![m] = pedido[h].dato] /\ escrita' = escrita \cup {<<p, k>>}
      /\ pc' = [pc EXCEPT ![h] = "actualiza_e"] /\ UNCHANGED <<tabla, cache, marco>>
  BY DEF Grabar, Ir, caches
<1>4. \A g \in Hilo : (pc[g] = "actualiza_e" \/ g = h) => pc'[g] = "actualiza_e"
  BY <1>3 DEF Tipos, MemInv, TipoMem
<1>5. EscritaAsignada'
  BY <1>2, <1>3 DEF CohInv, EscritaAsignada
<1>6. CacheCoherente'
  <2> SUFFICES ASSUME NEW e \in Entrada, NEW f \in Marco,
                      tabla[f].pid = cache[e].pid, tabla[f].pag = cache[e].pag,
                      <<cache[e].pid, cache[e].pag>> \in escrita'
               PROVE  \/ cache[e].content = memoria'[f]
                      \/ \E g \in Hilo : pc'[g] = "actualiza_e" /\ marco[g] = f
    BY <1>3 DEF CacheCoherente
  <2>1. CASE f = m
    BY <1>4, <2>1
  <2>2. CASE f # m
    <3>1. tabla[f] \in [pid : Pid \cup {Nadie, Tabla}, pag : Nat \cup {-1}]
          /\ tabla[m] \in [pid : Pid \cup {Nadie, Tabla}, pag : Nat \cup {-1}]
      BY <1>2 DEF Tipos, MemInv, TipoMem
    <3>2. ~ (tabla[f].pid = p /\ tabla[f].pag = k)
      <4>1. ASSUME tabla[f].pid = p, tabla[f].pag = k PROVE tabla[f] = tabla[m]
        BY <1>2, <3>1, <4>1
      <4> QED BY <1>2, <2>2, <4>1 DEF Tipos, MemInv, UnMarcoPorPagina
    <3>3. <<cache[e].pid, cache[e].pag>> \in escrita
      BY <1>3, <3>2
    <3>4. memoria'[f] = memoria[f]
      BY <1>3, <2>2 DEF Tipos, TipoDatos
    <3> QED BY <1>4, <3>3, <3>4 DEF CohInv, CacheCoherente
  <2> QED BY <2>1, <2>2
<1>7. UnaEntrada' /\ EleccionBien'
  BY CohAjena
<1> QED BY <1>3, <1>5, <1>6, <1>7 DEF CohInv, Numeradas

\* buscarEntrada and cantEntradas: the page has the entry found, or none.
LEMMA CohBuscar ==
  ASSUME MemoriaAssumption, Tipos, CohInv, NEW h \in Hilo, BuscarEntrada(h)
  PROVE  CohInv'
<1>1. pc[h] \in {"actualiza", "actualiza_e"} /\ UNCHANGED <<tabla, memoria, escrita, cache>>
  BY DEF BuscarEntrada, tablas, caches
<1>2. UnaEntrada' /\ Numeradas' /\ EscritaAsignada'
  BY <1>1 DEF CohInv, UnaEntrada, Numeradas, EscritaAsignada
<1>3. CASE Entradas = 0
  <2>1. Entrada = {} /\ mutexCache' = Nadie
    BY <1>3 DEF Entrada, BuscarEntrada, caches, Tipos, TipoEleccion
  <2> QED BY <1>2, <2>1 DEF CohInv, CacheCoherente, EleccionBien
<1>4. CASE Entradas # 0
  <2>1. pc[h] \in Recorre
    BY <1>1 DEF Recorre, Lectura, Escritura
  <2>2. PICK p \in Pid, k \in Nat : p = pedido[h].pid /\ k = pedido[h].pag
    BY <2>1, PedidoBien DEF Tipos
  <2>3. /\ mutexCache' = h /\ UNCHANGED <<pc, marco, pedido>>
        /\ \/ EntradaDe(p, k) = {} /\ eleccion'.como # "hallada"
           \/ /\ EntradaDe(p, k) # {}
              /\ eleccion'.como = "hallada" /\ eleccion'.entrada = CHOOSE x \in EntradaDe(p, k) : TRUE
    BY <1>4, <2>2 DEF BuscarEntrada, hilos
  <2>4. EntradaDe(p, k)' = EntradaDe(p, k)
    BY <1>1 DEF EntradaDe
  <2>5. ASSUME NEW a \in EntradaDe(p, k), NEW b \in EntradaDe(p, k) PROVE a = b
    BY <2>5 DEF CohInv, UnaEntrada, EntradaDe
  <2>6. EntradaBien(p, k)'
    <3>1. CASE EntradaDe(p, k) = {}
      BY <2>3, <2>4, <3>1 DEF EntradaBien
    <3>2. CASE EntradaDe(p, k) # {}
      <4>1. PICK x \in EntradaDe(p, k) : x = eleccion'.entrada
        BY <2>3, <3>2
      <4>2. EntradaDe(p, k) = {x}
        BY <2>5, <4>1
      <4> QED BY <2>3, <2>4, <3>2, <4>1, <4>2 DEF EntradaBien
    <3> QED BY <3>1, <3>2
  <2>7. EleccionBien'
    BY <2>2, <2>3, <2>6 DEF EleccionBien, EntradaBien, EntradaDe
  <2> QED BY <1>1, <1>2, <2>3, <2>7 DEF CohInv, CacheCoherente
<1> QED BY <1>3, <1>4

\* The scan: the page has no entry yet.
LEMMA CohReemplazar ==
  ASSUME MemoriaAssumption, Tipos, CohInv, NEW h \in Hilo, Reemplazar(h)
  PROVE  CohInv'
<1>1. /\ UNCHANGED <<tabla, memoria, escrita, cache, mutexCache, pc, marco, pedido>>
      /\ mutexCache = h /\ eleccion.como # "hallada" /\ eleccion'.como # "hallada"
  BY LoElegido DEF tablas, hilos, Perdida, Tipos
<1>2. h # Nadie
  BY DEF MemoriaAssumption
<1>3. EleccionBien'
  BY <1>1, <1>2 DEF CohInv, EleccionBien, EntradaBien, EntradaDe
<1> QED BY <1>1, <1>3 DEF CohInv, UnaEntrada, Numeradas, EscritaAsignada, CacheCoherente

\* The entry of a page is written with what its frame has.
LEMMA CohAnotar ==
  ASSUME MemoriaAssumption, Tipos, CohInv, NEW h \in Hilo, AnotarEntrada(h)
  PROVE  CohInv'
<1> DEFINE m == marco[h]
<1>1. PICK e, p, k, d : Anota(h, e, p, k, d)
  BY AnotaBien DEF Tipos
<1>2. /\ e \in Entrada /\ p \in Pid /\ k \in Nat /\ m \in Marco /\ d = memoria[m]
      /\ tabla[m].pid = p /\ tabla[m].pag = k
      /\ \A x \in Entrada \ {e} : cache'[x] = cache[x]
      /\ cache'[e].content = d /\ mutexCache' = Nadie
  BY <1>1 DEF Anota
<1>3. UNCHANGED <<tabla, memoria, escrita>>
  BY DEF AnotarEntrada, tablas
<1>4. \A g \in Hilo : g # h /\ pc[g] = "actualiza_e" => pc'[g] = pc[g] /\ marco'[g] = marco[g]
  <2>1. PICK x, y : pc' = [pc EXCEPT ![h] = x] /\ (marco' = marco \/ marco' = [marco EXCEPT ![h] = y])
    BY DEF AnotarEntrada, DejarEntrada, Avanzar, Responder, Ir
  <2> QED BY <2>1 DEF Tipos, MemInv, TipoMem, TipoDatos
<1>5. EscritaAsignada' /\ Numeradas' /\ EleccionBien'
  BY <1>2, <1>3 DEF CohInv, EscritaAsignada, Numeradas, EleccionBien
<1>6. /\ EntradaDe(p, k) \subseteq {e}
      /\ \/ cache'[e].pid = p /\ cache'[e].pag = k
         \/ /\ cache'[e].pid = cache[e].pid /\ cache'[e].pag = cache[e].pag
            /\ cache[e].pid = Nadie \/ cache[e].pag = -1
  <2>1. EntradaBien(p, k) /\ e = eleccion.entrada
    BY <1>1 DEF CohInv, EleccionBien, Anota, MemoriaAssumption
  <2>2. CASE eleccion.como = "hallada"
    BY <1>1, <2>1, <2>2 DEF EntradaBien, Anota, EntradaDe
  <2>3. CASE eleccion.como # "hallada"
    BY <1>1, <2>1, <2>3 DEF EntradaBien, Anota
  <2> QED BY <2>2, <2>3
<1>7. \A x \in Entrada : cache[x].pid = p /\ cache[x].pag = k => x = e
  BY <1>6 DEF EntradaDe
<1>8. cache'[e].pid \in Pid /\ cache'[e].pag \in Nat => cache'[e].pid = p /\ cache'[e].pag = k
  BY <1>6 DEF MemoriaAssumption
<1> HIDE DEF m
<1>9. UnaEntrada'
  BY <1>2, <1>7, <1>8 DEF CohInv, UnaEntrada
<1>10. CacheCoherente'
  <2> SUFFICES ASSUME NEW x \in Entrada, NEW f \in Marco,
                      tabla[f].pid = cache'[x].pid, tabla[f].pag = cache'[x].pag,
                      <<cache'[x].pid, cache'[x].pag>> \in escrita
               PROVE  \/ cache'[x].content = memoria[f]
                      \/ \E g \in Hilo : pc'[g] = "actualiza_e" /\ marco'[g] = f
    BY <1>3 DEF CacheCoherente
  <2>1. \A g \in Marco : tabla[g] \in [pid : Pid \cup {Nadie, Tabla}, pag : Nat \cup {-1}]
    BY DEF Tipos, MemInv, TipoMem
  <2>2. tabla[f].pid = p /\ tabla[f].pag = k => f = m
    <3>1. ASSUME tabla[f].pid = p, tabla[f].pag = k PROVE tabla[f] = tabla[m]
      BY <1>2, <2>1, <3>1
    <3> QED BY <1>2, <3>1 DEF Tipos, MemInv, UnMarcoPorPagina
  <2>3. cache'[x].pid \in Pid /\ cache'[x].pag \in Nat
    BY DEF Tipos, TipoDatos
  <2>4. CASE x = e
    BY <1>2, <1>8, <2>2, <2>3, <2>4
  <2>5. CASE x # e
    <3>1. cache'[x] = cache[x]
      BY <1>2, <2>5
    <3>2. f # m
      BY <1>2, <1>7, <2>5, <3>1
    <3>3. \/ cache[x].content = memoria[f]
          \/ \E g \in Hilo : pc[g] = "actualiza_e" /\ marco[g] = f
      BY <3>1 DEF CohInv, CacheCoherente
    <3> QED BY <1>4, <3>1, <3>2, <3>3 DEF m
  <2> QED BY <2>4, <2>5
<1> QED BY <1>5, <1>9, <1>10 DEF CohInv

\* A reservation over bytes of frames: the page of the frame is not a written
\* one any more.
LEMMA CohPisar ==
  ASSUME MemoriaAssumption, Tipos, CohInv, Ajeno, UNCHANGED <<tabla, cache>>, NEW i, Pisar(i),
         \A h \in Hilo : pc[h] = "actualiza_e" => pc'[h] = pc[h] /\ marco'[h] = marco[h]
  PROVE  CohInv'
<1> DEFINE m == EnMarco[i]
<1>1. PICK d : memoria' = [memoria EXCEPT ![m] = d]
  BY DEF Pisar
<1>2. escrita' = escrita \ {<<tabla[m].pid, tabla[m].pag>>}
  BY DEF Pisar
<1> HIDE DEF m
<1>3. \A f \in Marco : f # m => memoria'[f] = memoria[f]
  BY <1>1 DEF Tipos, TipoDatos
<1>4. EscritaAsignada' /\ Numeradas'
  BY <1>2 DEF CohInv, EscritaAsignada, Numeradas
<1>5. CacheCoherente'
  <2> SUFFICES ASSUME NEW e \in Entrada, NEW f \in Marco,
                      tabla[f].pid = cache[e].pid, tabla[f].pag = cache[e].pag,
                      <<cache[e].pid, cache[e].pag>> \in escrita'
               PROVE  \/ cache[e].content = memoria'[f]
                      \/ \E h \in Hilo : pc'[h] = "actualiza_e" /\ marco'[h] = f
    BY DEF CacheCoherente
  <2>1. f # m /\ <<cache[e].pid, cache[e].pag>> \in escrita
    BY <1>2
  <2>2. cache[e].content = memoria[f] \/ \E h \in Hilo : pc[h] = "actualiza_e" /\ marco[h] = f
    BY <2>1 DEF CohInv, CacheCoherente
  <2> QED BY <1>3, <2>1, <2>2
<1> QED BY <1>4, <1>5, CohAjena DEF CohInv

\* One page more in the table: nobody has written it, and nobody loses one.
LEMMA CohAsignarPagina ==
  ASSUME MemoriaAssumption, Tipos, CohInv, Ajeno, AsignarPagina
  PROVE  CohInv'
<1> DEFINE p == pedido[Kernel].pid
           k == pedido[Kernel].pag
           f == MarcoLibre(p, k)
<1>1. Kernel \in Hilo /\ pc[Kernel] = "asigna" /\ UNCHANGED cache
  BY DEF Hilo, AsignarPagina, En, caches
<1>2. \A h \in Hilo : pc[h] = "actualiza_e" => pc'[h] = pc[h] /\ marco'[h] = marco[h]
  <2>1. PICK x : pc' = [pc EXCEPT ![Kernel] = x] /\ marco' = [marco EXCEPT ![Kernel] = Nadie]
    BY DEF AsignarPagina, UnaAsignada, Avanzar, Responder, Ir
  <2> QED BY <1>1, <2>1 DEF Tipos, MemInv, TipoMem, TipoDatos
<1>3. CASE f = Nadie
  <2>1. CASE UNCHANGED <<tabla, memoria, escrita>>
    BY <1>2, <2>1, CohQuieta
  <2>2. CASE Pisar(Min(ParecenLibres(p, k))) /\ UNCHANGED tabla
    <3> DEFINE i == Min(ParecenLibres(p, k))
    <3> HIDE DEF i
    <3>1. CohInv'
      BY <1>1, <1>2, <2>2, CohPisar DEF i
    <3> QED BY <3>1
  <2> QED BY <1>3, <2>1, <2>2 DEF AsignarPagina
<1>4. CASE f # Nadie
  <2>1. /\ p \in Pid /\ k \in Nat /\ k \in Pagina(p) /\ Debajo(tabla, p, k)
    <3>1. /\ p \in Pid /\ pedido[Kernel].falta \in Nat \ {0} /\ Debajo(tabla, p, k)
          /\ k + pedido[Kernel].falta <= MaxPag[p] + 1 /\ pedido[Kernel] \in Peticion
      BY <1>1 DEF Tipos, MemInv, KernelBien, DelKernel, TipoMem
    <3> QED BY <3>1 DEF Peticion, Pagina, MemoriaAssumption
  <2>2. f \in Marco /\ EstaLibre(f)
    BY <1>4, <2>1, MarcoLibreHallado
  <2>3. /\ tabla' = [tabla EXCEPT ![f] = [pid |-> p, pag |-> k]]
        /\ UNCHANGED <<memoria, escrita>>
    BY <1>4 DEF AsignarPagina
  <2> HIDE DEF f, p, k
  <2>4. /\ tabla'[f].pid = p /\ tabla'[f].pag = k
        /\ \A g \in Marco : g # f => tabla'[g] = tabla[g]
    BY <2>2, <2>3 DEF Tipos, MemInv, TipoMem
  <2>5. Numeradas'
    BY <2>1, <2>4 DEF CohInv, Numeradas
  <2>6. \A pg \in escrita : pg[1] \in Pid /\ pg[2] \in Nat /\ pg = <<pg[1], pg[2]>>
    BY DEF Tipos, TipoDatos
  <2>7. EscritaAsignada'
    <3> SUFFICES ASSUME NEW pg \in escrita
                 PROVE  \E g \in Marco : tabla'[g].pid = pg[1] /\ tabla'[g].pag = pg[2]
      BY <2>3 DEF EscritaAsignada
    <3>1. PICK g \in Marco : tabla[g].pid = pg[1] /\ tabla[g].pag = pg[2]
      BY DEF CohInv, EscritaAsignada
    <3>2. g # f
      BY <2>2, <2>6, <3>1 DEF EstaLibre, MemoriaAssumption
    <3> QED BY <2>4, <3>1, <3>2
  <2>8. <<p, k>> \notin escrita
    <3>1. \A g \in Marco : ~ (tabla[g].pid = p /\ tabla[g].pag = k)
      BY <2>1 DEF Debajo
    <3>2. ASSUME <<p, k>> \in escrita PROVE \E g \in Marco : tabla[g].pid = p /\ tabla[g].pag = k
      BY <3>2 DEF CohInv, EscritaAsignada
    <3> QED BY <3>1, <3>2
  <2>9. CacheCoherente'
    <3> SUFFICES ASSUME NEW e \in Entrada, NEW g \in Marco,
                        tabla'[g].pid = cache[e].pid, tabla'[g].pag = cache[e].pag,
                        <<cache[e].pid, cache[e].pag>> \in escrita
                 PROVE  \/ cache[e].content = memoria[g]
                        \/ \E h \in Hilo : pc'[h] = "actualiza_e" /\ marco'[h] = g
      BY <1>1, <2>3 DEF CacheCoherente
    <3>1. g # f
      BY <2>4, <2>8
    <3>2. cache[e].content = memoria[g] \/ \E h \in Hilo : pc[h] = "actualiza_e" /\ marco[h] = g
      BY <2>4, <3>1 DEF CohInv, CacheCoherente
    <3> QED BY <1>2, <3>2
  <2>10. UnaEntrada' /\ EleccionBien'
    BY CohAjena
  <2> QED BY <2>5, <2>7, <2>9, <2>10 DEF CohInv
<1> QED BY <1>3, <1>4

\* Frames are freed, and their pages are not written ones any more.
LEMMA CohLiberar ==
  ASSUME MemoriaAssumption, Tipos, CohInv, Ajeno, BorrarPrograma \/ LiberarFrame
  PROVE  CohInv'
<1> DEFINE p == pedido[Kernel].pid
           k == pedido[Kernel].pag
           f == MarcoDe(p, k)
<1>1. /\ Kernel \in Hilo /\ pc[Kernel] \in {"finaliza", "libera"} /\ Responder(Kernel)
      /\ UNCHANGED <<memoria, cache>> /\ p \in Pid
  BY DEF Hilo, BorrarPrograma, LiberarFrame, En, caches, Tipos, MemInv, KernelBien, DelKernel
<1>2. \A h \in Hilo : pc[h] = "actualiza_e" => pc'[h] = pc[h] /\ marco'[h] = marco[h]
  BY <1>1 DEF Responder, Ir, Tipos, MemInv, TipoMem, TipoDatos
<1>3. Libre.pid \notin Pid /\ Libre.pid = Nadie
  BY DEF Libre, MemoriaAssumption
<1>4. CASE BorrarPrograma
  <2>1. /\ tabla' = [g \in Marco |-> IF tabla[g].pid = p THEN Libre ELSE tabla[g]]
        /\ escrita' = {pg \in escrita : pg[1] # p}
    BY <1>4 DEF BorrarPrograma
  <2> HIDE DEF p
  <2>2. EscritaAsignada'
    BY <2>1 DEF CohInv, EscritaAsignada
  <2>3. \A g \in Marco : tabla'[g] = tabla[g] \/ tabla'[g].pid \notin Pid
    BY <1>3, <2>1
  <2>4. escrita' \subseteq escrita
    BY <2>1
  <2> QED BY <1>1, <1>2, <2>2, <2>3, <2>4, CohMenos
<1>5. CASE LiberarFrame
  <2>1. /\ tabla' = IF Encontro(f) THEN [tabla EXCEPT ![f] = Libre] ELSE tabla
        /\ escrita' = escrita \ {<<p, k>>} /\ pc[Kernel] = "libera"
    BY <1>5 DEF LiberarFrame, En
  <2>2. k \in Pagina(p)
    BY <2>1 DEF Tipos, MemInv, KernelBien, DelKernel
  <2>3. Encontro(f) => f \in Marco /\ tabla[f].pid = p /\ tabla[f].pag = k
    BY <1>1, <2>2, MarcoHallado DEF Tiene
  <2> HIDE DEF p, k, f
  <2>4. \A g \in Marco : tabla'[g] = tabla[g]
                         \/ (tabla'[g].pid \notin Pid /\ tabla[g].pid = p /\ tabla[g].pag = k)
    BY <1>3, <2>1, <2>3 DEF Tipos, MemInv, TipoMem
  <2>5. EscritaAsignada'
    <3> SUFFICES ASSUME NEW pg \in escrita, pg # <<p, k>>
                 PROVE  \E g \in Marco : tabla'[g].pid = pg[1] /\ tabla'[g].pag = pg[2]
      BY <2>1 DEF EscritaAsignada
    <3>1. PICK g \in Marco : tabla[g].pid = pg[1] /\ tabla[g].pag = pg[2]
      BY DEF CohInv, EscritaAsignada
    <3>2. pg = <<pg[1], pg[2]>>
      BY DEF Tipos, TipoDatos
    <3>3. ~ (tabla[g].pid = p /\ tabla[g].pag = k)
      BY <3>1, <3>2
    <3> QED BY <2>4, <3>1, <3>3
  <2>6. escrita' \subseteq escrita
    BY <2>1
  <2> QED BY <1>1, <1>2, <2>4, <2>5, <2>6, CohMenos
<1> QED BY <1>4, <1>5

\* What one thread does.
LEMMA CohDeHilo ==
  ASSUME MemoriaAssumption, Tipos, CohInv, Ajeno, NEW h \in Hilo,
         SolicitudBytes(h) \/ GrabarBytes(h) \/ LeerCache(h) \/ BuscarFrame(h) \/ Grabar(h) \/ Copiar(h)
  PROVE  CohInv'
<1>1. CASE SolicitudBytes(h) \/ GrabarBytes(h)
  <2>1. /\ pc[h] = "libre" /\ UNCHANGED <<memoria, escrita, tabla, marco>>
        /\ \E x : pc' = [pc EXCEPT ![h] = x]
    BY <1>1 DEF SolicitudBytes, GrabarBytes, Recibir, En, Ir, tablas, caches
  <2> QED BY <2>1, CohHilo
<1>2. CASE LeerCache(h)
  <2>1. /\ pc[h] = "cache" /\ UNCHANGED <<memoria, escrita, tabla, marco>>
        /\ \E x : pc' = [pc EXCEPT ![h] = x]
    BY <1>2 DEF LeerCache, En, Ir, tablas
  <2> QED BY <2>1, CohHilo
<1>3. CASE BuscarFrame(h)
  <2>1. pc[h] \in {"busca", "busca_e"} /\ UNCHANGED <<memoria, escrita, tabla>>
    BY <1>3 DEF BuscarFrame, tablas, caches
  <2>2. CASE Responder(h)
    BY <2>1, <2>2, CohResponde
  <2>3. CASE ~ Responder(h)
    <3>1. PICK x, f : pc' = [pc EXCEPT ![h] = x] /\ marco' = [marco EXCEPT ![h] = f]
      BY <1>3, <2>3 DEF BuscarFrame, Ir
    <3>2. \A g \in Hilo : g # h => marco'[g] = marco[g]
      BY <3>1 DEF Tipos, TipoDatos
    <3> QED BY <2>1, <3>1, <3>2, CohHilo
  <2> QED BY <2>2, <2>3
<1>4. CASE Copiar(h)
  <2>1. pc[h] = "copia" /\ UNCHANGED <<memoria, escrita, tabla>> /\ Avanzar(h, "cache")
    BY <1>4 DEF Copiar, En, tablas, caches
  <2> QED BY <2>1, CohResponde
<1> QED BY <1>1, <1>2, <1>3, <1>4, CohGrabar

\* What the kernel's thread does before it touches the table.
LEMMA CohDelKernel ==
  ASSUME MemoriaAssumption, Tipos, CohInv, Ajeno, PedidoKernel \/ ContarFrames \/ TomarTabla
  PROVE  CohInv'
<1> Kernel \in Hilo
  BY DEF Hilo
<1>1. CASE PedidoKernel
  <2>1. /\ pc[Kernel] = "libre" /\ UNCHANGED <<memoria, escrita, tabla, marco>>
        /\ \E x : pc' = [pc EXCEPT ![Kernel] = x]
    BY <1>1 DEF PedidoKernel, IniciarPrograma, AsignarPaginas, FinalizarPrograma, LiberarPagina,
       Recibir, En, Ir, tablas, caches
  <2> QED BY <2>1, CohHilo
<1>2. CASE ContarFrames
  <2>1. pc[Kernel] = "frames" /\ UNCHANGED <<memoria, escrita, tabla>>
    BY <1>2 DEF ContarFrames, En, caches
  <2>2. CASE Responder(Kernel)
    BY <2>1, <2>2, CohResponde
  <2>3. CASE ~ Responder(Kernel)
    <3>1. (\E x : pc' = [pc EXCEPT ![Kernel] = x]) /\ UNCHANGED marco
      BY <1>2, <2>3 DEF ContarFrames, Ir
    <3> QED BY <2>1, <3>1, CohHilo
  <2> QED BY <2>2, <2>3
<1>3. CASE TomarTabla
  <2>1. /\ pc[Kernel] = "toma" /\ UNCHANGED <<memoria, escrita, tabla, marco>>
        /\ \E x : pc' = [pc EXCEPT ![Kernel] = x]
    BY <1>3 DEF TomarTabla, En, Ir, caches
  <2> QED BY <2>1, CohHilo
<1> QED BY <1>1, <1>2, <1>3

\* Every step keeps the cache in agreement with the frames.
LEMMA CohPaso ==
  ASSUME MemoriaAssumption, Tipos, CohInv, [Next]_vars
  PROVE  CohInv'
<1>1. CASE \E h \in Hilo : BuscarEntrada(h) \/ Reemplazar(h) \/ AnotarEntrada(h)
  BY <1>1, CohBuscar, CohReemplazar, CohAnotar
<1>2. CASE ~ \E h \in Hilo : BuscarEntrada(h) \/ Reemplazar(h) \/ AnotarEntrada(h)
  <2>1. Ajeno
    BY <1>2, LosDemas DEF Tipos
  <2>2. CASE UNCHANGED vars \/ Flush \/ LimpiarPag \/ LimpiarPid
    <3>1. UNCHANGED <<memoria, escrita, tabla, pc, marco>>
      BY <2>2 DEF vars, Flush, LimpiarPag, LimpiarPid, tablas, hilos
    <3> QED BY <2>1, <3>1, CohQuieta
  <2>3. ASSUME NEW h \in Hilo, SolicitudBytes(h) \/ GrabarBytes(h) \/ Sigue(h) PROVE CohInv'
    BY <1>2, <2>1, <2>3, CohDeHilo DEF Sigue
  <2>4. CASE PedidoKernel \/ SigueKernel
    BY <2>1, <2>4, CohDelKernel, CohAsignarPagina, CohLiberar DEF SigueKernel
  <2> QED BY <2>2, <2>3, <2>4 DEF Next, OtroHilo
<1> QED BY <1>1, <1>2

\* Nothing is assigned or written at first.
LEMMA CohInicio ==
  ASSUME MemoriaAssumption, Init
  PROVE  CohInv
<1>1. \A f \in Marco : tabla[f].pid \notin Pid
  BY DEF Init, Libre, MemoriaAssumption
<1>2. escrita = {}
  BY DEF Init
<1>3. UnaEntrada
  <2>1. \A e \in Entrada : cache[e].pid \notin Pid
    BY DEF Init, SinEntrada, MemoriaAssumption
  <2> QED BY <2>1 DEF UnaEntrada
<1>4. EleccionBien
  BY DEF Init, EleccionBien
<1> QED BY <1>1, <1>2, <1>3, <1>4 DEF CohInv, Numeradas, EscritaAsignada, CacheCoherente

\* They hold in every reachable state.
LEMMA CohSiempre == Spec => [](Tipos /\ CohInv)
<1>1. Init => CohInv
  BY CohInicio, MemoriaAssumption
<1>2. Tipos /\ CohInv /\ [Next]_vars => CohInv'
  BY CohPaso, MemoriaAssumption
<1> QED BY <1>1, <1>2, TiposSiempre, PTL DEF Spec

\* A page that was written is the same in the cache and in its frame, but for
\* the thread that is between the copy and the entry: other threads may miss,
\* replace, free and give pages again meanwhile, and flush, which takes no lock,
\* may clear entries inside of a replacement.
THEOREM CacheSiempreCoherente == Spec => []CacheCoherente
<1>1. CohInv => CacheCoherente
  BY DEF CohInv
<1> QED BY <1>1, CohSiempre, PTL

-----------------------------------------------------------------------------
\* The memory as a store of pages. What the refinement needs besides MemInv:
\* where no content can be taken for a free entry, the page that reservarFrames
\* is about to number comes right after a page of the same program.
Seguidas ==
  \/ Confunde # {}
  \/ pc[Kernel] = "asigna" =>
       \/ pedido[Kernel].pag = 0
       \/ \E f \in Marco : tabla[f].pid = pedido[Kernel].pid /\ tabla[f].pag = pedido[Kernel].pag - 1

\* What reservarFrames finds past the end of the table is in a frame.
LEMMA ParecidoBien ==
  ASSUME MemoriaAssumption, NEW p \in Pid, NEW k \in Pagina(p), ParecenLibres(p, k) # {}
  PROVE  \E i \in PasadoElFin :
           i = Min(ParecenLibres(p, k)) /\ EnMarco[i] \in Marco /\ memoria[EnMarco[i]] \in Confunde
<1> DEFINE L == ParecenLibres(p, k)
<1>1. Pos[p][k] \in Marco /\ Marcos \in Nat
  BY DesdeMarco DEF MemoriaAssumption
<1>2. L \subseteq PasadoElFin /\ PasadoElFin \subseteq Nat
  BY <1>1 DEF ParecenLibres, PasadoElFin, Marco
<1>3. \A i \in L : memoria[EnMarco[i]] \in Parece[i]
  BY DEF ParecenLibres
<1>4. Min(L) = CHOOSE x \in L : \A y \in L : x =< y
  BY DEF Min
<1> HIDE DEF L
<1>5. \E x \in L : \A y \in L : x <= y
  BY <1>2, HayPrimero DEF L
<1>6. Min(L) \in L
  BY <1>4, <1>5
<1>7. PICK i \in PasadoElFin : i = Min(L) /\ memoria[EnMarco[i]] \in Parece[i]
  BY <1>2, <1>3, <1>6
<1>8. EnMarco[i] \in Marco /\ memoria[EnMarco[i]] \in Confunde
  BY <1>7 DEF Confunde, MemoriaAssumption
<1> QED BY <1>7, <1>8 DEF L

\* A step that leaves the table alone and takes the kernel's thread elsewhere,
\* or leaves it where it is.
LEMMA SegQuieta ==
  ASSUME Seguidas, UNCHANGED tabla,
         pc'[Kernel] # "asigna" \/ (pc'[Kernel] = pc[Kernel] /\ pedido'[Kernel] = pedido[Kernel])
  PROVE  Seguidas'
BY DEF Seguidas

\* The first number comes after the last page; the next ones, after the page
\* that was just written.
LEMMA SegNumera ==
  ASSUME MemoriaAssumption, MemInv, Seguidas, TomarTabla \/ AsignarPagina
  PROVE  Seguidas'
<1> DEFINE p == pedido[Kernel].pid
           k == pedido[Kernel].pag
           f == MarcoLibre(p, k)
<1>1. Kernel \in Hilo /\ pedido[Kernel] \in Peticion /\ pc[Kernel] \in DelKernel /\ p \in Pid
  BY DEF Hilo, TomarTabla, AsignarPagina, En, MemInv, TipoMem, KernelBien, DelKernel
<1>2. CASE TomarTabla
  <2>1. /\ pedido' = [pedido EXCEPT ![Kernel].pag = UltimaPagina(p) + 1] /\ UNCHANGED tabla
    BY <1>2 DEF TomarTabla
  <2>2. pedido'[Kernel].pid = p /\ pedido'[Kernel].pag = UltimaPagina(p) + 1
    BY <1>1, <2>1 DEF MemInv, TipoMem, Peticion
  <2>3. /\ UltimaPagina(p) \in Nat \cup {-1}
        /\ UltimaPagina(p) # -1 => \E g \in Marco : tabla[g].pid = p /\ tabla[g].pag = UltimaPagina(p)
    BY <1>1, UltimaMayor DEF MemInv
  <2> HIDE DEF p
  <2>4. CASE UltimaPagina(p) = -1
    <3>1. pedido'[Kernel].pag = 0
      BY <2>2, <2>4
    <3> QED BY <3>1 DEF Seguidas
  <2>5. CASE UltimaPagina(p) # -1
    <3>1. PICK g \in Marco : tabla[g].pid = p /\ tabla[g].pag = UltimaPagina(p)
      BY <2>3, <2>5
    <3>2. pedido'[Kernel].pag - 1 = UltimaPagina(p)
      BY <2>2, <2>3
    <3>3. tabla'[g].pid = pedido'[Kernel].pid /\ tabla'[g].pag = pedido'[Kernel].pag - 1
      BY <2>1, <2>2, <3>1, <3>2
    <3> QED BY <3>3 DEF Seguidas
  <2> QED BY <2>4, <2>5
<1>3. CASE AsignarPagina
  <2>1. CASE pc'[Kernel] # "asigna"
    BY <2>1 DEF Seguidas
  <2>2. CASE pc'[Kernel] = "asigna"
    <3>1. ~ Responder(Kernel)
      BY <1>1, <2>2 DEF Responder, Ir, MemInv, TipoMem
    <3>2. pedido' = [pedido EXCEPT ![Kernel].pag = @ + 1, ![Kernel].falta = @ - 1]
      BY <1>3, <3>1 DEF AsignarPagina, UnaAsignada, Avanzar
    <3>3. k \in Pagina(p) /\ k \in Nat
      <4>1. /\ pedido[Kernel].falta \in Nat \ {0} /\ k + pedido[Kernel].falta <= MaxPag[p] + 1
            /\ pedido[Kernel] \in Peticion
        BY <1>1, <1>3 DEF AsignarPagina, En, MemInv, KernelBien
      <4> QED BY <1>1, <4>1 DEF Peticion, Pagina, MemoriaAssumption
    <3>7. CASE f = Nadie
      <4>1. ParecenLibres(p, k) # {}
        BY <1>3, <3>1, <3>7 DEF AsignarPagina
      <4>2. Confunde # {}
        BY <1>1, <3>3, <4>1, ParecidoBien
      <4> QED BY <4>2 DEF Seguidas
    <3> SUFFICES ASSUME f # Nadie PROVE Seguidas'
      BY <3>7
    <3>8. tabla' = [tabla EXCEPT ![f] = [pid |-> p, pag |-> k]]
      BY <1>3 DEF AsignarPagina
    <3>4. f \in Marco
      BY <1>1, <3>3, MarcoLibreHallado
    <3>5. pedido'[Kernel].pid = p /\ pedido'[Kernel].pag = k + 1
      BY <1>1, <3>2 DEF MemInv, TipoMem, Peticion
    <3> HIDE DEF p, k, f
    <3>6. tabla'[f].pid = p /\ tabla'[f].pag = (k + 1) - 1
      BY <3>3, <3>4, <3>8 DEF MemInv, TipoMem
    <3> QED BY <3>4, <3>5, <3>6 DEF Seguidas
  <2> QED BY <2>1, <2>2
<1> QED BY <1>2, <1>3

\* Every step keeps the numbers in a row.
LEMMA SegPaso ==
  ASSUME MemoriaAssumption, Tipos, Seguidas, [Next]_vars
  PROVE  Seguidas'
<1> Kernel \in Hilo /\ Hilo = {Kernel} \cup Cpu /\ MemInv
  BY DEF Hilo, Tipos
<1>1. ASSUME NEW h \in Hilo, SolicitudBytes(h) \/ GrabarBytes(h) \/ Sigue(h) PROVE Seguidas'
  <2>1. UNCHANGED tabla
    BY <1>1 DEF SolicitudBytes, GrabarBytes, Sigue, LeerCache, BuscarFrame, Grabar, BuscarEntrada,
       Reemplazar, AnotarEntrada, Copiar, tablas
  <2>2. PICK x \in Recorre \cup {"libre"} : pc' = [pc EXCEPT ![h] = x]
    <3>2. CASE SolicitudBytes(h) \/ GrabarBytes(h)
      BY <3>2 DEF SolicitudBytes, GrabarBytes, Recibir, Ir, Recorre, Lectura, Escritura
    <3>3. CASE Sigue(h)
      <4>1. CASE UNCHANGED pc /\ pc[h] \in Recorre
        BY <4>1 DEF MemInv, TipoMem
      <4>2. CASE ~ (UNCHANGED pc /\ pc[h] \in Recorre)
        <5>1. CASE Reemplazar(h)
          BY <4>2, <5>1, DuenoBien DEF Reemplazar, hilos, Recorre, Lectura, Escritura, MemoriaAssumption
        <5>2. CASE BuscarEntrada(h)
          BY <4>2, <5>2 DEF BuscarEntrada, DejarEntrada, hilos,
             Avanzar, Responder, Ir, Recorre, Lectura, Escritura
        <5>3. CASE ~ (Reemplazar(h) \/ BuscarEntrada(h))
          BY <3>3, <5>3 DEF Sigue, LeerCache, BuscarFrame, Grabar, AnotarEntrada, DejarEntrada, Copiar,
             Avanzar, Responder, Ir, Recorre, Lectura, Escritura
        <5> QED BY <5>1, <5>2, <5>3
      <4> QED BY <4>1, <4>2
    <3> QED BY <1>1, <3>2, <3>3
  <2>3. \E r : pedido' = [pedido EXCEPT ![h] = r]
    <3>1. CASE SolicitudBytes(h) \/ GrabarBytes(h)
      BY <3>1 DEF SolicitudBytes, GrabarBytes, Recibir
    <3>2. CASE UNCHANGED pedido
      BY <3>2 DEF MemInv, TipoMem
    <3>3. CASE Responder(h) \/ \E y : Avanzar(h, y)
      <4>1. CASE Responder(h)
        BY <4>1 DEF Responder
      <4>2. CASE ~ Responder(h)
        <5>1. pedido' = [pedido EXCEPT ![h].pag = @ + 1, ![h].falta = @ - 1]
          BY <3>3, <4>2 DEF Avanzar
        <5> QED BY <5>1 DEF MemInv, TipoMem
      <4> QED BY <4>1, <4>2
    <3> QED BY <1>1, <3>1, <3>2, <3>3 DEF Sigue, LeerCache, BuscarFrame, Grabar, BuscarEntrada,
          Reemplazar, AnotarEntrada, DejarEntrada, Copiar, hilos
  <2>4. CASE h = Kernel
    <3>1. pc'[Kernel] # "asigna"
      BY <2>2, <2>4 DEF MemInv, TipoMem, Recorre, Lectura, Escritura
    <3> QED BY <2>1, <3>1, SegQuieta
  <2>5. CASE h # Kernel
    <3>1. pc'[Kernel] = pc[Kernel] /\ pedido'[Kernel] = pedido[Kernel]
      BY <2>2, <2>3, <2>5 DEF MemInv, TipoMem
    <3> QED BY <2>1, <3>1, SegQuieta
  <2> QED BY <2>4, <2>5
<1>2. CASE PedidoKernel \/ ContarFrames \/ BorrarPrograma \/ LiberarFrame
  <2>1. \E x \in {"frames", "finaliza", "libera", "toma", "libre"} : pc' = [pc EXCEPT ![Kernel] = x]
    BY <1>2 DEF PedidoKernel, IniciarPrograma, AsignarPaginas, FinalizarPrograma, LiberarPagina, Recibir,
       ContarFrames, BorrarPrograma, LiberarFrame, Responder, Ir
  <2>2. pc'[Kernel] # "asigna"
    BY <2>1 DEF MemInv, TipoMem
  <2> QED BY <2>2 DEF Seguidas
<1>3. CASE Flush \/ LimpiarPag \/ LimpiarPid
  BY <1>3, SegQuieta DEF Flush, LimpiarPag, LimpiarPid, tablas, hilos
<1>4. CASE UNCHANGED vars
  BY <1>4, SegQuieta DEF vars, tablas, hilos
<1> QED BY <1>1, <1>2, <1>3, <1>4, SegNumera DEF Next, OtroHilo, SigueKernel

\* The pages of a table t with the contents m.
AsignadosDe(t) == {f \in Marco : t[f].pid \in Pid}
ClavesDe(t) == {<<t[f].pid, t[f].pag>> : f \in AsignadosDe(t)}
ContenidoDe(t, m) ==
  [pg \in ClavesDe(t) |-> m[CHOOSE f \in AsignadosDe(t) : t[f].pid = pg[1] /\ t[f].pag = pg[2]]]

Unicos(t) == \A f, g \in AsignadosDe(t) : t[f].pid = t[g].pid /\ t[f].pag = t[g].pag => f = g

EsFuncion(c) == c = [x \in DOMAIN c |-> c[x]]

\* c has, for each page of t, what m has in its frame.
EsContenido(c, t, m) ==
  /\ DOMAIN c = ClavesDe(t)
  /\ EsFuncion(c)
  /\ \A f \in AsignadosDe(t) :
       <<t[f].pid, t[f].pag>> \in ClavesDe(t) /\ c[<<t[f].pid, t[f].pag>>] = m[f]
  /\ \A pg \in ClavesDe(t) : \E f \in AsignadosDe(t) : pg = <<t[f].pid, t[f].pag>>

LEMMA ContenidoEs ==
  /\ Contenido = ContenidoDe(tabla, memoria) /\ DOMAIN Contenido = ClavesDe(tabla)
  /\ Contenido' = ContenidoDe(tabla', memoria')
BY DEF Contenido, ContenidoDe, ClavesDe, AsignadosDe, Claves, Asignados

\* A page's content is its frame's.
LEMMA ContenidoValor ==
  ASSUME NEW t, NEW m, Unicos(t)
  PROVE  EsContenido(ContenidoDe(t, m), t, m)
<1>1. ASSUME NEW f \in AsignadosDe(t)
      PROVE  <<t[f].pid, t[f].pag>> \in ClavesDe(t) /\ ContenidoDe(t, m)[<<t[f].pid, t[f].pag>>] = m[f]
  <2> DEFINE pg == <<t[f].pid, t[f].pag>>
             g == CHOOSE x \in AsignadosDe(t) : t[x].pid = pg[1] /\ t[x].pag = pg[2]
  <2>1. pg \in ClavesDe(t) /\ pg[1] = t[f].pid /\ pg[2] = t[f].pag
    BY DEF ClavesDe
  <2>2. g \in AsignadosDe(t) /\ t[g].pid = t[f].pid /\ t[g].pag = t[f].pag
    BY <2>1
  <2>3. g = f
    BY <2>2 DEF Unicos
  <2>4. ContenidoDe(t, m)[pg] = m[g]
    BY <2>1 DEF ContenidoDe
  <2> QED BY <2>1, <2>3, <2>4
<1>2. DOMAIN ContenidoDe(t, m) = ClavesDe(t) /\ EsFuncion(ContenidoDe(t, m))
  BY DEF ContenidoDe, EsFuncion
<1>3. \A pg \in ClavesDe(t) : \E f \in AsignadosDe(t) : pg = <<t[f].pid, t[f].pag>>
  BY DEF ClavesDe
<1> QED BY <1>1, <1>2, <1>3 DEF EsContenido

\* The table never has a page twice.
LEMMA MemUnicos == MemInv => Unicos(tabla)
<1> SUFFICES ASSUME MemInv, NEW f \in AsignadosDe(tabla), NEW g \in AsignadosDe(tabla),
                    tabla[f].pid = tabla[g].pid, tabla[f].pag = tabla[g].pag
             PROVE  f = g
  BY DEF Unicos
<1>1. /\ f \in Marco /\ g \in Marco /\ tabla[f].pid \in Pid
      /\ tabla[f] \in [pid : Pid \cup {Nadie, Tabla}, pag : Nat \cup {-1}]
      /\ tabla[g] \in [pid : Pid \cup {Nadie, Tabla}, pag : Nat \cup {-1}]
  BY DEF AsignadosDe, MemInv, TipoMem
<1>2. tabla[f] = tabla[g]
  BY <1>1
<1> QED BY <1>1, <1>2 DEF MemInv, UnMarcoPorPagina

\* New bytes in one frame are another content of its page, if it has one.
LEMMA AlmEscribe ==
  ASSUME MemInv, TipoDatos, NEW m \in Marco, NEW d, memoria' = [memoria EXCEPT ![m] = d], UNCHANGED tabla
  PROVE  LET pg == <<tabla[m].pid, tabla[m].pag>>
         IN  IF tabla[m].pid \in Pid
             THEN /\ pg \in DOMAIN Contenido /\ Contenido[pg] = memoria[m]
                  /\ Contenido' = [Contenido EXCEPT ![pg] = d]
             ELSE UNCHANGED Contenido
<1> DEFINE pg == <<tabla[m].pid, tabla[m].pag>>
<1>4. Unicos(tabla)
  BY MemUnicos
<1> DEFINE C == ContenidoDe(tabla, memoria)
           D == ContenidoDe(tabla, memoria')
<1>10. EsContenido(C, tabla, memoria) /\ EsContenido(D, tabla, memoria')
  BY <1>4, ContenidoValor
<1> HIDE DEF C, D
<1>5. /\ DOMAIN C = ClavesDe(tabla)
      /\ EsFuncion(C)
      /\ \A f \in AsignadosDe(tabla) :
           <<tabla[f].pid, tabla[f].pag>> \in ClavesDe(tabla) /\ C[<<tabla[f].pid, tabla[f].pag>>] = memoria[f]
      /\ \A x \in ClavesDe(tabla) : \E f \in AsignadosDe(tabla) : x = <<tabla[f].pid, tabla[f].pag>>
  BY <1>10 DEF EsContenido
<1>9. /\ DOMAIN D = ClavesDe(tabla) /\ EsFuncion(D)
      /\ \A f \in AsignadosDe(tabla) :
           <<tabla[f].pid, tabla[f].pag>> \in ClavesDe(tabla) /\ D[<<tabla[f].pid, tabla[f].pag>>] = memoria'[f]
  BY <1>10 DEF EsContenido
<1>11. CASE tabla[m].pid \notin Pid
  <2>1. \A x \in ClavesDe(tabla) : D[x] = C[x]
    <3> SUFFICES ASSUME NEW x \in ClavesDe(tabla) PROVE D[x] = C[x]
      OBVIOUS
    <3>1. PICK f \in AsignadosDe(tabla) : x = <<tabla[f].pid, tabla[f].pag>>
      BY <1>5
    <3>2. memoria'[f] = memoria[f]
      BY <1>11, <3>1 DEF TipoDatos, AsignadosDe
    <3> QED BY <1>5, <1>9, <3>1, <3>2
  <2>2. D = C
    BY <1>5, <1>9, <2>1 DEF EsFuncion
  <2>3. Contenido = C /\ Contenido' = D
    BY ContenidoEs DEF C, D
  <2> QED BY <1>11, <2>2, <2>3
<1>12. CASE tabla[m].pid \in Pid
  <2>1. m \in AsignadosDe(tabla)
    BY <1>12 DEF AsignadosDe
  <2>2. \A x \in ClavesDe(tabla) : D[x] = IF x = pg THEN d ELSE C[x]
    <3> SUFFICES ASSUME NEW x \in ClavesDe(tabla) PROVE D[x] = IF x = pg THEN d ELSE C[x]
      OBVIOUS
    <3>1. PICK f \in AsignadosDe(tabla) : x = <<tabla[f].pid, tabla[f].pag>>
      BY <1>5
    <3>2. f = m <=> x = pg
      BY <1>4, <2>1, <3>1 DEF Unicos
    <3>3. memoria'[f] = IF f = m THEN d ELSE memoria[f]
      BY <3>1 DEF TipoDatos, AsignadosDe
    <3> QED BY <1>5, <1>9, <3>1, <3>2, <3>3
  <2>3. pg \in ClavesDe(tabla) /\ C[pg] = memoria[m]
    BY <1>5, <2>1
  <2> HIDE DEF pg
  <2>4. D = [C EXCEPT ![pg] = d]
    BY <1>5, <1>9, <2>2 DEF EsFuncion
  <2>5. Contenido = C /\ Contenido' = D /\ DOMAIN Contenido = ClavesDe(tabla)
    BY ContenidoEs DEF C, D
  <2> QED BY <1>12, <2>3, <2>4, <2>5 DEF pg
<1> QED BY <1>11, <1>12

\* A content c without the pages of S, and with page n, which has d.
Menos(c, S) == [x \in DOMAIN c \ S |-> c[x]]
Mas(c, n, d) == [x \in DOMAIN c \cup {n} |-> IF x \in DOMAIN c THEN c[x] ELSE d]

\* The table u is the table t without the pages of S.
SinPaginas(t, u, S) ==
  \A f \in Marco : \/ u[f] = t[f] /\ (t[f].pid \in Pid => <<t[f].pid, t[f].pag>> \notin S)
                   \/ u[f].pid \notin Pid /\ t[f].pid \in Pid /\ <<t[f].pid, t[f].pag>> \in S

\* Frames that are freed take away their pages and no other.
LEMMA AlmQuita ==
  ASSUME NEW t, NEW u, NEW m, NEW S, Unicos(t), Unicos(u), SinPaginas(t, u, S)
  PROVE  ContenidoDe(u, m) = Menos(ContenidoDe(t, m), S)
<1> DEFINE C == ContenidoDe(t, m)
           D == ContenidoDe(u, m)
<1>10. EsContenido(C, t, m) /\ EsContenido(D, u, m)
  BY ContenidoValor
<1> HIDE DEF C, D
<1>1. /\ DOMAIN D = ClavesDe(u) /\ EsFuncion(D) /\ DOMAIN C = ClavesDe(t)
      /\ \A f \in AsignadosDe(t) : <<t[f].pid, t[f].pag>> \in ClavesDe(t) /\ C[<<t[f].pid, t[f].pag>>] = m[f]
      /\ \A f \in AsignadosDe(u) : <<u[f].pid, u[f].pag>> \in ClavesDe(u) /\ D[<<u[f].pid, u[f].pag>>] = m[f]
      /\ \A x \in ClavesDe(t) : \E f \in AsignadosDe(t) : x = <<t[f].pid, t[f].pag>>
      /\ \A x \in ClavesDe(u) : \E f \in AsignadosDe(u) : x = <<u[f].pid, u[f].pag>>
  BY <1>10 DEF EsContenido
<1>2. \A f \in AsignadosDe(u) : f \in AsignadosDe(t) /\ u[f] = t[f] /\ <<t[f].pid, t[f].pag>> \notin S
  BY DEF AsignadosDe, SinPaginas
<1>3. \A f \in AsignadosDe(t) : <<t[f].pid, t[f].pag>> \notin S => f \in AsignadosDe(u) /\ u[f] = t[f]
  BY DEF AsignadosDe, SinPaginas
<1>4. ClavesDe(u) = ClavesDe(t) \ S
  <2>1. ASSUME NEW x \in ClavesDe(u) PROVE x \in ClavesDe(t) \ S
    <3>1. PICK f \in AsignadosDe(u) : x = <<u[f].pid, u[f].pag>>
      BY <1>1
    <3> QED BY <1>1, <1>2, <3>1
  <2>2. ASSUME NEW x \in ClavesDe(t) \ S PROVE x \in ClavesDe(u)
    <3>1. PICK f \in AsignadosDe(t) : x = <<t[f].pid, t[f].pag>>
      BY <1>1
    <3> QED BY <1>1, <1>3, <3>1
  <2> QED BY <2>1, <2>2
<1>5. ASSUME NEW x \in ClavesDe(u) PROVE D[x] = C[x]
  <2>1. PICK f \in AsignadosDe(u) : x = <<u[f].pid, u[f].pag>>
    BY <1>1
  <2> QED BY <1>1, <1>2, <2>1
<1>6. D = [pg \in ClavesDe(t) \ S |-> C[pg]]
  <2>1. D = [x \in ClavesDe(u) |-> D[x]]
    BY <1>1 DEF EsFuncion
  <2> QED BY <1>4, <1>5, <2>1
<1>7. DOMAIN C = ClavesDe(t)
  BY <1>1
<1> QED BY <1>6, <1>7 DEF C, D, Menos

\* The table u is the table t and page n, in frame g.
ConPagina(t, u, g, n) ==
  /\ t[g].pid \notin Pid /\ u[g].pid \in Pid
  /\ n = <<u[g].pid, u[g].pag>> /\ n \notin ClavesDe(t)
  /\ \A f \in Marco : f # g => u[f] = t[f]

\* A frame more is a page more.
LEMMA AlmReserva ==
  ASSUME NEW t, NEW u, NEW m, NEW g \in Marco, NEW n, Unicos(t), Unicos(u), ConPagina(t, u, g, n)
  PROVE  ContenidoDe(u, m) = Mas(ContenidoDe(t, m), n, m[g])
<1> DEFINE C == ContenidoDe(t, m)
           D == ContenidoDe(u, m)
<1>10. EsContenido(C, t, m) /\ EsContenido(D, u, m)
  BY ContenidoValor
<1> HIDE DEF C, D
<1>1. /\ DOMAIN D = ClavesDe(u) /\ EsFuncion(D) /\ DOMAIN C = ClavesDe(t)
      /\ \A f \in AsignadosDe(t) : <<t[f].pid, t[f].pag>> \in ClavesDe(t) /\ C[<<t[f].pid, t[f].pag>>] = m[f]
      /\ \A f \in AsignadosDe(u) : <<u[f].pid, u[f].pag>> \in ClavesDe(u) /\ D[<<u[f].pid, u[f].pag>>] = m[f]
      /\ \A x \in ClavesDe(t) : \E f \in AsignadosDe(t) : x = <<t[f].pid, t[f].pag>>
      /\ \A x \in ClavesDe(u) : \E f \in AsignadosDe(u) : x = <<u[f].pid, u[f].pag>>
  BY <1>10 DEF EsContenido
<1>2. g \in AsignadosDe(u) /\ \A f \in AsignadosDe(u) : f = g \/ (f \in AsignadosDe(t) /\ u[f] = t[f])
  BY DEF AsignadosDe, ConPagina
<1>3. \A f \in AsignadosDe(t) : f \in AsignadosDe(u) /\ u[f] = t[f]
  BY DEF AsignadosDe, ConPagina
<1>4. ClavesDe(u) = ClavesDe(t) \cup {n}
  <2>1. ASSUME NEW x \in ClavesDe(u) PROVE x \in ClavesDe(t) \cup {n}
    <3>1. PICK f \in AsignadosDe(u) : x = <<u[f].pid, u[f].pag>>
      BY <1>1
    <3>2. CASE f = g
      BY <3>1, <3>2 DEF ConPagina
    <3>3. CASE f # g
      BY <1>1, <1>2, <3>1, <3>3
    <3> QED BY <3>2, <3>3
  <2>2. ASSUME NEW x \in ClavesDe(t) PROVE x \in ClavesDe(u)
    <3>1. PICK f \in AsignadosDe(t) : x = <<t[f].pid, t[f].pag>>
      BY <1>1
    <3> QED BY <1>1, <1>3, <3>1
  <2>3. n \in ClavesDe(u)
    BY <1>1, <1>2 DEF ConPagina
  <2> QED BY <2>1, <2>2, <2>3
<1>5. ASSUME NEW x \in ClavesDe(u) PROVE D[x] = IF x \in ClavesDe(t) THEN C[x] ELSE m[g]
  <2>1. PICK f \in AsignadosDe(u) : x = <<u[f].pid, u[f].pag>>
    BY <1>1
  <2>2. CASE f = g
    <3>1. x = n /\ n \notin ClavesDe(t)
      BY <2>1, <2>2 DEF ConPagina
    <3>2. D[n] = m[g]
      BY <1>1, <1>2 DEF ConPagina
    <3> QED BY <3>1, <3>2
  <2>3. CASE f # g
    BY <1>1, <1>2, <2>1, <2>3
  <2> QED BY <2>2, <2>3
<1>6. D = [pg \in ClavesDe(t) \cup {n} |-> IF pg \in ClavesDe(t) THEN C[pg] ELSE m[g]]
  <2>1. D = [x \in ClavesDe(u) |-> D[x]]
    BY <1>1 DEF EsFuncion
  <2> QED BY <1>4, <1>5, <2>1
<1>7. DOMAIN C = ClavesDe(t)
  BY <1>1
<1> QED BY <1>6, <1>7 DEF C, D, Mas

\* What a thread at step x of request r has to write.
Debe(x, r) == IF x \in {"busca_e", "graba"} THEN {<<<<r.pid, r.pag>>, r.dato>>} ELSE {}

\* Only thread h moves.
Solo(h) == \A g \in Hilo \ {h} : pc'[g] = pc[g] /\ pedido'[g] = pedido[g]

LEMMA DebeEs ==
  /\ Pendiente = [h \in Hilo |-> Debe(pc[h], pedido[h])]
  /\ Pendiente' = [h \in Hilo |-> Debe(pc'[h], pedido'[h])]
BY DEF Pendiente, Debe

\* The thread that moves has as much to write as before.
LEMMA DebeIgual ==
  ASSUME NEW h \in Hilo, Solo(h), Debe(pc'[h], pedido'[h]) = Debe(pc[h], pedido[h])
  PROVE  UNCHANGED Pendiente
<1>1. \A g \in Hilo : Debe(pc'[g], pedido'[g]) = Debe(pc[g], pedido[g])
  BY DEF Solo
<1> QED BY <1>1, DebeEs

\* Or something else.
LEMMA DebeOtro ==
  ASSUME NEW h \in Hilo, Solo(h), NEW w, Debe(pc'[h], pedido'[h]) = w
  PROVE  Pendiente' = [Pendiente EXCEPT ![h] = w] /\ Pendiente[h] = Debe(pc[h], pedido[h])
<1>1. \A g \in Hilo : Debe(pc'[g], pedido'[g]) = IF g = h THEN w ELSE Debe(pc[g], pedido[g])
  BY DEF Solo
<1> QED BY <1>1, DebeEs

\* A thread alone, by what its step does to the two functions.
LEMMA SoloBien ==
  ASSUME MemInv, NEW h \in Hilo, NEW x, pc' = [pc EXCEPT ![h] = x],
         \/ UNCHANGED pedido
         \/ \E r : pedido' = [pedido EXCEPT ![h] = r]
         \/ pedido' = [pedido EXCEPT ![h].pag = @ + 1, ![h].falta = @ - 1]
         \/ \E k : pedido' = [pedido EXCEPT ![h].pag = k]
  PROVE  Solo(h) /\ pc'[h] = x
BY DEF Solo, MemInv, TipoMem

\* The answer, or the next page.
LEMMA SoloAvanza ==
  ASSUME MemInv, NEW h \in Hilo, NEW x, Avanzar(h, x)
  PROVE  /\ Solo(h)
         /\ \/ pc'[h] = "libre"
            \/ /\ pedido[h].falta > 1 /\ pc'[h] = x
               /\ pedido'[h].pid = pedido[h].pid /\ pedido'[h].pag = pedido[h].pag + 1
               /\ pedido'[h].dato = pedido[h].dato
<1>1. CASE Responder(h)
  <2>1. pc' = [pc EXCEPT ![h] = "libre"] /\ pedido' = [pedido EXCEPT ![h] = SinPedido]
    BY <1>1 DEF Responder, Ir
  <2> QED BY <2>1, SoloBien
<1>2. CASE ~ Responder(h)
  <2>1. /\ pc' = [pc EXCEPT ![h] = x] /\ pedido[h].falta > 1
        /\ pedido' = [pedido EXCEPT ![h].pag = @ + 1, ![h].falta = @ - 1]
    BY <1>2 DEF Avanzar, Ir
  <2>2. Solo(h) /\ pc'[h] = x
    BY <2>1, SoloBien
  <2>3. /\ pedido'[h].pid = pedido[h].pid /\ pedido'[h].pag = pedido[h].pag + 1
        /\ pedido'[h].dato = pedido[h].dato
    BY <2>1 DEF MemInv, TipoMem, Peticion
  <2> QED BY <2>1, <2>2, <2>3
<1> QED BY <1>1, <1>2

\* A page of the request of a thread is a number its program may have.
LEMMA PaginaBien ==
  ASSUME MemoriaAssumption, MemInv, NEW h \in Hilo, pc[h] \in Recorre
  PROVE  /\ pedido[h].pid \in Pid /\ pedido[h].pag \in Pagina(pedido[h].pid) /\ pedido[h].dato \in Dato
         /\ pedido[h].falta > 1 => pedido[h].pag + 1 \in Pagina(pedido[h].pid)
<1>1. pedido[h] \in Alcance
  BY DEF MemInv, HiloBien
<1>2. PICK p \in Pid, k \in Nat, n \in Nat \ {0} :
        p = pedido[h].pid /\ k = pedido[h].pag /\ n = pedido[h].falta /\ k + n <= MaxPag[p] + 1
  BY <1>1 DEF Alcance
<1>3. MaxPag[p] \in Nat
  BY DEF MemoriaAssumption
<1>4. k \in Pagina(p) /\ (n > 1 => k + 1 \in Pagina(p))
  BY <1>2, <1>3 DEF Pagina
<1> QED BY <1>1, <1>2, <1>4 DEF Alcance

\* What is left of a number, and of it and the divisor.
LEMMA RestoBien ==
  ASSUME NEW n \in Nat, NEW f \in Nat, f < n
  PROVE  f % n = f /\ (f + n) % n = f
OBVIOUS

\* The search of buscarFrame goes over every frame: it finds the page of one.
LEMMA MarcoEncontrado ==
  ASSUME MemoriaAssumption, NEW p \in Pid, NEW k \in Pagina(p), NEW f \in Marco, Tiene(f, p, k)
  PROVE  Encontro(MarcoDe(p, k))
<1> DEFINE h == Pos[p][k]
           I == {i \in Marco : Tiene(Desde(p, k, i), p, k)}
           primera(i) == Tiene(Desde(p, k, i), p, k) /\ \A j \in 0..(i - 1) : ~ Tiene(Desde(p, k, j), p, k)
           x == CHOOSE i \in Marco : primera(i)
<1>1. h \in Marco /\ Marcos \in Nat /\ Marcos > 0 /\ f \in 0..(Marcos - 1) /\ h \in 0..(Marcos - 1)
  BY DesdeMarco DEF MemoriaAssumption, Marco
<1>2. \E i \in Marco : Desde(p, k, i) = f
  <2> HIDE DEF h
  <2>1. f % Marcos = f /\ (f + Marcos) % Marcos = f
    <3>1. Marcos \in Nat /\ f \in Nat /\ f < Marcos
      BY <1>1
    <3> QED BY <3>1, RestoBien
  <2>2. PICK i \in Marco : h + i = f \/ h + i = f + Marcos
    <3>1. CASE f >= h
      <4>1. f - h \in Marco /\ h + (f - h) = f
        BY <1>1, <3>1 DEF Marco
      <4> QED BY <4>1
    <3>2. CASE f < h
      <4>1. f - h + Marcos \in Marco /\ h + (f - h + Marcos) = f + Marcos
        BY <1>1, <3>2 DEF Marco
      <4> QED BY <4>1
    <3> QED BY <1>1, <3>1, <3>2
  <2>3. (h + i) % Marcos = f
    BY <2>1, <2>2
  <2> QED BY <2>3 DEF Desde, h
<1>3. I # {} /\ I \subseteq Nat /\ Marco \subseteq Nat
  BY <1>2 DEF Marco
<1>4. PICK b \in I : \A c \in I : b <= c
  <2> HIDE DEF I
  <2> QED BY <1>3, HayPrimero
<1>5. b \in Marco /\ primera(b)
  <2>1. \A j \in 0..(b - 1) : j \in Marco /\ j < b
    BY <1>3, <1>4 DEF MemoriaAssumption, Marco
  <2>2. \A j \in 0..(b - 1) : j \notin I
    BY <1>3, <1>4, <2>1
  <2> QED BY <1>4, <2>1, <2>2
<1>6. x \in Marco
  <2> HIDE DEF primera
  <2> QED BY <1>5
<1>7. MarcoDe(p, k) = Desde(p, k, x)
  BY <1>3 DEF MarcoDe
<1>8. MarcoDe(p, k) \in Marco
  <2> HIDE DEF x
  <2> QED BY <1>3, <1>6, <1>7, DesdeMarco
<1> QED BY <1>8 DEF Encontro, MemoriaAssumption

\* Steps that are not the store's: nothing moves but thread h, with nothing to
\* write before or after.
LEMMA AlmNada ==
  ASSUME UNCHANGED <<tabla, memoria>>, NEW h \in Hilo, Solo(h),
         Debe(pc'[h], pedido'[h]) = Debe(pc[h], pedido[h])
  PROVE  UNCHANGED <<Contenido, Pendiente>>
BY ContenidoEs, DebeIgual

\* A thread gets something to write.
LEMMA AlmPide ==
  ASSUME MemoriaAssumption, NEW h \in Hilo, UNCHANGED <<tabla, memoria>>, Solo(h),
         pc[h] \notin {"busca_e", "graba"}, pc'[h] = "busca_e",
         pedido'[h].pid \in Pid, pedido'[h].pag \in Pagina(pedido'[h].pid), pedido'[h].dato \in Dato
  PROVE  Almacen!Pedir(h)
<1>1. PICK p \in Pid : \E k, d :
        d \in Dato /\ k \in Pagina(p) /\ p = pedido'[h].pid /\ k = pedido'[h].pag /\ d = pedido'[h].dato
  OBVIOUS
<1>6. PICK k, d : d \in Dato /\ k \in Pagina(p) /\ p = pedido'[h].pid /\ k = pedido'[h].pag /\ d = pedido'[h].dato
  BY <1>1
<1>2. Debe(pc'[h], pedido'[h]) = {<<<<p, k>>, d>>} /\ Debe(pc[h], pedido[h]) = {}
  BY <1>6 DEF Debe
<1>3. Pendiente' = [Pendiente EXCEPT ![h] = {<<<<p, k>>, d>>}] /\ Pendiente[h] = {}
  BY <1>2, DebeOtro
<1>4. UNCHANGED Contenido
  BY ContenidoEs
<1>5. k \in 0..MaxPag[p]
  BY <1>6 DEF Pagina
<1> QED BY <1>3, <1>4, <1>5, <1>6 DEF Almacen!Pedir

\* AsignarPagina is a page more of its program, a page written over, or an error.
LEMMA AlmAsigna ==
  ASSUME MemoriaAssumption, Tipos, CohInv, Seguidas, Unicos(tabla'), AsignarPagina
  PROVE  \/ UNCHANGED <<Contenido, Pendiente>>
         \/ \E p \in Pid : Almacen!Reservar(p)
         \/ \E pg \in DOMAIN Contenido : Almacen!Pisar(pg)
<1> DEFINE p == pedido[Kernel].pid
           k == pedido[Kernel].pag
           f == MarcoLibre(p, k)
<1>1. Kernel \in Hilo /\ pc[Kernel] = "asigna" /\ MemInv /\ TipoDatos
  BY DEF Hilo, AsignarPagina, En, Tipos
<1>5. UNCHANGED Pendiente
  <2>1. Solo(Kernel) /\ pc'[Kernel] \in {"asigna", "libre"}
    <3>1. CASE Avanzar(Kernel, "asigna")
      BY <1>1, <3>1, SoloAvanza
    <3>2. CASE Responder(Kernel)
      <4>1. pc' = [pc EXCEPT ![Kernel] = "libre"] /\ pedido' = [pedido EXCEPT ![Kernel] = SinPedido]
        BY <3>2 DEF Responder, Ir
      <4> QED BY <1>1, <4>1, SoloBien
    <3> QED BY <3>1, <3>2 DEF AsignarPagina, UnaAsignada
  <2>2. Debe(pc'[Kernel], pedido'[Kernel]) = Debe(pc[Kernel], pedido[Kernel])
    BY <1>1, <2>1 DEF Debe
  <2> QED BY <1>1, <2>1, <2>2, DebeIgual
<1>6. /\ p \in Pid /\ k \in Nat /\ k \in Pagina(p) /\ Debajo(tabla, p, k)
  <2>1. /\ p \in Pid /\ pedido[Kernel].falta \in Nat \ {0} /\ Debajo(tabla, p, k)
        /\ k + pedido[Kernel].falta <= MaxPag[p] + 1 /\ pedido[Kernel] \in Peticion
    BY <1>1 DEF MemInv, KernelBien, DelKernel, TipoMem
  <2> QED BY <2>1 DEF Peticion, Pagina, MemoriaAssumption
<1>2. CASE f = Nadie
  <2>1. CASE ParecenLibres(p, k) = {}
    BY <1>2, <1>5, <2>1, ContenidoEs DEF AsignarPagina
  <2>2. CASE ParecenLibres(p, k) # {}
    <3>1. PICK i \in PasadoElFin :
            i = Min(ParecenLibres(p, k)) /\ EnMarco[i] \in Marco /\ memoria[EnMarco[i]] \in Confunde
      BY <1>6, <2>2, ParecidoBien
    <3>2. Pisar(i) /\ UNCHANGED tabla
      BY <1>2, <2>2, <3>1 DEF AsignarPagina
    <3>3. PICK m \in Marco : m = EnMarco[i]
      BY <3>1
    <3>4. PICK d \in Dato : memoria' = [memoria EXCEPT ![m] = d]
      BY <3>2, <3>3 DEF Pisar
    <3> DEFINE pg == <<tabla[m].pid, tabla[m].pag>>
    <3> HIDE DEF p, k, f
    <3>5. IF tabla[m].pid \in Pid
          THEN /\ pg \in DOMAIN Contenido /\ Contenido[pg] = memoria[m]
               /\ Contenido' = [Contenido EXCEPT ![pg] = d]
          ELSE UNCHANGED Contenido
      BY <1>1, <3>2, <3>4, AlmEscribe
    <3> HIDE DEF pg
    <3>6. CASE tabla[m].pid \in Pid
      <4>1. Almacen!Pisar(pg)
        BY <1>5, <3>1, <3>3, <3>5, <3>6 DEF Almacen!Pisar
      <4> QED BY <3>5, <3>6, <4>1
    <3> QED BY <1>5, <3>5, <3>6
  <2> QED BY <2>1, <2>2
<1>3. CASE f # Nadie
  <2>2. f \in Marco /\ EstaLibre(f)
    BY <1>3, <1>6, MarcoLibreHallado
  <2>3. tabla' = [tabla EXCEPT ![f] = [pid |-> p, pag |-> k]] /\ UNCHANGED memoria
    BY <1>3 DEF AsignarPagina
  <2>4. Confunde = {} => k = 0 \/ \E g \in Marco : tabla[g].pid = p /\ tabla[g].pag = k - 1
    BY <1>1 DEF Seguidas
  <2> HIDE DEF f, p, k
  <2>5. /\ tabla'[f].pid = p /\ tabla'[f].pag = k
        /\ \A g \in Marco : g # f => tabla'[g] = tabla[g]
    BY <1>1, <2>2, <2>3 DEF MemInv, TipoMem
  <2> DEFINE A == ClavesDe(tabla)
  <2>6. \A x \in A : x[1] = p => x[2] < k
    BY <1>6 DEF ClavesDe, AsignadosDe, Debajo
  <2>7. Confunde = {} => k = 0 \/ <<p, k - 1>> \in A
    <3>1. CASE Confunde = {} /\ k # 0
      <4>1. PICK g \in Marco : tabla[g].pid = p /\ tabla[g].pag = k - 1
        BY <2>4, <3>1
      <4>2. g \in AsignadosDe(tabla)
        BY <1>6, <4>1 DEF AsignadosDe
      <4> QED BY <4>1, <4>2 DEF ClavesDe
    <3> QED BY <3>1
  <2>8. tabla[f].pid \notin Pid
    BY <2>2 DEF EstaLibre, CohInv, Numeradas, MemoriaAssumption
  <2>9. <<p, k>> \notin A
    <3> HIDE DEF A
    <3>1. \A x : x = <<p, k>> => x[1] = p /\ x[2] = k
      OBVIOUS
    <3> QED BY <1>6, <2>6, <3>1
  <2>10. memoria[f] \in Dato /\ k \in 0..MaxPag[p]
    BY <1>1, <1>6, <2>2 DEF TipoDatos, Pagina
  <2>11. ContenidoDe(tabla', memoria) = Mas(ContenidoDe(tabla, memoria), <<p, k>>, memoria[f])
    <3> DEFINE n == <<p, k>>
    <3>1. ConPagina(tabla, tabla', f, n)
      BY <1>6, <2>5, <2>8, <2>9 DEF ConPagina
    <3>2. Unicos(tabla)
      BY <1>1, MemUnicos
    <3> HIDE DEF n
    <3> QED BY <2>2, <3>1, <3>2, AlmReserva DEF n
  <2>13. DOMAIN Contenido = A /\ Contenido' = Mas(Contenido, <<p, k>>, memoria[f])
    BY <2>3, <2>11, ContenidoEs
  <2> HIDE DEF A
  <2>12. Contenido' = [x \in A \cup {<<p, k>>} |-> IF x \in A THEN Contenido[x] ELSE memoria[f]]
    BY <2>13 DEF Mas
  <2>14. (\A x \in Almacen!De(p) : x[2] < k) /\ (Confunde = {} => Almacen!Sigue(p, k))
    BY <2>6, <2>7, <2>13 DEF Almacen!Sigue, Almacen!De, Almacen!Asignadas
  <2>15. Almacen!Reservar(p)
    BY <1>5, <2>10, <2>12, <2>13, <2>14 DEF Almacen!Reservar, Almacen!Asignadas
  <2> QED BY <1>6, <2>15
<1> QED BY <1>2, <1>3

\* Frames are freed: the pages of a program, one page, or none.
LEMMA AlmLibera ==
  ASSUME MemoriaAssumption, MemInv, Unicos(tabla'), BorrarPrograma \/ LiberarFrame
  PROVE  \/ UNCHANGED <<Contenido, Pendiente>>
         \/ \E p \in Pid : Almacen!Quitar(Almacen!De(p))
         \/ \E pg \in DOMAIN Contenido : Almacen!Quitar({pg})
<1> DEFINE p == pedido[Kernel].pid
           k == pedido[Kernel].pag
           f == MarcoDe(p, k)
<1>1. pc[Kernel] \in {"finaliza", "libera"} /\ UNCHANGED memoria /\ p \in Pid
  BY DEF BorrarPrograma, LiberarFrame, En, MemInv, KernelBien, DelKernel
<1>6. UNCHANGED Pendiente
  <2>1. pc' = [pc EXCEPT ![Kernel] = "libre"] /\ pedido' = [pedido EXCEPT ![Kernel] = SinPedido]
    BY DEF BorrarPrograma, LiberarFrame, Responder, Ir
  <2>2. Kernel \in Hilo
    BY DEF Hilo
  <2>3. Solo(Kernel) /\ pc'[Kernel] = "libre"
    BY <2>1, <2>2, SoloBien
  <2>4. Debe(pc'[Kernel], pedido'[Kernel]) = Debe(pc[Kernel], pedido[Kernel])
    BY <1>1, <2>3 DEF Debe
  <2> QED BY <2>2, <2>3, <2>4, DebeIgual
<1>2. Libre.pid \notin Pid
  BY DEF Libre, MemoriaAssumption
<1>3. Unicos(tabla) /\ DOMAIN Contenido = ClavesDe(tabla)
  BY MemUnicos, ContenidoEs
<1>4. CASE BorrarPrograma
  <2> DEFINE S == {x \in ClavesDe(tabla) : x[1] = p}
  <2>1. tabla' = [g \in Marco |-> IF tabla[g].pid = p THEN Libre ELSE tabla[g]]
    BY <1>4 DEF BorrarPrograma
  <2> HIDE DEF p
  <2>2. ASSUME NEW g \in Marco
        PROVE  \/ tabla'[g] = tabla[g] /\ (tabla[g].pid \in Pid => <<tabla[g].pid, tabla[g].pag>> \notin S)
               \/ tabla'[g].pid \notin Pid /\ tabla[g].pid \in Pid /\ <<tabla[g].pid, tabla[g].pag>> \in S
    <3>1. CASE tabla[g].pid = p
      BY <1>1, <1>2, <2>1, <3>1 DEF ClavesDe, AsignadosDe
    <3>2. CASE tabla[g].pid # p
      BY <2>1, <3>2
    <3> QED BY <3>1, <3>2
  <2>5. S = Almacen!De(p)
    BY <1>3 DEF Almacen!De, Almacen!Asignadas
  <2> HIDE DEF S
  <2>7. SinPaginas(tabla, tabla', S)
    BY <2>2 DEF SinPaginas
  <2>3. ContenidoDe(tabla', memoria) = Menos(ContenidoDe(tabla, memoria), S)
    BY <1>3, <2>7, AlmQuita
  <2>4. Contenido' = Menos(Contenido, S)
    BY <1>1, <2>3, ContenidoEs
  <2>6. Almacen!Quitar(S)
    BY <1>6, <2>4 DEF Almacen!Quitar, Almacen!Asignadas, Menos
  <2>8. p \in Pid
    BY <1>1 DEF p
  <2> QED BY <2>5, <2>6, <2>8
<1>5. CASE LiberarFrame
  <2>1. tabla' = (IF Encontro(f) THEN [tabla EXCEPT ![f] = Libre] ELSE tabla) /\ pc[Kernel] = "libera"
    BY <1>5 DEF LiberarFrame, En
  <2>2. k \in Pagina(p)
    BY <2>1 DEF MemInv, KernelBien, DelKernel
  <2>3. CASE ~ Encontro(f)
    BY <1>1, <1>6, <2>1, <2>3, ContenidoEs
  <2>4. CASE Encontro(f)
    <3>1. f \in Marco /\ tabla[f].pid = p /\ tabla[f].pag = k
      BY <1>1, <2>2, <2>4, MarcoHallado DEF Tiene
    <3>2. tabla' = [tabla EXCEPT ![f] = Libre]
      BY <2>1, <2>4
    <3> HIDE DEF p, k, f
    <3> DEFINE x == <<tabla[f].pid, tabla[f].pag>>
               S == {x}
    <3>3. f \in AsignadosDe(tabla)
      BY <1>1, <3>1 DEF AsignadosDe
    <3>4. \A g \in Marco : \/ g # f /\ tabla'[g] = tabla[g]
                           \/ g = f /\ tabla'[g].pid \notin Pid
      BY <1>2, <3>1, <3>2 DEF MemInv, TipoMem
    <3>5. x \in ClavesDe(tabla)
      BY <3>3 DEF ClavesDe
    <3>6. ASSUME NEW g \in Marco
          PROVE  \/ tabla'[g] = tabla[g] /\ (tabla[g].pid \in Pid => <<tabla[g].pid, tabla[g].pag>> \notin S)
                 \/ tabla'[g].pid \notin Pid /\ tabla[g].pid \in Pid /\ <<tabla[g].pid, tabla[g].pag>> \in S
      <4>1. CASE g = f
        BY <1>1, <3>1, <3>4, <4>1
      <4>2. CASE g # f
        <5>1. tabla[g].pid \in Pid => <<tabla[g].pid, tabla[g].pag>> # x
          BY <1>3, <3>3, <4>2 DEF Unicos, AsignadosDe
        <5> QED BY <3>4, <4>2, <5>1
      <4> QED BY <4>1, <4>2
    <3> HIDE DEF S
    <3>10. SinPaginas(tabla, tabla', S)
      BY <3>6 DEF SinPaginas
    <3>7. ContenidoDe(tabla', memoria) = Menos(ContenidoDe(tabla, memoria), S)
      BY <1>3, <3>10, AlmQuita
    <3>8. Contenido' = Menos(Contenido, S)
      BY <1>1, <3>7, ContenidoEs
    <3>9. Almacen!Quitar(S)
      BY <1>6, <3>8 DEF Almacen!Quitar, Almacen!Asignadas, Menos
    <3> HIDE DEF x
    <3> QED BY <1>3, <3>5, <3>9 DEF S
  <2> QED BY <2>3, <2>4
<1> QED BY <1>4, <1>5

\* GRABAR_BYTES: the first page to write.
LEMMA AlmGrabarBytes ==
  ASSUME MemoriaAssumption, Tipos, NEW h \in Hilo, GrabarBytes(h)
  PROVE  Almacen!Pedir(h)
<1>1. UNCHANGED <<tabla, memoria>> /\ Graba[h] \subseteq Tramo
  BY DEF GrabarBytes, tablas, MemoriaAssumption
<1>2. PICK r \in Graba[h], d \in Dato : Recibir(h, "busca_e", r[1], <<r[2], r[3]>>, d)
  BY DEF GrabarBytes
<1>3. r \in Tramo
  BY <1>1, <1>2
<1>4. PICK p \in Pid, k \in Nat, n \in Nat \ {0} : p = r[1] /\ k = r[2] /\ n = r[3] /\ k + n <= MaxPag[p] + 1
  BY <1>3 DEF Tramo
<1>5. k \in Pagina(p)
  BY <1>4 DEF Pagina, MemoriaAssumption
<1>6. /\ pc[h] = "libre" /\ pc' = [pc EXCEPT ![h] = "busca_e"]
      /\ pedido' = [pedido EXCEPT ![h] = [pid |-> p, pag |-> k, falta |-> n, dato |-> d]]
  BY <1>2, <1>4 DEF Recibir, En, Ir
<1>7. Solo(h) /\ pc'[h] = "busca_e"
  BY <1>6, SoloBien DEF Tipos
<1>8. pedido'[h].pid = p /\ pedido'[h].pag = k /\ pedido'[h].dato = d
  BY <1>6 DEF Tipos, MemInv, TipoMem
<1> QED BY <1>1, <1>2, <1>4, <1>5, <1>6, <1>7, <1>8, AlmPide

\* buscarFrame: a write goes on, or its page is not there.
LEMMA AlmBuscar ==
  ASSUME MemoriaAssumption, Tipos, NEW h \in Hilo, BuscarFrame(h)
  PROVE  UNCHANGED <<Contenido, Pendiente>> \/ Almacen!Rechazar(h)
<1>1. pc[h] \in {"busca", "busca_e"} /\ UNCHANGED <<tabla, memoria>> /\ MemInv
  BY DEF BuscarFrame, tablas, Tipos
<1>2. pc[h] \in Recorre
  BY <1>1 DEF Recorre, Lectura, Escritura
<1>3. PICK p \in Pid, d \in Dato : \E k \in Pagina(p) : p = pedido[h].pid /\ k = pedido[h].pag /\ d = pedido[h].dato
  BY <1>1, <1>2, PaginaBien
<1>4. PICK k \in Pagina(p) : p = pedido[h].pid /\ k = pedido[h].pag /\ d = pedido[h].dato
  BY <1>3
<1>5. CASE Encontro(MarcoDe(p, k))
  <2>1. /\ pc' = [pc EXCEPT ![h] = IF pc[h] = "busca" THEN "actualiza" ELSE "graba"] /\ UNCHANGED pedido
    BY <1>4, <1>5 DEF BuscarFrame, Ir, En
  <2>2. Solo(h) /\ pc'[h] = IF pc[h] = "busca" THEN "actualiza" ELSE "graba"
    BY <1>1, <2>1, SoloBien
  <2>3. Debe(pc'[h], pedido'[h]) = Debe(pc[h], pedido[h])
    BY <1>1, <2>1, <2>2 DEF Debe
  <2> QED BY <1>1, <2>2, <2>3, AlmNada
<1>6. CASE ~ Encontro(MarcoDe(p, k))
  <2>1. pc' = [pc EXCEPT ![h] = "libre"] /\ pedido' = [pedido EXCEPT ![h] = SinPedido]
    BY <1>4, <1>6 DEF BuscarFrame, Responder, Ir
  <2>2. Solo(h) /\ pc'[h] = "libre"
    BY <1>1, <2>1, SoloBien
  <2>3. CASE pc[h] = "busca"
    <3>1. Debe(pc'[h], pedido'[h]) = Debe(pc[h], pedido[h])
      BY <2>2, <2>3 DEF Debe
    <3> QED BY <1>1, <2>2, <3>1, AlmNada
  <2>4. CASE pc[h] = "busca_e"
    <3>1. Debe(pc'[h], pedido'[h]) = {} /\ Debe(pc[h], pedido[h]) = {<<<<p, k>>, d>>}
      BY <1>4, <2>2, <2>4 DEF Debe
    <3>2. Pendiente' = [Pendiente EXCEPT ![h] = {}] /\ Pendiente[h] = {<<<<p, k>>, d>>}
      BY <2>2, <3>1, DebeOtro
    <3>3. <<p, k>> \notin ClavesDe(tabla)
      <4>1. \A f \in Marco : ~ Tiene(f, p, k)
        BY <1>6, MarcoEncontrado
      <4>2. ASSUME NEW f \in AsignadosDe(tabla), <<p, k>> = <<tabla[f].pid, tabla[f].pag>> PROVE FALSE
        BY <4>1, <4>2 DEF Tiene, AsignadosDe
      <4> QED BY <4>2 DEF ClavesDe
    <3>4. UNCHANGED Contenido /\ DOMAIN Contenido = ClavesDe(tabla)
      BY <1>1, ContenidoEs
    <3>5. \E w \in Pendiente[h] : w[1] \notin DOMAIN Contenido
      BY <3>2, <3>3, <3>4
    <3> QED BY <3>2, <3>4, <3>5 DEF Almacen!Rechazar, Almacen!Asignadas
  <2> QED BY <1>1, <2>3, <2>4
<1> QED BY <1>5, <1>6

\* The copy of escribir: the page it was asked for, with what it was asked.
LEMMA AlmGrabar ==
  ASSUME MemoriaAssumption, Tipos, NEW h \in Hilo, Grabar(h)
  PROVE  Almacen!Escribir(h)
<1>1. pc[h] = "graba" /\ UNCHANGED <<tabla, pedido>> /\ MemInv /\ TipoDatos
  BY DEF Grabar, En, Tipos
<1>2. pc[h] \in Recorre
  BY <1>1 DEF Recorre, Lectura, Escritura
<1>3. PICK p \in Pid, k \in Nat, d \in Dato : p = pedido[h].pid /\ k = pedido[h].pag /\ d = pedido[h].dato
  BY <1>1, <1>2, PedidoBien
<1>4. PICK m \in Marco : m = marco[h] /\ tabla[m].pid = p /\ tabla[m].pag = k
  BY <1>1, <1>2, <1>3, PedidoBien
<1>5. memoria' = [memoria EXCEPT ![m] = d] /\ pc' = [pc EXCEPT ![h] = "actualiza_e"]
  BY <1>3, <1>4 DEF Grabar, Ir
<1>6. <<p, k>> \in DOMAIN Contenido /\ Contenido' = [Contenido EXCEPT ![<<p, k>>] = d]
  BY <1>1, <1>4, <1>5, AlmEscribe
<1>7. Solo(h) /\ pc'[h] = "actualiza_e"
  BY <1>1, <1>5, SoloBien
<1>8. Debe(pc'[h], pedido'[h]) = {} /\ Debe(pc[h], pedido[h]) = {<<<<p, k>>, d>>}
  BY <1>1, <1>3, <1>7 DEF Debe
<1>9. Pendiente' = [Pendiente EXCEPT ![h] = {}] /\ Pendiente[h] = {<<<<p, k>>, d>>}
  BY <1>7, <1>8, DebeOtro
<1>10. PICK w : w = <<<<p, k>>, d>> /\ w[1] = <<p, k>> /\ w[2] = d
  <2>1. \A a, b : <<a, b>>[1] = a /\ <<a, b>>[2] = b
    OBVIOUS
  <2> QED BY <2>1
<1>11. w \in Pendiente[h] /\ w[1] \in DOMAIN Contenido /\ Contenido' = [Contenido EXCEPT ![w[1]] = w[2]]
  BY <1>6, <1>9, <1>10
<1> QED BY <1>9, <1>11 DEF Almacen!Escribir, Almacen!Asignadas

\* After the entry: the next page to write, or nothing to write.
LEMMA AlmDejar ==
  ASSUME MemoriaAssumption, Tipos, NEW h \in Hilo, UNCHANGED <<tabla, memoria>>, DejarEntrada(h)
  PROVE  UNCHANGED <<Contenido, Pendiente>> \/ Almacen!Pedir(h)
<1>1. MemInv
  BY DEF Tipos
<1>2. CASE pc[h] = "actualiza_e" /\ Avanzar(h, "busca_e")
  <2>1. /\ Solo(h)
        /\ \/ pc'[h] = "libre"
           \/ /\ pedido[h].falta > 1 /\ pc'[h] = "busca_e"
              /\ pedido'[h].pid = pedido[h].pid /\ pedido'[h].pag = pedido[h].pag + 1
              /\ pedido'[h].dato = pedido[h].dato
    BY <1>1, <1>2, SoloAvanza
  <2>2. CASE pc'[h] = "libre"
    <3>1. Debe(pc'[h], pedido'[h]) = Debe(pc[h], pedido[h])
      BY <1>2, <2>2 DEF Debe
    <3> QED BY <2>1, <3>1, AlmNada
  <2>3. CASE pc'[h] # "libre"
    <3>1. pc[h] \in Recorre
      BY <1>2 DEF Recorre, Lectura, Escritura
    <3>2. /\ pedido'[h].pid \in Pid /\ pedido'[h].pag \in Pagina(pedido'[h].pid) /\ pedido'[h].dato \in Dato
          /\ pc'[h] = "busca_e"
      BY <1>1, <2>1, <2>3, <3>1, PaginaBien
    <3> QED BY <1>2, <2>1, <3>2, AlmPide
  <2> QED BY <2>2, <2>3
<1>3. CASE pc[h] = "actualiza" /\ Ir(h, "copia") /\ UNCHANGED pedido
  <2>1. Solo(h) /\ pc'[h] = "copia"
    BY <1>1, <1>3, SoloBien DEF Ir
  <2>2. Debe(pc'[h], pedido'[h]) = Debe(pc[h], pedido[h])
    BY <1>3, <2>1 DEF Debe
  <2> QED BY <2>1, <2>2, AlmNada
<1> QED BY <1>2, <1>3 DEF DejarEntrada, En

\* What does not concern the store.
LEMMA AlmAjena ==
  ASSUME MemoriaAssumption, Tipos, NEW h \in Hilo,
         SolicitudBytes(h) \/ LeerCache(h) \/ Copiar(h)
         \/ (h = Kernel /\ (PedidoKernel \/ ContarFrames \/ TomarTabla))
  PROVE  UNCHANGED <<Contenido, Pendiente>>
<1>1. UNCHANGED <<tabla, memoria>> /\ MemInv
  BY DEF SolicitudBytes, LeerCache, Copiar, PedidoKernel, IniciarPrograma, AsignarPaginas, FinalizarPrograma,
     LiberarPagina, ContarFrames, TomarTabla, tablas, Tipos
<1>2. Solo(h) /\ {pc[h], pc'[h]} \subseteq {"libre", "cache", "busca", "copia"} \cup DelKernel
  <2>1. CASE Copiar(h)
    BY <1>1, <2>1, SoloAvanza DEF Copiar, En
  <2>2. CASE SolicitudBytes(h)
    <3>1. pc[h] = "libre" /\ pc' = [pc EXCEPT ![h] = "cache"] /\ \E r : pedido' = [pedido EXCEPT ![h] = r]
      BY <2>2 DEF SolicitudBytes, Recibir, En, Ir
    <3> QED BY <1>1, <3>1, SoloBien
  <2>3. CASE LeerCache(h)
    <3>1. PICK x \in {"busca", "copia"} : pc[h] = "cache" /\ pc' = [pc EXCEPT ![h] = x] /\ UNCHANGED pedido
      BY <2>3 DEF LeerCache, En, Ir
    <3> QED BY <1>1, <3>1, SoloBien
  <2>4. CASE h = Kernel /\ PedidoKernel
    <3>1. PICK x \in {"frames", "finaliza", "libera"} :
            pc[h] = "libre" /\ pc' = [pc EXCEPT ![h] = x] /\ \E r : pedido' = [pedido EXCEPT ![h] = r]
      BY <2>4 DEF PedidoKernel, IniciarPrograma, AsignarPaginas, FinalizarPrograma, LiberarPagina,
         Recibir, En, Ir
    <3> QED BY <1>1, <3>1, SoloBien DEF DelKernel
  <2>5. CASE h = Kernel /\ ContarFrames
    <3>1. PICK x \in {"libre", "toma"} :
            /\ pc[h] = "frames" /\ pc' = [pc EXCEPT ![h] = x]
            /\ UNCHANGED pedido \/ pedido' = [pedido EXCEPT ![h] = SinPedido]
      BY <2>5 DEF ContarFrames, Responder, En, Ir
    <3> QED BY <1>1, <3>1, SoloBien DEF DelKernel
  <2>6. CASE h = Kernel /\ TomarTabla
    <3>1. PICK k : /\ pc[h] = "toma" /\ pc' = [pc EXCEPT ![h] = "asigna"]
                   /\ pedido' = [pedido EXCEPT ![h].pag = k]
      BY <2>6 DEF TomarTabla, En, Ir
    <3> QED BY <1>1, <3>1, SoloBien DEF DelKernel
  <2> QED BY <2>1, <2>2, <2>3, <2>4, <2>5, <2>6
<1>3. Debe(pc'[h], pedido'[h]) = {} /\ Debe(pc[h], pedido[h]) = {}
  BY <1>2 DEF Debe, DelKernel
<1> QED BY <1>1, <1>2, <1>3, AlmNada

\* Every step of the memory is a step of the store, or leaves it alone.
LEMMA AlmPaso ==
  ASSUME MemoriaAssumption, Tipos, CohInv, Seguidas, Unicos(tabla'), [Next]_vars
  PROVE  Almacen!Next \/ UNCHANGED <<Contenido, Pendiente>>
<1>1. CASE UNCHANGED <<tabla, memoria, pc, pedido>>
  BY <1>1, ContenidoEs, DebeEs
<1>2. ASSUME NEW h \in Hilo, Grabar(h) \/ GrabarBytes(h) \/ BuscarFrame(h)
      PROVE  Almacen!Next \/ UNCHANGED <<Contenido, Pendiente>>
  BY <1>2, AlmGrabar, AlmGrabarBytes, AlmBuscar DEF Almacen!Next
<1>3. ASSUME NEW h \in Hilo, BuscarEntrada(h) \/ AnotarEntrada(h) \/ Reemplazar(h)
      PROVE  Almacen!Next \/ UNCHANGED <<Contenido, Pendiente>>
  <2>1. UNCHANGED <<tabla, memoria>>
    BY <1>3 DEF BuscarEntrada, AnotarEntrada, Reemplazar, tablas
  <2>2. UNCHANGED <<pc, pedido>> \/ DejarEntrada(h)
    BY <1>3 DEF BuscarEntrada, AnotarEntrada, Reemplazar, hilos
  <2> QED BY <1>1, <2>1, <2>2, AlmDejar DEF Almacen!Next
<1>4. ASSUME NEW h \in Hilo, SolicitudBytes(h) \/ LeerCache(h) \/ Copiar(h)
      PROVE  UNCHANGED <<Contenido, Pendiente>>
  BY <1>4, AlmAjena
<1>5. CASE PedidoKernel \/ ContarFrames \/ TomarTabla
  <2>1. Kernel \in Hilo
    BY DEF Hilo
  <2> QED BY <1>5, <2>1, AlmAjena
<1>6. CASE AsignarPagina
  BY <1>6, AlmAsigna DEF Almacen!Next, Almacen!Asignadas
<1>7. CASE BorrarPrograma \/ LiberarFrame
  BY <1>7, AlmLibera DEF Almacen!Next, Almacen!Asignadas, Tipos
<1>8. CASE Flush \/ LimpiarPag \/ LimpiarPid \/ UNCHANGED vars
  BY <1>1, <1>8 DEF Flush, LimpiarPag, LimpiarPid, vars, tablas, hilos
<1> QED BY <1>2, <1>3, <1>4, <1>5, <1>6, <1>7, <1>8 DEF Next, OtroHilo, Sigue, SigueKernel

\* The memory process, with its frames, its table, its cache and its threads,
\* is a store of pages: a request to write changes the page it goes over, once,
\* and is refused only when that page is not assigned; what a page holds changes
\* otherwise only where a reservation that found no free entry in the table takes
\* for one the bytes of a frame past its end, and only bytes that look so; pages
\* go away only when they are freed; and numbers come one after the other where
\* no content looks like a free entry.
THEOREM AlmacenImplementado == Spec => PaginasSpec
<1>1. Init => Almacen!Init
  <2> SUFFICES ASSUME Init PROVE Contenido = << >> /\ Pendiente = [h \in Hilo |-> {}]
    BY DEF Almacen!Init
  <2>1. Asignados = {}
    BY MemoriaAssumption DEF Init, Libre, Asignados, MemoriaAssumption
  <2>2. Claves = {}
    BY <2>1 DEF Claves
  <2>3. \A h \in Hilo : Debe(pc[h], pedido[h]) = {}
    BY DEF Init, Debe
  <2> QED BY <2>2, <2>3, DebeEs DEF Contenido
<1>2. Init => Seguidas
  BY DEF Init, Seguidas, Hilo
<1>3. Tipos /\ Seguidas /\ [Next]_vars => Seguidas'
  BY SegPaso, MemoriaAssumption
<1>4. Tipos /\ CohInv /\ Seguidas /\ Unicos(tabla)' /\ [Next]_vars
        => [Almacen!Next]_<<Contenido, Pendiente>>
  BY AlmPaso, MemoriaAssumption
<1>5. Tipos => Unicos(tabla)
  BY MemUnicos DEF Tipos
<1> QED BY <1>1, <1>2, <1>3, <1>4, <1>5, CohSiempre, PTL DEF Spec, PaginasSpec, Almacen!Spec

=============================================================================
