------------------------------ MODULE CpuProofs ------------------------------
(***************************************************************************)
(* Theorems about Cpu and Pcb, for any program, page and stack sizes and   *)
(* offsets.  A context comes back from its buffer as it was (IdaYVuelta);  *)
(* CpuInv is the inductive invariant the others follow from.               *)
(***************************************************************************)
EXTENDS Cpu, Extremos, SequenceTheorems

-----------------------------------------------------------------------------
(* Sequences of sequences, one after another.                              *)

\* g gives the first 1, 2, ..., n sequences of s one after another.
Sumado(s, n, g) == g = [u \in 1..n |-> IF u = 1 THEN s[u] ELSE g[u - 1] \o s[u]]

Coinciden(s, t, n) == \A u \in 1..n : s[u] = t[u]

LEMMA SumadoEn ==
  ASSUME NEW s, NEW n \in Nat, NEW g, Sumado(s, n, g), NEW u \in 1..n
  PROVE  g[u] = IF u = 1 THEN s[u] ELSE g[u - 1] \o s[u]
BY DEF Sumado

\* There is only one such function.
LEMMA SumadoUnico ==
  ASSUME NEW s, NEW t, NEW n \in Nat, NEW m \in Nat, n <= m, NEW g, NEW h,
         Sumado(s, n, g), Sumado(t, m, h), Coinciden(s, t, n)
  PROVE  Coinciden(g, h, n)
<1> DEFINE Malos == {u \in 1..n : g[u] # h[u]}
<1>1. SUFFICES ASSUME Malos # {} PROVE FALSE
  BY DEF Coinciden
<1>2. PICK u \in Malos : \A j \in Malos : u <= j
  <2>1. Malos \subseteq Nat
    OBVIOUS
  <2> HIDE DEF Malos
  <2> QED BY <1>1, <2>1, HayPrimero
<1>3. u \in 1..n /\ u \in 1..m /\ g[u] # h[u]
  BY <1>2
<1>4. /\ g[u] = IF u = 1 THEN s[u] ELSE g[u - 1] \o s[u]
      /\ h[u] = IF u = 1 THEN t[u] ELSE h[u - 1] \o t[u]
  BY <1>3 DEF Sumado
<1>5. CASE u = 1
  BY <1>3, <1>4, <1>5 DEF Coinciden
<1>6. CASE u # 1
  <2>1. u - 1 \in 1..n /\ u - 1 \notin Malos
    BY <1>2, <1>3, <1>6
  <2>2. g[u - 1] = h[u - 1]
    BY <2>1
  <2> QED BY <1>3, <1>4, <1>6, <2>2 DEF Coinciden
<1> QED BY <1>5, <1>6

\* And there is one.
LEMMA SumadoExiste ==
  ASSUME NEW s
  PROVE  \A n \in Nat : \E g : Sumado(s, n, g)
<1> DEFINE Malos == {n \in Nat : ~ \E g : Sumado(s, n, g)}
<1>1. SUFFICES ASSUME Malos # {} PROVE FALSE
  OBVIOUS
<1>2. PICK n \in Malos : \A j \in Malos : n <= j
  <2>1. Malos \subseteq Nat
    OBVIOUS
  <2> HIDE DEF Malos
  <2> QED BY <1>1, <2>1, HayPrimero
<1>3. n \in Nat /\ ~ \E g : Sumado(s, n, g)
  BY <1>2
<1>4. CASE n = 0
  <2>1. Sumado(s, 0, << >>)
    BY DEF Sumado
  <2> QED BY <1>3, <1>4, <2>1
<1>5. CASE n # 0
  <2>1. n - 1 \in Nat /\ n - 1 \notin Malos
    BY <1>2, <1>3, <1>5
  <2>2. PICK g : Sumado(s, n - 1, g)
    BY <2>1
  <2> DEFINE h == [u \in 1..n |-> IF u = n THEN (IF u = 1 THEN s[u] ELSE g[u - 1] \o s[u]) ELSE g[u]]
  <2>3. ASSUME NEW u \in 1..n PROVE h[u] = IF u = 1 THEN s[u] ELSE h[u - 1] \o s[u]
    <3>1. CASE u = n
      <4>1. u # 1 => u - 1 \in 1..n /\ u - 1 # n
        BY <3>1, <1>3
      <4>2. u # 1 => h[u - 1] = g[u - 1]
        BY <4>1
      <4> QED BY <3>1, <4>2
    <3>2. CASE u # n
      <4>1. u \in 1..(n - 1)
        BY <3>2, <1>3
      <4>2. g[u] = IF u = 1 THEN s[u] ELSE g[u - 1] \o s[u]
        BY <2>2, <4>1 DEF Sumado
      <4>3. u # 1 => u - 1 \in 1..n /\ u - 1 # n
        BY <4>1, <1>3
      <4>4. u # 1 => h[u - 1] = g[u - 1]
        BY <4>3
      <4> QED BY <3>2, <4>2, <4>4
    <3> QED BY <3>1, <3>2
  <2>4. Sumado(s, n, h)
    BY <2>3 DEF Sumado
  <2> QED BY <1>3, <2>4
<1> QED BY <1>4, <1>5

\* What FlattenSeq gives is the last value of such a function.
LEMMA AplanarEs ==
  ASSUME NEW s, Len(s) \in Nat, Len(s) # 0
  PROVE  \E g : Sumado(s, Len(s), g) /\ FlattenSeq(s) = g[Len(s)]
<1> DEFINE g == CHOOSE f : Sumado(s, Len(s), f)
<1>2. Sumado(s, Len(s), g)
  BY SumadoExiste
<1>3. FlattenSeq(s) = g[Len(s)]
  BY DEF FlattenSeq, Sumado
<1> QED BY <1>2, <1>3

\* One more sequence goes at the end.
LEMMA AplanarUno ==
  ASSUME NEW S, NEW s \in Seq(Seq(S)), NEW x \in Seq(S)
  PROVE  FlattenSeq(Append(s, x)) = FlattenSeq(s) \o x
<1> DEFINE t == Append(s, x)
           n == Len(s)
<1>1. /\ n \in Nat /\ t \in Seq(Seq(S)) /\ Len(t) = n + 1
      /\ \A u \in 1..n : t[u] = s[u]
      /\ t[n + 1] = x
  OBVIOUS
<1> HIDE DEF t, n
<1>2. PICK g : Sumado(t, n + 1, g) /\ FlattenSeq(t) = g[n + 1]
  <2>1. Len(t) # 0 /\ Len(t) \in Nat
    BY <1>1
  <2>2. \E g : Sumado(t, Len(t), g) /\ FlattenSeq(t) = g[Len(t)]
    BY <2>1, AplanarEs
  <2> QED BY <1>1, <2>2
<1>3. g[n + 1] = IF n + 1 = 1 THEN t[n + 1] ELSE g[(n + 1) - 1] \o t[n + 1]
  <2>1. n + 1 \in Nat /\ n + 1 \in 1..(n + 1)
    BY <1>1
  <2> QED BY <1>2, <2>1, SumadoEn
<1>4. CASE n = 0
  <2>1. g[n + 1] = x
    BY <1>1, <1>3, <1>4
  <2>2. s = << >> /\ FlattenSeq(s) = << >>
    BY <1>4 DEF FlattenSeq, n
  <2>3. << >> \o x = x
    OBVIOUS
  <2> QED BY <1>2, <2>1, <2>2, <2>3 DEF t
<1>5. CASE n # 0
  <2>1. PICK h : Sumado(s, n, h) /\ FlattenSeq(s) = h[n]
    BY <1>5, AplanarEs DEF n
  <2>2. Coinciden(h, g, n)
    <3>1. n <= n + 1 /\ n + 1 \in Nat
      BY <1>1
    <3>2. Coinciden(s, t, n)
      BY <1>1 DEF Coinciden
    <3>3. Sumado(s, n, h) /\ Sumado(t, n + 1, g)
      BY <1>2, <2>1
    <3> QED BY <1>1, <3>1, <3>2, <3>3, SumadoUnico
  <2>3. n \in 1..n /\ n + 1 # 1 /\ (n + 1) - 1 = n
    BY <1>1, <1>5
  <2>4. g[n + 1] = g[n] \o x
    BY <1>1, <1>3, <2>3
  <2> QED BY <1>2, <2>1, <2>2, <2>3, <2>4 DEF t, Coinciden
<1> QED BY <1>4, <1>5

\* What the first k sequences of s give.
Hasta(s, k) == FlattenSeq(SubSeq(s, 1, k))

LEMMA HastaNada ==
  ASSUME NEW s
  PROVE  Hasta(s, 0) = << >>
BY DEF Hasta, FlattenSeq

LEMMA HastaTodo ==
  ASSUME NEW S, NEW s \in Seq(S)
  PROVE  Hasta(s, Len(s)) = FlattenSeq(s)
<1>1. SubSeq(s, 1, Len(s)) = s
  OBVIOUS
<1> QED BY <1>1 DEF Hasta

LEMMA HastaUnoMas ==
  ASSUME NEW S, NEW s \in Seq(Seq(S)), NEW k \in Nat, k < Len(s)
  PROVE  Hasta(s, k + 1) = Hasta(s, k) \o s[k + 1]
<1>1. SubSeq(s, 1, k) \in Seq(Seq(S)) /\ s[k + 1] \in Seq(S)
  OBVIOUS
<1>2. SubSeq(s, 1, k + 1) = Append(SubSeq(s, 1, k), s[k + 1])
  OBVIOUS
<1> QED BY <1>1, <1>2, AplanarUno DEF Hasta

\* The result is a sequence of what the sequences hold.
LEMMA HastaTipo ==
  ASSUME NEW S, NEW s \in Seq(Seq(S))
  PROVE  \A k \in 0..Len(s) : Hasta(s, k) \in Seq(S)
<1> DEFINE Malos == {k \in 0..Len(s) : Hasta(s, k) \notin Seq(S)}
<1>1. SUFFICES ASSUME Malos # {} PROVE FALSE
  OBVIOUS
<1>2. PICK k \in Malos : \A j \in Malos : k <= j
  <2>1. Malos \subseteq Nat
    OBVIOUS
  <2> HIDE DEF Malos
  <2> QED BY <1>1, <2>1, HayPrimero
<1>3. k \in 0..Len(s) /\ Hasta(s, k) \notin Seq(S) /\ Len(s) \in Nat
  BY <1>2
<1>4. k # 0
  <2>1. << >> \in Seq(S)
    OBVIOUS
  <2> QED BY <1>3, <2>1, HastaNada
<1>5. /\ k - 1 \in Nat /\ k - 1 < Len(s) /\ (k - 1) + 1 = k
      /\ k - 1 \in 0..Len(s) /\ k - 1 \notin Malos
  BY <1>2, <1>3, <1>4
<1>6. Hasta(s, k - 1) \in Seq(S)
  BY <1>5
<1>7. s[k] \in Seq(S)
  BY <1>3, <1>4
<1>8. Hasta(s, k) = Hasta(s, k - 1) \o s[k]
  BY <1>5, HastaUnoMas
<1>9. Hasta(s, k - 1) \o s[k] \in Seq(S)
  BY <1>6, <1>7
<1> QED BY <1>3, <1>8, <1>9

LEMMA HastaLargo ==
  ASSUME NEW S, NEW s \in Seq(Seq(S)), NEW k \in Nat, k < Len(s)
  PROVE  /\ Len(s[k + 1]) \in Nat /\ Len(Hasta(s, k)) \in Nat
         /\ Len(Hasta(s, k + 1)) = Len(Hasta(s, k)) + Len(s[k + 1])
         /\ \A j \in 1..Len(Hasta(s, k)) : Hasta(s, k + 1)[j] = Hasta(s, k)[j]
         /\ \A j \in 1..Len(s[k + 1]) : Hasta(s, k + 1)[Len(Hasta(s, k)) + j] = s[k + 1][j]
<1>1. k \in 0..Len(s) /\ s[k + 1] \in Seq(S)
  OBVIOUS
<1>2. Hasta(s, k) \in Seq(S)
  BY <1>1, HastaTipo
<1>3. Hasta(s, k + 1) = Hasta(s, k) \o s[k + 1]
  BY HastaUnoMas
<1> DEFINE a == Hasta(s, k)
           b == s[k + 1]
<1> HIDE DEF a, b
<1>4. a \in Seq(S) /\ b \in Seq(S)
  BY <1>1, <1>2 DEF a, b
<1>5. /\ Len(a) \in Nat /\ Len(b) \in Nat /\ Len(a \o b) = Len(a) + Len(b)
      /\ \A j \in 1..Len(a) : (a \o b)[j] = a[j]
      /\ \A j \in 1..Len(b) : (a \o b)[Len(a) + j] = b[j]
  BY <1>4
<1> QED BY <1>3, <1>5 DEF a, b

LEMMA HastaLargoAtras ==
  ASSUME NEW S, NEW s \in Seq(Seq(S)), NEW k \in 1..Len(s)
  PROVE  /\ Len(s[k]) \in Nat /\ Len(Hasta(s, k - 1)) \in Nat
         /\ Len(Hasta(s, k)) = Len(Hasta(s, k - 1)) + Len(s[k])
         /\ \A j \in 1..Len(Hasta(s, k - 1)) : Hasta(s, k)[j] = Hasta(s, k - 1)[j]
<1>1. PICK a \in Nat : a = k - 1 /\ k = a + 1 /\ a < Len(s)
  OBVIOUS
<1>2. /\ Len(s[a + 1]) \in Nat /\ Len(Hasta(s, a)) \in Nat
      /\ Len(Hasta(s, a + 1)) = Len(Hasta(s, a)) + Len(s[a + 1])
      /\ \A j \in 1..Len(Hasta(s, a)) : Hasta(s, a + 1)[j] = Hasta(s, a)[j]
  BY ZenonT(40), <1>1, HastaLargo
<1>3. k - 1 = a /\ a + 1 = k
  BY <1>1
<1> QED BY <1>2, <1>3

\* Where each element of each sequence goes, whatever comes after it.
LEMMA HastaParte ==
  ASSUME NEW S, NEW s \in Seq(Seq(S)), NEW k \in Nat, k < Len(s)
  PROVE  \A m \in (k + 1)..Len(s) :
           /\ Len(Hasta(s, m)) \in Nat
           /\ Len(Hasta(s, k)) + Len(s[k + 1]) <= Len(Hasta(s, m))
           /\ \A j \in 1..(Len(Hasta(s, k)) + Len(s[k + 1])) : Hasta(s, m)[j] = Hasta(s, k + 1)[j]
<1> DEFINE L == Len(Hasta(s, k)) + Len(s[k + 1])
           Bien(m) == /\ Len(Hasta(s, m)) \in Nat /\ L <= Len(Hasta(s, m))
                      /\ \A j \in 1..L : Hasta(s, m)[j] = Hasta(s, k + 1)[j]
           Malos == {m \in (k + 1)..Len(s) : ~Bien(m)}
<1>1. SUFFICES ASSUME Malos # {} PROVE FALSE
  OBVIOUS
<1>0. L \in Nat /\ Len(Hasta(s, k + 1)) = L
  <2> HIDE DEF Malos, Bien
  <2> QED BY SMTT(30), HastaLargo
<1> HIDE DEF L
<1>2. PICK m \in Malos : \A j \in Malos : m <= j
  <2>1. Malos \subseteq Nat
    OBVIOUS
  <2> HIDE DEF Malos
  <2> QED BY <1>1, <2>1, HayPrimero
<1>3. m \in (k + 1)..Len(s) /\ ~Bien(m) /\ Len(s) \in Nat
  BY <1>2
<1>4. m # k + 1
  BY <1>0, <1>3
<1>5. /\ m - 1 \in Nat /\ m - 1 < Len(s) /\ (m - 1) + 1 = m
      /\ m - 1 \in (k + 1)..Len(s) /\ m - 1 \notin Malos
  BY <1>2, <1>3, <1>4
<1>6. Bien(m - 1)
  <2> HIDE DEF Bien
  <2> QED BY <1>5
<1>7. /\ Len(s[m]) \in Nat
      /\ Len(Hasta(s, m)) = Len(Hasta(s, m - 1)) + Len(s[m])
      /\ \A j \in 1..Len(Hasta(s, m - 1)) : Hasta(s, m)[j] = Hasta(s, m - 1)[j]
  <2>1. m \in 1..Len(s)
    BY <1>3
  <2> HIDE DEF Malos, Bien
  <2> QED BY <2>1, HastaLargoAtras
<1>8. Bien(m)
  <2>0. L \in Nat /\ Len(Hasta(s, m - 1)) \in Nat /\ L <= Len(Hasta(s, m - 1))
    BY <1>0, <1>6
  <2>1. \A j \in 1..L : j \in 1..Len(Hasta(s, m - 1))
    <3> HIDE DEF Bien, Malos
    <3> QED BY <2>0
  <2>2. Len(Hasta(s, m)) \in Nat /\ L <= Len(Hasta(s, m))
    <3>1. Len(s[m]) \in Nat /\ Len(Hasta(s, m)) = Len(Hasta(s, m - 1)) + Len(s[m])
      BY <1>7
    <3> DEFINE a == Len(Hasta(s, m - 1))
               b == Len(Hasta(s, m))
               c == Len(s[m])
    <3>2. L \in Nat /\ a \in Nat /\ L <= a /\ c \in Nat /\ b = a + c
      BY <2>0, <3>1
    <3> HIDE DEF Bien, Malos, a, b, c
    <3>3. b \in Nat /\ L <= b
      BY <3>2
    <3> QED BY <3>3 DEF b
  <2>3. \A j \in 1..L : Hasta(s, m)[j] = Hasta(s, k + 1)[j]
    BY <1>6, <1>7, <2>1
  <2> QED BY <2>2, <2>3
<1> QED BY <1>3, <1>8

\* The element j of the sequence k + 1, inside the whole.
LEMMA AplanarParte ==
  ASSUME NEW S, NEW s \in Seq(Seq(S)), NEW k \in Nat, k < Len(s)
  PROVE  /\ Len(Hasta(s, k)) \in Nat /\ Len(s[k + 1]) \in Nat /\ Len(FlattenSeq(s)) \in Nat
         /\ Len(Hasta(s, k)) + Len(s[k + 1]) <= Len(FlattenSeq(s))
         /\ \A j \in 1..Len(s[k + 1]) : FlattenSeq(s)[Len(Hasta(s, k)) + j] = s[k + 1][j]
<1>1. Len(s) \in (k + 1)..Len(s)
  OBVIOUS
<1>2. Hasta(s, Len(s)) = FlattenSeq(s)
  BY HastaTodo
<1>3. /\ Len(FlattenSeq(s)) \in Nat
      /\ Len(Hasta(s, k)) + Len(s[k + 1]) <= Len(FlattenSeq(s))
      /\ \A j \in 1..(Len(Hasta(s, k)) + Len(s[k + 1])) : FlattenSeq(s)[j] = Hasta(s, k + 1)[j]
  BY <1>1, <1>2, HastaParte
<1>4. /\ Len(Hasta(s, k)) \in Nat /\ Len(s[k + 1]) \in Nat
      /\ \A j \in 1..Len(s[k + 1]) : Hasta(s, k + 1)[Len(Hasta(s, k)) + j] = s[k + 1][j]
  BY HastaLargo
<1>5. \A j \in 1..Len(s[k + 1]) : Len(Hasta(s, k)) + j \in 1..(Len(Hasta(s, k)) + Len(s[k + 1]))
  BY <1>4
<1> QED BY <1>3, <1>4, <1>5

\* Sequences that are all as long.
LEMMA HastaParejo ==
  ASSUME NEW S, NEW s \in Seq(Seq(S)), NEW w \in Nat, \A k \in 1..Len(s) : Len(s[k]) = w
  PROVE  \A k \in 0..Len(s) : Len(Hasta(s, k)) = w * k
<1> DEFINE Malos == {k \in 0..Len(s) : Len(Hasta(s, k)) # w * k}
<1>1. SUFFICES ASSUME Malos # {} PROVE FALSE
  OBVIOUS
<1>2. PICK k \in Malos : \A j \in Malos : k <= j
  <2>1. Malos \subseteq Nat
    OBVIOUS
  <2> HIDE DEF Malos
  <2> QED BY <1>1, <2>1, HayPrimero
<1>3. k \in 0..Len(s) /\ Len(Hasta(s, k)) # w * k /\ Len(s) \in Nat
  BY <1>2
<1>4. k # 0
  <2>1. w * 0 = 0 /\ Len(<< >>) = 0
    OBVIOUS
  <2> QED BY <1>3, <2>1, HastaNada
<1>5. /\ k - 1 \in Nat /\ k - 1 < Len(s) /\ (k - 1) + 1 = k
      /\ k - 1 \in 0..Len(s) /\ k - 1 \notin Malos
  BY <1>2, <1>3, <1>4
<1>6. Len(Hasta(s, k - 1)) = w * (k - 1)
  BY <1>5
<1>7. Len(Hasta(s, k)) = Len(Hasta(s, k - 1)) + Len(s[k])
  <2>1. k \in 1..Len(s)
    BY <1>3, <1>4
  <2> HIDE DEF Malos
  <2> QED BY <2>1, HastaLargoAtras
<1>8. Len(s[k]) = w
  BY <1>3, <1>4
<1>9. w * (k - 1) + w = w * k
  BY <1>3
<1> QED BY <1>3, <1>6, <1>7, <1>8, <1>9

\* The sequences of s have w elements each; and they are in t one after another.
Parejas(s, w)   == \A k \in 1..Len(s) : Len(s[k]) = w
EnFila(t, s, w) == \A k \in 1..Len(s) : \A j \in 1..w : t[w * (k - 1) + j] = s[k][j]

LEMMA AplanarParejo ==
  ASSUME NEW S, NEW s \in Seq(Seq(S)), NEW w \in Nat, Parejas(s, w)
  PROVE  /\ FlattenSeq(s) \in Seq(S) /\ Len(FlattenSeq(s)) = w * Len(s)
         /\ EnFila(FlattenSeq(s), s, w)
<1>0. \A k \in 1..Len(s) : Len(s[k]) = w
  BY DEF Parejas
<1>1. Hasta(s, Len(s)) = FlattenSeq(s) /\ Len(s) \in 0..Len(s)
  BY HastaTodo
<1>2. FlattenSeq(s) \in Seq(S)
  BY <1>1, HastaTipo
<1>3. Len(FlattenSeq(s)) = w * Len(s)
  BY <1>0, <1>1, HastaParejo
<1>4. ASSUME NEW k \in 1..Len(s)
      PROVE  \A j \in 1..w : FlattenSeq(s)[w * (k - 1) + j] = s[k][j]
  <2>1. PICK a \in Nat : a = k - 1 /\ k = a + 1 /\ a < Len(s) /\ a \in 0..Len(s)
    OBVIOUS
  <2>2. \A j \in 1..Len(s[a + 1]) : FlattenSeq(s)[Len(Hasta(s, a)) + j] = s[a + 1][j]
    BY <2>1, AplanarParte
  <2>3. Len(Hasta(s, a)) = w * a
    BY <1>0, <2>1, HastaParejo
  <2>4. Len(s[a + 1]) = w /\ k - 1 = a /\ a + 1 = k
    BY <1>0, <2>1
  <2> QED BY <2>2, <2>3, <2>4
<1> QED BY <1>2, <1>3, <1>4 DEF EnFila

\* c is a with b after it.
Junta(c, a, b) ==
  /\ Len(a) \in Nat /\ Len(b) \in Nat /\ Len(c) = Len(a) + Len(b)
  /\ \A j \in 1..Len(a) : c[j] = a[j]
  /\ \A j \in 1..Len(b) : c[Len(a) + j] = b[j]

LEMMA Juntar ==
  ASSUME NEW S, NEW a \in Seq(S), NEW b \in Seq(S)
  PROVE  a \o b \in Seq(S) /\ Junta(a \o b, a, b)
BY DEF Junta

-----------------------------------------------------------------------------
(* The PCB in its buffer.                                                  *)

Posiciones == [pagina : Int, offset : Int]
Dato       == [id : Nombre, pagina : Int, offset : Int]
Contexto   == [args : Seq(Posiciones), vars : Seq(Dato), dir : -1..(UltimaLinea - 1),
               ret : Posiciones \cup {Nulo}]
Byte       == Int \cup {""} \cup Nombre

LEMMA BytesDeEntero ==
  ASSUME NEW x \in Byte
  PROVE  Entero(x) \in Seq(Byte) /\ Len(Entero(x)) = 4 /\ Entero(x)[1] = x
<1>1. PICK e \in Byte : e = ""
  BY DEF Byte
<1>2. <<x, e, e, e>> \in Seq(Byte) /\ Len(<<x, e, e, e>>) = 4 /\ <<x, e, e, e>>[1] = x
  OBVIOUS
<1> QED BY <1>1, <1>2 DEF Entero

LEMMA BytesDePosicion ==
  ASSUME NEW p, p.pagina \in Int, p.offset \in Int
  PROVE  /\ BytesPosicion(p) \in Seq(Byte) /\ Len(BytesPosicion(p)) = 12
         /\ BytesPosicion(p)[1] = p.pagina /\ BytesPosicion(p)[5] = p.offset
<1>1. PICK a \in Seq(Byte) : a = Entero(p.pagina) /\ Len(a) = 4 /\ a[1] = p.pagina
  <2>1. p.pagina \in Byte
    BY DEF Byte
  <2> QED BY <2>1, BytesDeEntero
<1>2. PICK b \in Seq(Byte) : b = Entero(p.offset) /\ Len(b) = 4 /\ b[1] = p.offset
  <2>1. p.offset \in Byte
    BY DEF Byte
  <2> QED BY <2>1, BytesDeEntero
<1>3. PICK c \in Seq(Byte) : c = Entero(TAMANIO_VARIABLE) /\ Len(c) = 4
  <2>1. TAMANIO_VARIABLE \in Int
    BY DEF TAMANIO_VARIABLE
  <2>2. TAMANIO_VARIABLE \in Byte
    BY <2>1 DEF Byte
  <2> QED BY <2>2, BytesDeEntero
<1>4. PICK d \in Seq(Byte) : d = a \o b /\ Junta(d, a, b)
  BY Juntar
<1>5. PICK e \in Seq(Byte) : e = d \o c /\ Junta(e, d, c)
  BY Juntar
<1>6. BytesPosicion(p) = e
  BY <1>1, <1>2, <1>3, <1>4, <1>5 DEF BytesPosicion
<1>7. Len(d) = 8 /\ d[1] = p.pagina /\ d[5] = p.offset
  <2>1. 1 \in 1..Len(a) /\ 1 \in 1..Len(b) /\ Len(a) + 1 = 5
    BY <1>1, <1>2
  <2>2. d[1] = a[1] /\ d[5] = b[1]
    BY <1>4, <2>1 DEF Junta
  <2> QED BY <1>1, <1>2, <1>4, <2>2 DEF Junta
<1>8. Len(e) = 12 /\ e[1] = p.pagina /\ e[5] = p.offset
  <2>1. 1 \in 1..Len(d) /\ 5 \in 1..Len(d)
    BY <1>7
  <2>2. e[1] = d[1] /\ e[5] = d[5]
    BY <1>5, <2>1 DEF Junta
  <2> QED BY <1>3, <1>5, <1>7, <2>2 DEF Junta
<1> QED BY <1>6, <1>8

LEMMA BytesDeVariable ==
  ASSUME NEW v \in Dato
  PROVE  /\ BytesVariable(v) \in Seq(Byte) /\ Len(BytesVariable(v)) = 13
         /\ BytesVariable(v)[1] = v.id
         /\ BytesVariable(v)[2] = v.pagina /\ BytesVariable(v)[6] = v.offset
<1>0. v.id \in Byte /\ v.pagina \in Int /\ v.offset \in Int
  BY DEF Dato, Byte
<1>1. PICK a \in Seq(Byte) : a = <<v.id>> /\ Len(a) = 1 /\ a[1] = v.id
  <2>1. <<v.id>> \in Seq(Byte) /\ Len(<<v.id>>) = 1 /\ <<v.id>>[1] = v.id
    BY <1>0
  <2> QED BY <2>1
<1>2. PICK b \in Seq(Byte) : b = BytesPosicion(v) /\ Len(b) = 12 /\ b[1] = v.pagina /\ b[5] = v.offset
  BY <1>0, BytesDePosicion
<1>3. PICK c \in Seq(Byte) : c = a \o b /\ Junta(c, a, b)
  BY Juntar
<1>4. BytesVariable(v) = c
  BY <1>1, <1>2, <1>3 DEF BytesVariable
<1>5. Len(c) = 13 /\ c[1] = v.id /\ c[2] = v.pagina /\ c[6] = v.offset
  <2>1. /\ 1 \in 1..Len(a) /\ 1 \in 1..Len(b) /\ 5 \in 1..Len(b)
        /\ Len(a) + 1 = 2 /\ Len(a) + 5 = 6
    BY <1>1, <1>2
  <2>2. c[1] = a[1] /\ c[2] = b[1] /\ c[6] = b[5]
    BY <1>3, <2>1 DEF Junta
  <2> QED BY <1>1, <1>2, <1>3, <2>2 DEF Junta
<1> QED BY <1>4, <1>5

\* The sequence t is in b, after its first o elements.
Lleva(b, o, t) == \A j \in 1..Len(t) : b[o + j] = t[j]

LEMMA JuntaLleva ==
  ASSUME NEW a, NEW b, NEW c, Junta(c, a, b)
  PROVE  /\ Lleva(c, Len(a), b)
         /\ \A q \in Nat : \A w : Len(w) \in Nat /\ Lleva(a, q, w) /\ q + Len(w) <= Len(a) => Lleva(c, q, w)
<1>1. Lleva(c, Len(a), b)
  BY DEF Junta, Lleva
<1>2. ASSUME NEW q \in Nat, NEW w, Len(w) \in Nat, Lleva(a, q, w), q + Len(w) <= Len(a)
      PROVE  Lleva(c, q, w)
  <2>1. SUFFICES ASSUME NEW j \in 1..Len(w) PROVE c[q + j] = w[j]
    BY DEF Lleva
  <2>2. Len(a) \in Nat
    BY DEF Junta
  <2>3. q + j \in 1..Len(a)
    BY <1>2, <2>2
  <2>4. c[q + j] = a[q + j]
    BY <2>3 DEF Junta
  <2>5. a[q + j] = w[j]
    BY <1>2 DEF Lleva
  <2> QED BY <2>4, <2>5
<1> QED BY <1>1, <1>2

LEMMA LlevaDentro ==
  ASSUME NEW b, NEW t, NEW w, NEW o \in Nat, NEW q \in Nat, Len(t) \in Nat, Len(w) \in Nat,
         Lleva(b, o, t), Lleva(t, q, w), q + Len(w) <= Len(t)
  PROVE  Lleva(b, o + q, w)
<1>1. SUFFICES ASSUME NEW j \in 1..Len(w) PROVE b[(o + q) + j] = w[j]
  BY DEF Lleva
<1>2. q + j \in 1..Len(t) /\ (o + q) + j = o + (q + j)
  OBVIOUS
<1>3. b[o + (q + j)] = t[q + j]
  BY <1>2 DEF Lleva
<1>4. t[q + j] = w[j]
  BY DEF Lleva
<1> QED BY <1>2, <1>3, <1>4

\* The parts of a context, and where each one is.
BytesArgs(c) == FlattenSeq([k \in DOMAIN c.args |-> BytesPosicion(c.args[k])])
BytesVars(c) == FlattenSeq([k \in DOMAIN c.vars |-> BytesVariable(c.vars[k])])
BytesRet(c)  == IF c.ret = Nulo THEN Entero(0) ELSE Entero(1) \o BytesPosicion(c.ret)
TrasArgs(c)  == 8 + 12 * Len(c.args)
TrasVars(c)  == TrasArgs(c) + 4 + 13 * Len(c.vars)

\* t has them all, one after another.
ArgsEnFila(t, c) ==
  \A k \in 1..Len(c.args) : \A j \in 1..12 : t[12 * (k - 1) + j] = BytesPosicion(c.args[k])[j]

LEMMA BytesDeArgs ==
  ASSUME NEW c \in Contexto
  PROVE  /\ BytesArgs(c) \in Seq(Byte) /\ Len(c.args) \in Nat
         /\ Len(BytesArgs(c)) = 12 * Len(c.args)
         /\ ArgsEnFila(BytesArgs(c), c)
<1>1. c.args \in Seq(Posiciones) /\ DOMAIN c.args = 1..Len(c.args) /\ Len(c.args) \in Nat
  BY DEF Contexto
<1>2. PICK s : s = [k \in 1..Len(c.args) |-> BytesPosicion(c.args[k])]
  OBVIOUS
<1>3. \A k \in 1..Len(c.args) : BytesPosicion(c.args[k]) \in Seq(Byte) /\ Len(BytesPosicion(c.args[k])) = 12
  <2>1. \A k \in 1..Len(c.args) : c.args[k].pagina \in Int /\ c.args[k].offset \in Int
    <3>1. \A k \in 1..Len(c.args) : c.args[k] \in Posiciones
      BY <1>1
    <3> QED BY <3>1 DEF Posiciones
  <2> QED BY <2>1, BytesDePosicion
<1>4. /\ s \in Seq(Seq(Byte)) /\ Len(s) = Len(c.args)
      /\ \A k \in 1..Len(s) : s[k] = BytesPosicion(c.args[k]) /\ Len(s[k]) = 12
  BY <1>1, <1>2, <1>3
<1>5. BytesArgs(c) = FlattenSeq(s)
  BY <1>1, <1>2 DEF BytesArgs
<1>6. PICK w \in Nat : w = 12
  OBVIOUS
<1>7. Parejas(s, w)
  BY <1>4, <1>6 DEF Parejas
<1>8. /\ FlattenSeq(s) \in Seq(Byte) /\ Len(FlattenSeq(s)) = w * Len(s)
      /\ EnFila(FlattenSeq(s), s, w)
  BY <1>4, <1>7, AplanarParejo
<1> QED BY ZenonT(40), <1>1, <1>4, <1>5, <1>6, <1>8 DEF EnFila, ArgsEnFila

\* t has them all, one after another.
VarsEnFila(t, c) ==
  \A k \in 1..Len(c.vars) : \A j \in 1..13 : t[13 * (k - 1) + j] = BytesVariable(c.vars[k])[j]

LEMMA BytesDeVars ==
  ASSUME NEW c \in Contexto
  PROVE  /\ BytesVars(c) \in Seq(Byte) /\ Len(c.vars) \in Nat
         /\ Len(BytesVars(c)) = 13 * Len(c.vars)
         /\ VarsEnFila(BytesVars(c), c)
<1>1. c.vars \in Seq(Dato) /\ DOMAIN c.vars = 1..Len(c.vars) /\ Len(c.vars) \in Nat
  BY DEF Contexto
<1>2. PICK s : s = [k \in 1..Len(c.vars) |-> BytesVariable(c.vars[k])]
  OBVIOUS
<1>3. \A k \in 1..Len(c.vars) : BytesVariable(c.vars[k]) \in Seq(Byte) /\ Len(BytesVariable(c.vars[k])) = 13
  BY <1>1, BytesDeVariable
<1>4. /\ s \in Seq(Seq(Byte)) /\ Len(s) = Len(c.vars)
      /\ \A k \in 1..Len(s) : s[k] = BytesVariable(c.vars[k]) /\ Len(s[k]) = 13
  BY <1>1, <1>2, <1>3
<1>5. BytesVars(c) = FlattenSeq(s)
  BY <1>1, <1>2 DEF BytesVars
<1>6. PICK w \in Nat : w = 13
  OBVIOUS
<1>7. Parejas(s, w)
  BY <1>4, <1>6 DEF Parejas
<1>8. /\ FlattenSeq(s) \in Seq(Byte) /\ Len(FlattenSeq(s)) = w * Len(s)
      /\ EnFila(FlattenSeq(s), s, w)
  BY <1>4, <1>7, AplanarParejo
<1> QED BY ZenonT(40), <1>1, <1>4, <1>5, <1>6, <1>8 DEF EnFila, VarsEnFila

LEMMA BytesDeRet ==
  ASSUME NEW c \in Contexto
  PROVE  /\ BytesRet(c) \in Seq(Byte)
         /\ c.ret = Nulo => Len(BytesRet(c)) = 4 /\ BytesRet(c)[1] = 0
         /\ c.ret # Nulo => /\ Len(BytesRet(c)) = 16 /\ BytesRet(c)[1] = 1
                            /\ BytesRet(c)[5] = c.ret.pagina /\ BytesRet(c)[9] = c.ret.offset
<1>0. 0 \in Byte /\ 1 \in Byte
  <2>1. 0 \in Int /\ 1 \in Int
    OBVIOUS
  <2> QED BY <2>1 DEF Byte
<1>1. CASE c.ret = Nulo
  BY <1>0, <1>1, BytesDeEntero DEF BytesRet
<1>2. CASE c.ret # Nulo
  <2>1. c.ret.pagina \in Int /\ c.ret.offset \in Int
    BY <1>2 DEF Contexto, Posiciones
  <2>2. PICK a \in Seq(Byte) : a = Entero(1) /\ Len(a) = 4 /\ a[1] = 1
    BY <1>0, BytesDeEntero
  <2>3. PICK b \in Seq(Byte) : /\ b = BytesPosicion(c.ret) /\ Len(b) = 12
                               /\ b[1] = c.ret.pagina /\ b[5] = c.ret.offset
    BY <2>1, BytesDePosicion
  <2>4. PICK d \in Seq(Byte) : d = a \o b /\ Junta(d, a, b)
    BY Juntar
  <2>5. BytesRet(c) = d
    BY <1>2, <2>2, <2>3, <2>4 DEF BytesRet
  <2>a. Len(a) = 4
    BY <2>2
  <2>b. Len(b) = 12
    BY <2>3
  <2>6. /\ 1 \in 1..Len(a) /\ 1 \in 1..Len(b) /\ 5 \in 1..Len(b)
        /\ Len(a) + 1 = 5 /\ Len(a) + 5 = 9
    BY <2>a, <2>b
  <2>7. d[1] = a[1] /\ d[5] = b[1] /\ d[9] = b[5]
    BY <2>4, <2>6 DEF Junta
  <2>8. Len(d) = 16
    BY <2>a, <2>b, <2>4 DEF Junta
  <2> QED BY <1>2, <2>2, <2>3, <2>5, <2>7, <2>8
<1> QED BY <1>1, <1>2

\* b has the parts of c, one after another.
EsDe(b, c) ==
  /\ b \in Seq(Byte) /\ Len(b) = TrasVars(c) + 4 + Len(BytesRet(c))
  /\ Lleva(b, 4, Entero(Len(c.args))) /\ Lleva(b, 8, BytesArgs(c))
  /\ Lleva(b, TrasArgs(c), Entero(Len(c.vars))) /\ Lleva(b, TrasArgs(c) + 4, BytesVars(c))
  /\ Lleva(b, TrasVars(c), Entero(c.dir)) /\ Lleva(b, TrasVars(c) + 4, BytesRet(c))

LEMMA EnteroEsByte ==
  ASSUME NEW x \in Int
  PROVE  Entero(x) \in Seq(Byte) /\ Len(Entero(x)) = 4 /\ Entero(x)[1] = x
<1>1. x \in Byte
  BY DEF Byte
<1> QED BY <1>1, BytesDeEntero

LEMMA BytesDeContexto ==
  ASSUME NEW c \in Contexto
  PROVE  EsDe(BytesContexto(c), c)
<1>1. PICK na \in Nat : na = Len(c.args)
  BY BytesDeArgs
<1>2. PICK nv \in Nat : nv = Len(c.vars)
  BY BytesDeVars
<1>3. PICK x0 \in Seq(Byte) : x0 = Entero(TamanioItem(c)) /\ Len(x0) = 4
  <2>1. TamanioItem(c) \in Int
    BY <1>1, <1>2 DEF TamanioItem
  <2> QED BY <2>1, EnteroEsByte
<1>4. PICK e1 \in Seq(Byte) : e1 = Entero(Len(c.args)) /\ Len(e1) = 4
  BY <1>1, EnteroEsByte
<1>5. PICK a \in Seq(Byte) : a = BytesArgs(c) /\ Len(a) = 12 * na
  BY <1>1, BytesDeArgs
<1>6. PICK e2 \in Seq(Byte) : e2 = Entero(Len(c.vars)) /\ Len(e2) = 4
  BY <1>2, EnteroEsByte
<1>7. PICK v \in Seq(Byte) : v = BytesVars(c) /\ Len(v) = 13 * nv
  BY <1>2, BytesDeVars
<1>8. PICK e3 \in Seq(Byte) : e3 = Entero(c.dir) /\ Len(e3) = 4
  <2>1. c.dir \in Int
    BY CpuAssumption DEF Contexto
  <2> QED BY <2>1, EnteroEsByte
<1>9. PICK r \in Seq(Byte) : r = BytesRet(c) /\ Len(r) \in Nat
  BY BytesDeRet
<1>10. PICK x1 \in Seq(Byte) : x1 = x0 \o e1 /\ Junta(x1, x0, e1)
  BY Juntar
<1>11. PICK x2 \in Seq(Byte) : x2 = x1 \o a /\ Junta(x2, x1, a)
  BY Juntar
<1>12. PICK x3 \in Seq(Byte) : x3 = x2 \o e2 /\ Junta(x3, x2, e2)
  BY Juntar
<1>13. PICK x4 \in Seq(Byte) : x4 = x3 \o v /\ Junta(x4, x3, v)
  BY Juntar
<1>14. PICK x5 \in Seq(Byte) : x5 = x4 \o e3 /\ Junta(x5, x4, e3)
  BY Juntar
<1>15. PICK x6 \in Seq(Byte) : x6 = x5 \o r /\ Junta(x6, x5, r)
  BY Juntar
<1>16. BytesContexto(c) = x6
  BY <1>3, <1>4, <1>5, <1>6, <1>7, <1>8, <1>9, <1>10, <1>11, <1>12, <1>13, <1>14, <1>15
     DEF BytesContexto, BytesArgs, BytesVars, BytesRet
<1>17. Len(x1) = 8
  BY <1>3, <1>4, <1>10 DEF Junta
<1>18. Len(x2) = 8 + 12 * na
  BY <1>5, <1>11, <1>17 DEF Junta
<1>19. Len(x3) = 12 + 12 * na
  BY <1>6, <1>12, <1>18 DEF Junta
<1>20. Len(x4) = 12 + 12 * na + 13 * nv
  BY <1>7, <1>13, <1>19 DEF Junta
<1>21. Len(x5) = 16 + 12 * na + 13 * nv
  BY <1>8, <1>14, <1>20 DEF Junta
<1>22. Len(x6) = 16 + 12 * na + 13 * nv + Len(r)
  BY <1>9, <1>15, <1>21 DEF Junta
<1>23. TrasArgs(c) = 8 + 12 * na /\ TrasVars(c) = 12 + 12 * na + 13 * nv
  <2>1. TrasArgs(c) = 8 + 12 * na
    BY <1>1 DEF TrasArgs
  <2>2. TrasVars(c) = TrasArgs(c) + 4 + 13 * nv
    BY <1>2 DEF TrasVars
  <2> QED BY <2>1, <2>2
<1>e. /\ Len(e1) = 4 /\ Len(e1) \in Nat /\ Len(e2) = 4 /\ Len(e2) \in Nat
      /\ Len(e3) = 4 /\ Len(e3) \in Nat
  BY <1>4, <1>6, <1>8
<1>24. ASSUME NEW q \in Nat, NEW w, Len(w) \in Nat, Lleva(x5, q, w), q + Len(w) <= Len(x5)
       PROVE  Lleva(x6, q, w)
  BY <1>15, <1>24, JuntaLleva
<1>25. ASSUME NEW q \in Nat, NEW w, Len(w) \in Nat, Lleva(x4, q, w), q + Len(w) <= Len(x4)
       PROVE  Lleva(x6, q, w)
  <2>1. Lleva(x5, q, w)
    BY <1>14, <1>25, JuntaLleva
  <2>2. q + Len(w) <= Len(x5)
    BY <1>20, <1>21, <1>25
  <2> QED BY <1>24, <1>25, <2>1, <2>2
<1>26. ASSUME NEW q \in Nat, NEW w, Len(w) \in Nat, Lleva(x3, q, w), q + Len(w) <= Len(x3)
       PROVE  Lleva(x6, q, w)
  <2>1. Lleva(x4, q, w)
    BY <1>13, <1>26, JuntaLleva
  <2>2. q + Len(w) <= Len(x4)
    BY <1>19, <1>20, <1>26
  <2> QED BY <1>25, <1>26, <2>1, <2>2
<1>27. ASSUME NEW q \in Nat, NEW w, Len(w) \in Nat, Lleva(x2, q, w), q + Len(w) <= Len(x2)
       PROVE  Lleva(x6, q, w)
  <2>1. Lleva(x3, q, w)
    BY <1>12, <1>27, JuntaLleva
  <2>2. q + Len(w) <= Len(x3)
    BY <1>18, <1>19, <1>27
  <2> QED BY <1>26, <1>27, <2>1, <2>2
<1>28. Lleva(x6, 4, e1)
  <2>1. Lleva(x1, 4, e1)
    BY <1>3, <1>10, JuntaLleva
  <2>2. 4 + Len(e1) <= Len(x1)
    BY <1>e, <1>17
  <2>3. Lleva(x2, 4, e1)
    BY <1>e, <1>11, <2>1, <2>2, JuntaLleva
  <2>4. 4 + Len(e1) <= Len(x2)
    BY <1>e, <1>18
  <2> QED BY <1>e, <1>27, <2>3, <2>4
<1>29. Lleva(x6, 8, a)
  <2>1. Lleva(x2, 8, a)
    BY <1>11, <1>17, JuntaLleva
  <2>2. 8 + Len(a) <= Len(x2) /\ Len(a) \in Nat
    BY <1>5, <1>18
  <2> QED BY <1>27, <2>1, <2>2
<1>30. Lleva(x6, 8 + 12 * na, e2)
  <2>1. Lleva(x3, 8 + 12 * na, e2)
    BY <1>12, <1>18, JuntaLleva
  <2>2. (8 + 12 * na) + Len(e2) <= Len(x3) /\ 8 + 12 * na \in Nat
    BY <1>e, <1>19
  <2> QED BY <1>e, <1>26, <2>1, <2>2
<1>31. Lleva(x6, 12 + 12 * na, v)
  <2>1. Lleva(x4, 12 + 12 * na, v)
    BY <1>13, <1>19, JuntaLleva
  <2>2. (12 + 12 * na) + Len(v) <= Len(x4) /\ 12 + 12 * na \in Nat /\ Len(v) \in Nat
    BY <1>7, <1>20
  <2> QED BY <1>25, <2>1, <2>2
<1>32. Lleva(x6, 12 + 12 * na + 13 * nv, e3)
  <2>1. Lleva(x5, 12 + 12 * na + 13 * nv, e3)
    BY <1>14, <1>20, JuntaLleva
  <2>2. (12 + 12 * na + 13 * nv) + Len(e3) <= Len(x5) /\ 12 + 12 * na + 13 * nv \in Nat
    BY <1>e, <1>21
  <2> QED BY <1>e, <1>24, <2>1, <2>2
<1>33. Lleva(x6, 16 + 12 * na + 13 * nv, r)
  BY <1>15, <1>21, JuntaLleva
<1>34. /\ TrasArgs(c) + 4 = 12 + 12 * na
       /\ TrasVars(c) + 4 = 16 + 12 * na + 13 * nv
  BY <1>23
<1>35. Len(x6) = TrasVars(c) + 4 + Len(r)
  BY <1>22, <1>23
<1> QED
  BY <1>4, <1>5, <1>6, <1>7, <1>8, <1>9, <1>16, <1>23, <1>28, <1>29, <1>30, <1>31, <1>32,
     <1>33, <1>34, <1>35 DEF EsDe

-----------------------------------------------------------------------------
(* What the reader finds.                                                  *)

LEMMA LeidoEs ==
  ASSUME NEW b, NEW x \in Nat, x < AnchoOffset
  PROVE  Leido(b, x) = b[x + 1]
<1>1. x % AnchoOffset = x
  BY PcbAssumption
<1> QED BY <1>1 DEF Leido

LEMMA LeerPosicionEs ==
  ASSUME NEW b, NEW x \in Nat, NEW p \in Posiciones, x + 12 <= AnchoOffset,
         b[x + 1] = p.pagina, b[x + 5] = p.offset
  PROVE  LeerPosicion(b, x) = p
<1>1. AnchoOffset \in Nat
  BY PcbAssumption
<1>2. Leido(b, x) = p.pagina
  <2>1. x < AnchoOffset
    BY <1>1
  <2> QED BY <2>1, LeidoEs
<1>3. Leido(b, x + 4) = p.offset
  <2>1. x + 4 \in Nat /\ x + 4 < AnchoOffset /\ (x + 4) + 1 = x + 5
    BY <1>1
  <2> QED BY <2>1, LeidoEs
<1> QED BY <1>2, <1>3 DEF LeerPosicion, Posiciones

LEMMA LeerVariableEs ==
  ASSUME NEW b, NEW x \in Nat, NEW v \in Dato, x + 13 <= AnchoOffset,
         b[x + 1] = v.id, b[x + 2] = v.pagina, b[x + 6] = v.offset
  PROVE  LeerVariable(b, x) = v
<1>1. AnchoOffset \in Nat
  BY PcbAssumption
<1>2. Leido(b, x) = v.id
  <2>1. x < AnchoOffset
    BY <1>1
  <2> QED BY <2>1, LeidoEs
<1>3. Leido(b, x + 1) = v.pagina
  <2>1. x + 1 \in Nat /\ x + 1 < AnchoOffset /\ (x + 1) + 1 = x + 2
    BY <1>1
  <2> QED BY <2>1, LeidoEs
<1>4. Leido(b, x + 5) = v.offset
  <2>1. x + 5 \in Nat /\ x + 5 < AnchoOffset /\ (x + 5) + 1 = x + 6
    BY <1>1
  <2> QED BY <2>1, LeidoEs
<1> QED BY <1>2, <1>3, <1>4 DEF LeerVariable, Dato

\* A part of t is in b where t is.
LEMMA LlevaEn ==
  ASSUME NEW b, NEW t, NEW o \in Nat, NEW j \in Nat, Len(t) \in Nat, Lleva(b, o, t),
         j >= 1, j <= Len(t)
  PROVE  b[o + j] = t[j]
BY DEF Lleva

LEMMA ArgsLeidos ==
  ASSUME NEW c \in Contexto, NEW b, NEW o \in Nat, Lleva(b, o, BytesArgs(c)),
         o + 12 * Len(c.args) <= AnchoOffset
  PROVE  LeerArgs(b, o, Len(c.args)) = c.args
<1>0. AnchoOffset \in Nat
  BY PcbAssumption
<1>1. c.args \in Seq(Posiciones)
  BY DEF Contexto
<1>2. PICK n \in Nat : n = Len(c.args)
  BY BytesDeArgs
<1>3. PICK t : t = BytesArgs(c)
  OBVIOUS
<1>4. Lleva(b, o, t) /\ Len(t) = 12 * n /\ Len(t) \in Nat /\ ArgsEnFila(t, c)
  BY <1>2, <1>3, BytesDeArgs
<1>5. ASSUME NEW k \in 1..n
      PROVE  LeerPosicion(b, o + 12 * (k - 1)) = c.args[k]
  <2>1. c.args[k] \in Posiciones
    BY <1>1, <1>2
  <2>2. /\ BytesPosicion(c.args[k])[1] = c.args[k].pagina
        /\ BytesPosicion(c.args[k])[5] = c.args[k].offset
    BY <2>1, BytesDePosicion DEF Posiciones
  <2>3. PICK q \in Nat : q = 12 * (k - 1)
    OBVIOUS
  <2>4. q + 12 <= Len(t)
    BY <1>2, <1>4, <2>3
  <2>5. t[q + 1] = c.args[k].pagina /\ t[q + 5] = c.args[k].offset
    <3>1. 1 \in 1..12 /\ 5 \in 1..12
      OBVIOUS
    <3> QED BY <1>2, <1>4, <2>2, <2>3, <3>1 DEF ArgsEnFila
  <2>6. b[o + (q + 1)] = t[q + 1]
    <3>1. PICK j \in Nat : j = q + 1
      OBVIOUS
    <3>2. j >= 1 /\ j <= Len(t)
      BY <1>4, <2>4, <3>1
    <3> QED BY SMTT(30), <1>4, <3>1, <3>2, LlevaEn
  <2>7. b[o + (q + 5)] = t[q + 5]
    <3>1. PICK j \in Nat : j = q + 5
      OBVIOUS
    <3>2. j >= 1 /\ j <= Len(t)
      BY <1>4, <2>4, <3>1
    <3> QED BY <1>4, <3>1, <3>2, LlevaEn
  <2>8. PICK x \in Nat : x = o + q
    OBVIOUS
  <2>9. b[x + 1] = c.args[k].pagina /\ b[x + 5] = c.args[k].offset
    <3>1. x + 1 = o + (q + 1) /\ x + 5 = o + (q + 5)
      BY <2>8
    <3> QED BY <2>5, <2>6, <2>7, <3>1
  <2>10. x + 12 <= AnchoOffset
    BY <1>0, <1>2, <1>4, <2>4, <2>8
  <2>11. LeerPosicion(b, x) = c.args[k]
    BY <2>1, <2>9, <2>10, LeerPosicionEs
  <2> QED BY <2>3, <2>8, <2>11
<1>6. c.args = [k \in 1..n |-> c.args[k]]
  BY <1>1, <1>2
<1> QED BY <1>2, <1>5, <1>6 DEF LeerArgs

LEMMA VarsLeidas ==
  ASSUME NEW c \in Contexto, NEW b, NEW o \in Nat, Lleva(b, o, BytesVars(c)),
         o + 13 * Len(c.vars) <= AnchoOffset
  PROVE  LeerVars(b, o, Len(c.vars)) = c.vars
<1>0. AnchoOffset \in Nat
  BY PcbAssumption
<1>1. c.vars \in Seq(Dato)
  BY DEF Contexto
<1>2. PICK n \in Nat : n = Len(c.vars)
  BY BytesDeVars
<1>3. PICK t : t = BytesVars(c)
  OBVIOUS
<1>4. Lleva(b, o, t) /\ Len(t) = 13 * n /\ Len(t) \in Nat /\ VarsEnFila(t, c)
  BY <1>2, <1>3, BytesDeVars
<1>5. ASSUME NEW k \in 1..n
      PROVE  LeerVariable(b, o + 13 * (k - 1)) = c.vars[k]
  <2>1. c.vars[k] \in Dato
    BY <1>1, <1>2
  <2>2. /\ BytesVariable(c.vars[k])[1] = c.vars[k].id
        /\ BytesVariable(c.vars[k])[2] = c.vars[k].pagina
        /\ BytesVariable(c.vars[k])[6] = c.vars[k].offset
    BY <2>1, BytesDeVariable
  <2>3. PICK q \in Nat : q = 13 * (k - 1)
    OBVIOUS
  <2>4. q + 13 <= Len(t)
    BY <1>2, <1>4, <2>3
  <2>5. /\ t[q + 1] = c.vars[k].id
        /\ t[q + 2] = c.vars[k].pagina /\ t[q + 6] = c.vars[k].offset
    <3>1. 1 \in 1..13 /\ 2 \in 1..13 /\ 6 \in 1..13
      OBVIOUS
    <3> QED BY <1>2, <1>4, <2>2, <2>3, <3>1 DEF VarsEnFila
  <2>6. b[o + (q + 1)] = t[q + 1]
    <3>1. PICK j \in Nat : j = q + 1
      OBVIOUS
    <3>2. j >= 1 /\ j <= Len(t)
      BY <1>4, <2>4, <3>1
    <3> QED BY <1>4, <3>1, <3>2, LlevaEn
  <2>7. b[o + (q + 2)] = t[q + 2]
    <3>1. PICK j \in Nat : j = q + 2
      OBVIOUS
    <3>2. j >= 1 /\ j <= Len(t)
      BY <1>4, <2>4, <3>1
    <3> QED BY <1>4, <3>1, <3>2, LlevaEn
  <2>8. b[o + (q + 6)] = t[q + 6]
    <3>1. PICK j \in Nat : j = q + 6
      OBVIOUS
    <3>2. j >= 1 /\ j <= Len(t)
      BY <1>4, <2>4, <3>1
    <3> QED BY <1>4, <3>1, <3>2, LlevaEn
  <2>9. PICK x \in Nat : x = o + q
    OBVIOUS
  <2>10. /\ b[x + 1] = c.vars[k].id
         /\ b[x + 2] = c.vars[k].pagina /\ b[x + 6] = c.vars[k].offset
    <3>1. x + 1 = o + (q + 1) /\ x + 2 = o + (q + 2) /\ x + 6 = o + (q + 6)
      BY <2>9
    <3> QED BY <2>5, <2>6, <2>7, <2>8, <3>1
  <2>11. x + 13 <= AnchoOffset
    BY <1>0, <1>2, <1>4, <2>4, <2>9
  <2>12. LeerVariable(b, x) = c.vars[k]
    BY <2>1, <2>10, <2>11, LeerVariableEs
  <2> QED BY <2>3, <2>9, <2>12
<1>6. c.vars = [k \in 1..n |-> c.vars[k]]
  BY <1>1, <1>2
<1> QED BY <1>2, <1>5, <1>6 DEF LeerVars

\* A context that is in the buffer from byte o, all of it where the offset can
\* reach, is read as it was, and the next one is looked for where it ends.
LEMMA LeerUnContexto ==
  ASSUME NEW c \in Contexto, NEW b, NEW o \in Nat, Lleva(b, o, BytesContexto(c)),
         o + Len(BytesContexto(c)) <= AnchoOffset
  PROVE  LeerContexto(b)[o] = [contexto |-> c, fin |-> o + Len(BytesContexto(c))]
<1>0. AnchoOffset \in Nat
  BY PcbAssumption
<1>1. PICK t : t = BytesContexto(c)
  OBVIOUS
<1>2. EsDe(t, c) /\ Lleva(b, o, t) /\ o + Len(t) <= AnchoOffset
  BY <1>1, BytesDeContexto
<1>3. PICK na \in Nat, nv \in Nat : na = Len(c.args) /\ nv = Len(c.vars)
  BY BytesDeArgs, BytesDeVars
<1>4. PICK ta \in Nat, tv \in Nat :
        /\ ta = TrasArgs(c) /\ tv = TrasVars(c)
        /\ ta = 8 + 12 * na /\ tv = ta + 4 + 13 * nv
  <2>1. TrasArgs(c) = 8 + 12 * na
    BY <1>3 DEF TrasArgs
  <2>2. TrasVars(c) = TrasArgs(c) + 4 + 13 * nv
    BY <1>3 DEF TrasVars
  <2> QED BY <2>1, <2>2
<1>5. PICK r : r = BytesRet(c) /\ Len(r) \in Nat /\ Len(r) >= 4
  <2>1. Len(BytesRet(c)) \in {4, 16}
    BY BytesDeRet
  <2>2. PICK m : m = Len(BytesRet(c)) /\ m \in {4, 16}
    BY <2>1
  <2>3. m \in Nat /\ m >= 4
    BY <2>2
  <2> QED BY <2>2, <2>3
<1>6. Len(t) = tv + 4 + Len(r) /\ Len(t) \in Nat
  BY <1>2, <1>4, <1>5 DEF EsDe
<1>7. Leido(b, o + 4) = na
  <2>1. PICK e : e = Entero(na) /\ Len(e) = 4 /\ e[1] = na
    BY EnteroEsByte
  <2>2. Lleva(t, 4, e)
    BY <1>2, <1>3, <2>1 DEF EsDe
  <2>3. t[4 + 1] = e[1]
    BY <2>1, <2>2 DEF Lleva
  <2>4. b[o + 5] = t[5]
    BY <1>2, <1>4, <1>5, <1>6, LlevaEn
  <2>5. o + 4 \in Nat /\ o + 4 < AnchoOffset /\ (o + 4) + 1 = o + 5
    BY <1>0, <1>2, <1>4, <1>5, <1>6
  <2> QED BY <2>1, <2>3, <2>4, <2>5, LeidoEs
<1>8. LeerArgs(b, o + 8, na) = c.args
  <2>1. Len(BytesArgs(c)) = 12 * na /\ Len(BytesArgs(c)) \in Nat
    BY <1>3, BytesDeArgs
  <2>2. Lleva(t, 8, BytesArgs(c))
    BY <1>2 DEF EsDe
  <2>3. 8 + Len(BytesArgs(c)) <= Len(t)
    BY <1>4, <1>5, <1>6, <2>1
  <2>4. Lleva(b, o + 8, BytesArgs(c))
    BY <1>2, <1>6, <2>1, <2>2, <2>3, LlevaDentro
  <2>5. (o + 8) + 12 * na <= AnchoOffset /\ o + 8 \in Nat
    BY <1>0, <1>2, <1>6, <2>1, <2>3
  <2> QED BY <1>3, <2>4, <2>5, ArgsLeidos
<1>9. Leido(b, o + ta) = nv
  <2>1. PICK e : e = Entero(nv) /\ Len(e) = 4 /\ e[1] = nv
    BY EnteroEsByte
  <2>2. Lleva(t, ta, e)
    BY <1>2, <1>3, <1>4, <2>1 DEF EsDe
  <2>3. t[ta + 1] = e[1]
    BY <2>1, <2>2 DEF Lleva
  <2>4. b[o + (ta + 1)] = t[ta + 1]
    <3>1. PICK j \in Nat : j = ta + 1
      OBVIOUS
    <3>2. j >= 1 /\ j <= Len(t)
      BY <1>4, <1>5, <1>6, <3>1
    <3> QED BY SMTT(30), <1>2, <1>6, <3>1, <3>2, LlevaEn
  <2>5. PICK x \in Nat : x = o + ta
    OBVIOUS
  <2>6. x < AnchoOffset /\ x + 1 = o + (ta + 1)
    BY <1>0, <1>2, <1>4, <1>5, <1>6, <2>5
  <2>7. Leido(b, x) = b[x + 1]
    BY <2>6, LeidoEs
  <2> QED BY <2>1, <2>3, <2>4, <2>5, <2>6, <2>7
<1>10. LeerVars(b, o + ta + 4, nv) = c.vars
  <2>1. Len(BytesVars(c)) = 13 * nv /\ Len(BytesVars(c)) \in Nat
    BY <1>3, BytesDeVars
  <2>2. Lleva(t, ta + 4, BytesVars(c))
    BY <1>2, <1>4 DEF EsDe
  <2>3. PICK q \in Nat : q = ta + 4
    OBVIOUS
  <2>4. q + Len(BytesVars(c)) <= Len(t)
    BY <1>4, <1>5, <1>6, <2>1, <2>3
  <2>5. Lleva(b, o + q, BytesVars(c))
    BY <1>2, <1>6, <2>1, <2>2, <2>3, <2>4, LlevaDentro
  <2>6. (o + q) + 13 * nv <= AnchoOffset /\ o + q \in Nat
    BY <1>0, <1>2, <1>6, <2>1, <2>4
  <2>7. LeerVars(b, o + q, nv) = c.vars
    BY <1>3, <2>5, <2>6, VarsLeidas
  <2>8. o + ta + 4 = o + q
    BY <2>3
  <2> QED BY <2>7, <2>8
<1>11. Leido(b, o + tv) = c.dir
  <2>0. c.dir \in Int
    BY CpuAssumption DEF Contexto
  <2>1. PICK e : e = Entero(c.dir) /\ Len(e) = 4 /\ e[1] = c.dir
    BY <2>0, EnteroEsByte
  <2>2. Lleva(t, tv, e)
    BY <1>2, <1>4, <2>1 DEF EsDe
  <2>3. t[tv + 1] = e[1]
    BY <2>1, <2>2 DEF Lleva
  <2>4. b[o + (tv + 1)] = t[tv + 1]
    <3>1. PICK j \in Nat : j = tv + 1
      OBVIOUS
    <3>2. j >= 1 /\ j <= Len(t)
      BY <1>5, <1>6, <3>1
    <3> QED BY <1>2, <1>6, <3>1, <3>2, LlevaEn
  <2>5. PICK x \in Nat : x = o + tv
    OBVIOUS
  <2>6. x < AnchoOffset /\ x + 1 = o + (tv + 1)
    BY <1>0, <1>2, <1>5, <1>6, <2>5
  <2>7. Leido(b, x) = b[x + 1]
    BY <2>6, LeidoEs
  <2> QED BY <2>1, <2>3, <2>4, <2>5, <2>6, <2>7
<1>12. Lleva(b, o + (tv + 4), r)
  <2>1. Lleva(t, tv + 4, r)
    BY <1>2, <1>4, <1>5 DEF EsDe
  <2>2. PICK q \in Nat : q = tv + 4
    OBVIOUS
  <2>3. q + Len(r) <= Len(t)
    BY <1>5, <1>6, <2>2
  <2> QED BY <1>2, <1>5, <1>6, <2>1, <2>2, <2>3, LlevaDentro
<1>13. PICK x \in Nat : x = o + tv /\ x + Len(r) + 4 <= AnchoOffset /\ o + (tv + 4) = x + 4
  <2>1. PICK x \in Nat : x = o + tv
    OBVIOUS
  <2>2. x + Len(r) + 4 <= AnchoOffset /\ o + (tv + 4) = x + 4
    BY <1>0, <1>2, <1>5, <1>6, <2>1
  <2> QED BY <2>1, <2>2
<1>14. Leido(b, x + 4) = r[1]
  <2>1. b[(x + 4) + 1] = r[1]
    BY <1>5, <1>12, <1>13 DEF Lleva
  <2>2. x + 4 \in Nat /\ x + 4 < AnchoOffset
    BY <1>0, <1>5, <1>13
  <2> QED BY <2>1, <2>2, LeidoEs
<1>15. c.ret # Nulo => LeerPosicion(b, x + 8) = c.ret
  <2>1. SUFFICES ASSUME c.ret # Nulo PROVE LeerPosicion(b, x + 8) = c.ret
    OBVIOUS
  <2>2. Len(r) = 16 /\ r[5] = c.ret.pagina /\ r[9] = c.ret.offset
    BY <1>5, <2>1, BytesDeRet
  <2>3. c.ret \in Posiciones
    BY <2>1 DEF Contexto
  <2>4. b[(x + 4) + 5] = r[5] /\ b[(x + 4) + 9] = r[9]
    <3>1. 5 \in 1..Len(r) /\ 9 \in 1..Len(r)
      BY <2>2
    <3> QED BY <1>12, <1>13, <3>1 DEF Lleva
  <2>5. PICK y \in Nat : y = x + 8
    OBVIOUS
  <2>6. y + 1 = (x + 4) + 5 /\ y + 5 = (x + 4) + 9 /\ y + 12 <= AnchoOffset
    BY <1>0, <1>13, <2>2, <2>5
  <2>7. b[y + 1] = c.ret.pagina /\ b[y + 5] = c.ret.offset
    BY <2>2, <2>4, <2>6
  <2>8. LeerPosicion(b, y) = c.ret
    BY <2>3, <2>6, <2>7, LeerPosicionEs
  <2> QED BY <2>5, <2>8
<1>16. (r[1] # 0) <=> (c.ret # Nulo)
  BY <1>5, BytesDeRet
<1>17. Len(t) = tv + 8 + (IF c.ret # Nulo THEN 12 ELSE 0)
  <2>1. CASE c.ret = Nulo
    <3>1. Len(r) = 4
      BY <1>5, <2>1, BytesDeRet
    <3> QED BY <1>6, <2>1, <3>1
  <2>2. CASE c.ret # Nulo
    <3>1. Len(r) = 16
      BY <1>5, <2>2, BytesDeRet
    <3> QED BY <1>6, <2>2, <3>1
  <2> QED BY <2>1, <2>2
<1>18. PICK v : v = o + ta + 4 /\ v = (o + 8) + 12 * na + 4 /\ v - 4 = o + ta /\ v + 13 * nv = x
  BY <1>4, <1>13
<1>19. PICK f : /\ f = x + 8 + (IF r[1] # 0 THEN 12 ELSE 0) /\ f = o + Len(t)
  BY <1>13, <1>16, <1>17
<1>20. LeerContexto(b)[o] =
         [contexto |-> [args |-> LeerArgs(b, o + 8, na), vars |-> LeerVars(b, v, nv),
                        dir |-> Leido(b, x),
                        ret |-> IF r[1] # 0 THEN LeerPosicion(b, x + 8) ELSE Nulo],
          fin |-> x + 8 + (IF r[1] # 0 THEN 12 ELSE 0)]
  BY <1>7, <1>9, <1>14, <1>18 DEF LeerContexto
<1>21. c = [args |-> c.args, vars |-> c.vars, dir |-> c.dir, ret |-> c.ret]
  BY DEF Contexto
<1>22. Leido(b, x) = c.dir /\ LeerVars(b, v, nv) = c.vars
  BY <1>10, <1>11, <1>13, <1>18
<1>23. (IF r[1] # 0 THEN LeerPosicion(b, x + 8) ELSE Nulo) = c.ret
  BY <1>15, <1>16
<1>24. o + Len(BytesContexto(c)) = f
  BY <1>1, <1>19
<1> QED BY <1>8, <1>19, <1>20, <1>21, <1>22, <1>23, <1>24

-----------------------------------------------------------------------------
(* The whole stack index, there and back.                                  *)

BytesDePila(pila) == [k \in DOMAIN pila |-> BytesContexto(pila[k])]
\* Where the first k contexts end.
FinDe(pila, k) == 4 + Len(Hasta(BytesDePila(pila), k))

\* Every context is in the buffer, from where the one before it ends.
LEMMA PilaEnBytes ==
  ASSUME NEW pila \in Seq(Contexto), NEW b, b = SerializarIndiceStack(pila)
  PROVE  /\ Len(b) \in Nat /\ Len(b) >= 4 /\ b[1] = Len(pila)
         /\ FinDe(pila, 0) = 4
         /\ \A k \in 1..Len(pila) :
              /\ FinDe(pila, k - 1) \in Nat
              /\ Lleva(b, FinDe(pila, k - 1), BytesContexto(pila[k]))
              /\ FinDe(pila, k) = FinDe(pila, k - 1) + Len(BytesContexto(pila[k]))
              /\ FinDe(pila, k) <= Len(b)
<1>1. PICK n \in Nat : n = Len(pila) /\ DOMAIN pila = 1..n
  OBVIOUS
<1>2. PICK s : s = BytesDePila(pila)
  OBVIOUS
<1>3. \A k \in 1..n : BytesContexto(pila[k]) \in Seq(Byte)
  <2>1. \A k \in 1..n : pila[k] \in Contexto
    BY <1>1
  <2> QED BY <2>1, BytesDeContexto DEF EsDe
<1>4. s = [k \in 1..n |-> BytesContexto(pila[k])]
  BY <1>1, <1>2 DEF BytesDePila
<1>5. s \in Seq(Seq(Byte)) /\ Len(s) = n /\ \A k \in 1..n : s[k] = BytesContexto(pila[k])
  BY <1>3, <1>4
<1>6. PICK t \in Seq(Byte) : t = FlattenSeq(s)
  <2>1. n \in 0..Len(s)
    BY <1>5
  <2>2. Hasta(s, n) \in Seq(Byte) /\ Hasta(s, n) = FlattenSeq(s)
    BY <1>5, <2>1, HastaTipo, HastaTodo
  <2> QED BY <2>2
<1>7. PICK e \in Seq(Byte) : e = Entero(n) /\ Len(e) = 4 /\ e[1] = n
  BY EnteroEsByte
<1>8. PICK x \in Seq(Byte) : x = e \o t /\ Junta(x, e, t)
  BY Juntar
<1>9. b = x
  BY <1>1, <1>2, <1>6, <1>7, <1>8 DEF SerializarIndiceStack, BytesDePila
<1>10. Len(x) = 4 + Len(t) /\ Len(t) \in Nat
  BY <1>7, <1>8 DEF Junta
<1>11. x[1] = n
  <2>1. 1 \in 1..Len(e)
    BY <1>7
  <2> QED BY <1>7, <1>8, <2>1 DEF Junta
<1>12. Lleva(x, 4, t)
  BY <1>7, <1>8, JuntaLleva
<1>13. FinDe(pila, 0) = 4
  <2>1. Len(<< >>) = 0
    OBVIOUS
  <2> QED BY <2>1, HastaNada DEF FinDe
<1>14. ASSUME NEW k \in 1..n
       PROVE  /\ FinDe(pila, k - 1) \in Nat
              /\ Lleva(x, FinDe(pila, k - 1), s[k])
              /\ FinDe(pila, k) = FinDe(pila, k - 1) + Len(s[k])
              /\ FinDe(pila, k) <= Len(x)
  <2>1. PICK a \in Nat : a = k - 1 /\ a + 1 = k /\ a < Len(s)
    BY <1>5
  <2>2. PICK h : h = Len(Hasta(s, a))
    OBVIOUS
  <2>3. PICK w : w = s[k]
    OBVIOUS
  <2>4. /\ h \in Nat /\ Len(w) \in Nat /\ h + Len(w) <= Len(t)
        /\ \A j \in 1..Len(w) : t[h + j] = w[j]
    <3>1. /\ Len(Hasta(s, a)) \in Nat /\ Len(s[a + 1]) \in Nat
          /\ Len(Hasta(s, a)) + Len(s[a + 1]) <= Len(FlattenSeq(s))
          /\ Lleva(FlattenSeq(s), Len(Hasta(s, a)), s[a + 1])
      BY ZenonT(40), <1>5, <2>1, AplanarParte DEF Lleva
    <3>2. s[a + 1] = w
      BY <2>1, <2>3
    <3> QED BY <1>6, <2>2, <3>1, <3>2 DEF Lleva
  <2>5. Len(Hasta(s, k)) = h + Len(w)
    <3>1. Len(Hasta(s, a + 1)) = Len(Hasta(s, a)) + Len(s[a + 1])
      BY <1>5, <2>1, HastaLargo
    <3> QED BY <2>1, <2>2, <2>3, <3>1
  <2>6. Lleva(t, h, w)
    BY <2>4 DEF Lleva
  <2>7. Lleva(x, 4 + h, w)
    BY <1>10, <1>12, <2>4, <2>6, LlevaDentro
  <2>8. FinDe(pila, a) = 4 + h
    BY <1>2, <2>2 DEF FinDe
  <2>9. FinDe(pila, k) = 4 + (h + Len(w))
    BY <1>2, <2>5 DEF FinDe
  <2>10. FinDe(pila, a) \in Nat /\ FinDe(pila, k) = FinDe(pila, a) + Len(w) /\ FinDe(pila, k) <= Len(x)
    BY <1>10, <2>4, <2>8, <2>9
  <2> QED BY <2>1, <2>3, <2>7, <2>8, <2>10
<1>15. Len(x) \in Nat /\ Len(x) >= 4
  BY <1>10
<1> QED BY <1>1, <1>5, <1>9, <1>11, <1>13, <1>14, <1>15

\* f is what the reader has after each of the n contexts.
Leidos(b, n, f) == f = [k \in 1..n |-> LeerContexto(b)[IF k = 1 THEN 4 ELSE f[k - 1].fin]]

LEMMA ItemLeido ==
  ASSUME NEW pila \in Seq(Contexto), NEW b, b = SerializarIndiceStack(pila), Cabe(b),
         NEW k \in 1..Len(pila)
  PROVE  LeerContexto(b)[FinDe(pila, k - 1)] = [contexto |-> pila[k], fin |-> FinDe(pila, k)]
<1>1. PICK c \in Contexto : c = pila[k]
  OBVIOUS
<1>2. PICK o \in Nat : o = FinDe(pila, k - 1)
  BY PilaEnBytes
<1>3. /\ Lleva(b, o, BytesContexto(c)) /\ FinDe(pila, k) = o + Len(BytesContexto(c))
      /\ FinDe(pila, k) <= Len(b) /\ Len(b) \in Nat
  BY <1>1, <1>2, PilaEnBytes
<1>4. Len(BytesContexto(c)) \in Nat
  BY BytesDeContexto DEF EsDe
<1>5. o + Len(BytesContexto(c)) <= AnchoOffset
  BY <1>3, <1>4, PcbAssumption DEF Cabe
<1>6. LeerContexto(b)[o] = [contexto |-> c, fin |-> o + Len(BytesContexto(c))]
  BY <1>3, <1>5, LeerUnContexto
<1> QED BY <1>1, <1>2, <1>3, <1>6

\* A stack that fits in the offset of the reader comes back as it was.
THEOREM IdaYVuelta ==
  ASSUME NEW pila \in Seq(Contexto), Cabe(SerializarIndiceStack(pila))
  PROVE  DeserializarIndiceStack(SerializarIndiceStack(pila)) = pila
<1>1. PICK b : b = SerializarIndiceStack(pila)
  OBVIOUS
<1>2. Cabe(b) /\ Len(b) \in Nat /\ Len(b) >= 4 /\ b[1] = Len(pila) /\ FinDe(pila, 0) = 4
  BY <1>1, PilaEnBytes
<1>3. PICK n \in Nat : n = Len(pila)
  OBVIOUS
<1>4. Leido(b, 0) = n
  <2>1. 0 < AnchoOffset
    BY PcbAssumption
  <2>2. Leido(b, 0) = b[0 + 1]
    BY <2>1, LeidoEs
  <2> QED BY <1>2, <1>3, <2>2
<1> DEFINE Item(k) == [contexto |-> pila[k], fin |-> FinDe(pila, k)]
<1>5. \A k \in 1..n : LeerContexto(b)[FinDe(pila, k - 1)] = Item(k)
  BY <1>1, <1>2, <1>3, ItemLeido
<1>6. Leidos(b, n, [k \in 1..n |-> Item(k)])
  <2> DEFINE f == [k \in 1..n |-> Item(k)]
  <2>1. ASSUME NEW k \in 1..n
        PROVE  (IF k = 1 THEN 4 ELSE f[k - 1].fin) = FinDe(pila, k - 1)
    <3>1. CASE k = 1
      BY <1>2, <3>1
    <3>2. CASE k # 1
      <4>1. k - 1 \in 1..n
        BY <3>2
      <4>2. f[k - 1] = Item(k - 1)
        BY <4>1
      <4> QED BY <3>2, <4>2
    <3> QED BY <3>1, <3>2
  <2>2. \A k \in 1..n : f[k] = LeerContexto(b)[IF k = 1 THEN 4 ELSE f[k - 1].fin]
    BY <1>5, <2>1
  <2>3. f = [k \in 1..n |-> f[k]]
    OBVIOUS
  <2> HIDE DEF f, Item
  <2>4. f = [k \in 1..n |-> LeerContexto(b)[IF k = 1 THEN 4 ELSE f[k - 1].fin]]
    BY <2>2, <2>3
  <2> QED BY <2>4 DEF Leidos, f
<1> DEFINE item == CHOOSE f : Leidos(b, Leido(b, 0), f)
<1>7. DeserializarIndiceStack(b) = [k \in 1..Leido(b, 0) |-> item[k].contexto]
  BY DEF DeserializarIndiceStack, Leidos
<1>8. Leidos(b, n, item)
  BY <1>4, <1>6
<1> HIDE DEF item
<1>9. \A k \in 1..n : item[k] = Item(k)
  <2> DEFINE Malos == {k \in 1..n : item[k] # Item(k)}
  <2>1. SUFFICES ASSUME Malos # {} PROVE FALSE
    OBVIOUS
  <2>2. PICK k \in Malos : \A j \in Malos : k <= j
    <3>1. Malos \subseteq Nat
      OBVIOUS
    <3> HIDE DEF Malos
    <3> QED BY <2>1, <3>1, HayPrimero
  <2>3. k \in 1..n /\ item[k] # Item(k)
    BY <2>2
  <2>4. item[k] = LeerContexto(b)[IF k = 1 THEN 4 ELSE item[k - 1].fin]
    BY <1>8, <2>3 DEF Leidos
  <2>5. (IF k = 1 THEN 4 ELSE item[k - 1].fin) = FinDe(pila, k - 1)
    <3>1. CASE k = 1
      BY <1>2, <3>1
    <3>2. CASE k # 1
      <4>1. k - 1 \in 1..n /\ k - 1 \notin Malos
        BY <2>2, <2>3, <3>2
      <4>2. item[k - 1] = Item(k - 1)
        BY <4>1
      <4> QED BY <3>2, <4>2
    <3> QED BY <3>1, <3>2
  <2> QED BY <1>5, <2>3, <2>4, <2>5
<1>10. pila = [k \in 1..n |-> pila[k]]
  BY <1>3
<1>11. ASSUME NEW k \in 1..n PROVE item[k].contexto = pila[k]
  <2>1. item[k] = Item(k)
    BY <1>9
  <2> QED BY <2>1
<1> QED BY <1>1, <1>4, <1>7, <1>10, <1>11

-----------------------------------------------------------------------------
(* The data of the stack.                                                  *)

LEMMA DatosDeContexto ==
  ASSUME NEW c \in Contexto
  PROVE  DatosDe(c) \in Seq(Int) /\ Datos(c) \in Nat /\ Len(DatosDe(c)) = Datos(c)
<1>1. c.args \in Seq(Posiciones) /\ c.vars \in Seq(Dato)
  BY DEF Contexto
<1>2. \A p \in Posiciones : Direccion(p) \in Int
  BY CpuAssumption DEF Posiciones, Direccion
<1>3. \A p \in Dato : Direccion(p) \in Int
  BY CpuAssumption DEF Dato, Direccion
<1>4. PICK a \in Seq(Int) : a = [k \in DOMAIN c.args |-> Direccion(c.args[k])] /\ Len(a) = Len(c.args)
  <2>1. \A k \in DOMAIN c.args : Direccion(c.args[k]) \in Int
    BY <1>1, <1>2
  <2>2. DOMAIN c.args = 1..Len(c.args) /\ Len(c.args) \in Nat
    BY <1>1
  <2>3. PICK n \in Nat : n = Len(c.args)
    BY <2>2
  <2>4. PICK a : a = [k \in 1..n |-> Direccion(c.args[k])]
    OBVIOUS
  <2>5. a \in Seq(Int) /\ Len(a) = n
    BY <2>1, <2>2, <2>3, <2>4
  <2> QED BY <2>2, <2>3, <2>4, <2>5
<1>5. PICK b \in Seq(Int) : b = [k \in DOMAIN c.vars |-> Direccion(c.vars[k])] /\ Len(b) = Len(c.vars)
  <2>1. \A k \in DOMAIN c.vars : Direccion(c.vars[k]) \in Int
    BY <1>1, <1>3
  <2>2. DOMAIN c.vars = 1..Len(c.vars) /\ Len(c.vars) \in Nat
    BY <1>1
  <2>3. PICK n \in Nat : n = Len(c.vars)
    BY <2>2
  <2>4. PICK b : b = [k \in 1..n |-> Direccion(c.vars[k])]
    OBVIOUS
  <2>5. b \in Seq(Int) /\ Len(b) = n
    BY <2>1, <2>2, <2>3, <2>4
  <2> QED BY <2>2, <2>3, <2>4, <2>5
<1>6. DatosDe(c) = a \o b
  BY <1>4, <1>5 DEF DatosDe
<1>7. a \o b \in Seq(Int) /\ Len(a \o b) = Len(a) + Len(b) /\ Len(a) \in Nat /\ Len(b) \in Nat
  OBVIOUS
<1>8. Datos(c) = Len(a) + Len(b)
  BY <1>4, <1>5 DEF Datos
<1> QED BY <1>6, <1>7, <1>8

LEMMA DatosVacia == DatosDePila(<< >>) = << >>
<1>1. [k \in DOMAIN << >> |-> DatosDe(<< >>[k])] = << >>
  OBVIOUS
<1> QED BY <1>1 DEF DatosDePila, FlattenSeq

LEMMA DatosMas ==
  ASSUME NEW r \in Seq(Contexto), NEW c \in Contexto
  PROVE  DatosDePila(Append(r, c)) = DatosDePila(r) \o DatosDe(c)
<1>1. PICK s : s = [k \in DOMAIN r |-> DatosDe(r[k])]
  OBVIOUS
<1>2. \A k \in 1..Len(r) : r[k] \in Contexto
  OBVIOUS
<1>3. s \in Seq(Seq(Int))
  <2>1. \A k \in 1..Len(r) : DatosDe(r[k]) \in Seq(Int)
    BY <1>2, DatosDeContexto
  <2>2. DOMAIN r = 1..Len(r) /\ Len(r) \in Nat
    OBVIOUS
  <2> QED BY <1>1, <2>1, <2>2
<1>4. PICK t : t = Append(r, c)
  OBVIOUS
<1>5. [k \in DOMAIN t |-> DatosDe(t[k])] = Append(s, DatosDe(c))
  <2>1. /\ DOMAIN t = 1..(Len(r) + 1) /\ Len(r) \in Nat /\ DOMAIN r = 1..Len(r)
        /\ \A k \in 1..Len(r) : t[k] = r[k]
        /\ t[Len(r) + 1] = c
    BY <1>4
  <2>2. /\ Len(s) = Len(r) /\ \A k \in 1..Len(r) : s[k] = DatosDe(r[k])
    BY <1>1, <2>1
  <2>3. PICK x : x = DatosDe(c)
    OBVIOUS
  <2>4. PICK u \in Seq(Seq(Int)) : /\ u = Append(s, x) /\ Len(u) = Len(r) + 1
                                   /\ \A k \in 1..(Len(r) + 1) : u[k] = IF k = Len(r) + 1 THEN x ELSE s[k]
    <3>1. x \in Seq(Int)
      BY <2>3, DatosDeContexto
    <3>2. /\ Append(s, x) \in Seq(Seq(Int)) /\ Len(Append(s, x)) = Len(s) + 1
          /\ \A k \in 1..Len(s) : Append(s, x)[k] = s[k]
          /\ Append(s, x)[Len(s) + 1] = x
      BY <1>3, <3>1, AppendProperties
    <3>3. \A k \in 1..(Len(r) + 1) : k = Len(r) + 1 \/ k \in 1..Len(r)
      BY <2>1
    <3> QED BY <2>2, <3>2, <3>3
  <2>5. \A k \in 1..(Len(r) + 1) : DatosDe(t[k]) = u[k]
    <3>1. \A k \in 1..(Len(r) + 1) : k = Len(r) + 1 \/ (k # Len(r) + 1 /\ k \in 1..Len(r))
      BY <2>1
    <3> QED BY <2>1, <2>2, <2>3, <2>4, <3>1
  <2>6. u = [k \in 1..(Len(r) + 1) |-> u[k]]
    <3>1. u \in [1..Len(u) -> Seq(Int)]
      BY LenProperties
    <3> QED BY <2>4, <3>1
  <2> QED BY <2>1, <2>3, <2>4, <2>5, <2>6
<1>6. FlattenSeq(Append(s, DatosDe(c))) = FlattenSeq(s) \o DatosDe(c)
  BY <1>3, DatosDeContexto, AplanarUno
<1> QED BY <1>1, <1>4, <1>5, <1>6 DEF DatosDePila

LEMMA DatosTipo ==
  ASSUME NEW pila \in Seq(Contexto)
  PROVE  DatosDePila(pila) \in Seq(Int)
<1>1. PICK s : s = [k \in DOMAIN pila |-> DatosDe(pila[k])]
  OBVIOUS
<1>2. s \in Seq(Seq(Int))
  <2>1. \A k \in 1..Len(pila) : DatosDe(pila[k]) \in Seq(Int)
    BY DatosDeContexto
  <2>2. DOMAIN pila = 1..Len(pila) /\ Len(pila) \in Nat
    OBVIOUS
  <2> QED BY <1>1, <2>1, <2>2
<1>3. Len(s) \in 0..Len(s)
  BY <1>2
<1>4. Hasta(s, Len(s)) \in Seq(Int) /\ Hasta(s, Len(s)) = FlattenSeq(s)
  BY <1>2, <1>3, HastaTipo, HastaTodo
<1> QED BY <1>1, <1>4 DEF DatosDePila

\* A stack that is not empty is its last context after the others.
LEMMA PilaPartida ==
  ASSUME NEW pila \in Seq(Contexto), pila # << >>
  PROVE  /\ Len(pila) \in Nat \ {0} /\ Front(pila) \in Seq(Contexto) /\ Last(pila) \in Contexto
         /\ pila = Append(Front(pila), Last(pila)) /\ Len(Front(pila)) = Len(pila) - 1
<1>1. Len(pila) \in Nat \ {0}
  OBVIOUS
<1>2. Front(pila) \in Seq(Contexto) /\ Len(Front(pila)) = Len(pila) - 1
  <2>0. PICK l \in Nat : l = Len(pila) /\ l # 0
    BY <1>1
  <2>1. PICK m \in Nat : m = Len(pila) - 1 /\ m < Len(pila)
    <3>1. l - 1 \in Nat /\ l - 1 < l
      BY <2>0
    <3> QED BY <2>0, <3>1
  <2>2. \A k \in 1..m : pila[k] \in Contexto
    BY <2>1
  <2>3. SubSeq(pila, 1, m) \in Seq(Contexto) /\ Len(SubSeq(pila, 1, m)) = m
    BY <2>1, <2>2
  <2> QED BY <2>1, <2>3 DEF Front
<1>3. Last(pila) \in Contexto
  BY <1>1 DEF Last
<1>4. pila = Append(Front(pila), Last(pila))
  BY <1>1 DEF Front, Last
<1> QED BY <1>1, <1>2, <1>3, <1>4

LEMMA DondeVa ==
  ASSUME NEW sp \in Nat
  PROVE  ((sp \div tamanioPagina) + cantPaginasCodigo) * tamanioPagina + (sp % tamanioPagina) = Base + sp
<1>1. PICK q \in Nat, m \in Nat : /\ q = sp \div tamanioPagina /\ m = sp % tamanioPagina
                                   /\ sp = tamanioPagina * q + m
  BY CpuAssumption
<1>2. PICK T \in Nat : T = tamanioPagina
  BY CpuAssumption
<1>3. PICK C \in Nat : C = cantPaginasCodigo
  BY CpuAssumption
<1>4. (q + C) * T + m = C * T + sp
  BY <1>1, <1>2
<1> QED BY <1>1, <1>2, <1>3, <1>4 DEF Base

-----------------------------------------------------------------------------
(* What every PCB keeps.                                                   *)

PCB == [pc : Int, sp : Nat, pila : Seq(Contexto)]

\* The data d fill the stack up to sp, one after another.
Llena(d, sp) ==
  /\ sp = TAMANIO_VARIABLE * Len(d) /\ sp <= LimiteStack
  /\ \A k \in DOMAIN d : d[k] = Base + TAMANIO_VARIABLE * (k - 1)

\* The place ret is nowhere or one of the data d.
EsDato(ret, d) == ret \in {Nulo, Ninguna} \/ \E j \in DOMAIN d : d[j] = Direccion(ret)

RetornosDe(pila) ==
  \A k \in DOMAIN pila : EsDato(pila[k].ret, DatosDePila(SubSeq(pila, 1, k - 1)))

PcbBien(p) ==
  p \in PCB /\ Llena(DatosDePila(p.pila), p.sp) /\ RetornosDe(p.pila)

LEMMA RetornosMas ==
  ASSUME NEW r \in Seq(Contexto), NEW c \in Contexto
  PROVE  RetornosDe(Append(r, c)) <=> RetornosDe(r) /\ EsDato(c.ret, DatosDePila(r))
<1>1. PICK n \in Nat : n = Len(r) /\ DOMAIN r = 1..n
  OBVIOUS
<1>2. PICK t \in Seq(Contexto) : /\ t = Append(r, c) /\ DOMAIN t = 1..(n + 1)
                                 /\ t[n + 1] = c /\ \A k \in 1..n : t[k] = r[k]
  <2>1. /\ Append(r, c) \in Seq(Contexto) /\ DOMAIN Append(r, c) = 1..(n + 1)
        /\ Append(r, c)[n + 1] = c /\ \A k \in 1..n : Append(r, c)[k] = r[k]
    BY <1>1
  <2> QED BY <2>1
<1>3. ASSUME NEW k \in 1..(n + 1)
      PROVE  SubSeq(t, 1, k - 1) = SubSeq(r, 1, k - 1)
  <2>1. PICK m \in Nat : m = k - 1 /\ m <= n
    <3>1. k - 1 \in Nat /\ k - 1 <= n
      OBVIOUS
    <3> QED BY <3>1
  <2>2. \A j \in 1..m : t[j] = r[j] /\ r[j] \in Contexto /\ t[j] \in Contexto
    BY <1>1, <1>2, <2>1
  <2>3. /\ SubSeq(t, 1, m) \in Seq(Contexto) /\ Len(SubSeq(t, 1, m)) = m
        /\ \A j \in 1..m : SubSeq(t, 1, m)[j] = t[j]
    BY <1>1, <1>2, <2>1, <2>2
  <2>4. /\ SubSeq(r, 1, m) \in Seq(Contexto) /\ Len(SubSeq(r, 1, m)) = m
        /\ \A j \in 1..m : SubSeq(r, 1, m)[j] = r[j]
    BY <1>1, <2>1, <2>2
  <2> QED BY <2>1, <2>2, <2>3, <2>4, SeqEqual
<1>4. SubSeq(t, 1, (n + 1) - 1) = r
  <2>1. SubSeq(r, 1, n) = r
    BY <1>1
  <2>2. n + 1 \in 1..(n + 1) /\ (n + 1) - 1 = n
    OBVIOUS
  <2>3. SubSeq(t, 1, (n + 1) - 1) = SubSeq(r, 1, (n + 1) - 1)
    BY <1>3, <2>2
  <2> QED BY <2>1, <2>2, <2>3
<1> DEFINE E(k) == EsDato(t[k].ret, DatosDePila(SubSeq(t, 1, k - 1)))
<1>5. ASSUME NEW k \in 1..n
      PROVE  E(k) <=> EsDato(r[k].ret, DatosDePila(SubSeq(r, 1, k - 1)))
  <2>1. k \in 1..(n + 1) /\ t[k] = r[k]
    BY <1>2
  <2> QED BY <1>3, <2>1
<1>6. E(n + 1) <=> EsDato(c.ret, DatosDePila(r))
  BY <1>2, <1>4
<1>7. RetornosDe(t) <=> \A k \in 1..(n + 1) : E(k)
  BY <1>2 DEF RetornosDe
<1>8. RetornosDe(r) <=> \A k \in 1..n : E(k)
  BY <1>1, <1>5 DEF RetornosDe
<1> HIDE DEF E
<1>9. \A k \in 1..(n + 1) : k = n + 1 \/ k \in 1..n
  OBVIOUS
<1>10. n + 1 \in 1..(n + 1) /\ \A k \in 1..n : k \in 1..(n + 1)
  OBVIOUS
<1>11. (\A k \in 1..(n + 1) : E(k)) <=> (\A k \in 1..n : E(k)) /\ E(n + 1)
  BY <1>9, <1>10
<1> QED BY <1>2, <1>6, <1>7, <1>8, <1>11

\* One datum more, in the context on top.
LEMMA AgregaDato ==
  ASSUME NEW p, PcbBien(p), NEW r \in Seq(Contexto), NEW c \in Contexto, p.pila = Append(r, c),
         NEW f \in Contexto, f.ret = c.ret, DatosDe(f) = Append(DatosDe(c), Base + p.sp),
         p.sp + TAMANIO_VARIABLE <= LimiteStack,
         NEW q \in PCB, q.sp = p.sp + TAMANIO_VARIABLE, q.pila = Append(r, f)
  PROVE  PcbBien(q)
<1>1. p.sp \in Nat /\ p.sp = TAMANIO_VARIABLE * Len(DatosDePila(p.pila))
  BY DEF PcbBien, PCB, Llena
<1>2. PICK d \in Seq(Int) : d = DatosDePila(p.pila)
  <2>1. p.pila \in Seq(Contexto)
    BY DEF PcbBien, PCB
  <2> QED BY <2>1, DatosTipo
<1>3. Base \in Nat
  BY CpuAssumption DEF Base
<1>4. PICK x \in Int : x = Base + p.sp
  BY <1>1, <1>3
<1>5. DatosDePila(q.pila) = Append(d, x)
  <2>1. PICK a \in Seq(Int) : a = DatosDePila(r)
    BY DatosTipo
  <2>2. PICK b \in Seq(Int) : b = DatosDe(c)
    BY DatosDeContexto
  <2>3. d = a \o b
    BY <1>2, <2>1, <2>2, DatosMas
  <2>4. DatosDePila(q.pila) = a \o Append(b, x)
    BY <1>4, <2>1, <2>2, DatosMas
  <2>5. a \o Append(b, x) = Append(a \o b, x)
    BY SMTT(30)
  <2> QED BY <2>3, <2>4, <2>5
<1>6. PICK n \in Nat : /\ n = Len(d) /\ DOMAIN d = 1..n /\ p.sp = 4 * n
                       /\ \A k \in 1..n : d[k] = Base + 4 * (k - 1)
  BY SMTT(30), <1>1, <1>2 DEF PcbBien, Llena, TAMANIO_VARIABLE
<1>7. PICK t : /\ t = Append(d, x) /\ Len(t) = n + 1 /\ DOMAIN t = 1..(n + 1)
               /\ \A k \in 1..n : t[k] = d[k]
               /\ t[n + 1] = x
  <2>1. /\ Append(d, x) \in Seq(Int) /\ Len(Append(d, x)) = Len(d) + 1
        /\ \A k \in 1..Len(d) : Append(d, x)[k] = d[k]
        /\ Append(d, x)[Len(d) + 1] = x
    BY AppendProperties
  <2>2. DOMAIN Append(d, x) = 1..(n + 1)
    BY <1>6, <2>1
  <2> QED BY <1>6, <2>1, <2>2
<1>8. Llena(t, q.sp)
  <2>1. q.sp = 4 * (n + 1) /\ q.sp <= LimiteStack
    BY <1>6 DEF TAMANIO_VARIABLE
  <2>2. ASSUME NEW k \in 1..(n + 1) PROVE t[k] = Base + 4 * (k - 1)
    <3>1. CASE k = n + 1
      BY <1>4, <1>6, <1>7, <3>1
    <3>2. CASE k # n + 1
      <4>1. k \in 1..n
        BY <3>2
      <4> QED BY <1>6, <1>7, <4>1
    <3> QED BY <3>1, <3>2
  <2> QED BY <1>7, <2>1, <2>2 DEF Llena, TAMANIO_VARIABLE
<1>9. RetornosDe(q.pila)
  BY RetornosMas DEF PcbBien
<1> QED BY <1>5, <1>7, <1>8, <1>9 DEF PcbBien

Sitio == Posiciones \cup Dato

Direcciones(s) == [k \in DOMAIN s |-> Direccion(s[k])]

LEMMA DireccionesMas ==
  ASSUME NEW S \in SUBSET Sitio, NEW s \in Seq(S), NEW x \in S
  PROVE  /\ Direcciones(s) \in Seq(Int) /\ Direccion(x) \in Int
         /\ Direcciones(Append(s, x)) = Append(Direcciones(s), Direccion(x))
<1>1. \A p \in S : Direccion(p) \in Int
  BY CpuAssumption DEF Sitio, Posiciones, Dato, Direccion
<1>2. PICK n \in Nat : n = Len(s) /\ DOMAIN s = 1..n /\ \A k \in 1..n : s[k] \in S
  OBVIOUS
<1>3. PICK d \in Seq(Int) : d = Direcciones(s) /\ Len(d) = n /\ \A k \in 1..n : d[k] = Direccion(s[k])
  <2>1. PICK d : d = [k \in 1..n |-> Direccion(s[k])]
    OBVIOUS
  <2>2. \A k \in 1..n : Direccion(s[k]) \in Int
    BY <1>1, <1>2
  <2>3. d \in Seq(Int) /\ Len(d) = n
    BY <2>1, <2>2
  <2>4. d = Direcciones(s)
    BY <1>2, <2>1 DEF Direcciones
  <2> QED BY <2>1, <2>3, <2>4
<1>4. PICK y \in Int : y = Direccion(x)
  BY <1>1
<1>5. PICK t : /\ t = Append(s, x) /\ DOMAIN t = 1..(n + 1)
               /\ t[n + 1] = x /\ \A k \in 1..n : t[k] = s[k]
  <2>1. /\ DOMAIN Append(s, x) = 1..(n + 1) /\ Append(s, x)[n + 1] = x
        /\ \A k \in 1..n : Append(s, x)[k] = s[k]
    BY <1>2
  <2> QED BY <2>1
<1>6. PICK u \in Seq(Int) : /\ u = Append(d, y) /\ Len(u) = n + 1
                            /\ u[n + 1] = y /\ \A k \in 1..n : u[k] = d[k]
  <2>1. /\ Append(d, y) \in Seq(Int) /\ Len(Append(d, y)) = n + 1
        /\ \A k \in 1..n : Append(d, y)[k] = d[k]
        /\ Append(d, y)[n + 1] = y
    BY <1>3, AppendProperties
  <2> QED BY <2>1
<1>7. \A k \in 1..(n + 1) : Direccion(t[k]) = u[k]
  <2>1. \A k \in 1..(n + 1) : k = n + 1 \/ k \in 1..n
    OBVIOUS
  <2> QED BY <1>3, <1>4, <1>5, <1>6, <2>1
<1>8. u = [k \in 1..(n + 1) |-> u[k]]
  <2>1. u \in [1..Len(u) -> Int]
    BY LenProperties
  <2> QED BY <1>6, <2>1
<1>9. Direcciones(t) = u
  BY <1>5, <1>7, <1>8 DEF Direcciones
<1> QED BY <1>3, <1>4, <1>5, <1>6, <1>9

\* A variable goes after the data of its context; an argument too, as long as the
\* context has no variables yet.
LEMMA ContextoConVariable ==
  ASSUME NEW c \in Contexto, NEW v \in Dato, NEW f, f = [c EXCEPT !.vars = Append(@, v)]
  PROVE  f \in Contexto /\ f.ret = c.ret /\ DatosDe(f) = Append(DatosDe(c), Direccion(v))
<1>1. /\ c.args \in Seq(Posiciones) /\ c.vars \in Seq(Dato)
      /\ f.args = c.args /\ f.vars = Append(c.vars, v) /\ f.ret = c.ret
  BY DEF Contexto
<1>2. f \in Contexto
  <2>1. PICK s : s = f.vars /\ s \in Seq(Dato)
    <3>1. Append(c.vars, v) \in Seq(Dato)
      BY <1>1, AppendProperties
    <3> QED BY <1>1, <3>1
  <2>2. f = [c EXCEPT !.vars = s]
    BY <1>1, <2>1 DEF Contexto
  <2> QED BY <2>1, <2>2 DEF Contexto
<1>3. /\ Direcciones(c.vars) \in Seq(Int) /\ Direccion(v) \in Int
      /\ Direcciones(f.vars) = Append(Direcciones(c.vars), Direccion(v))
  BY <1>1, DireccionesMas DEF Sitio
<1>4. Direcciones(c.args) \in Seq(Int)
  <2>1. PICK z : z \in Posiciones
    <3>1. [pagina |-> 0, offset |-> 0] \in Posiciones
      BY DEF Posiciones
    <3> QED BY <3>1
  <2> QED BY <1>1, <2>1, DireccionesMas DEF Sitio
<1>5. DatosDe(c) = Direcciones(c.args) \o Direcciones(c.vars)
  BY DEF DatosDe, Direcciones
<1>6. DatosDe(f) = Direcciones(f.args) \o Direcciones(f.vars)
  BY DEF DatosDe, Direcciones
<1>7. PICK a \in Seq(Int), b \in Seq(Int), x \in Int :
        a = Direcciones(c.args) /\ b = Direcciones(c.vars) /\ x = Direccion(v)
  BY <1>3, <1>4
<1>8. a \o Append(b, x) = Append(a \o b, x)
  OBVIOUS
<1> QED BY <1>1, <1>2, <1>3, <1>5, <1>6, <1>7, <1>8

LEMMA ContextoConArgumento ==
  ASSUME NEW c \in Contexto, c.vars = << >>, NEW v \in Posiciones,
         NEW f, f = [c EXCEPT !.args = Append(@, v)]
  PROVE  /\ f \in Contexto /\ f.ret = c.ret /\ f.vars = << >>
         /\ DatosDe(f) = Append(DatosDe(c), Direccion(v))
<1>1. /\ c.args \in Seq(Posiciones) /\ c.vars \in Seq(Dato)
      /\ f.args = Append(c.args, v) /\ f.vars = << >> /\ f.ret = c.ret
  BY DEF Contexto
<1>2. f \in Contexto
  <2>1. PICK s : s = f.args /\ s \in Seq(Posiciones)
    <3>1. Append(c.args, v) \in Seq(Posiciones)
      BY <1>1, AppendProperties
    <3> QED BY <1>1, <3>1
  <2>2. f = [c EXCEPT !.args = s]
    BY <1>1, <2>1 DEF Contexto
  <2> QED BY <2>1, <2>2 DEF Contexto
<1>3. /\ Direcciones(c.args) \in Seq(Int) /\ Direccion(v) \in Int
      /\ Direcciones(f.args) = Append(Direcciones(c.args), Direccion(v))
  BY <1>1, DireccionesMas DEF Sitio
<1>4. Direcciones(<< >>) = << >>
  BY DEF Direcciones
<1>5. DatosDe(c) = Direcciones(c.args) \o << >>
  BY <1>4 DEF DatosDe, Direcciones
<1>6. DatosDe(f) = Direcciones(f.args) \o << >>
  BY <1>1, <1>4 DEF DatosDe, Direcciones
<1>7. PICK a \in Seq(Int), x \in Int : a = Direcciones(c.args) /\ x = Direccion(v)
  BY <1>3
<1>8. a \o << >> = a /\ Append(a, x) \o << >> = Append(a, x)
  OBVIOUS
<1> QED BY <1>1, <1>2, <1>3, <1>5, <1>6, <1>7, <1>8

LEMMA CambiaElUltimo ==
  ASSUME NEW r \in Seq(Contexto), NEW c \in Contexto, NEW f \in Contexto
  PROVE  [Append(r, c) EXCEPT ![Len(Append(r, c))] = f] = Append(r, f)
<1>1. PICK n \in Nat : n = Len(r) /\ DOMAIN r = 1..n
  OBVIOUS
<1>2. PICK t \in Seq(Contexto) : /\ t = Append(r, c) /\ Len(t) = n + 1 /\ DOMAIN t = 1..(n + 1)
                                 /\ t[n + 1] = c /\ \A k \in 1..n : t[k] = r[k]
  <2>1. /\ Append(r, c) \in Seq(Contexto) /\ Len(Append(r, c)) = n + 1
        /\ DOMAIN Append(r, c) = 1..(n + 1) /\ Append(r, c)[n + 1] = c
        /\ \A k \in 1..n : Append(r, c)[k] = r[k]
    BY <1>1
  <2> QED BY <2>1
<1>3. PICK u \in Seq(Contexto) : /\ u = Append(r, f) /\ Len(u) = n + 1 /\ DOMAIN u = 1..(n + 1)
                                 /\ u[n + 1] = f /\ \A k \in 1..n : u[k] = r[k]
  <2>1. /\ Append(r, f) \in Seq(Contexto) /\ Len(Append(r, f)) = n + 1
        /\ DOMAIN Append(r, f) = 1..(n + 1) /\ Append(r, f)[n + 1] = f
        /\ \A k \in 1..n : Append(r, f)[k] = r[k]
    BY <1>1
  <2> QED BY <2>1
<1>4. PICK w : w = [t EXCEPT ![n + 1] = f]
  OBVIOUS
<1>5. w \in Seq(Contexto) /\ Len(w) = n + 1 /\ \A k \in 1..(n + 1) : w[k] = IF k = n + 1 THEN f ELSE t[k]
  <2>1. n + 1 \in 1..Len(t)
    BY <1>2
  <2>2. w \in Seq(Contexto) /\ Len(w) = Len(t) /\ \A k \in 1..Len(t) : w[k] = IF k = n + 1 THEN f ELSE t[k]
    BY <1>4, <2>1, ExceptSeq
  <2> QED BY <1>2, <2>2
<1>6. \A k \in 1..(n + 1) : w[k] = u[k]
  <2>1. \A k \in 1..(n + 1) : k = n + 1 \/ (k # n + 1 /\ k \in 1..n)
    OBVIOUS
  <2> QED BY <1>2, <1>3, <1>5, <2>1
<1>7. w = u
  BY <1>3, <1>5, <1>6, SeqEqual
<1> QED BY <1>2, <1>3, <1>4, <1>7

\* The context on top has parameters at most.
SinVariables(p) == p.pila # << >> /\ Last(p.pila).vars = << >>

\* The context where a variable is defined is on top of the stack or, when there
\* is none, it is a new one.
LEMMA HayContexto ==
  ASSUME NEW p, PcbBien(p)
  PROVE  \E r \in Seq(Contexto), c \in Contexto :
           /\ Contextos(p) = Append(r, c) /\ (SinVariables(p) => c.vars = << >>)
           /\ PcbBien([p EXCEPT !.pila = Append(r, c)])
<1>1. p \in PCB /\ p.pila \in Seq(Contexto)
  BY DEF PcbBien, PCB
<1>2. CASE p.pila # << >>
  <2>1. PICK r \in Seq(Contexto), c \in Contexto : p.pila = Append(r, c) /\ c = Last(p.pila)
    BY <1>1, <1>2, PilaPartida
  <2>2. [p EXCEPT !.pila = Append(r, c)] = p
    BY <1>1, <2>1 DEF PCB
  <2> QED BY <1>2, <2>1, <2>2 DEF Contextos, SinVariables
<1>3. CASE p.pila = << >>
  <2>1. PICK r \in Seq(Contexto) : r = << >>
    <3>1. << >> \in Seq(Contexto)
      BY EmptySeq
    <3> QED BY <3>1
  <2>2. PICK c : c = CrearPosicionStack(-1, Nulo)
    OBVIOUS
  <2>3. c \in Contexto /\ c.ret = Nulo /\ c.args = << >> /\ c.vars = << >>
    <3>1. -1 \in -1..(UltimaLinea - 1)
      BY CpuAssumption
    <3>2. << >> \in Seq(Posiciones) /\ << >> \in Seq(Dato)
      OBVIOUS
    <3> QED BY <2>2, <3>1, <3>2 DEF CrearPosicionStack, Contexto
  <2>4. Contextos(p) = Append(r, c)
    BY <1>3, <2>1, <2>2 DEF Contextos
  <2>5. DatosDe(c) = << >>
    <3>1. Direcciones(<< >>) = << >>
      BY DEF Direcciones
    <3> QED BY <2>3, <3>1 DEF DatosDe, Direcciones
  <2>6. DatosDePila(Append(r, c)) = << >>
    <3>1. DatosDePila(Append(r, c)) = DatosDePila(<< >>) \o DatosDe(c)
      BY <2>1, <2>3, DatosMas
    <3> QED BY <2>5, <3>1, DatosVacia
  <2>7. RetornosDe(Append(r, c))
    <3>1. RetornosDe(r)
      BY <2>1 DEF RetornosDe
    <3> QED BY <2>3, <3>1, RetornosMas DEF EsDato
  <2>8. Llena(<< >>, p.sp)
    BY <1>3, DatosVacia DEF PcbBien
  <2>9. PICK q : q = [p EXCEPT !.pila = Append(r, c)]
    OBVIOUS
  <2>10. q \in PCB /\ q.pila = Append(r, c) /\ q.sp = p.sp
    <3>1. PICK s \in Seq(Contexto) : s = Append(r, c)
      BY <2>3, AppendProperties
    <3> QED BY <1>1, <2>9, <3>1 DEF PCB
  <2>11. PcbBien(q)
    BY <2>6, <2>7, <2>8, <2>10 DEF PcbBien
  <2> QED BY <1>3, <2>3, <2>4, <2>9, <2>11 DEF SinVariables
<1> QED BY <1>2, <1>3

LEMMA LugarLibre ==
  ASSUME NEW p \in PCB
  PROVE  PosicionLibre(p) \in Posiciones /\ Direccion(PosicionLibre(p)) = Base + p.sp
<1>1. PICK sp \in Nat : sp = p.sp
  BY DEF PCB
<1>2. sp \div tamanioPagina \in Int /\ sp % tamanioPagina \in Int
  BY CpuAssumption
<1>3. PosicionLibre(p) \in Posiciones
  BY <1>1, <1>2, CpuAssumption DEF PosicionLibre, Posiciones
<1>4. Direccion(PosicionLibre(p)) = Base + sp
  BY DondeVa, <1>1 DEF PosicionLibre, Direccion
<1> QED BY <1>1, <1>3, <1>4

Definible(p, id) == id \in Nombre \/ (EsArgumento(id) /\ SinVariables(p))

LEMMA DefineUna ==
  ASSUME NEW p, PcbBien(p), NEW id, Definible(p, id)
  PROVE  /\ PcbBien(DefinirVariable(p, id)) /\ DefinirVariable(p, id).pc = p.pc
         /\ EsArgumento(id) => SinVariables(DefinirVariable(p, id))
<1>1. CASE Desborda(p, 1)
  <2>1. id \in Nombre => ~EsArgumento(id)
    BY CpuAssumption DEF EsArgumento
  <2> QED BY <1>1, <2>1 DEF DefinirVariable, Definible
<1>2. CASE ~Desborda(p, 1)
  <2>0. p \in PCB /\ p.sp \in Nat /\ LimiteStack \in Nat
    BY CpuAssumption DEF PcbBien, PCB, LimiteStack
  <2>1. PICK r \in Seq(Contexto), c \in Contexto :
           /\ Contextos(p) = Append(r, c) /\ (SinVariables(p) => c.vars = << >>)
           /\ PcbBien([p EXCEPT !.pila = Append(r, c)])
    BY HayContexto
  <2>2. PICK o : o = [p EXCEPT !.pila = Append(r, c)]
    OBVIOUS
  <2>3. PcbBien(o) /\ o.pila = Append(r, c) /\ o.sp = p.sp
    BY <2>0, <2>1, <2>2 DEF PCB
  <2>4. PICK pos \in Posiciones : pos = PosicionLibre(p) /\ Direccion(pos) = Base + p.sp
    BY <2>0, LugarLibre
  <2>5. PICK v : v = [id |-> id, pagina |-> pos.pagina, offset |-> pos.offset]
    OBVIOUS
  <2>6. PICK f : f = IF EsArgumento(id) THEN [c EXCEPT !.args = Append(@, pos)]
                                        ELSE [c EXCEPT !.vars = Append(@, v)]
    OBVIOUS
  <2>7. /\ f \in Contexto /\ f.ret = c.ret /\ DatosDe(f) = Append(DatosDe(c), Base + p.sp)
        /\ EsArgumento(id) => f.vars = << >>
    <3>1. CASE EsArgumento(id)
      <4>1. c.vars = << >>
        BY <2>1, <3>1, CpuAssumption DEF Definible, EsArgumento
      <4> QED BY <2>4, <2>6, <3>1, <4>1, ContextoConArgumento
    <3>2. CASE ~EsArgumento(id)
      <4>1. v \in Dato /\ Direccion(v) = Direccion(pos)
        BY <2>4, <2>5, <3>2 DEF Definible, Dato, Posiciones, Direccion
      <4> QED BY <2>4, <2>6, <3>2, <4>1, ContextoConVariable
    <3> QED BY <3>1, <3>2
  <2>8. PICK t : t = Append(r, c) /\ Len(t) \in Nat /\ t[Len(t)] = c /\ DOMAIN t = 1..Len(t) /\ Len(t) > 0
    <3>1. Len(Append(r, c)) \in Nat /\ Append(r, c)[Len(Append(r, c))] = c
          /\ DOMAIN Append(r, c) = 1..Len(Append(r, c)) /\ Len(Append(r, c)) > 0
      OBVIOUS
    <3> QED BY <3>1
  <2>9. PICK q : q = DefinirVariable(p, id)
    OBVIOUS
  <2>10. q = [p EXCEPT !.sp = @ + TAMANIO_VARIABLE, !.pila = [t EXCEPT ![Len(t)] = f]]
    <3>1. EsArgumento(id) => [t EXCEPT ![Len(t)].args = Append(@, pos)] = [t EXCEPT ![Len(t)] = f]
      BY <2>6, <2>8
    <3>2. ~EsArgumento(id) => [t EXCEPT ![Len(t)].vars = Append(@, v)] = [t EXCEPT ![Len(t)] = f]
      BY <2>6, <2>8
    <3>3. t = Contextos(p)
      BY <2>1, <2>8
    <3> QED BY <1>2, <2>4, <2>5, <2>9, <3>1, <3>2, <3>3 DEF DefinirVariable
  <2>11. PICK u \in Seq(Contexto) : u = Append(r, f) /\ u # << >> /\ Last(u) = f
    <3>1. Append(r, f) \in Seq(Contexto) /\ Append(r, f) # << >> /\ Last(Append(r, f)) = f
      BY <2>7 DEF Last
    <3> QED BY <3>1
  <2>12. [t EXCEPT ![Len(t)] = f] = u
    BY <2>7, <2>8, <2>11, CambiaElUltimo
  <2>13. q = [p EXCEPT !.sp = @ + TAMANIO_VARIABLE, !.pila = u]
    BY <2>10, <2>12
  <2>14. q \in PCB /\ q.sp = p.sp + TAMANIO_VARIABLE /\ q.pila = u /\ q.pc = p.pc
    <3>1. PICK sp \in Nat : sp = p.sp + TAMANIO_VARIABLE
      BY <2>0 DEF TAMANIO_VARIABLE
    <3>2. q = [p EXCEPT !.sp = sp, !.pila = u]
      BY <2>13, <3>1
    <3> QED BY <2>0, <2>11, <3>1, <3>2 DEF PCB
  <2>15. p.sp + TAMANIO_VARIABLE <= LimiteStack
    BY <1>2, <2>0 DEF Desborda, TAMANIO_VARIABLE
  <2>16. PcbBien(q)
    BY <2>3, <2>7, <2>11, <2>14, <2>15, AgregaDato
  <2>17. EsArgumento(id) => SinVariables(q)
    BY <2>7, <2>11, <2>14 DEF SinVariables
  <2> QED BY <2>9, <2>14, <2>16, <2>17
<1> QED BY <1>1, <1>2

\* f is the PCB after each of the first n definitions.
Tras(p, ids, n, f) ==
  f = [k \in 0..n |-> IF k = 0 THEN p ELSE DefinirVariable(f[k - 1], ids[k])]

LEMMA TrasExiste ==
  ASSUME NEW p, NEW ids
  PROVE  \A n \in Nat : \E f : Tras(p, ids, n, f)
<1> DEFINE Malos == {n \in Nat : ~ \E f : Tras(p, ids, n, f)}
<1>1. SUFFICES ASSUME Malos # {} PROVE FALSE
  OBVIOUS
<1>2. PICK n \in Malos : \A j \in Malos : n <= j
  <2>1. Malos \subseteq Nat
    OBVIOUS
  <2> HIDE DEF Malos
  <2> QED BY <1>1, <2>1, HayPrimero
<1>3. n \in Nat /\ ~ \E f : Tras(p, ids, n, f)
  BY <1>2
<1>4. CASE n = 0
  <2> DEFINE h == [k \in 0..0 |-> p]
  <2>1. h = [k \in 0..0 |-> IF k = 0 THEN p ELSE DefinirVariable(h[k - 1], ids[k])]
    <3>1. \A k \in 0..0 : k = 0
      OBVIOUS
    <3> HIDE DEF h
    <3>2. [k \in 0..0 |-> IF k = 0 THEN p ELSE DefinirVariable(h[k - 1], ids[k])] = [k \in 0..0 |-> p]
      BY <3>1
    <3> QED BY <3>2 DEF h
  <2> HIDE DEF h
  <2>2. Tras(p, ids, 0, h)
    BY <2>1 DEF Tras
  <2> QED BY <1>3, <1>4, <2>2
<1>5. CASE n # 0
  <2>1. n - 1 \in Nat /\ n - 1 \notin Malos
    BY <1>2, <1>3, <1>5
  <2>2. PICK g : Tras(p, ids, n - 1, g)
    BY <2>1
  <2> DEFINE D(f, k) == IF k = 0 THEN p ELSE DefinirVariable(f[k - 1], ids[k])
             h == [k \in 0..n |-> IF k = n THEN D(g, n) ELSE g[k]]
  <2>3. ASSUME NEW k \in 0..n PROVE h[k] = D(h, k)
    <3>1. CASE k = 0
      <4>1. k # n /\ k \in 0..(n - 1)
        BY <1>3, <1>5, <3>1
      <4>2. g[k] = p
        BY <2>2, <3>1, <4>1 DEF Tras
      <4> QED BY <3>1, <4>1, <4>2
    <3>2. CASE k # 0 /\ k = n
      <4>1. k - 1 \in 0..n /\ k - 1 # n
        BY <3>2, <1>3
      <4>2. h[k - 1] = g[k - 1]
        BY <4>1
      <4> QED BY <3>2, <4>2
    <3>3. CASE k # 0 /\ k # n
      <4>1. k \in 0..(n - 1) /\ k - 1 \in 0..n /\ k - 1 # n
        BY <3>3, <1>3
      <4>2. g[k] = DefinirVariable(g[k - 1], ids[k])
        BY <2>2, <3>3, <4>1 DEF Tras
      <4>3. h[k - 1] = g[k - 1] /\ h[k] = g[k]
        BY <3>3, <4>1
      <4> QED BY <3>3, <4>2, <4>3
    <3> QED BY <3>1, <3>2, <3>3
  <2>4. h = [k \in 0..n |-> h[k]]
    OBVIOUS
  <2> HIDE DEF h
  <2>5. h = [k \in 0..n |-> D(h, k)]
    BY <2>3, <2>4
  <2>6. Tras(p, ids, n, h)
    BY <2>5 DEF Tras
  <2> QED BY <1>3, <2>6
<1> QED BY <1>4, <1>5

Definibles(p, ids) ==
  \/ \A k \in 1..Len(ids) : ids[k] \in Nombre
  \/ SinVariables(p) /\ \A k \in 1..Len(ids) : EsArgumento(ids[k])

LEMMA DefineVarias ==
  ASSUME NEW p, PcbBien(p), NEW ids, Len(ids) \in Nat, Definibles(p, ids)
  PROVE  PcbBien(Definir(p, ids)) /\ Definir(p, ids).pc = p.pc
<1> DEFINE f == CHOOSE g : Tras(p, ids, Len(ids), g)
<1>1. Tras(p, ids, Len(ids), f)
  BY TrasExiste
<1>2. Definir(p, ids) = f[Len(ids)]
  BY DEF Definir, Tras
<1> HIDE DEF f
<1>3. PICK n \in Nat : n = Len(ids)
  OBVIOUS
<1> DEFINE Va(k) == /\ PcbBien(f[k]) /\ f[k].pc = p.pc
                    /\ (SinVariables(p) /\ \A j \in 1..n : EsArgumento(ids[j])) => SinVariables(f[k])
           Malos == {k \in 0..n : ~Va(k)}
<1>4. Malos = {}
  <2>1. SUFFICES ASSUME Malos # {} PROVE FALSE
    OBVIOUS
  <2>2. PICK k \in Malos : \A j \in Malos : k <= j
    <3>1. Malos \subseteq Nat
      OBVIOUS
    <3> HIDE DEF Malos
    <3> QED BY <2>1, <3>1, HayPrimero
  <2>3. k \in 0..n /\ ~Va(k)
    BY <2>2
  <2>4. f[k] = IF k = 0 THEN p ELSE DefinirVariable(f[k - 1], ids[k])
    BY <1>1, <1>3, <2>3 DEF Tras
  <2>5. k # 0
    BY <2>3, <2>4
  <2>6. PICK j \in 0..n : j = k - 1 /\ k \in 1..n
    <3>1. k - 1 \in 0..n /\ k \in 1..n
      BY <2>3, <2>5
    <3> QED BY <3>1
  <2>7. Va(j)
    <3>1. j \notin Malos
      BY <2>2, <2>3, <2>6
    <3> QED BY <3>1
  <2>8. f[k] = DefinirVariable(f[j], ids[k])
    BY <2>4, <2>5, <2>6
  <2>9. (\A m \in 1..n : EsArgumento(ids[m])) => EsArgumento(ids[k])
    BY <2>6
  <2>10. Definible(f[j], ids[k])
    BY <1>3, <2>6, <2>7 DEF Definibles, Definible
  <2> HIDE DEF Malos
  <2>11. /\ PcbBien(f[k]) /\ f[k].pc = f[j].pc
         /\ (EsArgumento(ids[k]) => SinVariables(f[k]))
    BY <2>7, <2>8, <2>10, DefineUna
  <2> QED BY <2>3, <2>7, <2>9, <2>11
<1>5. n \in 0..n
  OBVIOUS
<1>6. Va(n)
  BY <1>4, <1>5
<1> QED BY <1>2, <1>3, <1>6

\* The places of the arguments and of the variables of the context on top are
\* data of the stack.
EstaEn(d, x) == \E j \in DOMAIN d : d[j] = x

LEMMA EstaEnCola ==
  ASSUME NEW a \in Seq(Int), NEW b \in Seq(Int), NEW x, EstaEn(a, x) \/ EstaEn(b, x)
  PROVE  EstaEn(a \o b, x)
<1>1. PICK c : /\ c = a \o b /\ DOMAIN c = 1..(Len(a) + Len(b))
               /\ \A j \in 1..(Len(a) + Len(b)) : c[j] = IF j <= Len(a) THEN a[j] ELSE b[j - Len(a)]
  <2>1. /\ a \o b \in Seq(Int) /\ Len(a \o b) = Len(a) + Len(b)
        /\ \A j \in 1..(Len(a) + Len(b)) : (a \o b)[j] = IF j <= Len(a) THEN a[j] ELSE b[j - Len(a)]
    BY ConcatProperties
  <2>2. DOMAIN (a \o b) = 1..(Len(a) + Len(b))
    BY <2>1
  <2> QED BY <2>1, <2>2
<1>2. CASE EstaEn(a, x)
  <2>1. PICK j \in 1..Len(a) : a[j] = x
    BY <1>2 DEF EstaEn
  <2>2. j \in DOMAIN c /\ c[j] = x
    BY <1>1, <2>1
  <2> QED BY <1>1, <2>2 DEF EstaEn
<1>3. CASE EstaEn(b, x)
  <2>1. PICK j \in 1..Len(b) : b[j] = x
    BY <1>3 DEF EstaEn
  <2>2. PICK k : k = Len(a) + j
    OBVIOUS
  <2>3. k \in DOMAIN c /\ c[k] = x
    BY <1>1, <2>1, <2>2
  <2> QED BY <1>1, <2>3 DEF EstaEn
<1> QED BY <1>2, <1>3

LEMMA DatosDelUltimo ==
  ASSUME NEW r \in Seq(Contexto), NEW c \in Contexto
  PROVE  /\ \A k \in DOMAIN c.args : EstaEn(DatosDePila(Append(r, c)), Direccion(c.args[k]))
         /\ \A k \in DOMAIN c.vars : EstaEn(DatosDePila(Append(r, c)), Direccion(c.vars[k]))
<1>1. c.args \in Seq(Posiciones) /\ c.vars \in Seq(Dato)
  BY DEF Contexto
<1>2. PICK a \in Seq(Int) : a = Direcciones(c.args)
  <2>1. [pagina |-> 0, offset |-> 0] \in Posiciones
    BY DEF Posiciones
  <2> QED BY <1>1, <2>1, DireccionesMas DEF Sitio
<1>3. PICK b : b = Direcciones(c.vars) /\ (b = << >> \/ b \in Seq(Int))
  <2>1. CASE c.vars = << >>
    BY <2>1 DEF Direcciones
  <2>2. CASE c.vars # << >>
    <3>1. c.vars[1] \in Dato
      BY <1>1, <2>2
    <3> QED BY <1>1, <3>1, DireccionesMas DEF Sitio
  <2> QED BY <2>1, <2>2
<1>4. b \in Seq(Int)
  BY <1>3, EmptySeq
<1>5. PICK d \in Seq(Int) : d = DatosDePila(r)
  BY DatosTipo
<1>6. DatosDePila(Append(r, c)) = d \o (a \o b)
  BY <1>2, <1>3, <1>5, DatosMas DEF DatosDe, Direcciones
<1>7. a \o b \in Seq(Int)
  BY <1>4
<1>8. ASSUME NEW k \in DOMAIN c.args PROVE EstaEn(d \o (a \o b), Direccion(c.args[k]))
  <2>1. EstaEn(a, Direccion(c.args[k]))
    BY <1>2 DEF Direcciones, EstaEn
  <2> QED BY <1>4, <1>7, <2>1, EstaEnCola
<1>9. ASSUME NEW k \in DOMAIN c.vars PROVE EstaEn(d \o (a \o b), Direccion(c.vars[k]))
  <2>1. EstaEn(b, Direccion(c.vars[k]))
    BY <1>3 DEF Direcciones, EstaEn
  <2> QED BY <1>4, <1>7, <2>1, EstaEnCola
<1> QED BY <1>6, <1>8, <1>9

\* What obtenerPosicionVariable gives is nowhere or a datum of the stack.
LEMMA PosicionEs ==
  ASSUME NEW p, PcbBien(p), NEW id
  PROVE  /\ EsDato(ObtenerPosicionVariable(p, id), DatosDePila(p.pila))
         /\ ObtenerPosicionVariable(p, id) \in Posiciones \cup {Nulo}
<1>1. p.pila \in Seq(Contexto)
  BY DEF PcbBien, PCB
<1>2. Ninguna \in Posiciones
  BY CpuAssumption DEF Ninguna, Posicion, Posiciones
<1>3. CASE p.pila = << >>
  BY <1>2, <1>3 DEF ObtenerPosicionVariable, EsDato
<1>4. CASE p.pila # << >>
  <2>1. PICK r \in Seq(Contexto), c \in Contexto : p.pila = Append(r, c) /\ c = Last(p.pila)
    BY <1>1, <1>4, PilaPartida
  <2>2. PICK d : d = DatosDePila(p.pila)
    OBVIOUS
  <2>3. /\ \A k \in DOMAIN c.args : EstaEn(d, Direccion(c.args[k]))
        /\ \A k \in DOMAIN c.vars : EstaEn(d, Direccion(c.vars[k]))
    BY <2>1, <2>2, DatosDelUltimo
  <2>4. c.args \in Seq(Posiciones) /\ c.vars \in Seq(Dato)
    BY DEF Contexto
  <2>5. CASE EsArgumento(id)
    <3>1. ObtenerPosicionVariable(p, id) =
            IF id > Len(c.args) THEN Ninguna
            ELSE IF id = Len(c.args) THEN Nulo ELSE c.args[id + 1]
      BY <1>4, <2>1, <2>5 DEF ObtenerPosicionVariable
    <3>2. id \in Nat /\ Len(c.args) \in Nat
      BY <2>4, <2>5 DEF EsArgumento
    <3>3. CASE id >= Len(c.args)
      BY <1>2, <3>1, <3>2, <3>3 DEF EsDato
    <3>4. CASE id < Len(c.args)
      <4>1. PICK j \in DOMAIN c.args : j = id + 1
        <5>1. id + 1 \in DOMAIN c.args
          BY <2>4, <3>2, <3>4
        <5> QED BY <5>1
      <4>2. ObtenerPosicionVariable(p, id) = c.args[j]
        BY <3>1, <3>2, <3>4, <4>1
      <4> QED BY <2>2, <2>3, <2>4, <4>1, <4>2 DEF EsDato, EstaEn
    <3> QED BY <3>2, <3>3, <3>4
  <2>6. CASE ~EsArgumento(id)
    <3> DEFINE esa == {k \in DOMAIN c.vars : c.vars[k].id = id}
               m   == CHOOSE k \in esa : \A j \in esa : k <= j
    <3>1. ObtenerPosicionVariable(p, id) =
            IF esa = {} THEN Ninguna ELSE [pagina |-> c.vars[m].pagina, offset |-> c.vars[m].offset]
      BY <1>4, <2>1, <2>6 DEF ObtenerPosicionVariable
    <3>2. CASE esa = {}
      <4> HIDE DEF m, esa
      <4> QED BY <1>2, <3>1, <3>2 DEF EsDato
    <3>3. CASE esa # {}
      <4>1. esa \subseteq Nat
        BY <2>4
      <4>2. m \in esa
        <5> HIDE DEF esa
        <5>1. \E k \in esa : \A j \in esa : k <= j
          BY <3>3, <4>1, HayPrimero
        <5> QED BY <5>1
      <4>3. m \in DOMAIN c.vars
        BY <4>2
      <4> HIDE DEF m, esa
      <4>4. PICK x : x = [pagina |-> c.vars[m].pagina, offset |-> c.vars[m].offset]
        OBVIOUS
      <4>5. c.vars[m] \in Dato
        BY <2>4, <4>3
      <4>6. x \in Posiciones /\ Direccion(x) = Direccion(c.vars[m])
        BY <4>4, <4>5 DEF Dato, Posiciones, Direccion
      <4>7. EstaEn(d, Direccion(x))
        BY <2>3, <4>3, <4>6
      <4> QED BY <2>2, <3>1, <3>3, <4>4, <4>6, <4>7 DEF EsDato, EstaEn
    <3> QED BY <3>2, <3>3
  <2> QED BY <2>5, <2>6
<1> QED BY <1>3, <1>4

\* What the parser leaves in pc does not touch the stack.
LEMMA CambiaPc ==
  ASSUME NEW p, PcbBien(p), NEW x \in Int, NEW q, q = [p EXCEPT !.pc = x]
  PROVE  PcbBien(q) /\ q.pc = x /\ q.pila = p.pila /\ q.sp = p.sp
<1>1. q \in PCB /\ q.pc = x /\ q.pila = p.pila /\ q.sp = p.sp
  BY DEF PcbBien, PCB
<1> QED BY <1>1 DEF PcbBien

LEMMA Salta ==
  ASSUME NEW p, PcbBien(p), NEW linea \in Etiquetas \cup {-1}
  PROVE  /\ PcbBien(IrAlLabel(p, linea)) /\ IrAlLabel(p, linea).pila = p.pila
         /\ IrAlLabel(p, linea).pc = IF linea = -1 THEN p.pc ELSE linea - 1
<1>1. CASE linea = -1
  BY <1>1 DEF IrAlLabel
<1>2. CASE linea # -1
  <2>1. linea - 1 \in Int
    BY <1>2, CpuAssumption
  <2>2. IrAlLabel(p, linea) = [p EXCEPT !.pc = linea - 1]
    BY <1>2 DEF IrAlLabel
  <2> QED BY <1>2, <2>1, <2>2, CambiaPc
<1> QED BY <1>1, <1>2

\* A call puts a context without data over the others.
LEMMA Llama ==
  ASSUME NEW p, PcbBien(p), p.pc \in 0..(UltimaLinea - 1), NEW linea \in Etiquetas \cup {-1},
         NEW ret \in Posiciones \cup {Nulo}, EsDato(ret, DatosDePila(p.pila))
  PROVE  /\ PcbBien(Llamar(p, linea, ret)) /\ SinVariables(Llamar(p, linea, ret))
         /\ Llamar(p, linea, ret).pc = IF linea = -1 THEN p.pc ELSE linea - 1
<1>1. p \in PCB /\ p.pila \in Seq(Contexto)
  BY DEF PcbBien, PCB
<1>2. PICK c : c = CrearPosicionStack(p.pc, ret)
  OBVIOUS
<1>3. c \in Contexto /\ c.ret = ret /\ c.args = << >> /\ c.vars = << >>
  <2>1. p.pc \in -1..(UltimaLinea - 1)
    BY CpuAssumption
  <2>2. << >> \in Seq(Posiciones) /\ << >> \in Seq(Dato)
    BY EmptySeq
  <2> QED BY <1>2, <2>1, <2>2 DEF CrearPosicionStack, Contexto
<1>4. PICK d \in Seq(Int) : d = DatosDePila(p.pila)
  BY <1>1, DatosTipo
<1>5. DatosDe(c) = << >>
  <2>1. Direcciones(<< >>) = << >>
    BY DEF Direcciones
  <2> QED BY <1>3, <2>1 DEF DatosDe, Direcciones
<1>6. DatosDePila(Append(p.pila, c)) = d
  <2>1. DatosDePila(Append(p.pila, c)) = d \o << >>
    BY <1>1, <1>3, <1>4, <1>5, DatosMas
  <2> QED BY <2>1
<1>7. RetornosDe(Append(p.pila, c))
  BY <1>1, <1>3, RetornosMas DEF PcbBien
<1>8. PICK s \in Seq(Contexto) : s = Append(p.pila, c) /\ s # << >> /\ Last(s) = c
  <2>1. Append(p.pila, c) \in Seq(Contexto) /\ Append(p.pila, c) # << >> /\ Last(Append(p.pila, c)) = c
    BY <1>1, <1>3 DEF Last
  <2> QED BY <2>1
<1>9. PICK q : q = [p EXCEPT !.pila = s]
  OBVIOUS
<1>10. q \in PCB /\ q.pila = s /\ q.sp = p.sp /\ q.pc = p.pc
  BY <1>1, <1>8, <1>9 DEF PCB
<1>11. PcbBien(q)
  BY <1>4, <1>6, <1>7, <1>8, <1>10 DEF PcbBien
<1>12. Llamar(p, linea, ret) = IrAlLabel(q, linea)
  BY <1>2, <1>8, <1>9 DEF Llamar
<1> QED BY <1>3, <1>8, <1>10, <1>11, <1>12, Salta DEF SinVariables

\* The end of a function gives its data back, and the stack is the one below.
LEMMA Sale ==
  ASSUME NEW p, PcbBien(p), p.pila # << >>
  PROVE  PcbBien(SinContexto(p)) /\ SinContexto(p).pc = p.pc
<1>1. p \in PCB /\ p.pila \in Seq(Contexto) /\ p.sp \in Nat
  BY DEF PcbBien, PCB
<1>2. PICK r \in Seq(Contexto), c \in Contexto :
        p.pila = Append(r, c) /\ c = Last(p.pila) /\ r = Front(p.pila)
  BY <1>1, PilaPartida
<1>3. PICK a \in Seq(Int) : a = DatosDePila(r)
  BY DatosTipo
<1>4. PICK b \in Seq(Int) : b = DatosDe(c) /\ Len(b) = Datos(c)
  BY DatosDeContexto
<1>5. PICK d \in Seq(Int) : d = a \o b /\ d = DatosDePila(p.pila)
  <2>1. a \o b \in Seq(Int)
    OBVIOUS
  <2> QED BY <1>2, <1>3, <1>4, <2>1, DatosMas
<1>6. PICK n \in Nat, m \in Nat : n = Len(a) /\ m = Len(b)
  OBVIOUS
<1>7. Len(d) = n + m /\ \A k \in 1..n : d[k] = a[k]
  <2>1. /\ Len(d) = Len(a) + Len(b)
        /\ \A j \in 1..(Len(a) + Len(b)) : d[j] = IF j <= Len(a) THEN a[j] ELSE b[j - Len(a)]
    BY ZenonT(40), <1>5, ConcatProperties
  <2>2. \A k \in 1..n : k \in 1..(n + m) /\ k <= n
    OBVIOUS
  <2> QED BY <1>6, <2>1, <2>2
<1>8. p.sp = 4 * (n + m) /\ p.sp <= LimiteStack /\ \A k \in 1..(n + m) : d[k] = Base + 4 * (k - 1)
  BY <1>5, <1>7 DEF PcbBien, Llena, TAMANIO_VARIABLE
<1>9. LimiteStack \in Nat
  BY CpuAssumption DEF LimiteStack
<1>10. PICK sp \in Nat : sp = p.sp - TAMANIO_VARIABLE * Datos(c) /\ sp = 4 * n /\ sp <= LimiteStack
  <2>1. 4 * (n + m) - 4 * m = 4 * n /\ 4 * n \in Nat /\ 4 * n <= 4 * (n + m)
    OBVIOUS
  <2>2. p.sp - TAMANIO_VARIABLE * Datos(c) = 4 * n
    BY <1>4, <1>6, <1>8, <2>1 DEF TAMANIO_VARIABLE
  <2> QED BY <1>8, <1>9, <2>1, <2>2
<1>11. Llena(a, sp)
  <2>1. \A k \in 1..n : k \in 1..(n + m)
    OBVIOUS
  <2>2. \A k \in 1..n : a[k] = Base + 4 * (k - 1)
    BY <1>7, <1>8, <2>1
  <2> QED BY <1>6, <1>10, <2>2 DEF Llena, TAMANIO_VARIABLE
<1>12. RetornosDe(r)
  BY <1>2, RetornosMas DEF PcbBien
<1>13. PICK q : q = SinContexto(p)
  OBVIOUS
<1>14. q = [p EXCEPT !.sp = sp, !.pila = r]
  BY <1>2, <1>10, <1>13 DEF SinContexto
<1>15. q \in PCB /\ q.sp = sp /\ q.pila = r /\ q.pc = p.pc
  BY <1>1, <1>14 DEF PCB
<1>16. PcbBien(q)
  BY <1>3, <1>11, <1>12, <1>15 DEF PcbBien
<1> QED BY <1>13, <1>15, <1>16

\* And the program goes on after the call.
LEMMA Vuelve ==
  ASSUME NEW p, PcbBien(p), p.pila # << >>
  PROVE  PcbBien(Volver(p)) /\ Volver(p).pc \in -1..(UltimaLinea - 1)
<1>1. Last(p.pila).dir \in -1..(UltimaLinea - 1)
  BY PilaPartida DEF PcbBien, PCB, Contexto
<1>2. PICK x \in Int : x = Last(p.pila).dir
  BY <1>1
<1>3. Volver(p) = [SinContexto(p) EXCEPT !.pc = x]
  BY <1>2 DEF Volver
<1> QED BY <1>1, <1>2, <1>3, Sale, CambiaPc

-----------------------------------------------------------------------------
(* The inductive invariant.                                                *)

\* A PCB that may execute.
EsPcb(p) == PcbBien(p) /\ p.pc \in 0..UltimaLinea

Sanos(pcbs) == \A p \in pcbs : Cabe(SerializarIndiceStack(p.pila))

TipoCpu ==
  /\ estado \in {"libre", "cargada", "ejecuta", "muerta", "caida", "colgada"}
  /\ quantum \in Quantums \cup {0} /\ i \in 0..(AnchoI - 1)
  /\ finPorError \in BOOLEAN /\ finPrograma \in BOOLEAN
  /\ cerrarCPU \in BOOLEAN /\ arrastra \in BOOLEAN

CpuInv ==
  /\ TipoCpu
  /\ EsPcb(pcb)
  /\ PcbIntacto
  /\ estado = "libre" => Sanos(kernel)
  /\ SinErrorAjeno

LEMMA NuevoBien == EsPcb(PcbNuevo) /\ DeserializarPcb(SerializarPcb(PcbNuevo)) = PcbNuevo
<1>1. PcbNuevo.pila = << >> /\ PcbNuevo.sp = 0 /\ PcbNuevo.pc = Inicio /\ PcbNuevo \in PCB
  <2>1. << >> \in Seq(Contexto)
    BY EmptySeq
  <2> QED BY <2>1, CpuAssumption DEF PcbNuevo, PCB
<1>2. Llena(<< >>, 0)
  <2>1. LimiteStack \in Nat
    BY CpuAssumption DEF LimiteStack
  <2> QED BY <2>1 DEF Llena, TAMANIO_VARIABLE
<1>3. RetornosDe(<< >>)
  BY DEF RetornosDe
<1>4. EsPcb(PcbNuevo)
  BY <1>1, <1>2, <1>3, DatosVacia, CpuAssumption DEF EsPcb, PcbBien
<1>5. PICK b : b = SerializarIndiceStack(<< >>)
  OBVIOUS
<1>6. b[1] = 0
  <2>1. PICK r \in Seq(Contexto) : r = << >> /\ Len(r) = 0
    BY EmptySeq
  <2> QED BY <1>5, <2>1, PilaEnBytes
<1>7. Leido(b, 0) = 0
  <2>1. 0 % AnchoOffset = 0
    BY PcbAssumption
  <2> QED BY <1>6, <2>1 DEF Leido
<1>8. DeserializarIndiceStack(b) = << >>
  <2> DEFINE item == CHOOSE f : Leidos(b, Leido(b, 0), f)
  <2>1. DeserializarIndiceStack(b) = [k \in 1..Leido(b, 0) |-> item[k].contexto]
    BY DEF DeserializarIndiceStack, Leidos
  <2> HIDE DEF item
  <2> QED BY <1>7, <2>1
<1> QED BY <1>1, <1>4, <1>5, <1>8 DEF SerializarPcb, DeserializarPcb, PcbNuevo

\* A PCB that fits is the same one on the other side.
LEMMA VuelveEntero ==
  ASSUME NEW p, PcbBien(p), Cabe(SerializarIndiceStack(p.pila))
  PROVE  DeserializarPcb(SerializarPcb(p)) = p
<1>1. p \in PCB /\ p.pila \in Seq(Contexto)
  BY DEF PcbBien, PCB
<1>2. DeserializarIndiceStack(SerializarIndiceStack(p.pila)) = p.pila
  BY <1>1, IdaYVuelta
<1> QED BY <1>1, <1>2 DEF PCB, SerializarPcb, DeserializarPcb

LEMMA Cpu_Init == Init => CpuInv
<1> SUFFICES ASSUME Init PROVE CpuInv
  OBVIOUS
<1>1. 1 \in 0..(AnchoI - 1) /\ 0 \in Quantums \cup {0}
  BY CpuAssumption
<1>2. TipoCpu
  BY <1>1 DEF Init, TipoCpu
<1>3. EsPcb(pcb)
  BY NuevoBien DEF Init
<1>4. PcbIntacto /\ SinErrorAjeno /\ Sanos(kernel)
  BY DEF Init, PcbIntacto, SinErrorAjeno, Sanos
<1> QED BY <1>2, <1>3, <1>4 DEF CpuInv

\* What the end of a burst leaves.
Devuelto(p, tipo) ==
  /\ EsPcb(pcb') /\ kernel' \subseteq {pcb'} /\ Sanos(kernel')
  /\ quantum' = 0 /\ i' = 1

LEMMA Devuelve ==
  ASSUME NEW p, PcbBien(p), NEW tipo, tipo \in Sigue => p.pc \in 0..UltimaLinea,
         FinalizarPor(p, tipo)
  PROVE  Devuelto(p, tipo)
<1>1. PICK paquete : paquete = SerializarPcb(p) /\
        kernel' = IF tipo \in Sigue /\ Cabe(paquete.stack) THEN {DeserializarPcb(paquete)} ELSE {}
  BY DEF FinalizarPor
<1>2. pcb' = (IF tipo \in Sigue THEN p ELSE PcbNuevo) /\ quantum' = 0 /\ i' = 1
  BY DEF FinalizarPor
<1>3. paquete.stack = SerializarIndiceStack(p.pila)
  BY <1>1 DEF SerializarPcb
<1>4. CASE tipo \in Sigue /\ Cabe(paquete.stack)
  <2>1. kernel' = {p} /\ pcb' = p
    BY <1>1, <1>2, <1>3, <1>4, VuelveEntero
  <2>2. Sanos({p})
    BY <1>3, <1>4 DEF Sanos
  <2> QED BY <1>2, <1>4, <2>1, <2>2 DEF Devuelto, EsPcb
<1>5. CASE ~(tipo \in Sigue /\ Cabe(paquete.stack))
  <2>1. kernel' = {} /\ EsPcb(pcb')
    BY <1>1, <1>2, <1>5, NuevoBien DEF EsPcb
  <2> QED BY <1>2, <2>1 DEF Devuelto, Sanos
<1> QED BY <1>4, <1>5

\* Every instruction ends by Ejecutada, with a PCB that keeps what it must.
LEMMA EjecutaBien ==
  ASSUME CpuInv, estado = "ejecuta", NEW p, PcbBien(p),
         NEW so \in BOOLEAN, NEW error \in BOOLEAN, NEW fin \in BOOLEAN, NEW bloqueado \in BOOLEAN,
         fin \/ p.pc + 1 \in 0..UltimaLinea, Ejecutada(p, so, error, fin, bloqueado)
  PROVE  CpuInv'
<1>1. TipoCpu /\ SinErrorAjeno /\ EsPcb(pcb)
  BY DEF CpuInv
<1>2. PICK e \in BOOLEAN, f \in BOOLEAN : e = (finPorError \/ error) /\ f = (finPrograma \/ fin)
  OBVIOUS
<1>3. 1 \in 0..(AnchoI - 1) /\ 0 \in Quantums \cup {0}
  BY CpuAssumption
<1>4. cerrarCPU' = cerrarCPU
  BY DEF Ejecutada
<1>5. "FIN_PROCESO" \notin Sigue /\ "SUPERA_LIMITE_ASIGNACION_PAGINAS" \notin Sigue
      /\ "finErrorExitCode" \notin Sigue /\ "ERROR_MEMORIA" \notin Sigue
  BY DEF Sigue
<1>6. CASE VerificarTerminar(p, so, e, f) /\ CerrarSiPidieron
  <2>1. PICK tipo : tipo \notin Sigue /\ FinalizarPor(p, tipo)
    BY <1>5, <1>6 DEF VerificarTerminar, TerminarPrograma
  <2>2. EsPcb(pcb') /\ kernel' \subseteq {pcb'} /\ Sanos(kernel') /\ quantum' = 0 /\ i' = 1
    BY <2>1, Devuelve DEF Devuelto
  <2>3. /\ finPorError' \in BOOLEAN /\ finPrograma' \in BOOLEAN /\ arrastra' \in BOOLEAN
        /\ (finPorError' \/ finPrograma') => arrastra'
    BY <1>2, <1>6 DEF VerificarTerminar, TerminarPrograma
  <2>4. estado' \in {"muerta", "libre"}
    BY <1>6 DEF CerrarSiPidieron
  <2>5. TipoCpu'
    BY <1>1, <1>3, <1>4, <2>2, <2>3, <2>4 DEF TipoCpu
  <2> QED BY <2>2, <2>3, <2>5 DEF CpuInv, PcbIntacto, SinErrorAjeno
<1>7. CASE ~f /\ Seguir(p, bloqueado)
  <2>1. p.pc + 1 \in 0..UltimaLinea
    BY <1>2, <1>7
  <2>2. PICK q : q = [p EXCEPT !.pc = @ + 1]
    OBVIOUS
  <2>3. EsPcb(q)
    <3>1. PICK x \in Int : x = p.pc + 1
      BY <2>1
    <3> QED BY <2>1, <2>2, <3>1, CambiaPc DEF EsPcb
  <2>4. UNCHANGED <<finPorError, finPrograma, arrastra>>
    BY <1>7 DEF Seguir
  <2>5. CASE \E tipo \in Sigue : FinalizarPor(q, tipo) /\ CerrarSiPidieron
    <3>1. EsPcb(pcb') /\ kernel' \subseteq {pcb'} /\ Sanos(kernel') /\ quantum' = 0 /\ i' = 1
      BY <2>3, <2>5, Devuelve DEF Devuelto, EsPcb
    <3>2. estado' \in {"muerta", "libre"}
      BY <2>5 DEF CerrarSiPidieron
    <3>3. TipoCpu'
      BY <1>1, <1>3, <1>4, <2>4, <3>1, <3>2 DEF TipoCpu
    <3> QED BY <1>1, <2>4, <3>1, <3>3 DEF CpuInv, PcbIntacto, SinErrorAjeno
  <2>6. CASE /\ pcb' = q /\ i' = IF quantum = 0 THEN i ELSE (i + 1) % AnchoI
             /\ UNCHANGED <<estado, quantum, kernel>>
    <3>1. i' \in 0..(AnchoI - 1)
      <4>1. i \in Int /\ (i + 1) % AnchoI \in 0..(AnchoI - 1)
        BY <1>1, CpuAssumption DEF TipoCpu
      <4> QED BY <1>1, <2>6, <4>1 DEF TipoCpu
    <3>2. TipoCpu'
      BY <1>1, <1>4, <2>4, <2>6, <3>1 DEF TipoCpu
    <3> QED BY <1>1, <2>3, <2>4, <2>6, <3>2 DEF CpuInv, PcbIntacto, SinErrorAjeno
  <2>7. \/ \E tipo \in Sigue : FinalizarPor(q, tipo) /\ CerrarSiPidieron
        \/ /\ pcb' = q /\ i' = IF quantum = 0 THEN i ELSE (i + 1) % AnchoI
           /\ UNCHANGED <<estado, quantum, kernel>>
    <3>1. "FIN_EJECUCION" \in Sigue /\ "PROC_BLOCKED" \in Sigue
      BY DEF Sigue
    <3> QED BY <1>7, <2>2, <3>1 DEF Seguir
  <2> QED BY <2>5, <2>6, <2>7
<1>8. (VerificarTerminar(p, so, e, f) /\ CerrarSiPidieron) \/ (~f /\ Seguir(p, bloqueado))
  BY <1>2 DEF Ejecutada
<1> QED BY <1>6, <1>7, <1>8

LEMMA FalloBien ==
  ASSUME CpuInv, estado = "ejecuta", NEW como \in {"caida", "colgada"}, Interrumpida(como)
  PROVE  CpuInv'
BY DEF CpuInv, TipoCpu, Interrumpida, PcbIntacto, SinErrorAjeno

LEMMA LlamaBien ==
  ASSUME CpuInv, estado = "ejecuta", NEW ret \in Posiciones \cup {Nulo},
         EsDato(ret, DatosDePila(pcb.pila)), NEW error \in BOOLEAN, LlamarFuncion(ret, error)
  PROVE  CpuInv'
<1>1. PICK linea \in Etiquetas \cup {-1}, n \in 0..MaxPorLinea :
        /\ HaySiguiente
        /\ Ejecutada(Definir(Llamar(pcb, linea, ret), [k \in 1..n |-> k - 1]),
                     Desborda(Llamar(pcb, linea, ret), n) /\ n > 0, error, FALSE, FALSE)
  BY DEF LlamarFuncion
<1>2. PcbBien(pcb) /\ pcb.pc \in 0..(UltimaLinea - 1)
  BY <1>1, CpuAssumption DEF CpuInv, EsPcb, HaySiguiente
<1>3. PICK p : p = Llamar(pcb, linea, ret)
  OBVIOUS
<1>4. PcbBien(p) /\ SinVariables(p) /\ p.pc = IF linea = -1 THEN pcb.pc ELSE linea - 1
  BY <1>2, <1>3, Llama
<1>5. p.pc + 1 \in 0..UltimaLinea
  BY <1>2, <1>4, CpuAssumption
<1>6. PICK args : args = [k \in 1..n |-> k - 1]
  OBVIOUS
<1>7. Len(args) \in Nat /\ \A k \in 1..Len(args) : EsArgumento(args[k])
  <2>1. Len(args) = n /\ n \in Nat
    BY <1>6, CpuAssumption
  <2>2. \A k \in 1..n : k - 1 \in 0..9
    BY CpuAssumption
  <2> QED BY <1>6, <2>1, <2>2 DEF EsArgumento
<1>8. Definibles(p, args)
  BY <1>4, <1>7 DEF Definibles
<1>9. PICK q : q = Definir(p, args)
  OBVIOUS
<1>10. PcbBien(q) /\ q.pc + 1 \in 0..UltimaLinea
  BY <1>4, <1>5, <1>7, <1>8, <1>9, DefineVarias
<1>11. PICK so \in BOOLEAN : so = (Desborda(p, n) /\ n > 0)
  OBVIOUS
<1>12. Ejecutada(q, so, error, FALSE, FALSE)
  BY <1>1, <1>3, <1>6, <1>9, <1>11
<1> QED BY <1>10, <1>12, EjecutaBien

\* Every instruction keeps the invariant.
LEMMA InstruccionBien ==
  ASSUME CpuInv, Instruccion
  PROVE  CpuInv'
<1>1. PcbBien(pcb) /\ pcb.pc \in 0..UltimaLinea /\ estado = "ejecuta"
  BY DEF CpuInv, EsPcb, Instruccion
<1>2. UltimaLinea \in Nat /\ Etiquetas \subseteq 0..UltimaLinea
  BY CpuAssumption
<1>3. HaySiguiente => pcb.pc + 1 \in 0..UltimaLinea
  BY <1>1, <1>2 DEF HaySiguiente
<1>4. CASE Variables
  <2>1. PICK ids \in SeqOf(Nombre, MaxPorLinea) \ {<< >>} :
          HaySiguiente /\ Ejecutada(Definir(pcb, ids), Desborda(pcb, Len(ids)), FALSE, FALSE, FALSE)
    BY <1>4 DEF Variables
  <2>2. Len(ids) \in Nat /\ \A k \in 1..Len(ids) : ids[k] \in Nombre
    <3>1. PICK n \in 0..MaxPorLinea : ids \in [1..n -> Nombre]
      BY <2>1 DEF SeqOf
    <3>2. n \in Nat
      BY <3>1, CpuAssumption
    <3> QED BY <3>1, <3>2
  <2>3. PICK q : q = Definir(pcb, ids)
    OBVIOUS
  <2>4. PcbBien(q) /\ q.pc = pcb.pc
    BY <1>1, <2>2, <2>3, DefineVarias DEF Definibles
  <2>5. PICK so \in BOOLEAN : so = Desborda(pcb, Len(ids))
    <3>1. Desborda(pcb, Len(ids)) \in BOOLEAN
      BY DEF Desborda
    <3> QED BY <3>1
  <2> QED BY <1>1, <1>3, <2>1, <2>3, <2>4, <2>5, EjecutaBien
<1>5. CASE Asignar
  <2>1. PICK id \in Referencias, error \in BOOLEAN :
          /\ HaySiguiente
          /\ IF ObtenerPosicionVariable(pcb, id) = Nulo THEN Interrumpida("caida")
             ELSE Ejecutada(pcb, FALSE, error, FALSE, FALSE)
    BY <1>5 DEF Asignar
  <2> QED BY <1>1, <1>3, <2>1, EjecutaBien, FalloBien
<1>6. CASE PedirAlKernel
  BY <1>1, <1>3, <1>6, EjecutaBien DEF PedirAlKernel
<1>7. CASE ImprimirTexto
  BY <1>1, <1>3, <1>7, EjecutaBien, FalloBien DEF ImprimirTexto
<1>8. CASE Wait
  <2>1. PICK respuesta : HaySiguiente /\ Ejecutada(pcb, FALSE, respuesta = "NO_EXISTE", FALSE, respuesta = "DETENER")
    BY <1>8 DEF Wait
  <2>2. PICK e \in BOOLEAN, d \in BOOLEAN : e = (respuesta = "NO_EXISTE") /\ d = (respuesta = "DETENER")
    OBVIOUS
  <2>3. Ejecutada(pcb, FALSE, e, FALSE, d)
    BY <2>1, <2>2
  <2> QED BY <1>1, <1>3, <2>1, <2>3, EjecutaBien
<1>9. CASE Saltar
  <2>1. PICK linea \in Etiquetas \cup {-1}, error \in BOOLEAN :
          /\ HaySiguiente \/ linea # -1
          /\ Ejecutada(IrAlLabel(pcb, linea), FALSE, error, FALSE, FALSE)
    BY <1>9 DEF Saltar
  <2>2. PICK q : q = IrAlLabel(pcb, linea)
    OBVIOUS
  <2>3. PcbBien(q) /\ q.pc = IF linea = -1 THEN pcb.pc ELSE linea - 1
    BY <1>1, <2>2, Salta
  <2>4. q.pc + 1 \in 0..UltimaLinea
    BY <1>2, <1>3, <2>1, <2>3
  <2> QED BY <1>1, <2>1, <2>2, <2>3, <2>4, EjecutaBien
<1>10. CASE LlamarSinRetorno
  BY <1>1, <1>10, LlamaBien DEF LlamarSinRetorno, EsDato
<1>11. CASE LlamarConRetorno
  <2>1. PICK id \in Referencias, error \in BOOLEAN :
          IF ObtenerPosicionVariable(pcb, id) = Nulo THEN HaySiguiente /\ Interrumpida("caida")
          ELSE LlamarFuncion(ObtenerPosicionVariable(pcb, id), error)
    BY <1>11 DEF LlamarConRetorno
  <2>2. PICK ret : ret = ObtenerPosicionVariable(pcb, id)
    OBVIOUS
  <2>3. ret \in Posiciones \cup {Nulo} /\ EsDato(ret, DatosDePila(pcb.pila))
    BY <1>1, <2>2, PosicionEs
  <2> QED BY <1>1, <2>1, <2>2, <2>3, LlamaBien, FalloBien
<1>12. CASE Retornar
  <2>1. PICK error \in BOOLEAN :
          \/ /\ pcb.pila = << >> /\ HaySiguiente
             /\ Ejecutada(pcb, FALSE, error, FALSE, FALSE)
          \/ /\ pcb.pila # << >> /\ Last(pcb.pila).ret = Nulo
             /\ Interrumpida("caida")
          \/ /\ pcb.pila # << >> /\ Last(pcb.pila).ret # Nulo
             /\ Ejecutada(Volver(pcb), FALSE, error, FALSE, FALSE)
    BY <1>12 DEF Retornar
  <2>2. CASE pcb.pila = << >> /\ HaySiguiente /\ Ejecutada(pcb, FALSE, error, FALSE, FALSE)
    BY <1>1, <1>3, <2>2, EjecutaBien
  <2>3. CASE Interrumpida("caida")
    BY <1>1, <2>3, FalloBien
  <2>4. CASE pcb.pila # << >> /\ Ejecutada(Volver(pcb), FALSE, error, FALSE, FALSE)
    <3>1. PICK q : q = Volver(pcb)
      OBVIOUS
    <3>2. PcbBien(q) /\ q.pc \in -1..(UltimaLinea - 1)
      BY <1>1, <2>4, <3>1, Vuelve
    <3>3. q.pc + 1 \in 0..UltimaLinea
      BY <1>2, <3>2
    <3> QED BY <1>1, <2>4, <3>1, <3>2, <3>3, EjecutaBien
  <2> QED BY <2>1, <2>2, <2>3, <2>4
<1>13. CASE Finalizar
  <2>1. pcb.pila \in Seq(Contexto)
    BY <1>1 DEF PcbBien, PCB
  <2>2. Len(pcb.pila) >= 1 => pcb.pila # << >>
    BY EmptySeq
  <2>3. CASE pcb.pila = << >> /\ Ejecutada(pcb, FALSE, FALSE, TRUE, FALSE)
    BY <1>1, <2>3, EjecutaBien
  <2>4. CASE Len(pcb.pila) = 1 /\ Ejecutada(SinContexto(pcb), FALSE, FALSE, TRUE, FALSE)
    <3>1. PcbBien(SinContexto(pcb))
      BY <1>1, <2>2, <2>4, Sale
    <3> QED BY <1>1, <2>4, <3>1, EjecutaBien
  <2>5. CASE Len(pcb.pila) > 1 /\ Ejecutada(Volver(pcb), FALSE, FALSE, FALSE, FALSE)
    <3>1. PICK q : q = Volver(pcb)
      OBVIOUS
    <3>2. PcbBien(q) /\ q.pc \in -1..(UltimaLinea - 1)
      BY <1>1, <2>1, <2>2, <2>5, <3>1, Vuelve
    <3>3. q.pc + 1 \in 0..UltimaLinea
      BY <1>2, <3>2
    <3> QED BY <1>1, <2>5, <3>1, <3>2, <3>3, EjecutaBien
  <2> QED BY <1>13, <2>3, <2>4, <2>5 DEF Finalizar
<1>14. CASE InstruccionPerdida
  <2>1. "ERROR_MEMORIA" \notin Sigue
    BY DEF Sigue
  <2>2. EsPcb(pcb') /\ kernel' \subseteq {pcb'} /\ Sanos(kernel') /\ quantum' = 0 /\ i' = 1
    BY <1>1, <1>14, <2>1, Devuelve DEF InstruccionPerdida, Devuelto
  <2>3. 1 \in 0..(AnchoI - 1) /\ 0 \in Quantums \cup {0}
    BY CpuAssumption
  <2>4. TipoCpu'
    BY <1>14, <2>2, <2>3 DEF InstruccionPerdida, TipoCpu, CpuInv
  <2> QED BY <1>14, <2>2, <2>4 DEF InstruccionPerdida, CpuInv, PcbIntacto, SinErrorAjeno
<1> QED BY <1>4, <1>5, <1>6, <1>7, <1>8, <1>9, <1>10, <1>11, <1>12, <1>13, <1>14 DEF Instruccion

LEMMA Cpu_Paso == CpuInv /\ [Next]_vars => CpuInv'
<1> SUFFICES ASSUME CpuInv, [Next]_vars PROVE CpuInv'
  OBVIOUS
<1>1. CASE Instruccion
  BY <1>1, InstruccionBien
<1>2. CASE RecibirPcb
  <2>1. PICK p \in kernel \cup {PcbNuevo} :
          /\ estado = "libre" /\ estado' = "cargada" /\ kernel' = {p}
          /\ pcb' = DeserializarPcb(SerializarPcb(p))
          /\ UNCHANGED <<quantum, i, finPorError, finPrograma, cerrarCPU, arrastra>>
    BY <1>2 DEF RecibirPcb
  <2>2. EsPcb(p) /\ DeserializarPcb(SerializarPcb(p)) = p
    <3>1. CASE p = PcbNuevo
      BY <3>1, NuevoBien
    <3>2. CASE p \in kernel
      <4>1. p = pcb /\ EsPcb(pcb) /\ Cabe(SerializarIndiceStack(p.pila))
        BY <2>1, <3>2 DEF CpuInv, PcbIntacto, Sanos
      <4> QED BY <4>1, VuelveEntero DEF EsPcb
    <3> QED BY <2>1, <3>1, <3>2
  <2>3. TipoCpu'
    BY <2>1 DEF CpuInv, TipoCpu
  <2> QED BY <2>1, <2>2, <2>3 DEF CpuInv, PcbIntacto, SinErrorAjeno
<1>3. CASE ComenzarEjecucion
  <2>1. TipoCpu'
    BY <1>3, CpuAssumption DEF ComenzarEjecucion, CpuInv, TipoCpu
  <2> QED BY <1>3, <2>1 DEF ComenzarEjecucion, CpuInv, PcbIntacto, SinErrorAjeno
<1>4. CASE RevisarSigusr1
  <2>1. TipoCpu'
    BY <1>4 DEF RevisarSigusr1, CpuInv, TipoCpu
  <2> QED BY <1>4, <2>1 DEF RevisarSigusr1, CpuInv, PcbIntacto, SinErrorAjeno
<1>5. CASE UNCHANGED vars
  BY <1>5 DEF vars, CpuInv, TipoCpu, PcbIntacto, SinErrorAjeno
<1> QED BY <1>1, <1>2, <1>3, <1>4, <1>5 DEF Next

THEOREM Cpu_Inv == Spec => []CpuInv
BY Cpu_Init, Cpu_Paso, PTL DEF Spec

-----------------------------------------------------------------------------
(* What the CPU keeps.                                                     *)

\* Every variable keeps its type and a CPU that executes is at a line of the
\* program, whatever the program is (irAlLabel, comenzarEjecucionDePrograma).
THEOREM Cpu_TypeOK == Spec => []TypeOK
<1>1. CpuInv => TypeOK
  <2> SUFFICES ASSUME CpuInv PROVE TypeOK
    OBVIOUS
  <2>1. TipoCpu /\ pcb.pc \in 0..UltimaLinea /\ pcb.pila \in Seq(Contexto) /\ UltimaLinea \in Nat
    BY CpuAssumption DEF CpuInv, EsPcb, PcbBien, PCB
  <2>2. \A k \in DOMAIN pcb.pila : pcb.pila[k].dir \in -1..UltimaLinea
    <3>1. ASSUME NEW k \in DOMAIN pcb.pila PROVE pcb.pila[k] \in Contexto
      BY <2>1
    <3>2. \A c \in Contexto : c.dir \in -1..UltimaLinea
      BY <2>1 DEF Contexto
    <3> QED BY <3>1, <3>2
  <2>3. pcb.pc \in -1..UltimaLinea /\ pcb.pc >= 0
    BY <2>1
  <2>4. {finPorError, finPrograma, cerrarCPU, arrastra} \subseteq BOOLEAN
    BY <2>1 DEF TipoCpu
  <2> QED BY <2>1, <2>2, <2>3, <2>4 DEF TypeOK, TipoCpu
<1> QED BY <1>1, Cpu_Inv, PTL

\* No two data of a stack share bytes and none is outside its pages, whatever the
\* program defines, calls and returns (definirVariable, finalizar, retornar).
THEOREM Cpu_PilaContigua == Spec => []PilaContigua
<1>1. CpuInv => PilaContigua
  BY DEF CpuInv, EsPcb, PcbBien, Llena, PilaContigua
<1> QED BY <1>1, Cpu_Inv, PTL

\* A function never returns its value into a part of the stack given back
\* (llamarConRetorno, retornar).
THEOREM Cpu_RetornoVigente == Spec => []RetornoVigente
<1>1. CpuInv => RetornoVigente
  BY DEF CpuInv, EsPcb, PcbBien, RetornosDe, EsDato, RetornoVigente
<1> QED BY <1>1, Cpu_Inv, PTL

\* Kernel and CPU have the same PCB while it is on its way, for every stack that
\* the offset of the reader can count (serializarIndiceStack,
\* deserializarIndiceStack).
THEOREM Cpu_PcbIntacto == Spec => []PcbIntacto
<1>1. CpuInv => PcbIntacto
  BY DEF CpuInv
<1> QED BY <1>1, Cpu_Inv, PTL

\* No error of a program is charged to the next one, outside the two ways that
\* the code leaves open (verificarTerminarEjecucion).
THEOREM Cpu_SinErrorAjeno == Spec => []SinErrorAjeno
<1>1. CpuInv => SinErrorAjeno
  BY DEF CpuInv
<1> QED BY <1>1, Cpu_Inv, PTL
=============================================================================
