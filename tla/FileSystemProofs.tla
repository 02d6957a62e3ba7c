--------------------------- MODULE FileSystemProofs ---------------------------
(***************************************************************************)
(* Theorems about FileSystem, for any disk, paths, requests and number of  *)
(* crashes: a block belongs to one file, the file system implements the    *)
(* directory that only knows names and sizes, what is on the disk keeps    *)
(* its shape, the bitmap agrees with the metadata, and a read gives back   *)
(* what was written.                                                       *)
(***************************************************************************)
EXTENDS FileSystem, Extremos

Pasos == {"libre", "crear", "borrar", "escribir", "tamanio", "reservar", "anotar", "caido",
          "pisado"}

\* The steps of a request on a file that exists.
Sobreviven == {"borrar", "escribir", "tamanio", "reservar", "anotar"}

Peticion == [pc : Pasos, path : Archivo \cup {Nada}, offset : Nat, size : Nat, bloque : Nat,
             bytesEscritos : Nat, j : Nat, cantBloques : Nat]

Metadatos == [TAMANIO : Nat, BLOQUES : Seq(Nat)]

\* What the request being served has in its hands.
TipoFs ==
  /\ bitarray \subseteq Nat
  /\ DOMAIN meta \subseteq Archivo
  /\ \A f \in DOMAIN meta : meta[f] \in Metadatos
  /\ fs \in Peticion
  /\ fs.pc \in Sobreviven => fs.path \in DOMAIN meta
  /\ fs.pc = "crear" => fs.path \in Archivo \ DOMAIN meta
  /\ fs.pc = "borrar" => fs.j >= 1

\* The blocks that the metadata m give to f.
BloquesEn(m, f) == {m[f].BLOQUES[i] : i \in DOMAIN m[f].BLOQUES}

\* The blocks of the files are apart, each of them is marked unless its file
\* has begun to be deleted, and the block just marked is nobody's.
Reparto ==
  /\ \A f \in DOMAIN meta : \A i, k \in DOMAIN meta[f].BLOQUES :
       meta[f].BLOQUES[i] = meta[f].BLOQUES[k] => i = k
  /\ \A f, g \in DOMAIN meta : f # g => BloquesEn(meta, f) \cap BloquesEn(meta, g) = {}
  /\ \A f \in DOMAIN meta :
       BloquesEn(meta, f) \subseteq bitarray \/ (fs.pc = "borrar" /\ fs.path = f /\ fs.j > 1)
  /\ fs.pc \in {"crear", "anotar"} =>
       fs.bloque \in bitarray /\ \A f \in DOMAIN meta : fs.bloque \notin BloquesEn(meta, f)

DiscoInv == TipoFs /\ (~truncado => Reparto)

\* buscarBloqueLibre gives a block that is not marked.
LEMMA BloqueHallado ==
  ASSUME FileSystemAssumption, BuscarBloqueLibre # Nada
  PROVE  BuscarBloqueLibre \in Nat \cap Bloque /\ BuscarBloqueLibre \notin bitarray
<1> DEFINE S == Bloque \ bitarray
<1>1. S # {} /\ S \subseteq Nat
  BY DEF BuscarBloqueLibre, FileSystemAssumption, Bloque
<1>2. \E b \in S : \A c \in S : b <= c
  BY <1>1, HayPrimero
<1>3. BuscarBloqueLibre = CHOOSE b \in S : \A c \in S : b <= c
  BY <1>1 DEF BuscarBloqueLibre
<1>4. BuscarBloqueLibre \in S
  BY <1>2, <1>3
<1> QED BY <1>1, <1>4

\* A file whose blocks are all different has as many as its list is long.
LEMMA ContarBloques ==
  ASSUME TipoFs, NEW f \in DOMAIN meta,
         \A i, k \in DOMAIN meta[f].BLOQUES : meta[f].BLOQUES[i] = meta[f].BLOQUES[k] => i = k
  PROVE  Cardinality(BloquesDe(f)) = Len(meta[f].BLOQUES)
<1> DEFINE s == meta[f].BLOQUES
           n == Len(s)
<1>1. s \in Seq(Nat)
  BY DEF TipoFs, Metadatos
<1>2. n \in Nat /\ DOMAIN s = 1..n
  BY <1>1
<1>3. BloquesDe(f) = {s[i] : i \in 1..n}
  BY <1>2 DEF BloquesDe
<1>4. s \in [1..n -> BloquesDe(f)]
  BY <1>1, <1>2, <1>3
<1> HIDE DEF s, n
<1>5. \A i, k \in 1..n : s[i] = s[k] => i = k
  BY <1>2 DEF s
<1>6. s \in Bijection(1..n, BloquesDe(f))
  BY <1>3, <1>4, <1>5 DEF Bijection, Injection, Surjection, IsInjective
<1>7. ExistsBijection(1..n, BloquesDe(f))
  BY <1>6 DEF ExistsBijection
<1>8. Cardinality(BloquesDe(f)) = n
  BY <1>2, <1>7, FS_CountingElements
<1> QED BY <1>8 DEF n, s

\* What is proved of a state is enough for the property.
LEMMA RepartoBasta == DiscoInv => BloqueDeUnArchivo
  BY ContarBloques DEF DiscoInv, Reparto, BloqueDeUnArchivo, BloquesDe, BloquesEn

\* There are no files at first.
LEMMA DiscoInicio ==
  ASSUME FileSystemAssumption
  PROVE  Init => DiscoInv
<1> SUFFICES ASSUME Init PROVE DiscoInv
  OBVIOUS
<1>1. DOMAIN meta = {}
  BY DEF Init
<1>2. TipoFs
  BY <1>1 DEF Init, TipoFs, Peticion, Libre, FileSystemAssumption, Bloque, Pasos, Sobreviven
<1>3. Reparto
  BY <1>1 DEF Init, Reparto, Libre
<1> QED BY <1>2, <1>3 DEF DiscoInv

-----------------------------------------------------------------------------
\* The end of a request, the death of the process, and an answer that left its heap
\* overwritten.
Ociosos == {Libre, [Libre EXCEPT !.pc = "caido"], [Libre EXCEPT !.pc = "pisado"]}

\* A request ends, or the process dies, with the disk as it is.
LEMMA DiscoSuelta ==
  ASSUME DiscoInv, UNCHANGED <<bitarray, meta>>, fs' \in Ociosos,
         ~truncado' => ~truncado /\ ~(fs.pc = "borrar" /\ fs.j > 1)
  PROVE  DiscoInv'
<1>1. fs'.pc \in {"libre", "caido", "pisado"}
  BY DEF Ociosos, Libre
<1>2. TipoFs'
  <2>1. fs' \in Peticion
    BY DEF Ociosos, Libre, Peticion, Pasos
  <2> QED BY <1>1, <2>1 DEF DiscoInv, TipoFs, Sobreviven
<1>3. ASSUME ~truncado' PROVE Reparto'
  BY <1>1, <1>3 DEF DiscoInv, Reparto, BloquesEn
<1> QED BY <1>2, <1>3 DEF DiscoInv

\* A step that leaves the bitmap, the metadata and the request alone.
LEMMA DiscoQuieta ==
  ASSUME DiscoInv, UNCHANGED <<bitarray, meta, fs, truncado>>
  PROVE  DiscoInv'
BY DEF DiscoInv, TipoFs, Reparto, BloquesEn

\* The next step of a request on the same file, with the same blocks.
LEMMA DiscoSigue ==
  ASSUME DiscoInv, UNCHANGED <<bitarray, meta, truncado>>,
         fs' \in Peticion,
         fs'.path \in DOMAIN meta, fs'.pc \in {"borrar", "escribir", "tamanio", "reservar"},
         fs.pc # "borrar", fs'.pc = "borrar" => fs'.j >= 1
  PROVE  DiscoInv'
<1>1. TipoFs'
  BY DEF DiscoInv, TipoFs, Sobreviven, Peticion
<1>2. ASSUME ~truncado' PROVE Reparto'
  BY <1>2 DEF DiscoInv, Reparto, BloquesEn
<1> QED BY <1>1, <1>2 DEF DiscoInv

\* The bitmap gets one block more, which was not marked.
LEMMA DiscoMarca ==
  ASSUME DiscoInv, UNCHANGED <<meta, truncado>>, NEW b \in Nat, b \notin bitarray,
         bitarray' = bitarray \cup {b},
         fs' \in Peticion,
         fs'.bloque = b, fs.pc # "borrar",
         \/ fs'.pc = "crear" /\ fs'.path \in Archivo \ DOMAIN meta
         \/ fs'.pc = "anotar" /\ fs'.path \in DOMAIN meta
  PROVE  DiscoInv'
<1>1. TipoFs'
  BY DEF DiscoInv, TipoFs, Sobreviven, Peticion
<1>2. ASSUME ~truncado' PROVE Reparto'
  <2>1. \A f \in DOMAIN meta : BloquesEn(meta, f) \subseteq bitarray
    BY <1>2 DEF DiscoInv, Reparto
  <2> QED BY <1>2, <2>1 DEF DiscoInv, Reparto, BloquesEn
<1> QED BY <1>1, <1>2 DEF DiscoInv

-----------------------------------------------------------------------------
\* The requests.

\* validarArchivo changes nothing on the disk.
LEMMA DiscoValidar ==
  ASSUME DiscoInv, NEW f \in Archivo, ValidarArchivo(f)
  PROVE  DiscoInv'
BY DiscoSuelta DEF ValidarArchivo, Pedido, Listo, Ociosos, historia

\* crearArchivo marks the block before the metadata file names it.
LEMMA DiscoCrear ==
  ASSUME FileSystemAssumption, DiscoInv, NEW f \in Archivo, CrearArchivo(f)
  PROVE  DiscoInv'
<1>1. fs.pc = "libre" /\ UNCHANGED <<meta, truncado>>
  BY DEF CrearArchivo, Pedido, historia
<1>2. CASE Existe(f) \/ BuscarBloqueLibre = Nada
  BY <1>1, <1>2, DiscoSuelta DEF CrearArchivo, Listo, Ociosos
<1>3. CASE ~(Existe(f) \/ BuscarBloqueLibre = Nada)
  <2> DEFINE b == BuscarBloqueLibre
  <2>1. b \in Nat /\ b \notin bitarray
    BY <1>3, BloqueHallado
  <2>2. /\ bitarray' = bitarray \cup {b}
        /\ fs' = [Libre EXCEPT !.pc = "crear", !.path = f, !.bloque = b]
    BY <1>3 DEF CrearArchivo
  <2> HIDE DEF b
  <2>3. fs' \in Peticion /\ fs'.bloque = b /\ fs'.pc = "crear" /\ fs'.path = f
    BY <2>1, <2>2 DEF Libre, Peticion, Pasos
  <2> QED BY <1>1, <1>3, <2>1, <2>2, <2>3, DiscoMarca DEF Existe
<1> QED BY <1>2, <1>3

\* A deletion begins: no block is freed yet.
LEMMA DiscoBorrar ==
  ASSUME DiscoInv, NEW f \in Archivo, BorrarArchivo(f)
  PROVE  DiscoInv'
<1>1. fs.pc = "libre" /\ UNCHANGED <<bitarray, meta, truncado>>
  BY DEF BorrarArchivo, Pedido, historia
<1>2. CASE Existe(f)
  <2>1. fs' = [Libre EXCEPT !.pc = "borrar", !.path = f, !.j = 1]
    BY <1>2 DEF BorrarArchivo
  <2>2. fs' \in Peticion /\ fs'.pc = "borrar" /\ fs'.path = f /\ fs'.j = 1
    BY <2>1 DEF Libre, Peticion, Pasos
  <2> QED BY <1>1, <1>2, <2>2, DiscoSigue DEF Existe
<1>3. CASE ~Existe(f)
  BY <1>1, <1>3, DiscoSuelta DEF BorrarArchivo, Listo, Ociosos
<1> QED BY <1>2, <1>3

\* A write begins, or is refused, or kills the process.
LEMMA DiscoGuardar ==
  ASSUME FileSystemAssumption, DiscoInv, NEW f \in Archivo, NEW o \in Cursores, NEW s \in Tamanos,
         GuardarDatos(f, o, s)
  PROVE  DiscoInv'
<1> DEFINE B == meta[f].BLOQUES
           n == o \div Tam
<1>1. fs.pc = "libre" /\ UNCHANGED <<bitarray, meta, truncado>>
  BY DEF GuardarDatos, Pedido, historia
<1>2. CASE ~Existe(f) \/ n >= Len(B)
  BY <1>1, <1>2, DiscoSuelta DEF GuardarDatos, Listo, Muere, Ociosos
<1>3. CASE Existe(f) /\ ~(n >= Len(B))
  <2>1. fs' = [Libre EXCEPT !.pc = "escribir", !.path = f, !.offset = o, !.size = s,
                            !.bloque = B[n + 1], !.j = n, !.cantBloques = Len(B)]
    BY <1>3 DEF GuardarDatos
  <2>2. B \in Seq(Nat)
    BY <1>3 DEF DiscoInv, TipoFs, Metadatos, Existe
  <2>3. o \in Nat /\ s \in Nat /\ n \in Nat
    BY DEF FileSystemAssumption
  <2> HIDE DEF B, n
  <2>4. B[n + 1] \in Nat /\ Len(B) \in Nat
    BY <1>3, <2>2, <2>3
  <2>5. fs' \in Peticion /\ fs'.pc = "escribir" /\ fs'.path = f
    BY <2>1, <2>3, <2>4 DEF Libre, Peticion, Pasos
  <2> QED BY <1>1, <1>3, <2>5, DiscoSigue DEF Existe
<1> QED BY <1>2, <1>3

\* A read changes nothing on the disk.
LEMMA DiscoObtener ==
  ASSUME DiscoInv, NEW f \in Archivo, NEW o \in Cursores, NEW s \in Tamanos, ObtenerDatos(f, o, s)
  PROVE  DiscoInv'
<1>1. fs.pc = "libre" /\ UNCHANGED <<bitarray, meta, truncado>>
  BY DEF ObtenerDatos, Pedido, historia
<1>2. UNCHANGED fs \/ fs' \in Ociosos
  BY DEF ObtenerDatos, LeerDeMas, Listo, Muere, Ociosos
<1> QED BY <1>1, <1>2, DiscoQuieta, DiscoSuelta

\* The process starts again: the blocks of a deletion that had begun are no
\* longer told apart.
LEMMA DiscoReiniciar ==
  ASSUME DiscoInv, Reiniciar
  PROVE  DiscoInv'
BY DiscoSuelta DEF Reiniciar, Ociosos

-----------------------------------------------------------------------------
\* The steps of the request being served.

\* The new file has the block that was marked for it, which is of no other file.
LEMMA DiscoEscribirMetadata ==
  ASSUME DiscoInv, EscribirMetadata
  PROVE  DiscoInv'
<1> DEFINE p == fs.path
           b == fs.bloque
<1>1. /\ fs.pc = "crear" /\ fs' = Libre /\ UNCHANGED <<bitarray, truncado>>
      /\ meta' = [f \in DOMAIN meta \cup {p} |->
                    IF f = p THEN [TAMANIO |-> 0, BLOQUES |-> <<b>>] ELSE meta[f]]
  BY DEF EscribirMetadata, Listo
<1>2. p \in Archivo /\ p \notin DOMAIN meta /\ b \in Nat
  BY <1>1 DEF DiscoInv, TipoFs, Peticion
<1> HIDE DEF p, b
<1>3. DOMAIN meta' = DOMAIN meta \cup {p} /\ p \in DOMAIN meta' /\ DOMAIN meta \subseteq DOMAIN meta'
  BY <1>1
<1>4. meta'[p] = [TAMANIO |-> 0, BLOQUES |-> <<b>>] /\ \A f \in DOMAIN meta : meta'[f] = meta[f]
  BY <1>1, <1>2
<1>5. meta'[p].BLOQUES = <<b>> /\ meta'[p] \in Metadatos
  BY <1>2, <1>4 DEF Metadatos
<1>6. TipoFs'
  <2>1. fs' \in Peticion /\ fs'.pc = "libre"
    BY <1>1 DEF Libre, Peticion, Pasos
  <2> QED BY <1>1, <1>2, <1>3, <1>4, <1>5, <2>1 DEF DiscoInv, TipoFs, Sobreviven
<1>7. ASSUME ~truncado' PROVE Reparto'
  <2>1. BloquesEn(meta', p) = {b} /\ \A f \in DOMAIN meta : BloquesEn(meta', f) = BloquesEn(meta, f)
    BY <1>3, <1>4, <1>5 DEF BloquesEn
  <2>2. b \in bitarray /\ \A f \in DOMAIN meta : b \notin BloquesEn(meta, f) /\ BloquesEn(meta, f) \subseteq bitarray
    BY <1>1, <1>7 DEF DiscoInv, Reparto, b
  <2>3. \A f \in DOMAIN meta' : \A i, k \in DOMAIN meta'[f].BLOQUES :
          meta'[f].BLOQUES[i] = meta'[f].BLOQUES[k] => i = k
    <3>1. \A i, k \in DOMAIN <<b>> : i = k
      OBVIOUS
    <3> QED BY <1>1, <1>3, <1>4, <1>5, <1>7, <3>1 DEF DiscoInv, Reparto
  <2>4. \A f, g \in DOMAIN meta' : f # g => BloquesEn(meta', f) \cap BloquesEn(meta', g) = {}
    BY <1>1, <1>3, <1>7, <2>1, <2>2 DEF DiscoInv, Reparto
  <2>5. \A f \in DOMAIN meta' : BloquesEn(meta', f) \subseteq bitarray'
    BY <1>1, <1>3, <2>1, <2>2
  <2>6. fs'.pc = "libre"
    BY <1>1 DEF Libre
  <2> QED BY <2>3, <2>4, <2>5, <2>6 DEF Reparto
<1> QED BY <1>6, <1>7 DEF DiscoInv

\* The blocks of the other files stay marked: they are apart from the one freed.
LEMMA DiscoLiberarBloque ==
  ASSUME DiscoInv, LiberarBloque
  PROVE  DiscoInv'
<1>1. /\ fs.pc = "borrar" /\ fs.j <= Len(meta[fs.path].BLOQUES)
      /\ bitarray' = bitarray \ {meta[fs.path].BLOQUES[fs.j]}
      /\ fs' = [fs EXCEPT !.j = @ + 1] /\ UNCHANGED <<meta, truncado>>
  BY DEF LiberarBloque, historia
<1>2. fs' \in Peticion /\ fs'.pc = "borrar" /\ fs'.path = fs.path /\ fs'.j = fs.j + 1
  BY <1>1 DEF DiscoInv, TipoFs, Peticion
<1>3. TipoFs'
  <2>1. fs'.j >= 1
    BY <1>1, <1>2 DEF DiscoInv, TipoFs, Peticion
  <2> QED BY <1>1, <1>2, <2>1 DEF DiscoInv, TipoFs, Sobreviven
<1>4. ASSUME ~truncado' PROVE Reparto'
  <2>1. fs.path \in DOMAIN meta /\ meta[fs.path].BLOQUES \in Seq(Nat) /\ fs.j \in Nat \ {0}
    BY <1>1 DEF DiscoInv, TipoFs, Sobreviven, Metadatos, Peticion
  <2> DEFINE b == meta[fs.path].BLOQUES[fs.j]
  <2>2. b \in BloquesEn(meta, fs.path)
    BY <1>1, <2>1 DEF BloquesEn
  <2>3. \A f \in DOMAIN meta : f # fs.path => b \notin BloquesEn(meta, f)
    BY <1>1, <1>4, <2>1, <2>2 DEF DiscoInv, Reparto
  <2> HIDE DEF b
  <2>4. \A f \in DOMAIN meta : f # fs.path => BloquesEn(meta, f) \subseteq bitarray'
    BY <1>1, <1>4, <2>3 DEF DiscoInv, Reparto, b
  <2>5. fs'.j > 1
    BY <1>2, <2>1
  <2> QED BY <1>1, <1>2, <1>4, <2>4, <2>5 DEF DiscoInv, Reparto
<1> QED BY <1>3, <1>4 DEF DiscoInv

\* The file whose blocks were freed is gone.
LEMMA DiscoUnlink ==
  ASSUME DiscoInv, Unlink
  PROVE  DiscoInv'
<1>1. /\ fs.pc = "borrar" /\ fs' = Libre /\ UNCHANGED <<bitarray, truncado>>
      /\ meta' = [f \in DOMAIN meta \ {fs.path} |-> meta[f]]
  BY DEF Unlink, Listo, historia
<1>2. DOMAIN meta' = DOMAIN meta \ {fs.path} /\ \A f \in DOMAIN meta' : meta'[f] = meta[f]
  BY <1>1
<1>3. fs' \in Peticion /\ fs'.pc = "libre"
  BY <1>1 DEF Libre, Peticion, Pasos
<1>4. TipoFs'
  BY <1>1, <1>2, <1>3 DEF DiscoInv, TipoFs, Sobreviven
<1>5. ASSUME ~truncado' PROVE Reparto'
  <2>1. \A f \in DOMAIN meta' : BloquesEn(meta', f) = BloquesEn(meta, f)
    BY <1>2 DEF BloquesEn
  <2>2. Reparto
    BY <1>1, <1>5 DEF DiscoInv
  <2>3. \A f \in DOMAIN meta' : BloquesEn(meta', f) \subseteq bitarray'
    BY <1>1, <1>2, <2>1, <2>2 DEF Reparto
  <2>4. \A f, g \in DOMAIN meta' : f # g => BloquesEn(meta', f) \cap BloquesEn(meta', g) = {}
    BY <1>2, <2>1, <2>2 DEF Reparto
  <2>5. \A f \in DOMAIN meta' : \A i, k \in DOMAIN meta'[f].BLOQUES :
          meta'[f].BLOQUES[i] = meta'[f].BLOQUES[k] => i = k
    BY <1>2, <2>2 DEF Reparto
  <2> QED BY <1>3, <2>3, <2>4, <2>5 DEF Reparto
<1> QED BY <1>4, <1>5 DEF DiscoInv

\* A block file is written: which file has it does not change.
LEMMA DiscoEscribirBloque ==
  ASSUME FileSystemAssumption, DiscoInv, EscribirBloque
  PROVE  DiscoInv'
<1>1. fs.pc = "escribir" /\ UNCHANGED <<bitarray, meta, truncado>>
  BY DEF EscribirBloque, historia
<1>2. CASE Muere
  BY <1>1, <1>2, DiscoSuelta DEF Muere, Ociosos
<1>3. CASE ~Muere
  <2> DEFINE B == meta[fs.path].BLOQUES
             k == (fs.offset \div Tam) + fs.j + 1
             total == fs.bytesEscritos + Menor(fs.size - fs.bytesEscritos, Tam)
  <2>1. fs.path \in DOMAIN meta /\ fs \in Peticion /\ B \in Seq(Nat)
    BY <1>1 DEF DiscoInv, TipoFs, Sobreviven, Metadatos
  <2>2. total \in Nat
    BY <2>1 DEF Menor, FileSystemAssumption, Peticion
  <2>3. k \in Nat /\ (k < Len(B) => B[k + 1] \in Nat)
    <3>1. fs.offset \div Tam \in Nat
      <4>1. fs.offset \in Nat /\ Tam \in Nat \ {0}
        BY <2>1 DEF FileSystemAssumption, Peticion
      <4> QED BY <4>1
    <3>2. fs.j \in Nat
      BY <2>1 DEF Peticion
    <3>3. k \in Nat
      BY <3>1, <3>2
    <3> HIDE DEF k, B
    <3> QED BY <2>1, <3>3
  <2>4. \/ fs' = [fs EXCEPT !.pc = "tamanio"]
        \/ fs' = [fs EXCEPT !.pc = "reservar", !.bytesEscritos = total]
        \/ k < Len(B) /\ fs' = [fs EXCEPT !.bytesEscritos = total, !.j = @ + 1, !.bloque = B[k + 1]]
    BY <1>3 DEF EscribirBloque
  <2> HIDE DEF total, B, k
  <2>5. fs' \in Peticion /\ fs'.path = fs.path /\ fs'.pc \in {"escribir", "tamanio", "reservar"}
    <3>1. CASE fs' = [fs EXCEPT !.pc = "tamanio"]
      BY <2>1, <3>1 DEF Peticion, Pasos
    <3>2. CASE fs' = [fs EXCEPT !.pc = "reservar", !.bytesEscritos = total]
      BY <2>1, <2>2, <3>2 DEF Peticion, Pasos
    <3>3. ASSUME k < Len(B), fs' = [fs EXCEPT !.bytesEscritos = total, !.j = @ + 1, !.bloque = B[k + 1]]
          PROVE  fs' \in Peticion /\ fs'.path = fs.path /\ fs'.pc = "escribir"
      <4> DEFINE x == B[k + 1]
      <4>1. x \in Nat
        BY <2>3, <3>3
      <4> DEFINE y == fs.j + 1
      <4>2. y \in Nat
        BY <2>1 DEF Peticion
      <4>3. fs' = [fs EXCEPT !.bytesEscritos = total, !.j = y, !.bloque = x]
        BY <2>1, <3>3 DEF Peticion
      <4> HIDE DEF x, y
      <4> QED BY <1>1, <2>1, <2>2, <4>1, <4>2, <4>3 DEF Peticion, Pasos
    <3> QED BY <2>4, <3>1, <3>2, <3>3
  <2> QED BY <1>1, <2>1, <2>5, DiscoSigue
<1> QED BY <1>2, <1>3

\* The block found was not marked, so it is of no file.
LEMMA DiscoReservar ==
  ASSUME FileSystemAssumption, DiscoInv, ReservarNuevoBloque
  PROVE  DiscoInv'
<1> DEFINE b == BuscarBloqueLibre
<1>1. fs.pc = "reservar" /\ UNCHANGED <<meta, truncado>>
  BY DEF ReservarNuevoBloque
<1>2. CASE b = Nada
  BY <1>1, <1>2, DiscoSuelta DEF ReservarNuevoBloque, Listo, Ociosos
<1>3. CASE b # Nada
  <2>1. b \in Nat /\ b \notin bitarray
    BY <1>3, BloqueHallado
  <2>2. bitarray' = bitarray \cup {b} /\ fs' = [fs EXCEPT !.pc = "anotar", !.bloque = b]
    BY <1>3 DEF ReservarNuevoBloque
  <2>3. fs.path \in DOMAIN meta /\ fs \in Peticion
    BY <1>1 DEF DiscoInv, TipoFs, Sobreviven
  <2> HIDE DEF b
  <2>4. fs' \in Peticion /\ fs'.bloque = b /\ fs'.pc = "anotar" /\ fs'.path = fs.path
    BY <2>1, <2>2, <2>3 DEF Peticion, Pasos
  <2> QED BY <1>1, <2>1, <2>2, <2>3, <2>4, DiscoMarca
<1> QED BY <1>2, <1>3

\* The file gets, at the end of its list, a block that was nobody's.
LEMMA DiscoAnotar ==
  ASSUME DiscoInv, AnotarBloque
  PROVE  DiscoInv'
<1> DEFINE p == fs.path
           b == fs.bloque
           s == meta[p].BLOQUES
<1>1. /\ fs.pc = "anotar" /\ fs' = [fs EXCEPT !.pc = "escribir"] /\ UNCHANGED <<bitarray, truncado>>
      /\ meta' = [meta EXCEPT ![p].BLOQUES = Append(s, b)]
  BY DEF AnotarBloque, historia
<1>2. p \in DOMAIN meta /\ b \in Nat /\ s \in Seq(Nat) /\ meta[p] \in Metadatos /\ fs \in Peticion
  BY <1>1 DEF DiscoInv, TipoFs, Sobreviven, Metadatos, Peticion
<1>3. fs' \in Peticion /\ fs'.pc = "escribir" /\ fs'.path = p
  BY <1>1, <1>2 DEF Peticion, Pasos
<1>4. /\ DOMAIN meta' = DOMAIN meta
      /\ \A f \in DOMAIN meta : f # p => meta'[f] = meta[f]
      /\ meta'[p] = [meta[p] EXCEPT !.BLOQUES = Append(s, b)]
  BY <1>1, <1>2
<1>5. Append(s, b) \in Seq(Nat)
  BY <1>2
<1>6. meta'[p] \in Metadatos /\ meta'[p].BLOQUES = Append(s, b)
  BY <1>2, <1>4, <1>5 DEF Metadatos
<1>7. TipoFs'
  BY <1>1, <1>2, <1>3, <1>4, <1>6 DEF DiscoInv, TipoFs, Sobreviven
<1>8. ASSUME ~truncado' PROVE Reparto'
  <2>1. b \in bitarray /\ \A f \in DOMAIN meta : b \notin BloquesEn(meta, f) /\ BloquesEn(meta, f) \subseteq bitarray
    BY <1>1, <1>8 DEF DiscoInv, Reparto
  <2>2. \A i, k \in DOMAIN s : s[i] = s[k] => i = k
    BY <1>1, <1>2, <1>8 DEF DiscoInv, Reparto
  <2>3. BloquesEn(meta, p) = {s[i] : i \in DOMAIN s}
    BY DEF BloquesEn
  <2>4. \A i \in DOMAIN s : s[i] # b
    BY <1>2, <2>1, <2>3
  <2> HIDE DEF s, b
  <2>5. /\ DOMAIN Append(s, b) = DOMAIN s \cup {Len(s) + 1} /\ Append(s, b)[Len(s) + 1] = b
        /\ \A i \in DOMAIN s : Append(s, b)[i] = s[i]
        /\ Len(s) + 1 \notin DOMAIN s
    BY <1>2
  <2>6. \A i, k \in DOMAIN Append(s, b) : Append(s, b)[i] = Append(s, b)[k] => i = k
    BY <2>2, <2>4, <2>5
  <2>7. BloquesEn(meta', p) = {Append(s, b)[i] : i \in DOMAIN Append(s, b)}
    BY <1>6 DEF BloquesEn
  <2>8. BloquesEn(meta', p) = BloquesEn(meta, p) \cup {b}
    BY <2>3, <2>5, <2>7
  <2>9. \A f \in DOMAIN meta : f # p => BloquesEn(meta', f) = BloquesEn(meta, f)
    BY <1>4 DEF BloquesEn
  <2>10. \A f \in DOMAIN meta' : \A i, k \in DOMAIN meta'[f].BLOQUES :
           meta'[f].BLOQUES[i] = meta'[f].BLOQUES[k] => i = k
    BY <1>4, <1>6, <1>8, <1>1, <2>6 DEF DiscoInv, Reparto
  <2>11. \A f, g \in DOMAIN meta' : f # g => BloquesEn(meta', f) \cap BloquesEn(meta', g) = {}
    <3>1. \A f, g \in DOMAIN meta : f # g => BloquesEn(meta, f) \cap BloquesEn(meta, g) = {}
      BY <1>1, <1>8 DEF DiscoInv, Reparto
    <3> SUFFICES ASSUME NEW f \in DOMAIN meta, NEW g \in DOMAIN meta, f # g
                 PROVE  BloquesEn(meta', f) \cap BloquesEn(meta', g) = {}
      BY <1>4
    <3>2. CASE f = p
      BY <2>1, <2>8, <2>9, <3>1, <3>2
    <3>3. CASE g = p
      BY <2>1, <2>8, <2>9, <3>1, <3>3
    <3>4. CASE f # p /\ g # p
      BY <2>9, <3>1, <3>4
    <3> QED BY <3>2, <3>3, <3>4
  <2>12. \A f \in DOMAIN meta' : BloquesEn(meta', f) \subseteq bitarray'
    BY ZenonT(40), <1>1, <1>4, <2>1, <2>8, <2>9
  <2> QED BY <1>3, <2>10, <2>11, <2>12 DEF Reparto
<1> QED BY <1>7, <1>8 DEF DiscoInv

\* The size of a file changes, its blocks do not.
LEMMA DiscoAumentar ==
  ASSUME DiscoInv, AumentarTamanio
  PROVE  DiscoInv'
<1> DEFINE p == fs.path
           fin == fs.offset + fs.size
           t == IF fin > meta[p].TAMANIO THEN fin ELSE meta[p].TAMANIO
<1>1. fs.pc = "tamanio" /\ fs' = Libre /\ UNCHANGED <<bitarray, truncado>>
  BY DEF AumentarTamanio, Listo
<1>2. p \in DOMAIN meta /\ meta[p] \in Metadatos /\ fin \in Nat
  BY <1>1 DEF DiscoInv, TipoFs, Sobreviven, Peticion
<1>3. meta' = [meta EXCEPT ![p].TAMANIO = t] /\ t \in Nat
  BY <1>2 DEF AumentarTamanio, Metadatos
<1> HIDE DEF t
<1>4. /\ DOMAIN meta' = DOMAIN meta
      /\ \A f \in DOMAIN meta : f # p => meta'[f] = meta[f]
      /\ meta'[p] = [meta[p] EXCEPT !.TAMANIO = t]
  BY <1>2, <1>3
<1>5. meta'[p] \in Metadatos /\ meta'[p].BLOQUES = meta[p].BLOQUES
  BY <1>2, <1>3, <1>4 DEF Metadatos
<1>6. fs' \in Peticion /\ fs'.pc = "libre"
  BY <1>1 DEF Libre, Peticion, Pasos
<1>7. TipoFs'
  BY <1>1, <1>4, <1>5, <1>6 DEF DiscoInv, TipoFs, Sobreviven
<1>8. \A f \in DOMAIN meta : meta'[f].BLOQUES = meta[f].BLOQUES
  BY <1>4, <1>5
<1>9. \A f \in DOMAIN meta : BloquesEn(meta', f) = BloquesEn(meta, f)
  BY <1>8 DEF BloquesEn
<1>10. ASSUME ~truncado' PROVE Reparto'
  BY <1>1, <1>4, <1>6, <1>8, <1>9, <1>10 DEF DiscoInv, Reparto
<1> QED BY <1>7, <1>10 DEF DiscoInv
-----------------------------------------------------------------------------
\* Every step of the file system keeps the disk in order.
LEMMA DiscoPaso ==
  ASSUME FileSystemAssumption
  PROVE  DiscoInv /\ [Next]_vars => DiscoInv'
<1> SUFFICES ASSUME DiscoInv, [Next]_vars PROVE DiscoInv'
  OBVIOUS
<1>1. ASSUME NEW f \in Archivo, ValidarArchivo(f) \/ CrearArchivo(f) \/ BorrarArchivo(f)
      PROVE  DiscoInv'
  BY <1>1, DiscoValidar, DiscoCrear, DiscoBorrar
<1>2. ASSUME NEW f \in Archivo, NEW o \in Cursores, NEW s \in Tamanos,
             GuardarDatos(f, o, s) \/ ObtenerDatos(f, o, s)
      PROVE  DiscoInv'
  BY <1>2, DiscoGuardar, DiscoObtener
<1>3. CASE EscribirMetadata
  BY <1>3, DiscoEscribirMetadata
<1>4. CASE LiberarBloque
  BY <1>4, DiscoLiberarBloque
<1>5. CASE Unlink
  BY <1>5, DiscoUnlink
<1>6. CASE EscribirBloque
  BY <1>6, DiscoEscribirBloque
<1>7. CASE ReservarNuevoBloque
  BY <1>7, DiscoReservar
<1>8. CASE AnotarBloque
  BY <1>8, DiscoAnotar
<1>9. CASE AumentarTamanio
  BY <1>9, DiscoAumentar
<1>10. CASE Reiniciar
  BY <1>10, DiscoReiniciar
<1>11. CASE UNCHANGED vars
  BY <1>11, DiscoQuieta DEF vars
<1> QED
  BY <1>1, <1>2, <1>3, <1>4, <1>5, <1>6, <1>7, <1>8, <1>9, <1>10, <1>11 DEF Next, Sirve

\* DiscoInv holds in every reachable state.
LEMMA DiscoSiempre == Spec => []DiscoInv
<1>1. Init => DiscoInv
  BY DiscoInicio, FileSystemAssumption
<1>2. DiscoInv /\ [Next]_vars => DiscoInv'
  BY DiscoPaso, FileSystemAssumption
<1> QED BY <1>1, <1>2, PTL DEF Spec

\* A block belongs to one file and once, whatever the order of creations,
\* writes and deletions, until the process dies inside a deletion
\* (buscarBloqueLibre, crearArchivo, guardarDatos and borrarArchivo).
THEOREM BloquesSeguros == Spec => []BloqueDeUnArchivo
BY DiscoSiempre, RepartoBasta, PTL

\* The blocks of a file are marked in the bitmap, unless it is being deleted
\* (escribirValorBitarray comes before the metadata file is written).
THEOREM BloquesMarcados ==
  Spec => [](~truncado => \A f \in DOMAIN meta :
                BloquesDe(f) \subseteq bitarray \/ (fs.pc = "borrar" /\ fs.path = f))
<1>1. DiscoInv => (~truncado => \A f \in DOMAIN meta :
                     BloquesDe(f) \subseteq bitarray \/ (fs.pc = "borrar" /\ fs.path = f))
  BY DEF DiscoInv, Reparto, BloquesEn, BloquesDe
<1> QED BY <1>1, DiscoSiempre, PTL

-----------------------------------------------------------------------------
\* The sizes of the files, which are all that Directorio sees.
Tamanios == [f \in DOMAIN meta |-> meta[f].TAMANIO]

\* A step that leaves the names and the sizes alone.
LEMMA DirectorioIgual ==
  ASSUME DOMAIN meta' = DOMAIN meta, \A f \in DOMAIN meta : meta'[f].TAMANIO = meta[f].TAMANIO
  PROVE  Tamanios' = Tamanios
BY DEF Tamanios

\* The metadata file of a new file is Crear.
LEMMA DirectorioCrea ==
  ASSUME DiscoInv, EscribirMetadata
  PROVE  \E f \in Archivo : Dir!Crear(f)
<1>1. PICK p \in Archivo \ DOMAIN meta : p = fs.path
  BY DEF EscribirMetadata, DiscoInv, TipoFs
<1> DEFINE m == [f \in DOMAIN meta \cup {p} |->
                   IF f = p THEN [TAMANIO |-> 0, BLOQUES |-> <<fs.bloque>>] ELSE meta[f]]
<1>2. meta' = m
  BY <1>1 DEF EscribirMetadata
<1>3. DOMAIN Tamanios = DOMAIN meta /\ \A f \in DOMAIN meta : Tamanios[f] = meta[f].TAMANIO
  BY DEF Tamanios
<1>4. Tamanios' = [f \in DOMAIN Tamanios \cup {p} |-> IF f = p THEN 0 ELSE Tamanios[f]]
  <2>1. DOMAIN m = DOMAIN meta \cup {p} /\ m[p].TAMANIO = 0
    OBVIOUS
  <2>2. \A f \in DOMAIN meta : f # p /\ m[f].TAMANIO = meta[f].TAMANIO
    BY <1>1
  <2>3. Tamanios' = [f \in DOMAIN m |-> m[f].TAMANIO]
    BY <1>2 DEF Tamanios
  <2> HIDE DEF m
  <2> QED BY <1>3, <2>1, <2>2, <2>3
<1>5. Dir!Crear(p)
  BY <1>1, <1>3, <1>4 DEF Dir!Crear, Dir!Existen, Tamanios
<1> QED BY <1>1, <1>5

\* unlink is Borrar.
LEMMA DirectorioBorra ==
  ASSUME DiscoInv, Unlink
  PROVE  \E f \in Archivo : Dir!Borrar(f)
<1>1. PICK p \in Archivo : p = fs.path /\ p \in DOMAIN meta
  BY DEF Unlink, DiscoInv, TipoFs, Sobreviven
<1>2. meta' = [f \in DOMAIN meta \ {p} |-> meta[f]]
  BY <1>1 DEF Unlink
<1>3. Tamanios' = [f \in DOMAIN Tamanios \ {p} |-> Tamanios[f]]
  BY <1>2 DEF Tamanios
<1>4. Dir!Borrar(p)
  BY <1>1, <1>3 DEF Dir!Borrar, Dir!Existen, Tamanios
<1> QED BY <1>1, <1>4

\* The last step of a write is Crecer, or leaves the size as it was.
LEMMA DirectorioCrece ==
  ASSUME DiscoInv, AumentarTamanio
  PROVE  (\E f \in Archivo : Dir!Crecer(f)) \/ Tamanios' = Tamanios
<1> DEFINE fin == fs.offset + fs.size
<1>1. PICK p \in Archivo : p = fs.path /\ p \in DOMAIN meta /\ meta[p] \in Metadatos /\ fin \in Nat
  BY DEF AumentarTamanio, DiscoInv, TipoFs, Sobreviven, Peticion
<1> DEFINE t == IF fin > meta[p].TAMANIO THEN fin ELSE meta[p].TAMANIO
<1>2. meta' = [meta EXCEPT ![p].TAMANIO = t] /\ t \in Nat /\ t >= meta[p].TAMANIO
  BY <1>1 DEF AumentarTamanio, Metadatos
<1> HIDE DEF t, fin
<1>3. /\ DOMAIN meta' = DOMAIN meta
      /\ \A f \in DOMAIN meta : f # p => meta'[f].TAMANIO = meta[f].TAMANIO
      /\ meta'[p].TAMANIO = t
  BY <1>1, <1>2 DEF Metadatos
<1>4. CASE t = meta[p].TAMANIO
  BY <1>3, <1>4, DirectorioIgual
<1>5. CASE t > meta[p].TAMANIO
  <2>1. \A f \in DOMAIN meta : meta[f].TAMANIO \in Nat
    BY DEF DiscoInv, TipoFs, Metadatos
  <2>2. /\ DOMAIN Tamanios = DOMAIN meta /\ Tamanios' \in [DOMAIN meta -> Nat]
        /\ \A f \in DOMAIN meta : Tamanios[f] = meta[f].TAMANIO /\ Tamanios'[f] = meta'[f].TAMANIO
    BY <1>2, <1>3, <2>1 DEF Tamanios
  <2>3. \A a \in DOMAIN Tamanios : IF a = p THEN Tamanios'[a] > Tamanios[a] ELSE Tamanios'[a] = Tamanios[a]
    BY <1>3, <1>5, <2>2
  <2>4. Dir!Crecer(p)
    BY <1>1, <2>2, <2>3 DEF Dir!Crecer, Dir!Existen, Tamanios
  <2> QED BY <1>1, <2>4
<1>6. t = meta[p].TAMANIO \/ t > meta[p].TAMANIO
  BY <1>1, <1>2 DEF Metadatos
<1> QED BY <1>4, <1>5, <1>6

\* AnotarBloque changes the blocks of a file and not its size.
LEMMA DirectorioAnota ==
  ASSUME DiscoInv, AnotarBloque
  PROVE  Tamanios' = Tamanios
<1>1. fs.path \in DOMAIN meta /\ meta[fs.path] \in Metadatos
  BY DEF AnotarBloque, DiscoInv, TipoFs, Sobreviven
<1>2. meta' = [meta EXCEPT ![fs.path].BLOQUES = Append(@, fs.bloque)]
  BY DEF AnotarBloque
<1>3. \A f \in DOMAIN meta : meta'[f].TAMANIO = meta[f].TAMANIO
  BY <1>1, <1>2 DEF Metadatos
<1> QED BY <1>2, <1>3, DirectorioIgual

\* Every step of the file system is a step of Directorio or leaves it alone.
LEMMA DirectorioPaso == DiscoInv /\ [Next]_vars => [Dir!Next]_Tamanios
<1> SUFFICES ASSUME DiscoInv, [Next]_vars PROVE Dir!Next \/ Tamanios' = Tamanios
  OBVIOUS
<1>1. CASE EscribirMetadata
  BY <1>1, DirectorioCrea DEF Dir!Next
<1>2. CASE Unlink
  BY <1>2, DirectorioBorra DEF Dir!Next
<1>3. CASE AumentarTamanio
  BY <1>3, DirectorioCrece DEF Dir!Next
<1>4. CASE AnotarBloque
  BY <1>4, DirectorioAnota
<1>5. CASE UNCHANGED meta
  BY <1>5 DEF Tamanios
<1>6. ~(EscribirMetadata \/ Unlink \/ AumentarTamanio \/ AnotarBloque) => UNCHANGED meta
  BY ZenonT(40) DEF Next, Sirve, vars, ValidarArchivo, CrearArchivo, BorrarArchivo, GuardarDatos, ObtenerDatos,
         LiberarBloque, EscribirBloque, ReservarNuevoBloque, Reiniciar
<1> QED BY <1>1, <1>2, <1>3, <1>4, <1>5, <1>6

\* Files appear empty, grow and disappear whatever the requests, the blocks
\* left and the crashes: the file system implements Directorio.
THEOREM DirectorioImplementado == Spec => DirectorioSpec
<1>1. Init => Dir!Init
  BY DEF Init, Dir!Init
<1>2. DiscoInv /\ [Next]_vars => [Dir!Next]_([f \in DOMAIN meta |-> meta[f].TAMANIO])
  BY DirectorioPaso DEF Tamanios
<1> QED BY <1>1, <1>2, DiscoSiempre, PTL DEF Spec, DirectorioSpec, Dir!Spec

-----------------------------------------------------------------------------
\* The types of the disk.

\* x is the sequence s of elements of S with d written from place o on.
EsSobre(x, S, s, o, d) ==
  /\ x \in Seq(S)
  /\ Len(x) = (IF Len(s) > o + Len(d) THEN Len(s) ELSE o + Len(d))
  /\ \A i \in 1..Len(x) :
       x[i] = IF i > o /\ i <= o + Len(d) THEN d[i - o] ELSE IF i <= Len(s) THEN s[i] ELSE 0

LEMMA SobreBien ==
  ASSUME NEW S, 0 \in S, NEW s \in Seq(S), NEW o \in Nat, NEW d \in Seq(S)
  PROVE  EsSobre(Sobre(s, o, d), S, s, o, d)
<1> DEFINE n == IF Len(s) > o + Len(d) THEN Len(s) ELSE o + Len(d)
           V(i) == IF i > o /\ i <= o + Len(d) THEN d[i - o] ELSE IF i <= Len(s) THEN s[i] ELSE 0
<1>1. n \in Nat /\ \A i \in 1..n : V(i) \in S
  <2>1. Len(s) \in Nat /\ Len(d) \in Nat
    OBVIOUS
  <2>2. ASSUME NEW i \in 1..n, i > o, i <= o + Len(d) PROVE d[i - o] \in S
    <3>1. i - o \in 1..Len(d)
      BY <2>1, <2>2
    <3> QED BY <3>1
  <2>3. ASSUME NEW i \in 1..n, i <= Len(s) PROVE s[i] \in S
    BY <2>1, <2>3
  <2> QED BY <2>1, <2>2, <2>3
<1>2. Sobre(s, o, d) = [i \in 1..n |-> V(i)]
  BY DEF Sobre
<1> HIDE DEF V, n
<1>3. Sobre(s, o, d) \in Seq(S) /\ Len(Sobre(s, o, d)) = n /\ \A i \in 1..n : Sobre(s, o, d)[i] = V(i)
  BY <1>1, <1>2
<1> QED BY <1>3 DEF V, n, EsSobre

\* d has n elements of S, all of them x.
SonBytes(d, S, n, x) == d \in Seq(S) /\ Len(d) = n /\ \A i \in 1..n : d[i] = x

LEMMA BytesBien ==
  ASSUME NEW S, pedidos \in S, NEW n \in Nat
  PROVE  SonBytes(Bytes(n), S, n, pedidos)
BY DEF Bytes, SonBytes

\* What a write may leave in the disk and in the history.
TipoDisco ==
  /\ bitarray \subseteq Bloque
  /\ \A f \in DOMAIN meta : meta[f].BLOQUES \in Seq(Bloque)
  /\ datos \in [Bloque -> Seq(0..MaxPedidos)]
  /\ \A b \in Bloque : Len(datos[b]) \in Tam..(2 * Tam - 1)
  /\ pedidos \in 0..MaxPedidos
  /\ escrito \in [Archivo -> Seq(0..MaxPedidos)]
  /\ enOrden \subseteq Archivo
  /\ fs.bloque \in Bloque \cup {0}
  /\ fs.pc \in {"crear", "anotar"} => fs.bloque \in Bloque
  /\ fs.pc = "escribir" => fs.bloque \in BloquesEn(meta, fs.path)
  /\ fs.pc \in {"escribir", "reservar", "anotar"} => fs.bytesEscritos < fs.size

\* The disk is of its type at first.
LEMMA TipoDiscoInicio ==
  ASSUME FileSystemAssumption, Init
  PROVE  TipoDisco
<1> DEFINE s == [i \in 1..Tam |-> 0]
<1>1. s \in Seq(0..MaxPedidos) /\ Len(s) = Tam
  BY DEF FileSystemAssumption
<1>2. datos = [b \in Bloque |-> s]
  BY DEF Init
<1> HIDE DEF s
<1>3. Tam \in Tam..(2 * Tam - 1)
  BY DEF FileSystemAssumption
<1> QED BY <1>1, <1>2, <1>3 DEF Init, TipoDisco, Libre, FileSystemAssumption

\* The end of a request, or of the process, leaves the disk as it is.
LEMMA TipoSuelta ==
  ASSUME TipoDisco, fs' \in Ociosos, bitarray' \subseteq Bloque, UNCHANGED <<meta, datos, escrito>>,
         enOrden' \subseteq Archivo, pedidos' \in 0..MaxPedidos
  PROVE  TipoDisco'
<1>1. fs'.pc \in {"libre", "caido", "pisado"} /\ fs'.bloque = 0
  BY DEF Ociosos, Libre
<1> QED BY <1>1 DEF TipoDisco

\* A request comes: one more, and no more than the bound.
LEMMA PedidoTipo ==
  ASSUME FileSystemAssumption, TipoDisco, Pedido
  PROVE  pedidos' \in 0..MaxPedidos /\ fs.pc = "libre"
BY DEF FileSystemAssumption, TipoDisco, Pedido

\* The requests that only answer.
LEMMA TipoContesta ==
  ASSUME FileSystemAssumption, TipoDisco, Pedido, UNCHANGED <<bitarray, meta, datos, historia>>,
         fs' \in Ociosos \/ UNCHANGED fs
  PROVE  TipoDisco'
<1>1. pedidos' \in 0..MaxPedidos /\ fs.pc = "libre"
  BY PedidoTipo
<1>2. CASE fs' \in Ociosos
  BY <1>1, <1>2, TipoSuelta DEF TipoDisco, historia
<1>3. CASE UNCHANGED fs
  BY <1>1, <1>3 DEF TipoDisco, historia
<1> QED BY <1>2, <1>3

\* crearArchivo and borrarArchivo.
LEMMA TipoCrear ==
  ASSUME FileSystemAssumption, TipoDisco, NEW f \in Archivo, CrearArchivo(f)
  PROVE  TipoDisco'
<1>1. Pedido /\ pedidos' \in 0..MaxPedidos /\ UNCHANGED <<meta, datos, historia>>
  BY PedidoTipo DEF CrearArchivo
<1>2. CASE Existe(f) \/ BuscarBloqueLibre = Nada
  BY <1>1, <1>2, TipoContesta DEF CrearArchivo, Listo, Ociosos
<1>3. CASE ~(Existe(f) \/ BuscarBloqueLibre = Nada)
  <2> DEFINE b == BuscarBloqueLibre
  <2>1. b \in Bloque
    BY <1>3, BloqueHallado
  <2>2. bitarray' = bitarray \cup {b} /\ fs' = [Libre EXCEPT !.pc = "crear", !.path = f, !.bloque = b]
    BY <1>3 DEF CrearArchivo
  <2> HIDE DEF b
  <2>3. fs'.pc = "crear" /\ fs'.bloque = b
    BY <2>2 DEF Libre
  <2> QED BY <1>1, <2>1, <2>2, <2>3 DEF TipoDisco, historia
<1> QED BY <1>2, <1>3

LEMMA TipoBorrar ==
  ASSUME FileSystemAssumption, TipoDisco, NEW f \in Archivo, BorrarArchivo(f)
  PROVE  TipoDisco'
<1>1. Pedido /\ pedidos' \in 0..MaxPedidos /\ UNCHANGED <<bitarray, meta, datos, historia>>
  BY PedidoTipo DEF BorrarArchivo
<1>2. CASE ~Existe(f)
  BY <1>1, <1>2, TipoContesta DEF BorrarArchivo, Listo, Ociosos
<1>3. CASE Existe(f)
  <2>1. fs' = [Libre EXCEPT !.pc = "borrar", !.path = f, !.j = 1]
    BY <1>3 DEF BorrarArchivo
  <2>2. fs'.pc = "borrar" /\ fs'.bloque = 0
    BY <2>1 DEF Libre
  <2> QED BY <1>1, <2>2 DEF TipoDisco, historia
<1> QED BY <1>2, <1>3

\* guardarDatos begins with a block of the file.
LEMMA TipoGuardar ==
  ASSUME FileSystemAssumption, TipoDisco, NEW f \in Archivo, NEW o \in Cursores, NEW s \in Tamanos,
         GuardarDatos(f, o, s)
  PROVE  TipoDisco'
<1> DEFINE B == meta[f].BLOQUES
           n == o \div Tam
<1>1. Pedido /\ pedidos' \in 0..MaxPedidos /\ UNCHANGED <<bitarray, meta, datos, escrito>>
  BY PedidoTipo DEF GuardarDatos
<1>2. CASE ~Existe(f) \/ n >= Len(B)
  <2>1. fs' \in Ociosos /\ UNCHANGED enOrden
    BY <1>2 DEF GuardarDatos, Listo, Muere, Ociosos
  <2> QED BY <1>1, <2>1, TipoSuelta DEF TipoDisco
<1>3. CASE Existe(f) /\ ~(n >= Len(B))
  <2>1. /\ fs' = [Libre EXCEPT !.pc = "escribir", !.path = f, !.offset = o, !.size = s,
                            !.bloque = B[n + 1], !.j = n, !.cantBloques = Len(B)]
        /\ enOrden' \subseteq enOrden
    BY <1>3 DEF GuardarDatos
  <2>2. B \in Seq(Bloque)
    BY <1>3 DEF TipoDisco, Existe
  <2>3. o \in Nat /\ s \in Nat \ {0} /\ n \in Nat
    BY DEF FileSystemAssumption
  <2> HIDE DEF n
  <2>4. n + 1 \in DOMAIN B
    <3> HIDE DEF B
    <3> QED BY <1>3, <2>2, <2>3
  <2>5. B[n + 1] \in Bloque /\ B[n + 1] \in BloquesEn(meta, f)
    BY <2>2, <2>4 DEF BloquesEn
  <2> HIDE DEF B
  <2>6. fs'.pc = "escribir" /\ fs'.path = f /\ fs'.bloque = B[n + 1] /\ fs'.bytesEscritos = 0 /\ fs'.size = s
    BY <2>1 DEF Libre
  <2>7. fs'.bloque \in Bloque /\ fs'.bloque \in BloquesEn(meta, fs'.path) /\ fs'.bytesEscritos < fs'.size
    BY <2>3, <2>5, <2>6
  <2>8. enOrden' \subseteq Archivo
    BY <2>1 DEF TipoDisco
  <2> QED BY <1>1, <2>6, <2>7, <2>8 DEF TipoDisco
<1> QED BY <1>2, <1>3

\* The metadata file of the new file names a block of the disk.
LEMMA TipoEscribirMetadata ==
  ASSUME DiscoInv, TipoDisco, EscribirMetadata
  PROVE  TipoDisco'
<1> DEFINE p == fs.path
           b == fs.bloque
<1>1. /\ fs.pc = "crear" /\ fs' = Libre /\ UNCHANGED <<bitarray, datos, pedidos>>
      /\ meta' = [f \in DOMAIN meta \cup {p} |->
                    IF f = p THEN [TAMANIO |-> 0, BLOQUES |-> <<b>>] ELSE meta[f]]
      /\ escrito' = [escrito EXCEPT ![p] = << >>] /\ enOrden' = enOrden \cup {p}
  BY DEF EscribirMetadata, Listo
<1>2. p \in Archivo /\ b \in Bloque
  BY <1>1 DEF DiscoInv, TipoFs, TipoDisco
<1> HIDE DEF p, b
<1>3. \A f \in DOMAIN meta' : meta'[f].BLOQUES \in Seq(Bloque)
  BY <1>1, <1>2 DEF TipoDisco
<1>4. escrito' \in [Archivo -> Seq(0..MaxPedidos)] /\ enOrden' \subseteq Archivo
  BY <1>1, <1>2 DEF TipoDisco
<1>5. fs'.pc = "libre" /\ fs'.bloque = 0
  BY <1>1 DEF Libre
<1> QED BY <1>1, <1>3, <1>4, <1>5 DEF TipoDisco

\* The steps of a deletion.
LEMMA TipoBorra ==
  ASSUME DiscoInv, TipoDisco, LiberarBloque \/ Unlink
  PROVE  TipoDisco'
<1>1. fs.pc = "borrar" /\ bitarray' \subseteq bitarray /\ UNCHANGED <<datos, pedidos, escrito, enOrden>>
  BY DEF LiberarBloque, Unlink, historia
<1>2. fs'.pc \in {"borrar", "libre"} /\ fs'.bloque \in Bloque \cup {0}
  <2>1. CASE fs' = [fs EXCEPT !.j = @ + 1]
    BY <1>1, <2>1 DEF DiscoInv, TipoFs, TipoDisco, Peticion
  <2>2. CASE fs' = Libre
    BY <2>2 DEF Libre
  <2> QED BY <2>1, <2>2 DEF LiberarBloque, Unlink, Listo
<1>3. \A f \in DOMAIN meta' : meta'[f].BLOQUES \in Seq(Bloque)
  BY DEF LiberarBloque, Unlink, TipoDisco
<1> QED BY <1>1, <1>2, <1>3 DEF TipoDisco

\* What one turn of the loop of guardarDatos writes: how much, where in the
\* block, and how much is written after it.
Resto == Menor(fs.size - fs.bytesEscritos, Tam)
Desde == IF fs.bytesEscritos = 0 THEN fs.offset % Tam ELSE 0
Total == fs.bytesEscritos + Resto

LEMMA VueltaBien ==
  ASSUME FileSystemAssumption, DiscoInv, TipoDisco, fs.pc = "escribir"
  PROVE  /\ Resto \in 1..Tam /\ Desde \in 0..(Tam - 1) /\ Total \in Nat /\ Total <= fs.size
         /\ Total < fs.size => Resto = Tam
<1>1. /\ fs.size \in Nat /\ fs.bytesEscritos \in Nat /\ fs.offset \in Nat /\ Tam \in Nat \ {0}
      /\ fs.bytesEscritos < fs.size
  BY DEF FileSystemAssumption, DiscoInv, TipoFs, TipoDisco, Peticion
<1>2. fs.offset % Tam \in 0..(Tam - 1)
  BY <1>1
<1> QED BY <1>1, <1>2 DEF Resto, Desde, Total, Menor

\* The block file after the turn.
LEMMA BloqueEscrito ==
  ASSUME FileSystemAssumption, DiscoInv, TipoDisco, EscribirBloque
  PROVE  LET s == Sobre(datos[fs.bloque], Desde, Bytes(Resto)) IN
         /\ fs.bloque \in Bloque /\ fs.bloque \in BloquesEn(meta, fs.path) /\ fs.path \in DOMAIN meta
         /\ datos' = [datos EXCEPT ![fs.bloque] = s]
         /\ s \in Seq(0..MaxPedidos) /\ Len(s) \in Tam..(2 * Tam - 1)
         /\ \A r \in 1..Tam : Desde = 0 => s[r] = IF r <= Resto THEN pedidos ELSE datos[fs.bloque][r]
<1> DEFINE b == fs.bloque
           v == datos[b]
           s == Sobre(v, Desde, Bytes(Resto))
<1>1. fs.pc = "escribir" /\ datos' = [datos EXCEPT ![b] = s]
  BY DEF EscribirBloque, Desde, Resto
<1>2. fs.path \in DOMAIN meta /\ b \in BloquesEn(meta, fs.path)
  BY <1>1 DEF DiscoInv, TipoFs, Sobreviven, TipoDisco
<1>3. b \in Bloque
  <2>1. meta[fs.path].BLOQUES \in Seq(Bloque)
    BY <1>2 DEF TipoDisco
  <2> QED BY <1>2, <2>1 DEF BloquesEn
<1>4. v \in Seq(0..MaxPedidos) /\ Len(v) \in Tam..(2 * Tam - 1) /\ pedidos \in 0..MaxPedidos
  BY <1>3 DEF TipoDisco
<1>5. Resto \in 1..Tam /\ Desde \in 0..(Tam - 1) /\ Tam \in Nat \ {0} /\ MaxPedidos \in Nat
  BY <1>1, VueltaBien DEF FileSystemAssumption
<1> DEFINE d == Bytes(Resto)
<1>6. d \in Seq(0..MaxPedidos) /\ Len(d) = Resto /\ \A i \in 1..Resto : d[i] = pedidos
  <2>1. SonBytes(d, 0..MaxPedidos, Resto, pedidos)
    <3>1. Resto \in Nat
      BY <1>5
    <3> QED BY <1>4, <3>1, BytesBien
  <2> HIDE DEF d
  <2> QED BY <2>1 DEF SonBytes
<1> HIDE DEF d, v
<1> DEFINE t == Sobre(v, Desde, d)
<1>7. EsSobre(t, 0..MaxPedidos, v, Desde, d)
  <2>1. 0 \in 0..MaxPedidos /\ Desde \in Nat
    BY <1>5
  <2> QED BY <1>4, <1>6, <2>1, SobreBien
<1> HIDE DEF t
<1>8. Len(t) \in Tam..(2 * Tam - 1)
  <2> DEFINE n == Len(v)
             m == Desde + Resto
  <2>1. Len(t) = IF n > m THEN n ELSE m
    BY <1>6, <1>7 DEF EsSobre
  <2>2. m \in Nat /\ m <= 2 * Tam - 1
    BY <1>5
  <2>3. n \in Tam..(2 * Tam - 1)
    BY <1>4
  <2> HIDE DEF n, m
  <2> QED BY <1>5, <2>1, <2>2, <2>3
<1>9. ASSUME NEW r \in 1..Tam, Desde = 0 PROVE t[r] = IF r <= Resto THEN pedidos ELSE v[r]
  <2>1. r \in 1..Len(t) /\ r <= Len(v) /\ r > 0
    BY <1>4, <1>5, <1>8
  <2>2. CASE r <= Resto
    <3>1. r - Desde = r /\ r \in 1..Resto
      BY <1>5, <1>9, <2>1, <2>2
    <3> QED BY <1>5, <1>6, <1>7, <1>9, <2>1, <2>2, <3>1 DEF EsSobre
  <2>3. CASE ~(r <= Resto)
    BY <1>5, <1>6, <1>7, <1>9, <2>1, <2>3 DEF EsSobre
  <2> QED BY <2>2, <2>3
<1> QED BY <1>1, <1>2, <1>3, <1>7, <1>8, <1>9 DEF t, d, v, EsSobre

\* A turn of the loop writes one block file and goes on with another block of
\* the file.
LEMMA TipoEscribirBloque ==
  ASSUME FileSystemAssumption, DiscoInv, TipoDisco, EscribirBloque
  PROVE  TipoDisco'
<1> DEFINE B == meta[fs.path].BLOQUES
           k == (fs.offset \div Tam) + fs.j + 1
<1>1. fs.pc = "escribir" /\ UNCHANGED <<bitarray, meta, pedidos, escrito>>
  BY DEF EscribirBloque
<1>2. /\ datos' \in [Bloque -> Seq(0..MaxPedidos)]
      /\ \A b \in Bloque : Len(datos'[b]) \in Tam..(2 * Tam - 1)
  <2> DEFINE s == Sobre(datos[fs.bloque], Desde, Bytes(Resto))
  <2>1. /\ fs.bloque \in Bloque /\ datos' = [datos EXCEPT ![fs.bloque] = s]
        /\ s \in Seq(0..MaxPedidos) /\ Len(s) \in Tam..(2 * Tam - 1)
    BY BloqueEscrito
  <2> HIDE DEF s
  <2> QED BY <2>1 DEF TipoDisco
<1>3. CASE Muere /\ enOrden' = enOrden \ {fs.path}
  <2>1. fs'.pc = "caido" /\ fs'.bloque = 0 /\ enOrden' \subseteq Archivo
    BY <1>3 DEF Muere, Libre, TipoDisco
  <2> QED BY <1>1, <1>2, <2>1 DEF TipoDisco
<1>4. CASE ~(Muere /\ enOrden' = enOrden \ {fs.path})
  <2>1. fs \in Peticion /\ B \in Seq(Bloque) /\ fs.path \in DOMAIN meta /\ fs.bloque \in Bloque
    BY <1>1, BloqueEscrito DEF DiscoInv, TipoFs, Sobreviven, TipoDisco
  <2>2. k \in Nat /\ (k < Len(B) => k + 1 \in DOMAIN B)
    <3>1. fs.offset \div Tam \in Nat
      <4>1. fs.offset \in Nat /\ Tam \in Nat \ {0}
        BY <2>1 DEF FileSystemAssumption, Peticion
      <4> QED BY <4>1
    <3>2. k \in Nat
      BY <2>1, <3>1 DEF Peticion
    <3> HIDE DEF k, B
    <3> QED BY <2>1, <3>2
  <2>3. /\ UNCHANGED enOrden
        /\ \/ fs' = [fs EXCEPT !.pc = "tamanio"]
           \/ fs' = [fs EXCEPT !.pc = "reservar", !.bytesEscritos = Total] /\ Total < fs.size
           \/ /\ k < Len(B) /\ Total < fs.size
              /\ fs' = [fs EXCEPT !.bytesEscritos = Total, !.j = @ + 1, !.bloque = B[k + 1]]
    BY <1>4 DEF EscribirBloque, Total, Resto
  <2>4. k < Len(B) => B[k + 1] \in BloquesEn(meta, fs.path) /\ B[k + 1] \in Bloque
    BY <2>1, <2>2 DEF BloquesEn
  <2> HIDE DEF B, k
  <2>5. /\ fs'.path = fs.path /\ fs'.size = fs.size /\ fs'.bloque \in Bloque
        /\ fs'.pc \in {"tamanio", "reservar", "escribir"}
        /\ fs'.pc = "escribir" => fs'.bloque \in BloquesEn(meta, fs.path)
        /\ fs'.pc \in {"reservar", "escribir"} => fs'.bytesEscritos < fs.size
    <3>1. CASE fs' = [fs EXCEPT !.pc = "tamanio"]
      BY <2>1, <3>1 DEF Peticion
    <3>2. CASE fs' = [fs EXCEPT !.pc = "reservar", !.bytesEscritos = Total] /\ Total < fs.size
      BY <2>1, <3>2 DEF Peticion
    <3>3. ASSUME k < Len(B), Total < fs.size,
                 fs' = [fs EXCEPT !.bytesEscritos = Total, !.j = @ + 1, !.bloque = B[k + 1]]
          PROVE  /\ fs'.path = fs.path /\ fs'.size = fs.size /\ fs'.pc = fs.pc
                 /\ fs'.bloque = B[k + 1] /\ fs'.bytesEscritos = Total
      BY <2>1, <3>3 DEF Peticion
    <3> QED BY <1>1, <2>3, <2>4, <3>1, <3>2, <3>3
  <2>6. enOrden' \subseteq Archivo
    BY <2>3 DEF TipoDisco
  <2> QED BY <1>1, <1>2, <2>5, <2>6 DEF TipoDisco
<1> QED BY <1>3, <1>4

\* A block more for a write, and the end of a write.
LEMMA TipoReservar ==
  ASSUME FileSystemAssumption, DiscoInv, TipoDisco, ReservarNuevoBloque
  PROVE  TipoDisco'
<1> DEFINE b == BuscarBloqueLibre
<1>1. fs.pc = "reservar" /\ UNCHANGED <<meta, datos, pedidos, escrito>>
  BY DEF ReservarNuevoBloque
<1>2. CASE b = Nada
  BY <1>1, <1>2, TipoSuelta DEF ReservarNuevoBloque, Listo, Ociosos, TipoDisco
<1>3. CASE b # Nada
  <2>1. b \in Bloque
    BY <1>3, BloqueHallado
  <2>2. bitarray' = bitarray \cup {b} /\ fs' = [fs EXCEPT !.pc = "anotar", !.bloque = b] /\ UNCHANGED enOrden
    BY <1>3 DEF ReservarNuevoBloque
  <2> HIDE DEF b
  <2>3. fs \in Peticion
    BY DEF DiscoInv, TipoFs
  <2>4. /\ fs'.pc = "anotar" /\ fs'.bloque = b /\ fs'.size = fs.size
        /\ fs'.bytesEscritos = fs.bytesEscritos
    BY <2>2, <2>3 DEF Peticion
  <2> QED BY <1>1, <2>1, <2>2, <2>4 DEF TipoDisco
<1> QED BY <1>2, <1>3

LEMMA TipoAnotar ==
  ASSUME DiscoInv, TipoDisco, AnotarBloque
  PROVE  TipoDisco'
<1> DEFINE p == fs.path
           b == fs.bloque
           s == meta[p].BLOQUES
<1>1. /\ fs.pc = "anotar" /\ fs' = [fs EXCEPT !.pc = "escribir"]
      /\ UNCHANGED <<bitarray, datos, pedidos, escrito, enOrden>>
      /\ meta' = [meta EXCEPT ![p].BLOQUES = Append(s, b)]
  BY DEF AnotarBloque, historia
<1>2. p \in DOMAIN meta /\ b \in Bloque /\ s \in Seq(Bloque) /\ meta[p] \in Metadatos /\ fs \in Peticion
  BY <1>1 DEF DiscoInv, TipoFs, Sobreviven, TipoDisco
<1> HIDE DEF p, s, b
<1>3. Append(s, b) \in Seq(Bloque) /\ b \in {Append(s, b)[i] : i \in DOMAIN Append(s, b)}
  <2>1. Len(s) + 1 \in DOMAIN Append(s, b) /\ Append(s, b)[Len(s) + 1] = b
    BY <1>2
  <2> QED BY <1>2, <2>1
<1>4. /\ DOMAIN meta' = DOMAIN meta
      /\ \A f \in DOMAIN meta : f # p => meta'[f] = meta[f]
      /\ meta'[p].BLOQUES = Append(s, b)
  BY <1>1, <1>2 DEF Metadatos
<1>5. \A f \in DOMAIN meta' : meta'[f].BLOQUES \in Seq(Bloque)
  BY <1>3, <1>4 DEF TipoDisco
<1>6. b \in BloquesEn(meta', p)
  BY <1>3, <1>4 DEF BloquesEn
<1>7. fs'.pc = "escribir" /\ fs'.bloque = b /\ fs'.path = p /\ fs'.size = fs.size /\ fs'.bytesEscritos = fs.bytesEscritos
  BY <1>1, <1>2 DEF Peticion, p, b
<1> QED BY <1>1, <1>2, <1>5, <1>6, <1>7 DEF TipoDisco

LEMMA TipoAumentar ==
  ASSUME FileSystemAssumption, DiscoInv, TipoDisco, AumentarTamanio
  PROVE  TipoDisco'
<1> DEFINE p == fs.path
           e == Sobre(escrito[p], fs.offset, Bytes(fs.size))
<1>1. /\ fs.pc = "tamanio" /\ fs' = Libre /\ UNCHANGED <<bitarray, datos, pedidos, enOrden>>
      /\ escrito' = [escrito EXCEPT ![p] = e]
  BY DEF AumentarTamanio, Listo
<1>2. p \in DOMAIN meta /\ p \in Archivo /\ meta[p] \in Metadatos /\ fs.offset \in Nat /\ fs.size \in Nat
  BY <1>1 DEF DiscoInv, TipoFs, Sobreviven, Peticion
<1>3. e \in Seq(0..MaxPedidos)
  <2>1. escrito[p] \in Seq(0..MaxPedidos) /\ pedidos \in 0..MaxPedidos /\ 0 \in 0..MaxPedidos
    BY <1>2 DEF TipoDisco, FileSystemAssumption
  <2>2. Bytes(fs.size) \in Seq(0..MaxPedidos)
    <3>1. SonBytes(Bytes(fs.size), 0..MaxPedidos, fs.size, pedidos)
      BY <1>2, <2>1, BytesBien
    <3> QED BY <3>1 DEF SonBytes
  <2>3. EsSobre(e, 0..MaxPedidos, escrito[p], fs.offset, Bytes(fs.size))
    BY <1>2, <2>1, <2>2, SobreBien
  <2> QED BY <2>3 DEF EsSobre
<1> HIDE DEF e
<1>4. \A f \in DOMAIN meta' : meta'[f].BLOQUES \in Seq(Bloque)
  BY <1>2 DEF AumentarTamanio, TipoDisco, Metadatos
<1>5. fs'.pc = "libre" /\ fs'.bloque = 0
  BY <1>1 DEF Libre
<1> QED BY <1>1, <1>2, <1>3, <1>4, <1>5 DEF TipoDisco

\* Every step keeps the disk of its type.
LEMMA TipoPaso ==
  ASSUME FileSystemAssumption
  PROVE  DiscoInv /\ TipoDisco /\ [Next]_vars => TipoDisco'
<1> SUFFICES ASSUME DiscoInv, TipoDisco, [Next]_vars PROVE TipoDisco'
  OBVIOUS
<1>1. ASSUME NEW f \in Archivo, ValidarArchivo(f) \/ CrearArchivo(f) \/ BorrarArchivo(f)
      PROVE  TipoDisco'
  BY <1>1, TipoContesta, TipoCrear, TipoBorrar DEF ValidarArchivo, Listo, Ociosos
<1>2. ASSUME NEW f \in Archivo, NEW o \in Cursores, NEW s \in Tamanos, ObtenerDatos(f, o, s)
      PROVE  TipoDisco'
  BY <1>2, TipoContesta DEF ObtenerDatos, LeerDeMas, Listo, Muere, Ociosos
<1>3. ASSUME NEW f \in Archivo, NEW o \in Cursores, NEW s \in Tamanos, GuardarDatos(f, o, s)
      PROVE  TipoDisco'
  BY <1>3, TipoGuardar
<1>4. CASE EscribirMetadata \/ LiberarBloque \/ Unlink
  BY <1>4, TipoEscribirMetadata, TipoBorra
<1>5. CASE EscribirBloque \/ ReservarNuevoBloque
  BY <1>5, TipoEscribirBloque, TipoReservar
<1>6. CASE AnotarBloque \/ AumentarTamanio
  BY <1>6, TipoAnotar, TipoAumentar
<1>7. CASE Reiniciar
  BY <1>7, TipoSuelta DEF Reiniciar, Ociosos, TipoDisco
<1>8. CASE UNCHANGED vars
  BY <1>8 DEF vars, TipoDisco
<1> QED BY <1>1, <1>2, <1>3, <1>4, <1>5, <1>6, <1>7, <1>8 DEF Next, Sirve

LEMMA TipoDiscoSiempre == Spec => [](DiscoInv /\ TipoDisco)
<1>1. Init => TipoDisco
  BY TipoDiscoInicio, FileSystemAssumption
<1>2. DiscoInv /\ TipoDisco /\ [Next]_vars => TipoDisco'
  BY TipoPaso, FileSystemAssumption
<1> QED BY <1>1, <1>2, DiscoSiempre, PTL DEF Spec

\* The blocks a file names are blocks of the disk, and a block file has a
\* block's size at least and less than two: a write begins inside a block and
\* has a block's size at most, but is not cut at its end (escribirEnArchivo).
THEOREM TiposDelDisco == Spec => []TypeOK
<1>1. DiscoInv /\ TipoDisco => TypeOK
  BY DEF DiscoInv, TipoFs, TipoDisco, TypeOK, Metadatos, Peticion
<1> QED BY <1>1, TipoDiscoSiempre, PTL

-----------------------------------------------------------------------------
\* The bitmap.

\* The blocks of all the files of the metadata m.
Todos(m) == UNION {BloquesEn(m, f) : f \in DOMAIN m}

\* The block that the request s has marked and no file names yet, and those
\* that its deletion has freed.
Marcado(s) == IF s.pc \in {"crear", "anotar"} THEN {s.bloque} ELSE {}
Liberados(m, s) ==
  IF s.pc = "borrar"
  THEN {m[s.path].BLOQUES[i] : i \in {k \in DOMAIN m[s.path].BLOQUES : k < s.j}} ELSE {}

\* The bitmap t marks what it marked at the start, which is nobody's, the
\* blocks of the files that are not freed yet, and the block just marked.
Mapa(t, m, s) ==
  /\ Ocupados \cap (Todos(m) \cup Marcado(s)) = {}
  /\ t = Ocupados \cup (Todos(m) \ Liberados(m, s)) \cup Marcado(s)

MapaInv == caidas \in Nat /\ (caidas = 0 => ~truncado /\ Mapa(bitarray, meta, fs))

\* What is proved of a state is enough for the property.
LEMMA MapaBasta == DiscoInv /\ MapaInv => MapaFiel
<1> SUFFICES ASSUME DiscoInv, MapaInv PROVE MapaFiel
  OBVIOUS
<1>1. \A f \in DOMAIN meta : BloquesDe(f) = BloquesEn(meta, f)
  BY DEF BloquesDe, BloquesEn
<1>2. Todos(meta) = UNION {BloquesDe(f) : f \in DOMAIN meta}
  BY <1>1 DEF Todos
<1>3. fs.pc = "libre" => Liberados(meta, fs) = {} /\ Marcado(fs) = {}
  BY DEF Liberados, Marcado
<1>4. caidas = 0 /\ fs.pc = "libre" => bitarray = Ocupados \cup UNION {BloquesDe(f) : f \in DOMAIN meta}
  BY <1>2, <1>3 DEF MapaInv, Mapa
<1>5. ~truncado => \A f \in DOMAIN meta : BloquesDe(f) \subseteq bitarray \/ (fs.pc = "borrar" /\ fs.path = f)
  BY <1>1 DEF DiscoInv, Reparto
<1> QED BY <1>4, <1>5 DEF MapaFiel

\* The same bitmap and the same blocks in the files, with no block marked nor
\* freed before or after.
LEMMA MapaIgual ==
  ASSUME MapaInv, caidas = 0, UNCHANGED <<bitarray, caidas, truncado>>, Todos(meta') = Todos(meta),
         fs.pc \notin {"crear", "anotar", "borrar"}, fs'.pc \notin {"crear", "anotar", "borrar"}
  PROVE  MapaInv'
<1>1. Marcado(fs) = {} /\ Marcado(fs') = {} /\ Liberados(meta, fs) = {} /\ Liberados(meta', fs') = {}
  BY DEF Marcado, Liberados
<1> QED BY <1>1 DEF MapaInv, Mapa

\* A block is marked before a file names it.
LEMMA MapaMarca ==
  ASSUME MapaInv, caidas = 0, UNCHANGED <<meta, caidas, truncado>>,
         fs.pc \notin {"crear", "anotar", "borrar"}, fs'.pc \in {"crear", "anotar"},
         fs'.bloque \notin bitarray, bitarray' = bitarray \cup {fs'.bloque}
  PROVE  MapaInv'
<1>1. /\ Marcado(fs) = {} /\ Marcado(fs') = {fs'.bloque}
      /\ Liberados(meta, fs) = {} /\ Liberados(meta, fs') = {}
  BY DEF Marcado, Liberados
<1> QED BY <1>1 DEF MapaInv, Mapa

\* A file names the block that was marked for it.
LEMMA MapaNombra ==
  ASSUME MapaInv, caidas = 0, UNCHANGED <<bitarray, caidas, truncado>>,
         fs.pc \in {"crear", "anotar"}, fs'.pc \notin {"crear", "anotar", "borrar"},
         Todos(meta') = Todos(meta) \cup {fs.bloque}
  PROVE  MapaInv'
<1>1. /\ Marcado(fs') = {} /\ Marcado(fs) = {fs.bloque}
      /\ Liberados(meta, fs) = {} /\ Liberados(meta', fs') = {}
  BY DEF Marcado, Liberados
<1> QED BY <1>1 DEF MapaInv, Mapa

\* The requests.
LEMMA MapaPide ==
  ASSUME FileSystemAssumption, DiscoInv, MapaInv, caidas = 0, NEW f \in Archivo,
         ValidarArchivo(f) \/ CrearArchivo(f) \/ BorrarArchivo(f)
         \/ (\E o \in Cursores, s \in Tamanos : GuardarDatos(f, o, s) \/ ObtenerDatos(f, o, s))
  PROVE  MapaInv'
<1>1. fs.pc = "libre" /\ UNCHANGED <<meta, caidas, truncado>>
  BY DEF ValidarArchivo, CrearArchivo, BorrarArchivo, GuardarDatos, ObtenerDatos, Pedido, historia
<1>2. CASE UNCHANGED bitarray /\ fs'.pc \notin {"crear", "anotar", "borrar"}
  BY <1>1, <1>2, MapaIgual
<1>3. CASE CrearArchivo(f) /\ ~(Existe(f) \/ BuscarBloqueLibre = Nada)
  <2> DEFINE b == BuscarBloqueLibre
  <2>1. b \notin bitarray
    BY <1>3, BloqueHallado
  <2>2. bitarray' = bitarray \cup {b} /\ fs' = [Libre EXCEPT !.pc = "crear", !.path = f, !.bloque = b]
    BY <1>3 DEF CrearArchivo
  <2> HIDE DEF b
  <2>3. fs'.pc = "crear" /\ fs'.bloque = b
    BY <2>2 DEF Libre
  <2> QED BY <1>1, <2>1, <2>2, <2>3, MapaMarca
<1>4. CASE BorrarArchivo(f) /\ Existe(f)
  <2>1. fs' = [Libre EXCEPT !.pc = "borrar", !.path = f, !.j = 1] /\ UNCHANGED bitarray
    BY <1>4 DEF BorrarArchivo
  <2>2. fs'.pc = "borrar" /\ fs'.path = f /\ fs'.j = 1
    BY <2>1 DEF Libre
  <2>3. meta[f].BLOQUES \in Seq(Nat)
    BY <1>4 DEF DiscoInv, TipoFs, Metadatos, Existe
  <2>4. {k \in DOMAIN meta[f].BLOQUES : k < 1} = {}
    BY <2>3
  <2>5. Liberados(meta, fs') = {} /\ Marcado(fs') = {} /\ Liberados(meta, fs) = {} /\ Marcado(fs) = {}
    BY <1>1, <2>2, <2>4 DEF Liberados, Marcado
  <2> QED BY <1>1, <2>1, <2>5 DEF MapaInv, Mapa
<1>5. \/ UNCHANGED bitarray /\ (fs' = fs \/ fs' \in Ociosos \/ fs'.pc = "escribir")
      \/ CrearArchivo(f) /\ ~(Existe(f) \/ BuscarBloqueLibre = Nada)
      \/ BorrarArchivo(f) /\ Existe(f)
  BY ZenonT(40) DEF ValidarArchivo, CrearArchivo, BorrarArchivo, GuardarDatos, ObtenerDatos, LeerDeMas, Listo,
      Muere, Ociosos, Libre
<1>6. fs' \in Ociosos => fs'.pc \in {"libre", "caido", "pisado"}
  BY DEF Ociosos, Libre
<1> QED BY <1>1, <1>2, <1>3, <1>4, <1>5, <1>6

\* The new file names its block.
LEMMA MapaEscribirMetadata ==
  ASSUME DiscoInv, MapaInv, caidas = 0, EscribirMetadata
  PROVE  MapaInv'
<1> DEFINE p == fs.path
           b == fs.bloque
<1>1. /\ fs.pc = "crear" /\ fs' = Libre /\ UNCHANGED <<bitarray, caidas, truncado>>
      /\ meta' = [f \in DOMAIN meta \cup {p} |->
                    IF f = p THEN [TAMANIO |-> 0, BLOQUES |-> <<b>>] ELSE meta[f]]
  BY DEF EscribirMetadata, Listo
<1>2. p \notin DOMAIN meta
  BY <1>1 DEF DiscoInv, TipoFs
<1> HIDE DEF p, b
<1>3. /\ DOMAIN meta' = DOMAIN meta \cup {p}
      /\ meta'[p].BLOQUES = <<b>> /\ \A f \in DOMAIN meta : meta'[f] = meta[f]
  BY <1>1, <1>2
<1>4. BloquesEn(meta', p) = {b} /\ \A f \in DOMAIN meta : BloquesEn(meta', f) = BloquesEn(meta, f)
  BY <1>3 DEF BloquesEn
<1>5. Todos(meta') = Todos(meta) \cup {b}
  BY <1>3, <1>4 DEF Todos
<1>6. fs'.pc = "libre"
  BY <1>1 DEF Libre
<1> QED BY <1>1, <1>5, <1>6, MapaNombra DEF b

\* A file that is being written names one block more.
LEMMA MapaAnotar ==
  ASSUME DiscoInv, MapaInv, caidas = 0, AnotarBloque
  PROVE  MapaInv'
<1> DEFINE p == fs.path
           b == fs.bloque
           s == meta[p].BLOQUES
<1>1. /\ fs.pc = "anotar" /\ fs' = [fs EXCEPT !.pc = "escribir"] /\ UNCHANGED <<bitarray, caidas, truncado>>
      /\ meta' = [meta EXCEPT ![p].BLOQUES = Append(s, b)]
  BY DEF AnotarBloque, historia
<1>2. p \in DOMAIN meta /\ b \in Nat /\ s \in Seq(Nat) /\ meta[p] \in Metadatos /\ fs \in Peticion
  BY <1>1 DEF DiscoInv, TipoFs, Sobreviven, Metadatos, Peticion
<1>3. /\ DOMAIN meta' = DOMAIN meta
      /\ \A f \in DOMAIN meta : f # p => meta'[f] = meta[f]
      /\ meta'[p].BLOQUES = Append(s, b)
  BY <1>1, <1>2 DEF Metadatos
<1>4. BloquesEn(meta, p) = {s[i] : i \in DOMAIN s}
  BY DEF BloquesEn
<1>5. fs'.pc = "escribir"
  BY <1>1, <1>2 DEF Peticion
<1> HIDE DEF s, b
<1>6. /\ DOMAIN Append(s, b) = DOMAIN s \cup {Len(s) + 1} /\ Append(s, b)[Len(s) + 1] = b
      /\ \A i \in DOMAIN s : Append(s, b)[i] = s[i]
  BY <1>2
<1>7. BloquesEn(meta', p) = {Append(s, b)[i] : i \in DOMAIN Append(s, b)}
  BY <1>3 DEF BloquesEn
<1>8. BloquesEn(meta', p) = BloquesEn(meta, p) \cup {b}
  BY <1>4, <1>6, <1>7
<1>9. \A f \in DOMAIN meta : f # p => BloquesEn(meta', f) = BloquesEn(meta, f)
  BY <1>3 DEF BloquesEn
<1>10. Todos(meta') = Todos(meta) \cup {b}
  BY <1>2, <1>3, <1>8, <1>9 DEF Todos
<1> QED BY <1>1, <1>5, <1>10, MapaNombra DEF b

\* A block is freed: it is of the file that is being deleted.
LEMMA MapaLiberar ==
  ASSUME DiscoInv, MapaInv, caidas = 0, LiberarBloque
  PROVE  MapaInv'
<1> DEFINE p == fs.path
           B == meta[p].BLOQUES
           b == B[fs.j]
<1>1. /\ fs.pc = "borrar" /\ fs.j <= Len(B) /\ bitarray' = bitarray \ {b}
      /\ fs' = [fs EXCEPT !.j = @ + 1] /\ UNCHANGED <<meta, caidas, truncado>>
  BY DEF LiberarBloque, historia
<1>2. p \in DOMAIN meta /\ B \in Seq(Nat) /\ fs \in Peticion /\ fs.j \in Nat \ {0}
  BY <1>1 DEF DiscoInv, TipoFs, Sobreviven, Metadatos, Peticion
<1>3. fs'.pc = "borrar" /\ fs'.path = p /\ fs'.j = fs.j + 1
  BY <1>1, <1>2 DEF Peticion
<1>4. fs.j \in DOMAIN B /\ b \in BloquesEn(meta, p) /\ b \in Todos(meta)
  <2>1. fs.j \in DOMAIN B
    <3> HIDE DEF B
    <3> QED BY <1>1, <1>2
  <2> QED BY <1>2, <2>1 DEF BloquesEn, Todos
<1>5. {k \in DOMAIN B : k < fs.j + 1} = {k \in DOMAIN B : k < fs.j} \cup {fs.j}
  <2> HIDE DEF B
  <2>1. DOMAIN B \subseteq Nat /\ fs.j \in Nat
    BY <1>2
  <2> QED BY <1>4, <2>1
<1>6. /\ Liberados(meta, fs) = {B[i] : i \in {k \in DOMAIN B : k < fs.j}}
      /\ Liberados(meta, fs') = {B[i] : i \in {k \in DOMAIN B : k < fs.j + 1}}
      /\ Marcado(fs) = {} /\ Marcado(fs') = {}
  BY <1>1, <1>3 DEF Liberados, Marcado
<1>7. Liberados(meta, fs') = Liberados(meta, fs) \cup {b}
  BY <1>5, <1>6
<1> HIDE DEF b, B
<1> QED BY <1>1, <1>4, <1>6, <1>7 DEF MapaInv, Mapa

\* The file whose blocks were all freed is gone: they were only its own.
LEMMA MapaUnlink ==
  ASSUME DiscoInv, MapaInv, caidas = 0, Unlink
  PROVE  MapaInv'
<1> DEFINE p == fs.path
           B == meta[p].BLOQUES
<1>1. /\ fs.pc = "borrar" /\ fs.j > Len(B) /\ fs' = Libre /\ UNCHANGED <<bitarray, caidas, truncado>>
      /\ meta' = [f \in DOMAIN meta \ {p} |-> meta[f]]
  BY DEF Unlink, Listo, historia
<1>2. p \in DOMAIN meta /\ B \in Seq(Nat) /\ fs.j \in Nat
  BY <1>1 DEF DiscoInv, TipoFs, Sobreviven, Metadatos, Peticion
<1>3. {k \in DOMAIN B : k < fs.j} = DOMAIN B
  <2> HIDE DEF B
  <2>1. DOMAIN B = 1..Len(B) /\ Len(B) \in Nat
    BY <1>2
  <2> QED BY <1>1, <1>2, <2>1
<1>4. Liberados(meta, fs) = BloquesEn(meta, p)
  BY <1>1, <1>3 DEF Liberados, BloquesEn
<1>5. DOMAIN meta' = DOMAIN meta \ {p} /\ \A f \in DOMAIN meta' : BloquesEn(meta', f) = BloquesEn(meta, f)
  BY <1>1 DEF BloquesEn
<1>6. \A f \in DOMAIN meta : f # p => BloquesEn(meta, f) \cap BloquesEn(meta, p) = {}
  BY <1>2 DEF DiscoInv, Reparto, MapaInv
<1>7. Todos(meta') = Todos(meta) \ BloquesEn(meta, p)
  BY <1>2, <1>5, <1>6 DEF Todos
<1>8. /\ Marcado(fs) = {} /\ Marcado(fs') = {} /\ Liberados(meta', fs') = {}
  BY <1>1 DEF Marcado, Liberados, Libre
<1> QED BY <1>1, <1>4, <1>7, <1>8 DEF MapaInv, Mapa

\* The turns of the loop of a write.
LEMMA MapaEscribe ==
  ASSUME FileSystemAssumption, DiscoInv, MapaInv, caidas = 0,
         EscribirBloque \/ ReservarNuevoBloque \/ AumentarTamanio
  PROVE  MapaInv'
<1>1. CASE EscribirBloque
  <2>1. fs.pc = "escribir" /\ UNCHANGED <<bitarray, meta, caidas, truncado>>
    BY <1>1 DEF EscribirBloque
  <2>2. fs \in Peticion
    BY DEF DiscoInv, TipoFs
  <2>3. fs'.pc \in {"tamanio", "reservar", "escribir", "caido"}
    BY <1>1, <2>1, <2>2 DEF EscribirBloque, Muere, Libre, Peticion
  <2> QED BY <2>1, <2>3, MapaIgual
<1>2. CASE ReservarNuevoBloque
  <2> DEFINE b == BuscarBloqueLibre
  <2>1. fs.pc = "reservar" /\ UNCHANGED <<meta, caidas, truncado>> /\ fs \in Peticion
    BY <1>2 DEF ReservarNuevoBloque, DiscoInv, TipoFs
  <2>2. CASE b = Nada
    <3>1. fs'.pc = "libre" /\ UNCHANGED bitarray
      BY <1>2, <2>2 DEF ReservarNuevoBloque, Listo, Libre
    <3> QED BY <2>1, <3>1, MapaIgual
  <2>3. CASE b # Nada
    <3>1. b \notin bitarray
      BY <2>3, BloqueHallado
    <3>2. bitarray' = bitarray \cup {b} /\ fs' = [fs EXCEPT !.pc = "anotar", !.bloque = b]
      BY <1>2, <2>3 DEF ReservarNuevoBloque
    <3> HIDE DEF b
    <3>3. fs'.pc = "anotar" /\ fs'.bloque = b
      BY <2>1, <3>2 DEF Peticion
    <3> QED BY <2>1, <3>1, <3>2, <3>3, MapaMarca
  <2> QED BY <2>2, <2>3
<1>3. CASE AumentarTamanio
  <2> DEFINE p == fs.path
             t == IF fs.offset + fs.size > meta[p].TAMANIO THEN fs.offset + fs.size ELSE meta[p].TAMANIO
  <2>1. fs.pc = "tamanio" /\ fs' = Libre /\ UNCHANGED <<bitarray, caidas, truncado>>
    BY <1>3 DEF AumentarTamanio, Listo
  <2>2. p \in DOMAIN meta /\ meta[p] \in Metadatos
    BY <2>1 DEF DiscoInv, TipoFs, Sobreviven
  <2>3. meta' = [meta EXCEPT ![p].TAMANIO = t]
    BY <1>3, <2>2 DEF AumentarTamanio, Metadatos
  <2> HIDE DEF t, p
  <2>4. DOMAIN meta' = DOMAIN meta /\ \A f \in DOMAIN meta : meta'[f].BLOQUES = meta[f].BLOQUES
    BY <2>2, <2>3 DEF Metadatos
  <2>5. \A f \in DOMAIN meta : BloquesEn(meta', f) = BloquesEn(meta, f)
    BY <2>4 DEF BloquesEn
  <2>6. Todos(meta') = Todos(meta)
    BY <2>4, <2>5 DEF Todos
  <2>7. fs'.pc = "libre"
    BY <2>1 DEF Libre
  <2> QED BY <2>1, <2>6, <2>7, MapaIgual
<1> QED BY <1>1, <1>2, <1>3

LEMMA MapaPaso ==
  ASSUME FileSystemAssumption
  PROVE  DiscoInv /\ MapaInv /\ [Next]_vars => MapaInv'
<1> SUFFICES ASSUME DiscoInv, MapaInv, [Next]_vars PROVE MapaInv'
  OBVIOUS
<1>1. CASE Reiniciar
  <2>1. caidas' \in Nat /\ caidas' # 0
    BY <1>1 DEF Reiniciar, MapaInv
  <2> QED BY <2>1 DEF MapaInv
<1>2. CASE UNCHANGED vars
  BY <1>2 DEF vars, MapaInv, Mapa, Todos, BloquesEn, Liberados, Marcado
<1>3. CASE caidas # 0
  <2>1. ASSUME ~Reiniciar PROVE UNCHANGED caidas
    BY ZenonT(40), <2>1, <1>2 DEF Next, Sirve, vars, ValidarArchivo, CrearArchivo, BorrarArchivo, GuardarDatos,
       ObtenerDatos, EscribirMetadata, LiberarBloque, Unlink, EscribirBloque, ReservarNuevoBloque,
       AnotarBloque, AumentarTamanio
  <2> QED BY <1>1, <1>3, <2>1 DEF MapaInv
<1>4. CASE caidas = 0 /\ Sirve
  BY <1>4, MapaEscribirMetadata, MapaAnotar, MapaLiberar, MapaUnlink, MapaEscribe DEF Sirve
<1>5. CASE caidas = 0 /\ Next /\ ~Sirve /\ ~Reiniciar
  <2>1. PICK f \in Archivo :
          ValidarArchivo(f) \/ CrearArchivo(f) \/ BorrarArchivo(f)
          \/ (\E o \in Cursores, s \in Tamanos : GuardarDatos(f, o, s) \/ ObtenerDatos(f, o, s))
    BY <1>5 DEF Next
  <2> QED BY <1>5, <2>1, MapaPide
<1> QED BY <1>1, <1>2, <1>3, <1>4, <1>5

\* The bitmap marks the blocks of every file that is not being deleted, and,
\* as long as the process has not died, between two requests no other but
\* those it marked at the start: no block is lost by a creation, a write that
\* finds the disk full or a deletion (escribirValorBitarray).
THEOREM MapaSiempreFiel == Spec => []MapaFiel
<1>1. Init => MapaInv
  BY FileSystemAssumption DEF Init, MapaInv, Mapa, Todos, BloquesEn, Marcado, Liberados, Libre
<1>2. DiscoInv /\ MapaInv /\ [Next]_vars => MapaInv'
  BY MapaPaso, FileSystemAssumption
<1> QED BY <1>1, <1>2, DiscoSiempre, MapaBasta, PTL DEF Spec

-----------------------------------------------------------------------------
\* The content of the files.

\* The multiples of a block's size.
LEMMA Multiplos ==
  ASSUME NEW T \in Nat \ {0}, NEW i \in Nat, NEW k \in Nat
  PROVE  i * T \in Nat /\ (i + 1) * T = i * T + T /\ (i < k => i * T + T <= k * T)
<1>1. i * T \in Nat /\ (i + 1) * T = i * T + T
  OBVIOUS
<1>2. ASSUME i < k PROVE i * T + T <= k * T
  <2> DEFINE d == k - (i + 1)
  <2>1. d \in Nat /\ k = (i + 1) + d
    BY <1>2
  <2> HIDE DEF d
  <2>2. k * T = (i + 1) * T + d * T
    BY <2>1
  <2>3. d * T \in Nat
    BY <2>1
  <2>4. k * T \in Int /\ (i + 1) * T \in Int
    BY <2>1
  <2> QED BY <1>1, <2>2, <2>3, <2>4
<1> QED BY <1>1, <1>2

\* A cursor is so many blocks and a rest.
LEMMA Division ==
  ASSUME NEW T \in Nat \ {0}, NEW x \in Nat
  PROVE  \E n \in Nat, m \in 0..(T - 1) : n = x \div T /\ m = x % T /\ x = n * T + m
<1> DEFINE n == x \div T
           m == x % T
<1>1. n \in Nat /\ m \in 0..(T - 1)
  OBVIOUS
<1>2. m = x - T * n
  OBVIOUS
<1> HIDE DEF n, m
<1>3. T * n = n * T /\ n * T \in Nat
  BY <1>1
<1>4. x = n * T + m
  BY <1>1, <1>2, <1>3
<1> QED BY <1>1, <1>4 DEF n, m

\* The steps of a write that has not ended.
Escribe == {"escribir", "reservar", "anotar", "tamanio"}

\* How far the request s has come.
Hasta(s) == s.offset + IF s.pc = "tamanio" THEN s.size ELSE s.bytesEscritos

\* s is writing byte x of f.
Escribiendo(s, f, x) == s.pc \in Escribe /\ s.path = f /\ x > s.offset /\ x <= Hasta(s)

\* The size and the bytes of a file, of metadata r, are those written in it, e;
\* what the write under way has written of it, x, is in the blocks d already.
Fiel(r, e, d, s, f, x) ==
  /\ Len(e) = r.TAMANIO
  /\ r.TAMANIO <= Len(r.BLOQUES) * Tam
  /\ \A i \in 0..(Len(r.BLOQUES) - 1), k \in 1..Tam :
       /\ Escribiendo(s, f, i * Tam + k) => d[r.BLOQUES[i + 1]][k] = x
       /\ i * Tam + k <= r.TAMANIO /\ ~Escribiendo(s, f, i * Tam + k)
            => d[r.BLOQUES[i + 1]][k] = e[i * Tam + k]

\* A write that the code can follow, at its q-th block: the next block is the
\* one after what is written.
Avance(r, s, q) ==
  LET n == s.offset \div Tam
      c == Len(r.BLOQUES)
  IN
  \/ /\ s.pc = "escribir" /\ s.bytesEscritos = q * Tam
     /\ n + q < c /\ s.bloque = r.BLOQUES[n + q + 1]
     /\ \/ s.size <= Tam /\ q = 0
        \/ n + 1 = s.cantBloques /\ c = n + q + 1
        \/ n = 0 /\ s.j = q /\ s.cantBloques = c
  \/ /\ s.pc \in {"reservar", "anotar"} /\ s.bytesEscritos = q * Tam
     /\ n + 1 = s.cantBloques /\ c = n + q
  \/ /\ s.pc = "tamanio" /\ s.offset + s.size <= c * Tam

EnCurso(r, s) == s.offset % Tam = 0 /\ s.offset <= r.TAMANIO /\ \E q \in Nat : Avance(r, s, q)

FielInv == ~truncado =>
  /\ \A f \in DOMAIN meta : f \in enOrden => Fiel(meta[f], escrito[f], datos, fs, f, pedidos)
  /\ fs.pc \in Escribe /\ fs.path \in enOrden => EnCurso(meta[fs.path], fs)

\* Place k of block i against the places of block j.
LEMMA Lugares ==
  ASSUME NEW T \in Nat \ {0}, NEW i \in Nat, NEW j \in Nat, NEW k \in 1..T
  PROVE  /\ i * T + k \in Nat \ {0} /\ i * T \in Nat /\ j * T \in Nat
         /\ i < j => i * T + k <= j * T
         /\ i > j => i * T + k > j * T + T
         /\ i >= j => i * T + k > j * T
<1>1. i * T \in Nat /\ j * T \in Nat
  OBVIOUS
<1>2. i < j => i * T + T <= j * T
  BY Multiplos
<1>3. i > j => j * T + T <= i * T
  BY Multiplos
<1>4. i = j => i * T = j * T
  OBVIOUS
<1>5. i < j \/ i > j \/ i = j
  OBVIOUS
<1> QED BY <1>1, <1>2, <1>3, <1>4, <1>5

\* Nothing is being written in f.
Quieto(s, f) == s.pc \notin Escribe \/ s.path # f

\* What is not being written keeps its bytes if its blocks do.
LEMMA FielOtro ==
  ASSUME NEW r, NEW e, NEW d, NEW d2, NEW s, NEW s2, NEW f, NEW x, NEW x2,
         Fiel(r, e, d, s, f, x), Quieto(s, f), Quieto(s2, f),
         \A i \in 0..(Len(r.BLOQUES) - 1) : d2[r.BLOQUES[i + 1]] = d[r.BLOQUES[i + 1]]
  PROVE  Fiel(r, e, d2, s2, f, x2)
BY DEF Fiel, Quieto, Escribiendo

\* A step that writes nothing, of a request that does not write.
LEMMA FielIgual ==
  ASSUME FielInv, UNCHANGED <<meta, datos, escrito>>, truncado => truncado', enOrden' \subseteq enOrden,
         fs.pc \notin Escribe, fs'.pc \notin Escribe
  PROVE  FielInv'
<1> SUFFICES ASSUME ~truncado', NEW f \in DOMAIN meta, f \in enOrden'
             PROVE  Fiel(meta[f], escrito[f], datos, fs', f, pedidos')
  BY DEF FielInv
<1>1. Fiel(meta[f], escrito[f], datos, fs, f, pedidos)
  BY DEF FielInv
<1>2. Quieto(fs, f) /\ Quieto(fs', f)
  BY DEF Quieto
<1> QED BY <1>1, <1>2, FielOtro

\* A write is left without its end: its file is no longer in order.
LEMMA FielDeja ==
  ASSUME FielInv, UNCHANGED <<meta, datos, escrito>>, truncado => truncado', enOrden' \subseteq enOrden \ {fs.path},
         fs'.pc \notin Escribe
  PROVE  FielInv'
<1> SUFFICES ASSUME ~truncado', NEW f \in DOMAIN meta, f \in enOrden'
             PROVE  Fiel(meta[f], escrito[f], datos, fs', f, pedidos')
  BY DEF FielInv
<1>1. Fiel(meta[f], escrito[f], datos, fs, f, pedidos)
  BY DEF FielInv
<1>2. Quieto(fs, f) /\ Quieto(fs', f)
  BY DEF Quieto
<1> QED BY <1>1, <1>2, FielOtro

\* A write begins: it has written nothing, and is where the code can follow it
\* if the file is still in order.
LEMMA FielGuardar ==
  ASSUME FileSystemAssumption, DiscoInv, TipoDisco, FielInv, NEW f \in Archivo, NEW o \in Cursores,
         NEW s \in Tamanos, GuardarDatos(f, o, s)
  PROVE  FielInv'
<1> DEFINE B == meta[f].BLOQUES
           n == o \div Tam
<1>1. fs.pc = "libre" /\ UNCHANGED <<meta, datos, escrito, truncado>>
  BY DEF GuardarDatos, Pedido
<1>2. CASE ~Existe(f) \/ n >= Len(B)
  <2>1. fs'.pc \in {"libre", "caido"} /\ enOrden' = enOrden
    BY <1>2 DEF GuardarDatos, Listo, Muere, Libre
  <2> QED BY <1>1, <2>1, FielIgual DEF Escribe
<1>3. CASE Existe(f) /\ ~(n >= Len(B))
  <2>1. /\ fs' = [Libre EXCEPT !.pc = "escribir", !.path = f, !.offset = o, !.size = s,
                            !.bloque = B[n + 1], !.j = n, !.cantBloques = Len(B)]
        /\ enOrden' = IF Correcta(f, o, s) THEN enOrden ELSE enOrden \ {f}
    BY <1>3 DEF GuardarDatos
  <2>2. /\ fs'.pc = "escribir" /\ fs'.path = f /\ fs'.offset = o /\ fs'.size = s /\ fs'.bytesEscritos = 0
        /\ fs'.bloque = B[n + 1] /\ fs'.j = n /\ fs'.cantBloques = Len(B)
    BY <2>1 DEF Libre
  <2>3. /\ o \in Nat /\ n \in Nat /\ B \in Seq(Bloque) /\ f \in DOMAIN meta
        /\ \A g \in DOMAIN meta : meta[g].BLOQUES \in Seq(Bloque)
    <3>1. o \in Nat /\ Tam \in Nat \ {0}
      BY DEF FileSystemAssumption
    <3>2. n \in Nat
      BY <3>1
    <3> QED BY <1>3, <3>1, <3>2 DEF TipoDisco, Existe
  <2>4. ASSUME ~truncado, NEW g \in DOMAIN meta, g \in enOrden'
        PROVE  Fiel(meta[g], escrito[g], datos, fs', g, pedidos')
    <3>1. Fiel(meta[g], escrito[g], datos, fs, g, pedidos)
      BY <2>1, <2>4 DEF FielInv
    <3>2. ASSUME NEW x \in Int PROVE ~Escribiendo(fs', g, x) /\ ~Escribiendo(fs, g, x)
      <4>1. Hasta(fs') = o
        BY <2>2, <2>3 DEF Hasta
      <4> QED BY <1>1, <2>2, <2>3, <4>1 DEF Escribiendo, Escribe
    <3>3. \A i \in 0..(Len(meta[g].BLOQUES) - 1), k \in 1..Tam : i * Tam + k \in Int
      <4>1. Len(meta[g].BLOQUES) \in Nat /\ Tam \in Nat
        BY <2>3 DEF FileSystemAssumption
      <4> QED BY <4>1
    <3> QED BY <3>1, <3>2, <3>3 DEF Fiel
  <2>5. ASSUME ~truncado, f \in enOrden' PROVE EnCurso(meta[f], fs')
    <3>1. Correcta(f, o, s)
      BY <2>1, <2>5
    <3>2. o % Tam = 0 /\ o <= meta[f].TAMANIO /\ (s <= Tam \/ n = 0 \/ n + 1 = Len(B))
      BY <3>1 DEF Correcta
    <3>3. 0 * Tam = 0
      <4>1. Tam \in Nat
        BY DEF FileSystemAssumption
      <4> QED BY <4>1
    <3>4. Len(B) \in Nat /\ n + 0 = n /\ n + 0 + 1 = n + 1
      <4> HIDE DEF B, n
      <4> QED BY <2>3
    <3>5. Avance(meta[f], fs', 0)
      <4> HIDE DEF n
      <4>1. fs'.offset \div Tam = n
        BY <2>2 DEF n
      <4>2. n + 0 < Len(B)
        BY <1>3, <2>3, <3>4
      <4> QED BY <2>2, <2>3, <3>2, <3>3, <3>4, <4>1, <4>2 DEF Avance
    <3> QED BY <2>2, <3>2, <3>5 DEF EnCurso
  <2> QED BY <1>1, <2>2, <2>4, <2>5 DEF FielInv
<1> QED BY <1>2, <1>3

\* The block files of the other files are not those of the file written.
LEMMA OtrosBloques ==
  ASSUME FileSystemAssumption, DiscoInv, TipoDisco, ~truncado, EscribirBloque,
         NEW f \in DOMAIN meta, f # fs.path, NEW i \in 0..(Len(meta[f].BLOQUES) - 1)
  PROVE  datos'[meta[f].BLOQUES[i + 1]] = datos[meta[f].BLOQUES[i + 1]]
<1> DEFINE B == meta[f].BLOQUES
           s == Sobre(datos[fs.bloque], Desde, Bytes(Resto))
<1>1. /\ fs.bloque \in BloquesEn(meta, fs.path) /\ fs.path \in DOMAIN meta
      /\ datos' = [datos EXCEPT ![fs.bloque] = s]
  BY BloqueEscrito
<1>2. B \in Seq(Bloque)
  BY DEF TipoDisco
<1>3. i + 1 \in DOMAIN B
  <2> HIDE DEF B
  <2> QED BY <1>2 DEF B
<1>4. B[i + 1] \in BloquesEn(meta, f) /\ B[i + 1] \in Bloque
  BY <1>2, <1>3 DEF BloquesEn
<1>5. B[i + 1] # fs.bloque
  BY <1>1, <1>4 DEF DiscoInv, Reparto
<1> HIDE DEF B, s
<1> QED BY <1>1, <1>4, <1>5 DEF TipoDisco, B

\* Where the write of a file in order is, and where the next turn leaves it.
LEMMA Turno ==
  ASSUME FileSystemAssumption, DiscoInv, TipoDisco, fs.pc = "escribir",
         EnCurso(meta[fs.path], fs)
  PROVE  \E n \in Nat, q \in Nat :
           /\ n = fs.offset \div Tam /\ Avance(meta[fs.path], fs, q)
           /\ fs.offset = n * Tam /\ fs.bytesEscritos = q * Tam
           /\ (n + q) * Tam = fs.offset + fs.bytesEscritos
           /\ Desde = 0
<1>1. fs \in Peticion /\ Tam \in Nat \ {0}
  BY DEF DiscoInv, TipoFs, FileSystemAssumption
<1>2. fs.offset \in Nat /\ fs.bytesEscritos \in Nat
  BY <1>1 DEF Peticion
<1>3. PICK n \in Nat, m \in 0..(Tam - 1) : n = fs.offset \div Tam /\ m = fs.offset % Tam /\ fs.offset = n * Tam + m
  BY <1>1, <1>2, Division
<1>4. PICK q \in Nat : Avance(meta[fs.path], fs, q)
  BY DEF EnCurso
<1>5. m = 0 /\ Desde = 0
  BY <1>3 DEF EnCurso, Desde
<1>6. fs.bytesEscritos = q * Tam
  BY <1>4 DEF Avance
<1>7. n * Tam \in Nat /\ q * Tam \in Nat /\ (n + q) * Tam = n * Tam + q * Tam
  BY <1>1
<1>8. fs.offset = n * Tam
  BY <1>2, <1>3, <1>5, <1>7
<1> QED BY <1>3, <1>4, <1>5, <1>6, <1>7, <1>8

\* The request after a turn that does not kill the process.
Vuelta(s, t, n, B) ==
  \/ Total = s.size /\ t = [s EXCEPT !.pc = "tamanio"]
  \/ Total < s.size /\ n + 1 = s.cantBloques /\ t = [s EXCEPT !.pc = "reservar", !.bytesEscritos = Total]
  \/ /\ Total < s.size /\ n + 1 # s.cantBloques /\ n + s.j + 1 < Len(B)
     /\ t = [s EXCEPT !.bytesEscritos = Total, !.j = @ + 1, !.bloque = B[n + s.j + 2]]

\* A turn of the loop in sizes: w bytes, q blocks, are written and u more follow
\* of the z, in the block n + q of the c that the file has.
EnBytes(n, q, c, o, w, u, z) ==
  /\ n \in Nat /\ q \in Nat /\ c \in Nat /\ o \in Nat /\ w \in Nat /\ u \in 1..Tam /\ z \in Nat
  /\ w + u <= z /\ (w + u < z => u = Tam)
  /\ w = q * Tam /\ (n + q) * Tam = o + w /\ n + q < c

TrasBytes(q, c, o, v, z) ==
  /\ v < z => v = (q + 1) * Tam /\ ~(z <= Tam /\ q = 0)
  /\ v = z => o + z <= c * Tam

LEMMA TurnoBytes ==
  ASSUME Tam \in Nat \ {0}, NEW n, NEW q, NEW c, NEW o, NEW w, NEW u, NEW z, EnBytes(n, q, c, o, w, u, z)
  PROVE  TrasBytes(q, c, o, w + u, z)
<1>1. (q + 1) * Tam = q * Tam + Tam /\ c * Tam \in Nat
  BY Multiplos DEF EnBytes
<1>2. (n + q) * Tam + Tam <= c * Tam
  <2>1. n + q \in Nat /\ c \in Nat /\ n + q < c
    BY DEF EnBytes
  <2> QED BY <2>1, Multiplos
<1> QED BY <1>1, <1>2 DEF EnBytes, TrasBytes

\* The same in blocks.
EnBloques(n, q, c, j, k) ==
  /\ n \in Nat /\ q \in Nat /\ c \in Nat /\ j \in Nat /\ k \in Nat /\ n + q < c
  /\ (n + 1 = k /\ c = n + q + 1) \/ (n = 0 /\ j = q /\ k = c)

TrasBloques(n, q, c, j, k) ==
  /\ n + 1 = k => c = n + (q + 1)
  /\ n + 1 # k /\ n + j + 1 < c =>
       n = 0 /\ j = q /\ k = c /\ n + (q + 1) < c /\ n + j + 2 = n + (q + 1) + 1

LEMMA TurnoBloques ==
  ASSUME NEW n, NEW q, NEW c, NEW j, NEW k, EnBloques(n, q, c, j, k)
  PROVE  TrasBloques(n, q, c, j, k)
BY DEF EnBloques, TrasBloques

\* The next turn is where the code can follow the write too.
LEMMA TurnoSigue ==
  ASSUME FileSystemAssumption, DiscoInv, TipoDisco, fs.pc = "escribir", NEW n \in Nat, NEW q \in Nat,
         n = fs.offset \div Tam, Avance(meta[fs.path], fs, q),
         fs.offset = n * Tam, fs.bytesEscritos = q * Tam, (n + q) * Tam = fs.offset + fs.bytesEscritos,
         NEW t, Vuelta(fs, t, n, meta[fs.path].BLOQUES)
  PROVE  /\ t.offset = fs.offset /\ t.path = fs.path /\ t.pc \in {"escribir", "reservar", "tamanio"}
         /\ Hasta(t) = fs.offset + Total
         /\ \E p \in Nat : Avance(meta[fs.path], t, p)
<1> DEFINE B == meta[fs.path].BLOQUES
           c == Len(B)
<1>1. /\ fs \in Peticion /\ B \in Seq(Bloque) /\ Tam \in Nat \ {0} /\ fs.path \in DOMAIN meta
  BY DEF DiscoInv, TipoFs, FileSystemAssumption, TipoDisco, Sobreviven
<1>2. /\ fs.size \in Nat /\ fs.bytesEscritos \in Nat /\ fs.offset \in Nat /\ fs.j \in Nat
      /\ fs.cantBloques \in Nat /\ c \in Nat
  <2>1. c \in Nat
    <3> HIDE DEF B
    <3> QED BY <1>1
  <2> QED BY <1>1, <2>1 DEF Peticion
<1>3. /\ n + q < c
      /\ \/ fs.size <= Tam /\ q = 0
         \/ n + 1 = fs.cantBloques /\ c = n + q + 1
         \/ n = 0 /\ fs.j = q /\ fs.cantBloques = c
  BY DEF Avance
<1>4. /\ Resto \in 1..Tam /\ Total \in Nat /\ Total <= fs.size /\ (Total < fs.size => Resto = Tam)
      /\ Total = fs.bytesEscritos + Resto
  BY VueltaBien DEF Total
<1> HIDE DEF B
<1>5. /\ Total < fs.size => Total = (q + 1) * Tam /\ ~(fs.size <= Tam /\ q = 0)
      /\ Total = fs.size => fs.offset + fs.size <= c * Tam
  <2>1. EnBytes(n, q, c, fs.offset, fs.bytesEscritos, Resto, fs.size)
    BY <1>2, <1>3, <1>4 DEF EnBytes
  <2>2. TrasBytes(q, c, fs.offset, Total, fs.size)
    <3> HIDE DEF c
    <3> QED BY <1>1, <1>4, <2>1, TurnoBytes
  <2> HIDE DEF c
  <2> QED BY <2>2 DEF TrasBytes
<1>6. /\ Total < fs.size /\ n + 1 = fs.cantBloques => c = n + (q + 1)
      /\ Total < fs.size /\ n + 1 # fs.cantBloques /\ n + fs.j + 1 < c =>
           n = 0 /\ fs.j = q /\ fs.cantBloques = c /\ n + (q + 1) < c /\ n + fs.j + 2 = n + (q + 1) + 1
  <2>1. Total < fs.size => EnBloques(n, q, c, fs.j, fs.cantBloques)
    BY <1>2, <1>3, <1>5 DEF EnBloques
  <2> HIDE DEF c
  <2>2. Total < fs.size => TrasBloques(n, q, c, fs.j, fs.cantBloques)
    BY <2>1, TurnoBloques
  <2> QED BY <2>2 DEF TrasBloques
<1>7. CASE Total = fs.size /\ t = [fs EXCEPT !.pc = "tamanio"]
  <2>1. t.pc = "tamanio" /\ t.offset = fs.offset /\ t.path = fs.path /\ t.size = fs.size
    BY <1>1, <1>7 DEF Peticion
  <2>3. fs.offset + fs.size <= c * Tam
    BY <1>5, <1>7
  <2>4. Avance(meta[fs.path], t, 0)
    BY <2>1, <2>3 DEF Avance, B
  <2> QED BY <1>7, <2>1, <2>4 DEF Hasta
<1>8. CASE /\ Total < fs.size /\ n + 1 = fs.cantBloques
           /\ t = [fs EXCEPT !.pc = "reservar", !.bytesEscritos = Total]
  <2>1. /\ t.pc = "reservar" /\ t.offset = fs.offset /\ t.path = fs.path /\ t.bytesEscritos = Total
        /\ t.cantBloques = fs.cantBloques
    BY <1>1, <1>8 DEF Peticion
  <2>2. c = n + (q + 1)
    BY <1>6, <1>8
  <2>3. Avance(meta[fs.path], t, q + 1)
    <3>1. t.offset \div Tam = n
      BY <2>1
    <3>2. t.bytesEscritos = (q + 1) * Tam
      BY <1>5, <1>8, <2>1
    <3> HIDE DEF Total
    <3> QED BY <1>8, <2>1, <2>2, <3>1, <3>2 DEF Avance, B
  <2>4. q + 1 \in Nat
    OBVIOUS
  <2> QED BY <2>1, <2>3, <2>4 DEF Hasta
<1>9. CASE /\ Total < fs.size /\ n + 1 # fs.cantBloques /\ n + fs.j + 1 < Len(B)
           /\ t = [fs EXCEPT !.bytesEscritos = Total, !.j = @ + 1, !.bloque = B[n + fs.j + 2]]
  <2> DEFINE b == B[n + fs.j + 2]
             j == fs.j + 1
  <2>1. /\ t.pc = "escribir" /\ t.offset = fs.offset /\ t.path = fs.path /\ t.bytesEscritos = Total
        /\ t.cantBloques = fs.cantBloques /\ t.j = j /\ t.bloque = b
    <3> HIDE DEF b
    <3>1. t = [fs EXCEPT !.bytesEscritos = Total, !.j = fs.j + 1, !.bloque = b]
      BY <1>1, <1>9 DEF b, Peticion
    <3> QED BY <1>1, <3>1 DEF Peticion
  <2>2. n = 0 /\ fs.j = q /\ fs.cantBloques = c /\ n + (q + 1) < c /\ n + fs.j + 2 = n + (q + 1) + 1
    BY <1>6, <1>9
  <2>3. q + 1 \in Nat
    OBVIOUS
  <2>4. Avance(meta[fs.path], t, q + 1)
    <3>1. t.offset \div Tam = n
      BY <2>1
    <3>2. t.bytesEscritos = (q + 1) * Tam
      BY <1>5, <1>9, <2>1
    <3> HIDE DEF Total
    <3> QED BY <2>1, <2>2, <3>1, <3>2 DEF Avance, B
  <2> QED BY <2>1, <2>3, <2>4 DEF Hasta
<1> QED BY <1>7, <1>8, <1>9 DEF Vuelta, B

\* A turn writes, of the file, the places it says and no others.
LEMMA TurnoEscribe ==
  ASSUME FileSystemAssumption, DiscoInv, TipoDisco, ~truncado, EscribirBloque,
         EnCurso(meta[fs.path], fs), Fiel(meta[fs.path], escrito[fs.path], datos, fs, fs.path, pedidos),
         NEW t, t.offset = fs.offset, t.path = fs.path, t.pc \in Escribe, Hasta(t) = fs.offset + Total
  PROVE  Fiel(meta[fs.path], escrito[fs.path], datos', t, fs.path, pedidos)
<1> DEFINE p == fs.path
           B == meta[p].BLOQUES
           s == Sobre(datos[fs.bloque], Desde, Bytes(Resto))
           w == fs.bytesEscritos
           o == fs.offset
           u == Resto
<1>1. fs.pc = "escribir" /\ fs.pc \in Escribe
  BY DEF EscribirBloque, Escribe
<1>2. PICK n \in Nat, q \in Nat :
        /\ n = fs.offset \div Tam /\ Avance(meta[fs.path], fs, q)
        /\ fs.offset = n * Tam /\ fs.bytesEscritos = q * Tam
        /\ (n + q) * Tam = fs.offset + fs.bytesEscritos
        /\ Desde = 0
  BY <1>1, Turno
<1>3. /\ fs \in Peticion /\ B \in Seq(Bloque) /\ Tam \in Nat \ {0} /\ p \in DOMAIN meta
      /\ \A i, k \in DOMAIN B : B[i] = B[k] => i = k
  BY <1>1 DEF DiscoInv, TipoFs, FileSystemAssumption, TipoDisco, Sobreviven, Reparto
<1>4. w \in Nat /\ o \in Nat /\ u \in 1..Tam /\ Hasta(t) = o + w + u /\ Hasta(fs) = o + w
  <2>1. w \in Nat /\ o \in Nat
    BY <1>3 DEF Peticion
  <2>2. Resto \in 1..Tam
    BY <1>1, VueltaBien
  <2> QED BY <1>1, <2>1, <2>2 DEF Hasta, Total
<1>5. /\ fs.bloque \in Bloque /\ datos' = [datos EXCEPT ![fs.bloque] = s]
      /\ \A k \in 1..Tam : s[k] = IF k <= u THEN pedidos ELSE datos[fs.bloque][k]
  BY <1>2, BloqueEscrito
<1>6. n + q < Len(B) /\ fs.bloque = B[n + q + 1]
  BY <1>1, <1>2 DEF Avance
<1>7. datos'[fs.bloque] = s /\ \A b \in Bloque : b # fs.bloque => datos'[b] = datos[b]
  BY <1>5 DEF TipoDisco
<1>8. /\ Len(escrito[p]) = meta[p].TAMANIO
      /\ meta[p].TAMANIO <= Len(B) * Tam
      /\ \A i \in 0..(Len(B) - 1), k \in 1..Tam :
           /\ Escribiendo(fs, p, i * Tam + k) => datos[B[i + 1]][k] = pedidos
           /\ i * Tam + k <= meta[p].TAMANIO /\ ~Escribiendo(fs, p, i * Tam + k)
                => datos[B[i + 1]][k] = escrito[p][i * Tam + k]
  BY DEF Fiel
<1>9. ASSUME NEW x \in Nat
      PROVE  /\ Escribiendo(fs, p, x) <=> x > o /\ x <= o + w
             /\ Escribiendo(t, p, x) <=> x > o /\ x <= o + w + u
  BY <1>1, <1>4 DEF Escribiendo
<1> HIDE DEF s, w, o, u
<1>10. ASSUME NEW i \in 0..(Len(B) - 1), NEW k \in 1..Tam
       PROVE  /\ Escribiendo(t, p, i * Tam + k) => datos'[B[i + 1]][k] = pedidos
              /\ i * Tam + k <= meta[p].TAMANIO /\ ~Escribiendo(t, p, i * Tam + k)
                   => datos'[B[i + 1]][k] = escrito[p][i * Tam + k]
  <2> DEFINE x == i * Tam + k
             j == n + q
  <2>1. i \in Nat /\ j \in Nat /\ j * Tam = o + w /\ i + 1 \in DOMAIN B /\ j + 1 \in DOMAIN B
    <3>1. Len(B) \in Nat /\ DOMAIN B = 1..Len(B)
      <4> HIDE DEF B
      <4> QED BY <1>3
    <3>2. j * Tam = o + w
      BY <1>2 DEF o, w
    <3> HIDE DEF B
    <3> QED BY <1>6, <3>1, <3>2
  <2>2. B[i + 1] \in Bloque
    <3> HIDE DEF B
    <3> QED BY <1>3, <2>1
  <2> HIDE DEF j
  <2>3. /\ x \in Nat
        /\ i < j => x <= o + w
        /\ i > j => x > o + w + Tam
        /\ i = j => x = o + w + k
    <3>1. x \in Nat /\ (i < j => x <= j * Tam) /\ (i > j => x > j * Tam + Tam)
      BY <1>3, <2>1, Lugares
    <3>2. i = j => x = o + w + k
      BY <2>1
    <3> HIDE DEF x
    <3> QED BY <2>1, <3>1, <3>2
  <2>4. /\ Escribiendo(fs, p, x) => datos[B[i + 1]][k] = pedidos
        /\ x <= meta[p].TAMANIO /\ ~Escribiendo(fs, p, x) => datos[B[i + 1]][k] = escrito[p][x]
    BY <1>8
  <2>5. /\ Escribiendo(fs, p, x) <=> x > o /\ x <= o + w
        /\ Escribiendo(t, p, x) <=> x > o /\ x <= o + w + u
    BY <1>9, <2>3
  <2> HIDE DEF x
  <2>6. CASE i = j
    <3>1. B[i + 1] = fs.bloque
      BY <1>6, <2>6 DEF j
    <3>2. datos'[B[i + 1]][k] = IF k <= u THEN pedidos ELSE datos[B[i + 1]][k]
      BY <1>5, <1>7, <3>1
    <3>3. x = o + w + k /\ x > o /\ ~(x <= o + w) /\ (x <= o + w + u <=> k <= u)
      BY <1>4, <2>3, <2>6 DEF o, w, u
    <3> QED BY <2>4, <2>5, <3>2, <3>3 DEF x
  <2>7. CASE i # j
    <3>1. B[i + 1] # fs.bloque
      <4>1. i + 1 # j + 1
        BY <2>1, <2>7
      <4> QED BY <1>3, <1>6, <2>1, <4>1 DEF j
    <3>2. datos'[B[i + 1]] = datos[B[i + 1]]
      BY <1>7, <2>2, <3>1
    <3>3. x <= o + w <=> x <= o + w + u
      BY <1>3, <1>4, <2>1, <2>3, <2>7 DEF o, w, u
    <3> QED BY <2>4, <2>5, <3>2, <3>3 DEF x
  <2> QED BY <2>6, <2>7
<1> HIDE DEF B
<1> QED BY <1>8, <1>10 DEF Fiel, B

\* A turn of the loop, which may find no block to go on with and kill the
\* process.
LEMMA FielEscribirBloque ==
  ASSUME FileSystemAssumption, DiscoInv, TipoDisco, FielInv, EscribirBloque
  PROVE  FielInv'
<1>1. fs.pc = "escribir" /\ UNCHANGED <<meta, escrito, truncado, pedidos>>
  BY DEF EscribirBloque
<1>2. ASSUME ~truncado, NEW f \in DOMAIN meta, f \in enOrden, f # fs.path,
             NEW s, Quieto(s, f)
      PROVE  Fiel(meta[f], escrito[f], datos', s, f, pedidos)
  <2>1. Fiel(meta[f], escrito[f], datos, fs, f, pedidos)
    BY <1>2 DEF FielInv
  <2>2. \A i \in 0..(Len(meta[f].BLOQUES) - 1) : datos'[meta[f].BLOQUES[i + 1]] = datos[meta[f].BLOQUES[i + 1]]
    BY <1>2, OtrosBloques
  <2>3. Quieto(fs, f)
    BY <1>2 DEF Quieto
  <2> QED BY <1>2, <2>1, <2>2, <2>3, FielOtro
<1>3. CASE Muere /\ enOrden' = enOrden \ {fs.path}
  <2>1. fs'.pc = "caido" /\ \A f : Quieto(fs', f)
    BY <1>3 DEF Muere, Libre, Quieto, Escribe
  <2>2. \A f \in DOMAIN meta : ~truncado /\ f \in enOrden' => Fiel(meta[f], escrito[f], datos', fs', f, pedidos)
    BY <1>2, <1>3, <2>1
  <2> QED BY <1>1, <2>1, <2>2 DEF FielInv, Escribe
<1>4. CASE ~(Muere /\ enOrden' = enOrden \ {fs.path})
  <2> DEFINE n == fs.offset \div Tam
             B == meta[fs.path].BLOQUES
  <2>1. enOrden' = enOrden /\ Vuelta(fs, fs', n, B)
    <3>1. fs \in Peticion
      BY DEF DiscoInv, TipoFs
    <3>2. n + fs.j + 1 + 1 = n + fs.j + 2
      <4>1. fs.offset \in Nat /\ fs.j \in Nat /\ Tam \in Nat \ {0}
        BY <3>1 DEF Peticion, FileSystemAssumption
      <4>2. n \in Nat
        BY <4>1
      <4> HIDE DEF n
      <4> QED BY <4>1, <4>2
    <3> QED BY <1>4, <3>2 DEF EscribirBloque, Vuelta, Total, Resto
  <2>2. fs.path \in DOMAIN meta
    BY <1>1 DEF DiscoInv, TipoFs, Sobreviven
  <2>3. ASSUME ~truncado, fs.path \in enOrden
        PROVE  /\ fs'.path = fs.path /\ EnCurso(meta[fs.path], fs')
               /\ Fiel(meta[fs.path], escrito[fs.path], datos', fs', fs.path, pedidos)
    <3>1. EnCurso(meta[fs.path], fs) /\ Fiel(meta[fs.path], escrito[fs.path], datos, fs, fs.path, pedidos)
      BY <1>1, <2>2, <2>3 DEF FielInv, Escribe
    <3>2. PICK k \in Nat, q \in Nat :
            /\ k = fs.offset \div Tam /\ Avance(meta[fs.path], fs, q)
            /\ fs.offset = k * Tam /\ fs.bytesEscritos = q * Tam
            /\ (k + q) * Tam = fs.offset + fs.bytesEscritos
            /\ Desde = 0
      BY <1>1, <3>1, Turno
    <3>3. /\ fs'.offset = fs.offset /\ fs'.path = fs.path /\ fs'.pc \in {"escribir", "reservar", "tamanio"}
          /\ Hasta(fs') = fs.offset + Total
          /\ \E x \in Nat : Avance(meta[fs.path], fs', x)
      BY <1>1, <2>1, <3>2, TurnoSigue
    <3>4. Fiel(meta[fs.path], escrito[fs.path], datos', fs', fs.path, pedidos)
      BY <2>3, <3>1, <3>3, TurnoEscribe DEF Escribe
    <3> QED BY <3>1, <3>3, <3>4 DEF EnCurso
  <2>4. fs'.path = fs.path
    <3>1. fs \in Peticion
      BY DEF DiscoInv, TipoFs
    <3> QED BY <2>1, <3>1 DEF Vuelta, Peticion
  <2>5. ASSUME ~truncado, NEW f \in DOMAIN meta, f \in enOrden
        PROVE  Fiel(meta[f], escrito[f], datos', fs', f, pedidos)
    <3>1. CASE f = fs.path
      BY <2>3, <2>5, <3>1
    <3>2. CASE f # fs.path
      BY <1>2, <2>4, <2>5, <3>2 DEF Quieto
    <3> QED BY <3>1, <3>2
  <2> QED BY <1>1, <2>1, <2>3, <2>4, <2>5 DEF FielInv
<1> QED BY <1>3, <1>4

\* A block is marked for the write, or the write ends without it.
LEMMA FielReservar ==
  ASSUME DiscoInv, FielInv, ReservarNuevoBloque
  PROVE  FielInv'
<1> DEFINE b == BuscarBloqueLibre
<1>1. fs.pc = "reservar" /\ UNCHANGED <<meta, datos, escrito, truncado, pedidos>>
  BY DEF ReservarNuevoBloque
<1>2. CASE b = Nada
  <2>1. fs'.pc = "libre" /\ enOrden' = enOrden \ {fs.path}
    BY <1>2 DEF ReservarNuevoBloque, Listo, Libre
  <2> QED BY <1>1, <2>1, FielDeja DEF Escribe
<1>3. CASE b # Nada
  <2>1. fs' = [fs EXCEPT !.pc = "anotar", !.bloque = b] /\ enOrden' = enOrden
    BY <1>3 DEF ReservarNuevoBloque
  <2>2. fs \in Peticion
    BY DEF DiscoInv, TipoFs
  <2> HIDE DEF b
  <2>3. /\ fs'.pc = "anotar" /\ fs'.path = fs.path /\ fs'.offset = fs.offset /\ fs'.size = fs.size
        /\ fs'.bytesEscritos = fs.bytesEscritos /\ fs'.cantBloques = fs.cantBloques
    BY <2>1, <2>2 DEF Peticion
  <2>4. Hasta(fs') = Hasta(fs)
    BY <1>1, <2>3 DEF Hasta
  <2>5. \A f, x : Escribiendo(fs', f, x) <=> Escribiendo(fs, f, x)
    BY <1>1, <2>3, <2>4 DEF Escribiendo, Escribe
  <2>6. \A f \in DOMAIN meta :
          Fiel(meta[f], escrito[f], datos, fs, f, pedidos) => Fiel(meta[f], escrito[f], datos, fs', f, pedidos)
    BY <2>5 DEF Fiel
  <2>7. EnCurso(meta[fs.path], fs) => EnCurso(meta[fs.path], fs')
    BY <1>1, <2>3 DEF EnCurso, Avance
  <2> QED BY <1>1, <2>1, <2>3, <2>6, <2>7 DEF FielInv, Escribe
<1> QED BY <1>2, <1>3

\* The file gets its new block, which is after all that it has.
LEMMA FielAnotar ==
  ASSUME FileSystemAssumption, DiscoInv, TipoDisco, FielInv, AnotarBloque
  PROVE  FielInv'
<1> DEFINE p == fs.path
           b == fs.bloque
           s == meta[p].BLOQUES
           v == Append(s, b)
           n == fs.offset \div Tam
<1>1. /\ fs.pc = "anotar" /\ fs' = [fs EXCEPT !.pc = "escribir"]
      /\ UNCHANGED <<datos, pedidos, escrito, enOrden, truncado>>
      /\ meta' = [meta EXCEPT ![p].BLOQUES = v]
  BY DEF AnotarBloque, historia
<1>2. /\ p \in DOMAIN meta /\ b \in Bloque /\ s \in Seq(Bloque) /\ meta[p] \in Metadatos /\ fs \in Peticion
      /\ Tam \in Nat \ {0}
  BY <1>1 DEF DiscoInv, TipoFs, Sobreviven, TipoDisco, FileSystemAssumption
<1>3. /\ DOMAIN meta' = DOMAIN meta
      /\ \A f \in DOMAIN meta : f # p => meta'[f] = meta[f]
      /\ meta'[p].BLOQUES = v /\ meta'[p].TAMANIO = meta[p].TAMANIO
  BY <1>1, <1>2 DEF Metadatos
<1>4. /\ fs'.pc = "escribir" /\ fs'.path = p /\ fs'.offset = fs.offset /\ fs'.size = fs.size
      /\ fs'.bytesEscritos = fs.bytesEscritos /\ fs'.cantBloques = fs.cantBloques /\ fs'.bloque = b
  BY <1>1, <1>2 DEF Peticion
<1>5. Hasta(fs') = Hasta(fs)
  BY <1>1, <1>4 DEF Hasta
<1>6. \A f, x : Escribiendo(fs', f, x) <=> Escribiendo(fs, f, x)
  BY <1>1, <1>4, <1>5 DEF Escribiendo, Escribe
<1>7. ASSUME ~truncado, NEW f \in DOMAIN meta, f \in enOrden, f # p
      PROVE  Fiel(meta'[f], escrito[f], datos, fs', f, pedidos)
  <2>1. Fiel(meta[f], escrito[f], datos, fs, f, pedidos)
    BY <1>7 DEF FielInv
  <2>2. Fiel(meta[f], escrito[f], datos, fs', f, pedidos)
    BY <1>6, <2>1 DEF Fiel
  <2> QED BY <1>3, <1>7, <2>2
<1>8. ASSUME ~truncado, p \in enOrden
      PROVE  EnCurso(meta'[p], fs') /\ Fiel(meta'[p], escrito[p], datos, fs', p, pedidos)
  <2>1. EnCurso(meta[p], fs) /\ Fiel(meta[p], escrito[p], datos, fs, p, pedidos)
    BY <1>1, <1>2, <1>8 DEF FielInv, Escribe
  <2>2. PICK q \in Nat : Avance(meta[p], fs, q)
    BY <2>1 DEF EnCurso
  <2>3. fs.bytesEscritos = q * Tam /\ n + 1 = fs.cantBloques /\ Len(s) = n + q
    BY <1>1, <2>2 DEF Avance
  <2>4. /\ fs.offset \in Nat /\ n \in Nat /\ fs.offset = n * Tam /\ Len(s) \in Nat
    <3>1. fs.offset \in Nat
      BY <1>2 DEF Peticion
    <3>2. PICK i \in Nat, m \in 0..(Tam - 1) : i = n /\ m = fs.offset % Tam /\ fs.offset = i * Tam + m
      BY <1>2, <3>1, Division
    <3>3. m = 0
      BY <2>1, <3>2 DEF EnCurso
    <3>5. i * Tam \in Nat
      <4>1. i \in Nat /\ Tam \in Nat \ {0}
        BY <1>2
      <4> HIDE DEF n, s, v, b
      <4> QED BY <4>1, Multiplos
    <3>4. Len(s) \in Nat
      <4> HIDE DEF s
      <4> QED BY <1>2
    <3> HIDE DEF n
    <3> QED BY <3>1, <3>2, <3>3, <3>4, <3>5
  <2> HIDE DEF n
  <2>5. Hasta(fs') = Len(s) * Tam
    <3>1. n * Tam \in Nat /\ q * Tam \in Nat /\ (n + q) * Tam = n * Tam + q * Tam
      BY <1>2, <2>4
    <3>2. Hasta(fs') = n * Tam + q * Tam
      BY <1>4, <2>3, <2>4 DEF Hasta
    <3> QED BY <2>3, <3>1, <3>2
  <2> HIDE DEF s, b
  <2>6. /\ Len(v) = Len(s) + 1 /\ v[Len(s) + 1] = b
        /\ \A i \in 0..(Len(s) - 1) : v[i + 1] = s[i + 1]
    BY <1>2, <2>4
  <2>7. EnCurso(meta'[p], fs')
    <3>1. Avance(meta'[p], fs', q)
      <4>1. fs'.offset \div Tam = n
        BY <1>4 DEF n
      <4>2. n + q < Len(v) /\ Len(v) = n + q + 1 /\ v[n + q + 1] = b
        BY <2>3, <2>4, <2>6
      <4> HIDE DEF v
      <4> QED BY <1>3, <1>4, <2>3, <4>1, <4>2 DEF Avance, b
    <3> QED BY <1>3, <1>4, <2>1, <3>1 DEF EnCurso
  <2>8. /\ Len(escrito[p]) = meta[p].TAMANIO
        /\ meta[p].TAMANIO <= Len(s) * Tam
        /\ \A i \in 0..(Len(s) - 1), k \in 1..Tam :
             /\ Escribiendo(fs, p, i * Tam + k) => datos[s[i + 1]][k] = pedidos
             /\ i * Tam + k <= meta[p].TAMANIO /\ ~Escribiendo(fs, p, i * Tam + k)
                  => datos[s[i + 1]][k] = escrito[p][i * Tam + k]
    BY <2>1 DEF Fiel, s
  <2>9. meta[p].TAMANIO \in Nat /\ Len(s) * Tam \in Nat /\ (Len(s) + 1) * Tam = Len(s) * Tam + Tam
    <3>1. meta[p].TAMANIO \in Nat
      BY <1>2 DEF Metadatos
    <3> QED BY <1>2, <2>4, <3>1, Multiplos
  <2>10. meta[p].TAMANIO <= Len(v) * Tam
    BY <1>2, <2>6, <2>8, <2>9
  <2>11. ASSUME NEW i \in 0..(Len(v) - 1), NEW k \in 1..Tam
         PROVE  /\ Escribiendo(fs', p, i * Tam + k) => datos[v[i + 1]][k] = pedidos
                /\ i * Tam + k <= meta[p].TAMANIO /\ ~Escribiendo(fs', p, i * Tam + k)
                     => datos[v[i + 1]][k] = escrito[p][i * Tam + k]
    <3>1. i \in 0..(Len(s) - 1) \/ i = Len(s)
      BY <2>4, <2>6
    <3>2. CASE i \in 0..(Len(s) - 1)
      BY SMTT(20), <1>6, <2>6, <2>8, <3>2
    <3>3. CASE i = Len(s)
      <4> DEFINE x == i * Tam + k
      <4>1. x \in Nat /\ x > Len(s) * Tam
        BY <1>2, <2>4, <3>3, Lugares
      <4>2. ~Escribiendo(fs', p, x)
        <5> HIDE DEF x
        <5> QED BY <2>5, <2>9, <4>1 DEF Escribiendo
      <4>3. ~(x <= meta[p].TAMANIO)
        <5> HIDE DEF x
        <5> QED BY <2>8, <2>9, <4>1
      <4> QED BY <4>2, <4>3
    <3> QED BY <3>1, <3>2, <3>3
  <2> HIDE DEF v
  <2> QED BY <1>3, <2>7, <2>8, <2>10, <2>11 DEF Fiel
<1>9. ASSUME ~truncado', NEW f \in DOMAIN meta', f \in enOrden'
      PROVE  Fiel(meta'[f], escrito'[f], datos', fs', f, pedidos')
  <2> HIDE DEF v, p
  <2>1. ~truncado /\ f \in DOMAIN meta /\ f \in enOrden
    BY <1>1, <1>3, <1>9
  <2>2. Fiel(meta'[f], escrito[f], datos, fs', f, pedidos)
    BY <1>7, <1>8, <2>1
  <2> QED BY <1>1, <2>2
<1>10. ASSUME ~truncado', fs'.path \in enOrden'
       PROVE  EnCurso(meta'[fs'.path], fs')
  <2> HIDE DEF v, p
  <2> QED BY <1>1, <1>4, <1>8, <1>10
<1> HIDE DEF v
<1> QED BY <1>9, <1>10 DEF FielInv

\* The end of a write: the size and what was written.
LEMMA FielAumentar ==
  ASSUME FileSystemAssumption, DiscoInv, TipoDisco, FielInv, AumentarTamanio
  PROVE  FielInv'
<1> DEFINE p == fs.path
           o == fs.offset
           z == fs.size
           fin == o + z
           a == meta[p].TAMANIO
           t == IF fin > a THEN fin ELSE a
           d == Bytes(z)
           e == Sobre(escrito[p], o, d)
<1>1. /\ fs.pc = "tamanio" /\ fs' = Libre /\ UNCHANGED <<datos, pedidos, enOrden, truncado>>
      /\ escrito' = [escrito EXCEPT ![p] = e] /\ meta' = [meta EXCEPT ![p].TAMANIO = t]
  <2>1. fs.path \in DOMAIN meta /\ meta[fs.path] \in Metadatos
    BY DEF AumentarTamanio, DiscoInv, TipoFs, Sobreviven
  <2> QED BY <2>1 DEF AumentarTamanio, Listo, Metadatos
<1>2. p \in DOMAIN meta /\ p \in Archivo /\ meta[p] \in Metadatos /\ o \in Nat /\ z \in Nat /\ a \in Nat
  BY <1>1 DEF DiscoInv, TipoFs, Sobreviven, Peticion, Metadatos
<1>3. escrito[p] \in Seq(0..MaxPedidos) /\ pedidos \in 0..MaxPedidos /\ 0 \in 0..MaxPedidos
  BY <1>2 DEF TipoDisco, FileSystemAssumption
<1>4. d \in Seq(0..MaxPedidos) /\ Len(d) = z /\ \A i \in 1..z : d[i] = pedidos
  <2>1. SonBytes(d, 0..MaxPedidos, z, pedidos)
    BY <1>2, <1>3, BytesBien
  <2> HIDE DEF d
  <2> QED BY <2>1 DEF SonBytes
<1> HIDE DEF d
<1>5. EsSobre(e, 0..MaxPedidos, escrito[p], o, d)
  BY <1>2, <1>3, <1>4, SobreBien
<1> HIDE DEF e
<1>6. /\ DOMAIN meta' = DOMAIN meta
      /\ \A f \in DOMAIN meta : f # p => meta'[f] = meta[f]
      /\ meta'[p].BLOQUES = meta[p].BLOQUES /\ meta'[p].TAMANIO = t
      /\ escrito'[p] = e /\ \A f \in DOMAIN meta : f # p => escrito'[f] = escrito[f]
  <2>1. DOMAIN escrito = Archivo /\ DOMAIN meta \subseteq Archivo
    BY DEF TipoDisco, DiscoInv, TipoFs
  <2> HIDE DEF t
  <2> QED BY <1>1, <1>2, <2>1 DEF Metadatos
<1>7. fs'.pc = "libre"
  BY <1>1 DEF Libre
<1>8. ASSUME ~truncado, NEW f \in DOMAIN meta, f \in enOrden, f # p
      PROVE  Fiel(meta'[f], escrito'[f], datos, fs', f, pedidos)
  <2>1. Fiel(meta[f], escrito[f], datos, fs, f, pedidos)
    BY <1>8 DEF FielInv
  <2>2. Quieto(fs, f) /\ Quieto(fs', f)
    BY <1>7, <1>8 DEF Quieto, Escribe
  <2>3. Fiel(meta[f], escrito[f], datos, fs', f, pedidos)
    BY <2>1, <2>2, FielOtro
  <2> QED BY <1>6, <1>8, <2>3
<1>9. ASSUME ~truncado, p \in enOrden
      PROVE  Fiel(meta'[p], escrito'[p], datos, fs', p, pedidos)
  <2> DEFINE B == meta[p].BLOQUES
             c == Len(B)
  <2>1. EnCurso(meta[p], fs) /\ Fiel(meta[p], escrito[p], datos, fs, p, pedidos)
    BY <1>1, <1>2, <1>9 DEF FielInv, Escribe
  <2>2. fin <= c * Tam /\ o <= a
    BY <1>1, <2>1 DEF EnCurso, Avance
  <2>3. /\ Len(escrito[p]) = a /\ a <= c * Tam
        /\ \A i \in 0..(c - 1), k \in 1..Tam :
             /\ Escribiendo(fs, p, i * Tam + k) => datos[B[i + 1]][k] = pedidos
             /\ i * Tam + k <= a /\ ~Escribiendo(fs, p, i * Tam + k)
                  => datos[B[i + 1]][k] = escrito[p][i * Tam + k]
    BY <2>1 DEF Fiel
  <2>4. c \in Nat /\ Tam \in Nat \ {0}
    <3>1. B \in Seq(Bloque)
      BY <1>2 DEF TipoDisco
    <3> HIDE DEF B
    <3> QED BY <3>1 DEF FileSystemAssumption
  <2> HIDE DEF B, o, z, a
  <2>5. Len(e) = t /\ t \in Nat /\ fin \in Nat /\ t <= c * Tam
    BY <1>2, <1>4, <1>5, <2>2, <2>3, <2>4 DEF EsSobre
  <2>6. ASSUME NEW x \in Nat \ {0}, x <= t
        PROVE  e[x] = IF x > o /\ x <= fin THEN pedidos ELSE escrito[p][x]
    <3>1. x \in 1..Len(e)
      BY <2>5, <2>6
    <3>2. e[x] = IF x > o /\ x <= fin THEN d[x - o] ELSE IF x <= a THEN escrito[p][x] ELSE 0
      BY <1>4, <1>5, <2>3, <3>1 DEF EsSobre
    <3>3. x > o /\ x <= fin => d[x - o] = pedidos
      <4> SUFFICES ASSUME x > o, x <= fin PROVE x - o \in 1..z
        BY <1>4
      <4> QED BY <1>2
    <3>4. ~(x > o /\ x <= fin) => x <= a
      BY <1>2, <2>2, <2>6
    <3> QED BY <3>2, <3>3, <3>4
  <2>7. ASSUME NEW x \in Nat PROVE Escribiendo(fs, p, x) <=> x > o /\ x <= fin
    BY <1>1 DEF Escribiendo, Escribe, Hasta, o, z
  <2>8. ASSUME NEW i \in 0..(c - 1), NEW k \in 1..Tam, i * Tam + k <= t
        PROVE  datos[B[i + 1]][k] = e[i * Tam + k]
    <3> DEFINE x == i * Tam + k
    <3>1. x \in Nat \ {0}
      <4>1. i \in Nat
        BY <2>4
      <4> QED BY <2>4, <4>1, Lugares
    <3>2. /\ Escribiendo(fs, p, x) => datos[B[i + 1]][k] = pedidos
          /\ x <= a /\ ~Escribiendo(fs, p, x) => datos[B[i + 1]][k] = escrito[p][x]
      BY <2>3
    <3> HIDE DEF x
    <3>3. x <= t
      BY <2>8 DEF x
    <3>4. ~(x > o /\ x <= fin) => x <= a
      BY <1>2, <2>2, <3>1, <3>3
    <3> QED BY <2>6, <2>7, <3>1, <3>2, <3>3, <3>4 DEF x
  <2>9. \A x : ~Escribiendo(fs', p, x)
    BY <1>7 DEF Escribiendo, Escribe
  <2> HIDE DEF c, t
  <2> QED BY <1>6, <2>5, <2>8, <2>9 DEF Fiel, B, c
<1> HIDE DEF t
<1> QED BY <1>1, <1>6, <1>7, <1>8, <1>9 DEF FielInv, Escribe

\* A new file has no bytes, and a block for the first ones.
LEMMA FielEscribirMetadata ==
  ASSUME FileSystemAssumption, DiscoInv, TipoDisco, FielInv, EscribirMetadata
  PROVE  FielInv'
<1> DEFINE p == fs.path
           r == [TAMANIO |-> 0, BLOQUES |-> <<fs.bloque>>]
<1>1. /\ fs.pc = "crear" /\ fs' = Libre /\ UNCHANGED <<datos, pedidos, truncado>>
      /\ meta' = [f \in DOMAIN meta \cup {p} |-> IF f = p THEN r ELSE meta[f]]
      /\ escrito' = [escrito EXCEPT ![p] = << >>] /\ enOrden' = enOrden \cup {p}
  BY DEF EscribirMetadata, Listo
<1>2. p \in Archivo /\ p \notin DOMAIN meta /\ DOMAIN meta \subseteq Archivo /\ DOMAIN escrito = Archivo
  BY <1>1 DEF DiscoInv, TipoFs, TipoDisco
<1>3. r.TAMANIO = 0 /\ Len(r.BLOQUES) = 1 /\ Tam \in Nat \ {0}
  BY DEF FileSystemAssumption
<1>4. fs'.pc = "libre"
  BY <1>1 DEF Libre
<1> HIDE DEF p, r
<1>5. ASSUME ~truncado, NEW f \in DOMAIN meta, f \in enOrden
      PROVE  Fiel(meta'[f], escrito'[f], datos, fs', f, pedidos)
  <2>1. Fiel(meta[f], escrito[f], datos, fs, f, pedidos)
    BY <1>5 DEF FielInv
  <2>2. Quieto(fs, f) /\ Quieto(fs', f)
    BY <1>1, <1>4 DEF Quieto, Escribe
  <2>3. meta'[f] = meta[f] /\ escrito'[f] = escrito[f]
    BY <1>1, <1>2, <1>5
  <2> QED BY <2>1, <2>2, <2>3, FielOtro
<1>6. Fiel(meta'[p], escrito'[p], datos, fs', p, pedidos)
  <2>1. meta'[p] = r /\ escrito'[p] = << >>
    BY <1>1, <1>2
  <2>2. \A i \in 0..0, k \in 1..Tam : ~(i * Tam + k <= 0)
    BY <1>3
  <2>3. 0 <= 1 * Tam /\ Len(<< >>) = 0
    BY <1>3
  <2>4. \A x : ~Escribiendo(fs', p, x)
    BY <1>4 DEF Escribiendo, Escribe
  <2> QED BY <1>3, <2>1, <2>2, <2>3, <2>4 DEF Fiel
<1>7. DOMAIN meta' = DOMAIN meta \cup {p}
  BY <1>1
<1>8. ASSUME ~truncado', NEW f \in DOMAIN meta', f \in enOrden'
      PROVE  Fiel(meta'[f], escrito'[f], datos', fs', f, pedidos')
  BY <1>1, <1>2, <1>5, <1>6, <1>7, <1>8
<1> QED BY <1>4, <1>8 DEF FielInv, Escribe

\* A deletion does not touch the blocks, nor what the other files are.
LEMMA FielBorra ==
  ASSUME DiscoInv, FielInv, LiberarBloque \/ Unlink
  PROVE  FielInv'
<1>1. fs.pc = "borrar" /\ UNCHANGED <<datos, pedidos, escrito, enOrden, truncado>>
  BY DEF LiberarBloque, Unlink, historia
<1>2. fs'.pc \notin Escribe
  <2>1. CASE fs' = [fs EXCEPT !.j = @ + 1]
    BY <1>1, <2>1 DEF DiscoInv, TipoFs, Peticion, Escribe
  <2>2. CASE fs' = Libre
    BY <2>2 DEF Libre, Escribe
  <2> QED BY <2>1, <2>2 DEF LiberarBloque, Unlink, Listo
<1>3. CASE LiberarBloque
  BY <1>1, <1>2, <1>3, FielIgual DEF LiberarBloque, Escribe
<1>4. CASE Unlink
  <2>1. meta' = [f \in DOMAIN meta \ {fs.path} |-> meta[f]]
    BY <1>4 DEF Unlink
  <2>2. ASSUME ~truncado, NEW f \in DOMAIN meta', f \in enOrden
        PROVE  Fiel(meta'[f], escrito[f], datos, fs', f, pedidos)
    <3>1. f \in DOMAIN meta /\ meta'[f] = meta[f]
      BY <2>1, <2>2
    <3>2. Fiel(meta[f], escrito[f], datos, fs, f, pedidos)
      BY <2>2, <3>1 DEF FielInv
    <3>3. Quieto(fs, f) /\ Quieto(fs', f)
      BY <1>1, <1>2 DEF Quieto, Escribe
    <3> QED BY <3>1, <3>2, <3>3, FielOtro
  <2> QED BY <1>1, <1>2, <2>2 DEF FielInv
<1> QED BY <1>3, <1>4

\* The requests that do not write.
LEMMA FielPide ==
  ASSUME FielInv, NEW f \in Archivo,
         ValidarArchivo(f) \/ CrearArchivo(f) \/ BorrarArchivo(f)
         \/ (\E o \in Cursores, s \in Tamanos : ObtenerDatos(f, o, s))
  PROVE  FielInv'
<1>1. fs.pc = "libre" /\ UNCHANGED <<meta, datos, escrito, enOrden, truncado>>
  BY DEF ValidarArchivo, CrearArchivo, BorrarArchivo, ObtenerDatos, Pedido, historia
<1>2. fs'.pc \in {"libre", "crear", "borrar", "caido", "pisado"}
  <2>1. CASE ValidarArchivo(f) \/ CrearArchivo(f) \/ BorrarArchivo(f)
    <3>1. \/ fs' = Libre
          \/ fs' = [Libre EXCEPT !.pc = "crear", !.path = f, !.bloque = BuscarBloqueLibre]
          \/ fs' = [Libre EXCEPT !.pc = "borrar", !.path = f, !.j = 1]
      BY <2>1 DEF ValidarArchivo, CrearArchivo, BorrarArchivo, Listo
    <3>2. CASE fs' = Libre
      BY <3>2 DEF Libre
    <3>3. CASE fs' = [Libre EXCEPT !.pc = "crear", !.path = f, !.bloque = BuscarBloqueLibre]
      <4>1. fs'.pc = "crear"
        BY <3>3 DEF Libre
      <4> QED BY <4>1
    <3>4. CASE fs' = [Libre EXCEPT !.pc = "borrar", !.path = f, !.j = 1]
      <4>1. fs'.pc = "borrar"
        BY <3>4 DEF Libre
      <4> QED BY <4>1
    <3> QED BY <3>1, <3>2, <3>3, <3>4
  <2>2. CASE \E o \in Cursores, s \in Tamanos : ObtenerDatos(f, o, s)
    <3>1. fs' \in Ociosos \/ UNCHANGED fs
      BY <2>2 DEF ObtenerDatos, LeerDeMas, Listo, Muere, Ociosos
    <3> QED BY <1>1, <3>1 DEF Ociosos, Libre
  <2> QED BY <2>1, <2>2
<1> QED BY <1>1, <1>2, FielIgual DEF Escribe

LEMMA FielPaso ==
  ASSUME FileSystemAssumption
  PROVE  DiscoInv /\ TipoDisco /\ FielInv /\ [Next]_vars => FielInv'
<1> SUFFICES ASSUME DiscoInv, TipoDisco, FielInv, [Next]_vars PROVE FielInv'
  OBVIOUS
<1>1. ASSUME NEW f \in Archivo,
             ValidarArchivo(f) \/ CrearArchivo(f) \/ BorrarArchivo(f)
             \/ (\E o \in Cursores, s \in Tamanos : ObtenerDatos(f, o, s))
      PROVE  FielInv'
  BY <1>1, FielPide
<1>2. ASSUME NEW f \in Archivo, NEW o \in Cursores, NEW s \in Tamanos, GuardarDatos(f, o, s)
      PROVE  FielInv'
  BY <1>2, FielGuardar
<1>3. CASE EscribirMetadata \/ LiberarBloque \/ Unlink
  BY <1>3, FielEscribirMetadata, FielBorra
<1>4. CASE EscribirBloque \/ ReservarNuevoBloque
  BY <1>4, FielEscribirBloque, FielReservar
<1>5. CASE AnotarBloque \/ AumentarTamanio
  BY <1>5, FielAnotar, FielAumentar
<1>6. CASE Reiniciar
  <2>1. fs'.pc = "libre"
    BY <1>6 DEF Reiniciar, Libre
  <2> QED BY <1>6, <2>1, FielDeja DEF Reiniciar, Escribe
<1>7. CASE UNCHANGED vars
  BY <1>7 DEF vars, FielInv
<1> QED BY <1>1, <1>2, <1>3, <1>4, <1>5, <1>6, <1>7 DEF Next, Sirve

\* A read is the last answer: the file is still there.
LecturaInv == LecturaFiel /\ (respuesta.tipo = "LECTURA_OK" => Existe(respuesta.path))

\* An answer that is not a read, or none yet.
LEMMA LecturaOtra ==
  ASSUME respuesta'.tipo # "LECTURA_OK"
  PROVE  LecturaInv'
BY DEF LecturaInv, LecturaFiel

\* The answer stays, and what was written in its file and its size too.
LEMMA LecturaQueda ==
  ASSUME LecturaInv, UNCHANGED <<respuesta, escrito>>, truncado => truncado', enOrden' \subseteq enOrden,
         DOMAIN meta' = DOMAIN meta, \A f \in DOMAIN meta : meta'[f].TAMANIO = meta[f].TAMANIO
  PROVE  LecturaInv'
BY DEF LecturaInv, LecturaFiel, Existe

\* Byte i of a read that starts at a block's first byte: its place in its block,
\* and what obtenerDatos reads of it if the file has that block.
Leido(B, o, s, i, n, a, k) ==
  /\ n = o \div Tam /\ o = n * Tam /\ i = a * Tam + k
  /\ n + a < Len(B) =>
       Parte(B, o, s, (i - 1) \div Tam)[((i - 1) % Tam) + 1] = datos[B[n + a + 1]][k]

LEMMA LeidoBien ==
  ASSUME FileSystemAssumption, TipoDisco, NEW B \in Seq(Bloque), NEW o \in Nat, o % Tam = 0,
         NEW s \in Nat, NEW i \in 1..s
  PROVE  \E n \in Nat, a \in Nat, k \in 1..Tam : Leido(B, o, s, i, n, a, k)
<1>1. Tam \in Nat \ {0} /\ i - 1 \in Nat
  BY DEF FileSystemAssumption
<1>2. PICK n \in Nat, m \in 0..(Tam - 1) : n = o \div Tam /\ m = o % Tam /\ o = n * Tam + m
  BY <1>1, Division
<1>3. PICK a \in Nat, b \in 0..(Tam - 1) :
        a = (i - 1) \div Tam /\ b = (i - 1) % Tam /\ i - 1 = a * Tam + b
  BY <1>1, Division
<1> DEFINE k == b + 1
           d == datos[B[n + a + 1]]
<1>4. k \in 1..Tam
  BY <1>1
<1>5. /\ n * Tam \in Nat /\ a * Tam \in Nat
  BY <1>1, <1>4, Lugares
<1>6. o = n * Tam
  BY <1>2, <1>5
<1>7. i = a * Tam + k /\ k <= s - a * Tam
  BY <1>3, <1>5
<1>8. k \in 1..Menor(s - a * Tam, Tam)
  BY <1>1, <1>4, <1>5, <1>7 DEF Menor
<1>9. ASSUME n + a < Len(B)
      PROVE  Parte(B, o, s, a)[k] = d[k]
  <2>1. Len(B) \in Nat
    OBVIOUS
  <2>2. Menor(n + a, Len(B) - 1) = n + a
    BY <1>9, <2>1 DEF Menor
  <2>3. B[n + a + 1] \in Bloque
    BY <1>9, <2>1
  <2>4. Len(d) \in Nat /\ k <= Len(d)
    <3>1. \A x \in Bloque : Len(datos[x]) \in Tam..(2 * Tam - 1)
      BY DEF TipoDisco
    <3>2. Len(d) \in Tam..(2 * Tam - 1)
      BY <2>3, <3>1
    <3> HIDE DEF d, k
    <3> QED BY <1>1, <1>4, <3>2
  <2> HIDE DEF d, k
  <2>5. Parte(B, o, s, a) = [x \in 1..Menor(s - a * Tam, Tam) |-> IF 0 + x <= Len(d) THEN d[0 + x] ELSE Nada]
    <3> DEFINE c == datos[B[Menor((o \div Tam) + a, Len(B) - 1) + 1]]
               h == IF a = 0 THEN o % Tam ELSE 0
    <3>1. Parte(B, o, s, a) = [x \in 1..Menor(s - a * Tam, Tam) |-> IF h + x <= Len(c) THEN c[h + x] ELSE Nada]
      BY DEF Parte
    <3>2. h = 0
      OBVIOUS
    <3>3. c = d
      BY <1>2, <2>2 DEF d
    <3> HIDE DEF c, h
    <3> QED BY <3>1, <3>2, <3>3
  <2>6. Parte(B, o, s, a)[k] = IF 0 + k <= Len(d) THEN d[0 + k] ELSE Nada
    BY <1>8, <2>5
  <2> QED BY SMTT(20), <1>4, <2>4, <2>6
<1>10. Leido(B, o, s, i, n, a, k)
  <2> HIDE DEF d
  <2> QED BY <1>2, <1>3, <1>6, <1>7, <1>9 DEF Leido, d
<1> QED BY <1>4, <1>10

\* A read answers what was written.
LEMMA LecturaObtener ==
  ASSUME FileSystemAssumption, DiscoInv, TipoDisco, FielInv, NEW f \in Archivo, NEW o \in Cursores,
         NEW s \in Tamanos, ObtenerDatos(f, o, s)
  PROVE  LecturaInv'
<1> DEFINE B == meta[f].BLOQUES
           R(k) == Parte(B, o, s, (k - 1) \div Tam)[((k - 1) % Tam) + 1]
<1>1. fs.pc = "libre" /\ UNCHANGED <<meta, datos, escrito, enOrden, truncado>>
  BY DEF ObtenerDatos, Pedido, historia
<1>2. CASE respuesta'.tipo # "LECTURA_OK"
  BY <1>2, LecturaOtra
<1>3. CASE respuesta'.tipo = "LECTURA_OK" /\ s > Buffer
  <2>1. Existe(f) /\ respuesta' = [tipo |-> "LECTURA_OK", path |-> f, offset |-> o, buffer |-> [k \in 1..s |-> Nada]]
    BY <1>3 DEF ObtenerDatos, LeerDeMas, Listo, Muere, Contestar, Callado
  <2>2. respuesta'.path = f /\ Len(respuesta'.buffer) = s
    BY <2>1 DEF FileSystemAssumption
  <2>3. ~(Len(respuesta'.buffer) <= Buffer)
    BY <1>3, <2>2 DEF FileSystemAssumption
  <2> QED BY <1>1, <2>1, <2>2, <2>3 DEF LecturaInv, LecturaFiel, Existe
<1>4. CASE respuesta'.tipo = "LECTURA_OK" /\ ~(s > Buffer)
  <2>1. Existe(f) /\ respuesta' = [tipo |-> "LECTURA_OK", path |-> f, offset |-> o, buffer |-> [k \in 1..s |-> R(k)]]
    BY <1>4 DEF ObtenerDatos, Listo, Muere, Contestar, Callado
  <2>2. /\ respuesta'.path = f /\ respuesta'.offset = o /\ DOMAIN respuesta'.buffer = 1..s
        /\ \A k \in 1..s : respuesta'.buffer[k] = R(k)
    BY <2>1
  <2>3. B \in Seq(Bloque) /\ o \in Nat /\ s \in Nat /\ meta[f].TAMANIO \in Nat /\ Tam \in Nat \ {0}
    BY <2>1 DEF DiscoInv, TipoFs, Metadatos, TipoDisco, FileSystemAssumption, Existe
  <2>4. ASSUME o % Tam = 0, f \in enOrden, ~truncado, NEW i \in 1..s, o + i <= meta[f].TAMANIO
        PROVE  R(i) = escrito[f][o + i]
    <3> HIDE DEF B
    <3>1. PICK n \in Nat, a \in Nat, k \in 1..Tam : Leido(B, o, s, i, n, a, k)
      BY <2>3, <2>4, LeidoBien
    <3>2. Fiel(meta[f], escrito[f], datos, fs, f, pedidos)
      BY <2>1, <2>4 DEF FielInv, Existe
    <3>3. Len(B) \in Nat /\ n + a \in Nat
      BY <2>3
    <3>4. o + i = (n + a) * Tam + k
      <4>1. n * Tam \in Nat /\ a * Tam \in Nat /\ (n + a) * Tam = n * Tam + a * Tam
        BY <2>3
      <4>2. o = n * Tam /\ i = a * Tam + k
        BY <3>1 DEF Leido
      <4> QED BY <4>1, <4>2
    <3> DEFINE q == n + a
    <3>5. q < Len(B)
      <4>1. meta[f].TAMANIO <= Len(B) * Tam
        BY <3>2 DEF Fiel, B
      <4>2. q >= Len(B) => q * Tam + k > Len(B) * Tam
        <5> HIDE DEF q
        <5> QED BY <2>3, <3>3, Lugares DEF q
      <4>3. Len(B) * Tam \in Nat /\ q * Tam + k \in Nat
        <5> HIDE DEF q
        <5> QED BY <2>3, <3>3, Lugares DEF q
      <4> HIDE DEF q
      <4> QED BY <2>3, <2>4, <3>3, <3>4, <4>1, <4>2, <4>3 DEF q
    <3>6. q \in 0..(Len(B) - 1) /\ ~Escribiendo(fs, f, q * Tam + k)
      BY <1>1, <3>3, <3>5 DEF Escribiendo, Escribe
    <3>7. datos[B[q + 1]][k] = escrito[f][q * Tam + k]
      <4> HIDE DEF q
      <4>1. q * Tam + k <= meta[f].TAMANIO
        BY <2>4, <3>4 DEF q
      <4> QED BY <3>2, <3>6, <4>1 DEF Fiel, B
    <3>8. R(i) = datos[B[q + 1]][k]
      BY <3>1, <3>5 DEF Leido
    <3> QED BY <3>4, <3>7, <3>8
  <2> HIDE DEF B, R
  <2> QED BY <1>1, <2>1, <2>2, <2>4 DEF LecturaInv, LecturaFiel, Existe
<1> QED BY <1>2, <1>3, <1>4

\* The other requests, and the steps that serve them.
LEMMA LecturaPide ==
  ASSUME LecturaInv, NEW f \in Archivo,
         ValidarArchivo(f) \/ CrearArchivo(f) \/ BorrarArchivo(f)
         \/ (\E o \in Cursores, s \in Tamanos : GuardarDatos(f, o, s))
  PROVE  LecturaInv'
<1>1. UNCHANGED <<meta, escrito, truncado>> /\ enOrden' \subseteq enOrden
  BY DEF ValidarArchivo, CrearArchivo, BorrarArchivo, GuardarDatos, historia
<1>2. ASSUME NEW t, Contestar(t), t # "LECTURA_OK" PROVE respuesta'.tipo # "LECTURA_OK"
  BY <1>2 DEF Contestar, Callado
<1>3. UNCHANGED respuesta \/ respuesta'.tipo # "LECTURA_OK"
  <2>1. CASE ValidarArchivo(f)
    <3>1. Contestar("ARCHIVO_EXISTE") \/ Contestar("ARCHIVO_INEXISTENTE")
      BY <2>1 DEF ValidarArchivo, Listo
    <3> QED BY <1>2, <3>1
  <2>2. CASE CrearArchivo(f) \/ BorrarArchivo(f)
    <3>1. \/ UNCHANGED respuesta \/ Contestar("ABRIR_ARCHIVO_OK") \/ Contestar("SIN_ESPACIO_FS")
          \/ Contestar("ARCHIVO_INEXISTENTE")
      BY <2>2 DEF CrearArchivo, BorrarArchivo, Listo
    <3> QED BY <1>2, <3>1
  <2>3. CASE \E o \in Cursores, s \in Tamanos : GuardarDatos(f, o, s)
    <3>1. UNCHANGED respuesta \/ Contestar("ARCHIVO_INEXISTENTE") \/ respuesta' = Callado
      BY <2>3 DEF GuardarDatos, Listo, Muere
    <3> QED BY <1>2, <3>1 DEF Callado
  <2> QED BY <2>1, <2>2, <2>3
<1> QED BY <1>1, <1>3, LecturaOtra, LecturaQueda

LEMMA LecturaSirve ==
  ASSUME DiscoInv, LecturaInv, Sirve
  PROVE  LecturaInv'
<1>1. CASE EscribirMetadata \/ Unlink \/ AumentarTamanio
  <2>1. \E t : Contestar(t) /\ t # "LECTURA_OK"
    BY <1>1 DEF EscribirMetadata, Unlink, AumentarTamanio, Listo
  <2>2. respuesta'.tipo # "LECTURA_OK"
    BY <2>1 DEF Contestar, Callado
  <2> QED BY <2>2, LecturaOtra
<1>2. CASE EscribirBloque \/ ReservarNuevoBloque \/ LiberarBloque
  <2>1. UNCHANGED <<meta, escrito, truncado>> /\ enOrden' \subseteq enOrden
    BY <1>2 DEF EscribirBloque, ReservarNuevoBloque, LiberarBloque, historia
  <2>2. UNCHANGED respuesta \/ Contestar("SIN_ESPACIO_FS") \/ respuesta' = Callado
    BY <1>2 DEF EscribirBloque, ReservarNuevoBloque, LiberarBloque, Listo, Muere
  <2>3. UNCHANGED respuesta \/ respuesta'.tipo # "LECTURA_OK"
    BY <2>2 DEF Contestar, Callado
  <2> QED BY <2>1, <2>3, LecturaOtra, LecturaQueda
<1>3. CASE AnotarBloque
  <2>1. UNCHANGED <<respuesta, escrito, enOrden, truncado>>
        /\ meta' = [meta EXCEPT ![fs.path].BLOQUES = Append(@, fs.bloque)]
    BY <1>3 DEF AnotarBloque, historia
  <2>2. \A f \in DOMAIN meta : meta[f] \in Metadatos
    BY DEF DiscoInv, TipoFs
  <2>3. DOMAIN meta' = DOMAIN meta /\ \A f \in DOMAIN meta : meta'[f].TAMANIO = meta[f].TAMANIO
    BY <2>1, <2>2 DEF Metadatos
  <2> QED BY <2>1, <2>3, LecturaQueda
<1> QED BY <1>1, <1>2, <1>3 DEF Sirve

LEMMA LecturaPaso ==
  ASSUME FileSystemAssumption
  PROVE  DiscoInv /\ TipoDisco /\ FielInv /\ LecturaInv /\ [Next]_vars => LecturaInv'
<1> SUFFICES ASSUME DiscoInv, TipoDisco, FielInv, LecturaInv, [Next]_vars PROVE LecturaInv'
  OBVIOUS
<1>1. ASSUME NEW f \in Archivo, NEW o \in Cursores, NEW s \in Tamanos, ObtenerDatos(f, o, s)
      PROVE  LecturaInv'
  BY <1>1, LecturaObtener
<1>2. ASSUME NEW f \in Archivo,
             ValidarArchivo(f) \/ CrearArchivo(f) \/ BorrarArchivo(f)
             \/ (\E o \in Cursores, s \in Tamanos : GuardarDatos(f, o, s))
      PROVE  LecturaInv'
  BY <1>2, LecturaPide
<1>3. CASE Sirve
  BY <1>3, LecturaSirve
<1>4. CASE Reiniciar
  <2>1. respuesta'.tipo # "LECTURA_OK"
    BY <1>4 DEF Reiniciar, Callado
  <2> QED BY <2>1, LecturaOtra
<1>5. CASE UNCHANGED vars
  BY <1>5, LecturaQueda DEF vars
<1> QED BY <1>1, <1>2, <1>3, <1>4, <1>5 DEF Next

\* A read that fits in the buffer obtenerDatos asks for, and starts at a block's
\* first byte, gives back what was last written there, in every file whose writes
\* all ended and went where the code can follow them: whatever other files were
\* written, grew or were deleted in between, and whatever crashes there were
\* (guardarDatos, obtenerDatos). Nothing is promised of a longer read.
THEOREM LecturaSiempreFiel == Spec => []LecturaFiel
<1>1. Init => FielInv /\ LecturaInv
  <2> SUFFICES ASSUME Init PROVE FielInv /\ LecturaInv
    OBVIOUS
  <2>1. DOMAIN meta = {} /\ fs.pc = "libre" /\ respuesta.tipo = "nada"
    BY DEF Init, Libre, Callado
  <2> QED BY <2>1 DEF FielInv, LecturaInv, LecturaFiel, Escribe
<1>2. DiscoInv /\ TipoDisco /\ FielInv /\ [Next]_vars => FielInv'
  BY FielPaso, FileSystemAssumption
<1>3. DiscoInv /\ TipoDisco /\ FielInv /\ LecturaInv /\ [Next]_vars => LecturaInv'
  BY LecturaPaso, FileSystemAssumption
<1>4. LecturaInv => LecturaFiel
  BY DEF LecturaInv
<1> QED BY <1>1, <1>2, <1>3, <1>4, TipoDiscoSiempre, PTL DEF Spec

=============================================================================
