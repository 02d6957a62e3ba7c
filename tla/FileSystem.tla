------------------------------ MODULE FileSystem ------------------------------
(***************************************************************************)
(* The file system process: the bitmap, one metadata file per file, and    *)
(* the block files. It serves one request at a time; each write of a disk  *)
(* file is a step, and the process may die between two of them and be      *)
(* started again on the same disk. A request of the kernel may have any    *)
(* cursor and size. The bytes of a write are the number of the request.    *)
(***************************************************************************)
EXTENDS Integers, Sequences, FiniteSets

CONSTANTS
  Archivo,      \* paths
  Bloques,      \* conf->cantidad_bloques
  Tam,          \* conf->tamanio_bloque
  Buffer,       \* what malloc(sizeof(pedido->size)) gives to obtenerDatos: 4 or more
  Ocupados,     \* blocks that the bitmap found at the start marks as taken
  Cursores, Tamanos,   \* of the requests
  MaxPedidos, MaxCaidas,   \* bounds
  Nada

Bloque == 0..(Bloques - 1)

\* The size of the bitmap file, in bytes.
BytesDelMapa == LET b == Bloques \div 8 IN IF b % 8 # 0 THEN b + 1 ELSE b

ASSUME FileSystemAssumption ==
  /\ Bloques \in Nat /\ Tam \in Nat \ {0} /\ Buffer \in Nat /\ Ocupados \subseteq Bloque
  /\ 8 * BytesDelMapa >= Bloques
  /\ Cursores \subseteq Nat /\ Tamanos \subseteq Nat \ {0}
  /\ MaxPedidos \in Nat /\ MaxCaidas \in Nat

VARIABLES
  bitarray,     \* the blocks marked as taken, in memory and in Bitmap.bin
  meta,         \* metadata files: TAMANIO and BLOQUES of the files that exist
  datos,        \* the content of every block file
  fs,           \* the request being served
  respuesta,    \* the last answer to the kernel
  pedidos, caidas,
  escrito,      \* what was written in each file, byte by byte
  enOrden,      \* files whose writes were all complete and in order
  truncado      \* a crash has cut a deletion short

vars == <<bitarray, meta, datos, fs, respuesta, pedidos, caidas, escrito, enOrden, truncado>>
historia == <<escrito, enOrden, truncado>>

Existe(f) == f \in DOMAIN meta
Libre == [pc |-> "libre", path |-> Nada, offset |-> 0, size |-> 0, bloque |-> 0,
          bytesEscritos |-> 0, j |-> 0, cantBloques |-> 0]
Callado == [tipo |-> "nada", path |-> Nada, offset |-> 0, buffer |-> << >>]

Init ==
  /\ bitarray = Ocupados
  /\ meta = << >>
  /\ datos = [b \in Bloque |-> [i \in 1..Tam |-> 0]]
  /\ fs = Libre
  /\ respuesta = Callado
  /\ pedidos = 0 /\ caidas = 0
  /\ escrito = [f \in Archivo |-> << >>]
  /\ enOrden = Archivo
  /\ truncado = FALSE

Menor(a, b) == IF a <= b THEN a ELSE b

\* s with the bytes d from offset o on; what is between its end and o is 0.
Sobre(s, o, d) ==
  [i \in 1..(IF Len(s) > o + Len(d) THEN Len(s) ELSE o + Len(d)) |->
     IF i > o /\ i <= o + Len(d) THEN d[i - o] ELSE IF i <= Len(s) THEN s[i] ELSE 0]

Bytes(n) == [i \in 1..n |-> pedidos]

\* The first block the bitmap leaves free, Nada if there is none.
BuscarBloqueLibre ==
  LET S == Bloque \ bitarray IN
  IF S = {} THEN Nada ELSE CHOOSE b \in S : \A c \in S : b <= c

Contestar(t) == respuesta' = [Callado EXCEPT !.tipo = t]
Listo(t)     == fs' = Libre /\ Contestar(t)

\* The kernel's request n arrives.
Pedido ==
  /\ fs.pc = "libre"
  /\ pedidos < MaxPedidos
  /\ pedidos' = pedidos + 1

\* atoi(NULL): the process dies.
Muere == fs' = [Libre EXCEPT !.pc = "caido"] /\ respuesta' = Callado

(***************************************************************************)
(* The requests.                                                           *)
(***************************************************************************)
ValidarArchivo(f) ==
  /\ Pedido
  /\ Listo(IF Existe(f) THEN "ARCHIVO_EXISTE" ELSE "ARCHIVO_INEXISTENTE")
  /\ UNCHANGED <<bitarray, meta, datos, caidas, historia>>

CrearArchivo(f) ==
  LET b == BuscarBloqueLibre IN
  /\ Pedido
  /\ IF Existe(f) \/ b = Nada
     THEN Listo(IF Existe(f) THEN "ABRIR_ARCHIVO_OK" ELSE "SIN_ESPACIO_FS") /\ UNCHANGED bitarray
     ELSE /\ bitarray' = bitarray \cup {b}
          /\ fs' = [Libre EXCEPT !.pc = "crear", !.path = f, !.bloque = b]
          /\ UNCHANGED respuesta
  /\ UNCHANGED <<meta, datos, caidas, historia>>

\* The metadata file, once the block is marked.
EscribirMetadata ==
  /\ fs.pc = "crear"
  /\ meta' = [f \in DOMAIN meta \cup {fs.path} |->
                IF f = fs.path THEN [TAMANIO |-> 0, BLOQUES |-> <<fs.bloque>>] ELSE meta[f]]
  /\ Listo("ABRIR_ARCHIVO_OK")
  /\ escrito' = [escrito EXCEPT ![fs.path] = << >>]
  /\ enOrden' = enOrden \cup {fs.path}
  /\ UNCHANGED <<bitarray, datos, pedidos, caidas, truncado>>

\* Mutant of BorrarArchivo: the first block of BLOQUES is skipped.
BorrarArchivo_SinPrimero(f) ==
  /\ Pedido
  /\ IF Existe(f)
     THEN fs' = [Libre EXCEPT !.pc = "borrar", !.path = f, !.j = 2] /\ UNCHANGED respuesta
     ELSE Listo("ARCHIVO_INEXISTENTE")
  /\ UNCHANGED <<bitarray, meta, datos, caidas, historia>>

BorrarArchivo(f) ==
  /\ Pedido
  /\ IF Existe(f)
     THEN fs' = [Libre EXCEPT !.pc = "borrar", !.path = f, !.j = 1] /\ UNCHANGED respuesta
     ELSE Listo("ARCHIVO_INEXISTENTE")
  /\ UNCHANGED <<bitarray, meta, datos, caidas, historia>>

LiberarBloque ==
  /\ fs.pc = "borrar" /\ fs.j <= Len(meta[fs.path].BLOQUES)
  /\ bitarray' = bitarray \ {meta[fs.path].BLOQUES[fs.j]}
  /\ fs' = [fs EXCEPT !.j = @ + 1]
  /\ UNCHANGED <<meta, datos, respuesta, pedidos, caidas, historia>>

Unlink ==
  /\ fs.pc = "borrar" /\ fs.j > Len(meta[fs.path].BLOQUES)
  /\ meta' = [f \in DOMAIN meta \ {fs.path} |-> meta[f]]
  /\ Listo("BORRAR_ARCHIVO_OK")
  /\ UNCHANGED <<bitarray, datos, pedidos, caidas, historia>>

\* Where the code finds the right block for every part of a write: it begins
\* at a block's first byte, and stays in it, starts from the first block or
\* from the last one, without going past what the file has from the first.
Correcta(f, o, s) ==
  LET n == o \div Tam
      c == Len(meta[f].BLOQUES)
  IN  /\ o % Tam = 0 /\ o <= meta[f].TAMANIO
      /\ s <= Tam \/ n = 0 \/ n + 1 = c

GuardarDatos(f, o, s) ==
  LET n == o \div Tam
      B == meta[f].BLOQUES
  IN
  /\ Pedido
  /\ IF ~Existe(f) THEN Listo("ARCHIVO_INEXISTENTE") /\ UNCHANGED enOrden
     ELSE IF n >= Len(B) THEN Muere /\ UNCHANGED enOrden
     ELSE /\ fs' = [Libre EXCEPT !.pc = "escribir", !.path = f, !.offset = o, !.size = s,
                                 !.bloque = B[n + 1], !.j = n, !.cantBloques = Len(B)]
          /\ enOrden' = IF Correcta(f, o, s) THEN enOrden ELSE enOrden \ {f}
          /\ UNCHANGED respuesta
  /\ UNCHANGED <<bitarray, meta, datos, caidas, escrito, truncado>>

\* One turn of the loop. Only the last block of the file as it was found is
\* followed by new ones; the others, by BLOQUES[numBloque + j].
EscribirBloque ==
  LET n     == fs.offset \div Tam
      resto == Menor(fs.size - fs.bytesEscritos, Tam)
      desde == IF fs.bytesEscritos = 0 THEN fs.offset % Tam ELSE 0
      total == fs.bytesEscritos + resto
      B     == meta[fs.path].BLOQUES
      k     == n + fs.j + 1
  IN
  /\ fs.pc = "escribir"
  /\ datos' = [datos EXCEPT ![fs.bloque] = Sobre(@, desde, Bytes(resto))]
  /\ \/ /\ total = fs.size
        /\ fs' = [fs EXCEPT !.pc = "tamanio"] /\ UNCHANGED <<respuesta, enOrden>>
     \/ /\ total < fs.size /\ n + 1 = fs.cantBloques
        /\ fs' = [fs EXCEPT !.pc = "reservar", !.bytesEscritos = total] /\ UNCHANGED <<respuesta, enOrden>>
     \/ /\ total < fs.size /\ n + 1 # fs.cantBloques
        /\ IF k < Len(B)
           THEN /\ fs' = [fs EXCEPT !.bytesEscritos = total, !.j = @ + 1, !.bloque = B[k + 1]]
                /\ UNCHANGED <<respuesta, enOrden>>
           ELSE Muere /\ enOrden' = enOrden \ {fs.path}
  /\ UNCHANGED <<bitarray, meta, pedidos, caidas, escrito, truncado>>

\* Mutants of ReservarNuevoBloque: no test for SIN_BLOQUES_LIBRES; the bitmap is
\* not written.
ReservarNuevoBloque_SinPrueba ==
  /\ fs.pc = "reservar"
  /\ fs' = [fs EXCEPT !.pc = "anotar", !.bloque = BuscarBloqueLibre]
  /\ bitarray' = bitarray \cup ({BuscarBloqueLibre} \ {Nada})
  /\ UNCHANGED <<meta, datos, respuesta, pedidos, caidas, historia>>
ReservarNuevoBloque_SinMarcar ==
  /\ fs.pc = "reservar" /\ BuscarBloqueLibre # Nada
  /\ fs' = [fs EXCEPT !.pc = "anotar", !.bloque = BuscarBloqueLibre]
  /\ UNCHANGED <<bitarray, meta, datos, respuesta, pedidos, caidas, historia>>
ReservarNuevoBloque ==
  LET b == BuscarBloqueLibre IN
  /\ fs.pc = "reservar"
  /\ IF b = Nada
     THEN Listo("SIN_ESPACIO_FS") /\ enOrden' = enOrden \ {fs.path} /\ UNCHANGED bitarray
     ELSE /\ bitarray' = bitarray \cup {b}
          /\ fs' = [fs EXCEPT !.pc = "anotar", !.bloque = b]
          /\ UNCHANGED <<respuesta, enOrden>>
  /\ UNCHANGED <<meta, datos, pedidos, caidas, escrito, truncado>>

AnotarBloque ==
  /\ fs.pc = "anotar"
  /\ meta' = [meta EXCEPT ![fs.path].BLOQUES = Append(@, fs.bloque)]
  /\ fs' = [fs EXCEPT !.pc = "escribir"]
  /\ UNCHANGED <<bitarray, datos, respuesta, pedidos, caidas, historia>>

\* Mutant of AumentarTamanio: the end of the write is the size of the file.
AumentarTamanio_Siempre ==
  /\ fs.pc = "tamanio"
  /\ meta' = [meta EXCEPT ![fs.path].TAMANIO = fs.offset + fs.size]
  /\ Listo("ESCRITURA_OK")
  /\ escrito' = [escrito EXCEPT ![fs.path] = Sobre(@, fs.offset, Bytes(fs.size))]
  /\ UNCHANGED <<bitarray, datos, pedidos, caidas, enOrden, truncado>>
AumentarTamanio ==
  LET fin == fs.offset + fs.size IN
  /\ fs.pc = "tamanio"
  /\ meta' = [meta EXCEPT ![fs.path].TAMANIO = IF fin > @ THEN fin ELSE @]
  /\ Listo("ESCRITURA_OK")
  /\ escrito' = [escrito EXCEPT ![fs.path] = Sobre(@, fs.offset, Bytes(fs.size))]
  /\ UNCHANGED <<bitarray, datos, pedidos, caidas, enOrden, truncado>>

\* Mutant of Parte: the block after the one of the offset.
Parte_Corrida(B, o, s, i) ==
  LET b     == datos[B[Menor((o \div Tam) + i + 1, Len(B) - 1) + 1]]
      desde == IF i = 0 THEN o % Tam ELSE 0
  IN  [k \in 1..Menor(s - i * Tam, Tam) |-> IF desde + k <= Len(b) THEN b[desde + k] ELSE Nada]
\* The i-th part of a read, from 0: past the last block, the last one again.
Parte(B, o, s, i) ==
  LET n     == o \div Tam
      b     == datos[B[Menor(n + i, Len(B) - 1) + 1]]
      desde == IF i = 0 THEN o % Tam ELSE 0
  IN  [k \in 1..Menor(s - i * Tam, Tam) |-> IF desde + k <= Len(b) THEN b[desde + k] ELSE Nada]

Partes(s) == (s + Tam - 1) \div Tam

\* A read that does not fit in Buffer is copied past its end: the process dies,
\* or it answers with bytes that nobody knows. What it does with its heap
\* overwritten is not followed, until it is started again.
LeerDeMas(f, o, s) ==
  \/ Muere
  \/ /\ fs' = [Libre EXCEPT !.pc = "pisado"]
     /\ respuesta' = [tipo |-> "LECTURA_OK", path |-> f, offset |-> o,
                      buffer |-> [k \in 1..s |-> Nada]]

ObtenerDatos(f, o, s) ==
  LET B == meta[f].BLOQUES IN
  /\ Pedido
  /\ IF ~Existe(f) THEN Listo("ARCHIVO_INEXISTENTE")
     ELSE IF o \div Tam >= Len(B) \/ (o \div Tam) + Partes(s) > Len(B) + 1 THEN Muere
     ELSE IF s > Buffer THEN LeerDeMas(f, o, s)
     ELSE /\ respuesta' = [tipo |-> "LECTURA_OK", path |-> f, offset |-> o,
                           buffer |-> [k \in 1..s |-> Parte(B, o, s, (k - 1) \div Tam)[((k - 1) % Tam) + 1]]]
          /\ UNCHANGED fs
  /\ UNCHANGED <<bitarray, meta, datos, caidas, historia>>

\* The process ends at any point, and starts on the disk it left.
Reiniciar ==
  /\ caidas < MaxCaidas
  /\ caidas' = caidas + 1
  /\ fs' = Libre /\ respuesta' = Callado
  /\ enOrden' = enOrden \ {fs.path}
  /\ truncado' = (truncado \/ (fs.pc = "borrar" /\ fs.j > 1))
  /\ UNCHANGED <<bitarray, meta, datos, pedidos, escrito>>

Sirve ==
  \/ EscribirMetadata \/ LiberarBloque \/ Unlink
  \/ EscribirBloque \/ ReservarNuevoBloque \/ AnotarBloque \/ AumentarTamanio

Next ==
  \/ \E f \in Archivo :
       \/ ValidarArchivo(f) \/ CrearArchivo(f) \/ BorrarArchivo(f)
       \/ \E o \in Cursores, s \in Tamanos : GuardarDatos(f, o, s) \/ ObtenerDatos(f, o, s)
  \/ Sirve
  \/ Reiniciar

Spec == Init /\ [][Next]_vars

(***************************************************************************)
(* Properties.                                                             *)
(***************************************************************************)
\* Type invariant: the bitmap, the metadata files and the block files.
TypeOK ==
  /\ bitarray \subseteq Bloque
  /\ DOMAIN meta \subseteq Archivo
  /\ \A f \in DOMAIN meta : meta[f].TAMANIO \in Nat /\ meta[f].BLOQUES \in Seq(Bloque)
  /\ datos \in [Bloque -> Seq(0..MaxPedidos)]
  /\ \A b \in Bloque : Len(datos[b]) \in Tam..(2 * Tam - 1)
  /\ fs.path \in Archivo \cup {Nada} /\ fs.bloque \in Bloque \cup {0}

BloquesDe(f) == {meta[f].BLOQUES[i] : i \in DOMAIN meta[f].BLOQUES}

\* A block belongs to one file and once, through every order of creations,
\* writes, deletions and crashes; only a crash inside a deletion, after blocks
\* were freed and before unlink, breaks it (buscarBloqueLibre, borrarArchivo).
BloqueDeUnArchivo ==
  ~truncado => \A f \in DOMAIN meta :
    /\ Cardinality(BloquesDe(f)) = Len(meta[f].BLOQUES)
    /\ \A g \in DOMAIN meta \ {f} : BloquesDe(f) \cap BloquesDe(g) = {}

\* The bitmap marks the blocks of every file that is not being deleted; as long
\* as the process never died it marks no others between two requests
\* (escribirValorBitarray before the metadata file, in crear and in reservar).
MapaFiel ==
  /\ ~truncado => \A f \in DOMAIN meta :
       BloquesDe(f) \subseteq bitarray \/ (fs.pc = "borrar" /\ fs.path = f)
  /\ (caidas = 0 /\ fs.pc = "libre") =>
       bitarray = Ocupados \cup UNION {BloquesDe(f) : f \in DOMAIN meta}

\* A read that fits in the buffer of obtenerDatos and begins with a block gives
\* back what was last written, for the files written in the order the code can
\* follow: guardarDatos and obtenerDatos walk the same blocks, and none of them is
\* another file's.
LecturaFiel ==
  (/\ respuesta.tipo = "LECTURA_OK" /\ respuesta.offset % Tam = 0
   /\ respuesta.path \in enOrden /\ ~truncado /\ Len(respuesta.buffer) <= Buffer) =>
    \A i \in DOMAIN respuesta.buffer :
      respuesta.offset + i <= meta[respuesta.path].TAMANIO =>
        respuesta.buffer[i] = escrito[respuesta.path][respuesta.offset + i]

\* Files appear empty, grow and disappear, whatever crashes (the file system
\* implements Directorio).
Dir == INSTANCE Directorio WITH tamanio <- [f \in DOMAIN meta |-> meta[f].TAMANIO]
DirectorioSpec == Dir!Spec

\* What the code does not give, and TLC refutes in Bloques: LecturaFiel for reads of
\* any size, which is what LECTURA_OK says to the kernel.
LecturaEntera ==
  (/\ respuesta.tipo = "LECTURA_OK" /\ respuesta.offset % Tam = 0
   /\ respuesta.path \in enOrden /\ ~truncado) =>
    \A i \in DOMAIN respuesta.buffer :
      respuesta.offset + i <= meta[respuesta.path].TAMANIO =>
        respuesta.buffer[i] = escrito[respuesta.path][respuesta.offset + i]
=============================================================================
