--------------------------------- MODULE Pcb ---------------------------------
(***************************************************************************)
(* The stack index of a PCB and the buffer that carries it between the     *)
(* kernel and a CPU. A buffer is a sequence of bytes.                      *)
(* The writer counts bytes with 32 bits; the reader with 16, so its offset *)
(* is taken modulo AnchoOffset. Every datum has TAMANIO_VARIABLE bytes.    *)
(***************************************************************************)
EXTENDS Integers, Sequences, SequencesExt

CONSTANTS
  AnchoOffset,  \* values of the reader's offset: 2^16
  Nulo          \* the NULL pointer

ASSUME PcbAssumption == AnchoOffset \in Nat \ {0}

TAMANIO_VARIABLE == 4

\* A context of the stack that crearPosicionStack has just made.
CrearPosicionStack(dir, ret) == [args |-> << >>, vars |-> << >>, dir |-> dir, ret |-> ret]

\* The bytes of a field: the first one stands for its value.
Entero(x) == <<x, "", "", "">>
BytesPosicion(p) == Entero(p.pagina) \o Entero(p.offset) \o Entero(TAMANIO_VARIABLE)
BytesVariable(v) == <<v.id>> \o BytesPosicion(v)

\* t_argumento, t_var and t_posicion are packed.
TamanioItem(c) == 12 * Len(c.args) + 13 * Len(c.vars) + 4 + (IF c.ret = Nulo THEN 0 ELSE 12)

BytesContexto(c) ==
  Entero(TamanioItem(c))
  \o Entero(Len(c.args)) \o FlattenSeq([k \in DOMAIN c.args |-> BytesPosicion(c.args[k])])
  \o Entero(Len(c.vars)) \o FlattenSeq([k \in DOMAIN c.vars |-> BytesVariable(c.vars[k])])
  \o Entero(c.dir)
  \o (IF c.ret = Nulo THEN Entero(0) ELSE Entero(1) \o BytesPosicion(c.ret))

SerializarIndiceStack(pila) ==
  Entero(Len(pila)) \o FlattenSeq([k \in DOMAIN pila |-> BytesContexto(pila[k])])

\* What the reader finds at byte o, and the context that it reads from there.
Leido(b, o) == b[(o % AnchoOffset) + 1]

\* Mutant of LeerPosicion: the fields are read in another order.
LeerPosicion_Cruzada(b, o) == [pagina |-> Leido(b, o + 4), offset |-> Leido(b, o)]
LeerPosicion(b, o) == [pagina |-> Leido(b, o), offset |-> Leido(b, o + 4)]
LeerVariable(b, o) == [id |-> Leido(b, o), pagina |-> Leido(b, o + 1), offset |-> Leido(b, o + 5)]
LeerArgs(b, o, n) == [k \in 1..n |-> LeerPosicion(b, o + 12 * (k - 1))]
LeerVars(b, o, n) == [k \in 1..n |-> LeerVariable(b, o + 13 * (k - 1))]
LeerContexto(b) == [o \in Nat |->
  LET args  == o + 8
      nArgs == Leido(b, o + 4)
      vars  == args + 12 * nArgs + 4
      nVars == Leido(b, vars - 4)
      dir   == vars + 13 * nVars
      conRet == Leido(b, dir + 4) # 0
  IN [contexto |-> [args |-> LeerArgs(b, args, nArgs),
                    vars |-> LeerVars(b, vars, nVars),
                    dir  |-> Leido(b, dir),
                    ret  |-> IF conRet THEN LeerPosicion(b, dir + 8) ELSE Nulo],
      fin |-> dir + 8 + (IF conRet THEN 12 ELSE 0)]]

DeserializarIndiceStack(b) ==
  LET n == Leido(b, 0)
      item[k \in 1..n] == LeerContexto(b)[IF k = 1 THEN 4 ELSE item[k - 1].fin]
  IN [k \in 1..n |-> item[k].contexto]

\* The buffer is one whose every byte the reader's offset can reach.
Cabe(b) == Len(b) <= AnchoOffset

\* serializar_pcb and deserializar_pcb: the other fields are copied one by one.
SerializarPcb(p) == [pc |-> p.pc, sp |-> p.sp, stack |-> SerializarIndiceStack(p.pila)]
DeserializarPcb(q) == [pc |-> q.pc, sp |-> q.sp, pila |-> DeserializarIndiceStack(q.stack)]
==============================================================================
