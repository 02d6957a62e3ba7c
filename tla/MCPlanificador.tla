--------------------------- MODULE MCPlanificador ---------------------------
(***************************************************************************)
(* Small instances of Planificador for TLC.                                *)
(***************************************************************************)
EXTENDS Planificador, TLC

CONSTANTS p1, p2, c1, c2, m, valorInicial

UnSemaforo == [s \in {m} |-> valorInicial]

\* Programs that do anything, that only compute, and one that waits for what
\* the other one signals.
TodosLosPedidos == [p \in Proc |-> {"quantum", "wait", "signal"}]
SoloQuantum     == [p \in Proc |-> {"quantum"}]
UnoEsperaAlOtro == [p \in Proc |-> IF p = p1 THEN {"wait"} ELSE {"signal"}]

Simetria == Permutations(Proc) \cup Permutations(Cpu)
=============================================================================
