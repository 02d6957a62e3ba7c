----------------------------- MODULE CicloDeVida -----------------------------
(***************************************************************************)
(* What the kernel promises about a program: the five states of            *)
(* enum_estado and the moves between them, and CPUs that run one program   *)
(* at a time.                                                              *)
(***************************************************************************)
CONSTANTS Proc, Cpu, Nadie

VARIABLES
  situacion,  \* where the program is
  corre       \* the program each CPU has

Init ==
  /\ situacion = [p \in Proc |-> "sinEnviar"]
  /\ corre = [c \in Cpu |-> Nadie]

Mueve(p, desde, hacia) ==
  /\ situacion[p] = desde
  /\ situacion' = [situacion EXCEPT ![p] = hacia]

Enviar(p)      == Mueve(p, "sinEnviar", "NEW") /\ UNCHANGED corre
Admitir(p)     == Mueve(p, "NEW", "READY") /\ UNCHANGED corre
Rechazar(p)    == Mueve(p, "NEW", "FINISH") /\ UNCHANGED corre
Desbloquear(p) == Mueve(p, "BLOQ", "READY") /\ UNCHANGED corre

\* Only a CPU that runs nothing gets a program.
Despachar(p, c) ==
  /\ corre[c] = Nadie
  /\ Mueve(p, "READY", "EXEC")
  /\ corre' = [corre EXCEPT ![c] = p]

\* The CPU gives it back: end of quantum, a wait that blocks, or its end.
Devolver(p, c) ==
  /\ corre[c] = p
  /\ \E hacia \in {"READY", "BLOQ", "FINISH"} : Mueve(p, "EXEC", hacia)
  /\ corre' = [corre EXCEPT ![c] = Nadie]

Next ==
  \E p \in Proc :
    \/ Enviar(p) \/ Admitir(p) \/ Rechazar(p) \/ Desbloquear(p)
    \/ \E c \in Cpu : Despachar(p, c) \/ Devolver(p, c)

Spec == Init /\ [][Next]_<<situacion, corre>>
=============================================================================
