SPECIFICATION Spec
CONSTANTS
  p1 = p1
  p2 = p2
  c1 = c1
  c2 = c2
  m = m
  Proc = {p1, p2}
  Cpu = {c1}
  Sem = {m}
  valorInicial = 0
  SemInit <- UnSemaforo
  Interfaz = interfaz
  Nadie = nadie
  GradoInicial = 1
  Grados = {2}
  Matables = {}
  CpuFragil = {}
  Grandes = {}
  Detenible = TRUE
  DeAUno = TRUE
  Pedidos <- TodosLosPedidos
  MaxPasos = 1
SYMMETRY Simetria
CHECK_DEADLOCK FALSE
INVARIANTS
  UnSoloLugar
