SPECIFICATION Spec
CONSTANTS
  p1 = p1
  p2 = p2
  c1 = c1
  c2 = c2
  m = m
  Proc = {p1, p2}
  Cpu = {c1, c2}
  Sem = {m}
  valorInicial = 0
  SemInit <- UnSemaforo
  Interfaz = interfaz
  Nadie = nadie
  GradoInicial = 2
  Grados = {}
  Matables = {p1}
  CpuFragil = {c1}
  Grandes = {}
  Detenible = FALSE
  DeAUno = TRUE
  Pedidos <- UnoEsperaAlOtro
  MaxPasos = 1
CHECK_DEADLOCK FALSE
INVARIANTS
  DisponibleEsOcioso
  NuncaDosLugares
  UnaRafagaMas
