SPECIFICATION Spec
CONSTANTS
  p1 = p1
  p2 = p2
  h1 = h1
  h2 = h2
  Pid = {p1, p2}
  Hilo = {h1}
  Nadie = nadie
  Pag = 14
  Base = 1
  Cant = {1, 5}
  Tope = 2
  MaxPedidos <- Mucho
  Sucio = 1
  Ajeno = {0}
CHECK_DEADLOCK FALSE
INVARIANTS
  TypeOK
  BloquesCubren
  CuentasDeReserva
  PunterosSonBloques
PROPERTIES
  RegionesSeparadas
