SPECIFICATION Spec
CONSTANTS
  p1 = p1
  p2 = p2
  c1 = c1
  c2 = c2
  Pid = {p1, p2}
  Kernel = kernel
  Cpu = {c1}
  Lee <- LeeLaCpu
  Graba <- GrabaElKernel
  Nadie = nadie
  Tabla = tabla
  Marcos = 4
  MarcosTabla = 1
  Pos <- Choca
  Entradas = 2
  MaxEntradas = 1
  Dato = {0, 1}
  Cero = 0
  EnMarco <- EnEseMarco
  Parece <- UnMenosUno
  MaxPag <- DosYDos
CHECK_DEADLOCK FALSE
INVARIANTS
  TypeOK
  UnMarcoPorPagina
  CuotaDeCache
  CacheCoherente
  MarcoVigente
PROPERTIES
  PaginasSpec
