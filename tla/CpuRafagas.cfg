SPECIFICATION FairSpec
CONSTANTS
  a = a
  Nombre = {a}
  Nulo = nulo
  AnchoOffset = 128
  tamanioPagina = 8
  tamanioStack = 2
  cantPaginasCodigo = 1
  Inicio = 1
  UltimaLinea = 1
  Etiquetas = {0}
  Quantums = {0, 2}
  AnchoI = 4
  MaxPila = 3
  MaxPorLinea = 2
CHECK_DEADLOCK FALSE
INVARIANTS
  TypeOK
  PilaContigua
  RetornoVigente
  PcbIntacto
  SinErrorAjeno
PROPERTIES
  RafagaTermina
