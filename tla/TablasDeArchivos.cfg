SPECIFICATION SpecJusta
CONSTANTS
  a = a
  b = b
  Pid = {1, 2}
  Ruta = {a, b}
  Nadie = nadie
  Posicion = {0, 1}
  MaxPedidos <- Pedidos
  Intacto = {TRUE, FALSE}
CHECK_DEADLOCK FALSE
INVARIANTS
  TypeOK
  CuentaExacta
  DescriptorFirme
  ConversacionPropia
PROPERTIES
  PedidoTermina
