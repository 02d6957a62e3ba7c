SPECIFICATION Spec
CONSTANTS
  k1 = k1
  k2 = k2
  c1 = c1
  h1 = h1
  h2 = h2
  Consola = {k1, k2}
  Cpu = {c1}
  Nadie = nadie
  Interfaz = interfaz
  Mensaje = {h1, h2}
  Numeros = 2
  Inquietos = {k1, c1}
  MaxMensajes = 1
SYMMETRY Simetria
CONSTRAINT SinPisar
CHECK_DEADLOCK FALSE
INVARIANTS
  UnLector
  ConexionAtendida
  CondenaDeSuConsola
