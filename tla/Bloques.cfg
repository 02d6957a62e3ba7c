SPECIFICATION Spec
CONSTANTS
  f1 = f1
  f2 = f2
  Archivo = {f1, f2}
  Bloques = 8
  Tam = 2
  Buffer = 4
  Ocupados = {0, 1, 2, 5}
  Cursores = {0, 1, 2}
  Tamanos = {2, 4, 5}
  MaxPedidos = 5
  MaxCaidas = 1
  Nada = nada
CHECK_DEADLOCK FALSE
INVARIANTS
  TypeOK
  BloqueDeUnArchivo
  MapaFiel
  LecturaFiel
PROPERTIES
  DirectorioSpec
