SPECIFICATION Spec
CONSTANTS
  cx = cx
  cy = cy
  cz = cz
  CX = CX
  la = la
  lb = lb
  vacio = vacio
  Nulo = Nulo
  Ausente = Ausente
  Claves = {cx, cy, cz}
  Minuscula <- CasoIgual
  Letras = {la}
  Largos = {1, 3}
  CantEntradas = 3
  TamanioEntradas = 2
  Algoritmos = {"CIRC"}
  MaxPedidos = 4
  MaxCaidas = 0
  MaxAvisos = 1
  Crecen = FALSE
PROPERTIES
  NoPisaNoAtomicas
CHECK_DEADLOCK FALSE
