SPECIFICATION SpecJusta
CONSTANTS
  cx = cx
  cy = cy
  cz = cz
  CX = CX
  la = la
  lb = lb
  vacio = vacio
  Nulo = Nulo
  Ausente = Ausente
  Claves = {cx, cy, cz}
  Minuscula <- CasoIgual
  Letras = {la}
  Largos = {1}
  CantEntradas = 2
  TamanioEntradas = 2
  Algoritmos = {"CIRC", "LRU"}
  MaxPedidos = 4
  MaxCaidas = 1
  MaxAvisos = 1
  Crecen = FALSE
PROPERTIES
  TodoPedidoTermina
CHECK_DEADLOCK FALSE
