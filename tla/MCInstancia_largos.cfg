SPECIFICATION Spec
CONSTANTS
  cx = cx
  cy = cy
  cz = cz
  CX = CX
  la = la
  lb = lb
  vacio = vacio
  Nulo = Nulo
  Ausente = Ausente
  Claves = {cx, cy, cz}
  Minuscula <- CasoIgual
  Letras = {la}
  Largos = {1, 3}
  CantEntradas = 3
  TamanioEntradas = 2
  Algoritmos = {"CIRC", "LRU"}
  MaxPedidos = 4
  MaxCaidas = 0
  MaxAvisos = 1
  Crecen = FALSE
SYMMETRY Simetria
INVARIANTS
  DumpExcluido
  LibresJuntas
  UnaVezEnLaTabla
PROPERTIES
  ArchivoEsCopia
  EsUnAlmacen
CHECK_DEADLOCK FALSE
