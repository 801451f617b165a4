SPECIFICATION Spec
CONSTANTS
  InstI = InstI
  InstJ = InstJ
  InstK = InstK
  cx = cx
  cy = cy
  vv = vv
  vw = vw
  Nada = Nada
  Libre = Libre
  Otro = Otro
  Instancias = {InstI, InstJ}
  Claves = {cx}
  Valores = {vv}
  Letra <- LetrasXY
  Algoritmos = {"EL"}
  Operaciones = {"GET", "SET"}
  Capacidad = 2
  LargoClave = 2
  StoreSinValor = FALSE
  Compactan = FALSE
  MaxSocket = 2
  MaxPedidos = 4
  MaxCaidas = 1
  MaxVueltas = 0
  MaxOtros = 0
  MaxPosts = 2
PROPERTIES
  ConfirmadoGuardado
CHECK_DEADLOCK FALSE
