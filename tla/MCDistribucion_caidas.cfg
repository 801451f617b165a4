SPECIFICATION Spec
CONSTANTS
  InstI = InstI
  InstJ = InstJ
  InstK = InstK
  cx = cx
  cy = cy
  vv = vv
  vw = vw
  Nada = Nada
  Libre = Libre
  Otro = Otro
  Instancias = {InstI, InstJ}
  Claves = {cx, cy}
  Valores = {vv}
  Letra <- LetrasXY
  Algoritmos = {"EL", "LSU", "KE"}
  Operaciones = {"GET", "SET", "STORE", "STATUS"}
  Capacidad = 1
  LargoClave = 2
  StoreSinValor = TRUE
  Compactan = TRUE
  MaxSocket = 2
  MaxPedidos = 3
  MaxCaidas = 2
  MaxVueltas = 1
  MaxOtros = 1
  MaxPosts = 2
INVARIANTS
  TypeOK
  LetrasCubiertas
  
  UnaRespuestaPorPedido

  
CHECK_DEADLOCK FALSE
