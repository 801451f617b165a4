SPECIFICATION SpecJusta
CONSTANTS
  InstI = InstI
  InstJ = InstJ
  InstK = InstK
  cx = cx
  cy = cy
  vv = vv
  vw = vw
  Nada = Nada
  Libre = Libre
  Otro = Otro
  Instancias = {InstI, InstJ}
  Claves = {cx, cy}
  Valores = {vv, vw}
  Letra <- LetrasXY
  Algoritmos = {"EL", "LSU", "KE"}
  Operaciones = {"GET", "SET", "STORE"}
  Capacidad = 1
  LargoClave = 2
  StoreSinValor = FALSE
  Compactan = TRUE
  MaxSocket = 2
  MaxPedidos = 7
  MaxCaidas = 0
  MaxVueltas = 0
  MaxOtros = 0
  MaxPosts = 2
INVARIANTS
  
  RespuestaDelPedido
PROPERTIES
  ConfirmadoGuardado
  StoreDondeEsta
  EsUnAlmacen
  LsuEligeMasLugar
  TodoPedidoTermina
CHECK_DEADLOCK FALSE
