SPECIFICATION Spec
CONSTANTS
  A = A
  B = B
  C = C
  x = x
  y = y
  vacia = vacia
  ClaveVacia = vacia
  Esis <- DosEsis
  Claves <- DosClaves
  SinClave = SinClave
  Guiones <- GuionesMixtos
  Algoritmos = {"SJFSD", "SJFCD", "HRRN"}
  Alfa = 50
  EstimacionInicial = 10
  ClavesBloqueadas = {y}
  Comandos = {"UNLOCK"}
  CONSOLA = CONSOLA
  Ninguno = Ninguno
  MaxInstrucciones = 4
  MaxComandos = 2
  Nadie = Nadie
  InstanciasCaen = TRUE
INVARIANTS
  TypeOK
  ClaveDeUnSoloEsi
  ConsolaSoloEnCabeza
  
  PedidoCorrecto
CHECK_DEADLOCK FALSE
