SPECIFICATION Spec
CONSTANTS
  A = A
  B = B
  C = C
  x = x
  y = y
  vacia = vacia
  ClaveVacia = vacia
  Esis <- TresEsis
  Claves <- DosClaves
  SinClave = SinClave
  Guiones <- GuionesTres
  Algoritmos = {"SJFSD", "HRRN"}
  Alfa = 50
  EstimacionInicial = 10
  ClavesBloqueadas = {y}
  Comandos = {"UNLOCK"}
  CONSOLA = CONSOLA
  Ninguno = Ninguno
  MaxInstrucciones = 6
  MaxComandos = 1
  Nadie = Nadie
  InstanciasCaen = TRUE
INVARIANTS
  UnEsiEsElQueEjecuta
  TablasCoinciden
  UnSoloLugar
  EscrituraExclusiva
PROPERTIES
  ClavesNoSePierden
CHECK_DEADLOCK FALSE
