SPECIFICATION Spec
CONSTANTS
  A = A
  B = B
  C = C
  x = x
  y = y
  vacia = vacia
  ClaveVacia = vacia
  Esis <- DosEsis
  Claves <- DosClaves
  SinClave = SinClave
  Guiones <- GuionesVivos
  Algoritmos = {"SJFCD"}
  Alfa = 50
  EstimacionInicial = 10
  ClavesBloqueadas = {y}
  Comandos = {"UNLOCK"}
  CONSOLA = CONSOLA
  Ninguno = Ninguno
  MaxInstrucciones = 6
  MaxComandos = 1
  Nadie = Nadie
  InstanciasCaen = FALSE
INVARIANTS
  UnEsiEsElQueEjecuta
CHECK_DEADLOCK FALSE
