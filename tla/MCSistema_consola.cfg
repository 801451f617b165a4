SPECIFICATION Spec
CONSTANTS
  A = A
  B = B
  C = C
  x = x
  y = y
  vacia = vacia
  ClaveVacia = vacia
  Esis <- DosEsis
  Claves <- DosClaves
  SinClave = SinClave
  Guiones <- GuionesCortos
  Algoritmos = {"SJFSD", "SJFCD", "HRRN"}
  Alfa = 50
  EstimacionInicial = 10
  ClavesBloqueadas = {x}
  Comandos = {"EXIT", "PAUSE", "RESUME", "BLOCK", "UNLOCK", "STATUS"}
  CONSOLA = CONSOLA
  Ninguno = Ninguno
  MaxInstrucciones = 3
  MaxComandos = 3
  Nadie = Nadie
  InstanciasCaen = TRUE
INVARIANTS
  FichasRespaldadas
CHECK_DEADLOCK FALSE
