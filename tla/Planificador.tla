---------------------------- MODULE Planificador ----------------------------
(***************************************************************************)
(* The scheduler process: main (the scheduling loop), HostConnections (the *)
(* select() loop that reads every ESI) and Console (the operator), over    *)
(* the process' global variables.  A step ends where another thread's step *)
(* can be told apart: at every semaphore, mutex and blocking recv(), and   *)
(* between the accesses of a function that takes no lock.                  *)
(***************************************************************************)
EXTENDS Red, FiniteSets

CONSTANTS
  Algoritmos,         \* the values of Config.cfg's Algoritmo to explore
  Alfa,               \* Config.cfg's Alfa, a percentage
  EstimacionInicial,  \* Config.cfg's EstimacionInicial
  ClavesBloqueadas,   \* Config.cfg's ClavesBloqueadas
  Comandos,           \* the console commands the operator may type
  CONSOLA,            \* the fake ESI that heads the queue of those keys
  Ninguno,            \* un_esi before the first selection
  MaxInstrucciones,   \* bound: instructions counted to one ESI
  MaxComandos         \* bound: commands the operator types

ASSUME PlanificadorAssumption ==
  /\ Algoritmos \subseteq {"SJFSD", "SJFCD", "HRRN"}
  /\ Alfa \in 0..100
  /\ EstimacionInicial \in Nat
  /\ ClavesBloqueadas \subseteq Claves
  /\ Comandos \subseteq {"EXIT", "PAUSE", "RESUME", "BLOCK", "UNLOCK", "STATUS"}
  /\ CONSOLA \notin Esis
  /\ Ninguno \notin Esis
  /\ MaxInstrucciones \in Nat
  /\ MaxComandos \in Nat

VARIABLES
  algorithm,
  lista_ready,                \* ESIs ready to run, in list order
  claves_conocidas,           \* keys with an entry in lista_bloqueados
  cola_esis_bloqueados,       \* that entry's queue of waiters
  claves_bloqueadas_por_esis, \* pairs <<ESI, key>>: who owns what
  finished_esis,
  un_esi,                     \* the ESI chosen to run
  estimacion,                 \* the t_esi fields used to estimate, times 100
  fin_de_esi, respuesta_ok, block, abort_esi,
  stop,
  hay_esis, esi_respuesta,    \* semaphores
  status_mutex, pause_mutex,  \* TRUE: locked
  mensaje,                    \* the key of the question being answered
  esi_saliente,               \* finish_esi's argument while it releases keys
  pc_plan,                    \* main
  pc_hc,                      \* HostConnections
  pc_con,                     \* Console
  clave_con,                  \* the key of the console command under way
  tecleados                   \* commands typed so far

listas == <<lista_ready, claves_conocidas, cola_esis_bloqueados,
            claves_bloqueadas_por_esis, finished_esis>>
banderas == <<fin_de_esi, respuesta_ok, block, abort_esi>>
semaforos == <<hay_esis, esi_respuesta, status_mutex, pause_mutex>>
locales == <<mensaje, esi_saliente>>
consola == <<stop, pc_con, clave_con, tecleados>>
varsPlan == <<algorithm, listas, un_esi, estimacion, banderas, semaforos,
              locales, pc_plan, pc_hc, consola>>

PcPlan == {"espera_inicial", "wait_start", "primero", "ciclo", "pausa",
           "ejecutar", "pregunta", "encolar", "desbloquear", "respuesta",
           "terminar", "liberando", "esperar", "ordenar", "elegir",
           "salida", "error"}
PcCon == {"lista", "desbloqueo", "status_nueva", "status_pedida",
           "status_datos", "colgada", "fin"}
Estimacion == [contador : Nat, espera : Nat, estimada : Int, previa : Int]

InitPlan ==
  /\ algorithm \in Algoritmos
  /\ lista_ready = <<>>
  /\ claves_conocidas = ClavesBloqueadas
  /\ cola_esis_bloqueados =
       [k \in Claves |-> IF k \in ClavesBloqueadas THEN <<CONSOLA>> ELSE <<>>]
  /\ claves_bloqueadas_por_esis = {}
  /\ finished_esis = <<>>
  /\ un_esi = Ninguno
  /\ estimacion = [e \in Esis |->
       [contador |-> 0, espera |-> 0, estimada |-> 0, previa |-> 0]]
  /\ fin_de_esi = FALSE /\ respuesta_ok = TRUE /\ block = FALSE /\ abort_esi = FALSE
  /\ stop = FALSE
  /\ hay_esis = 0 /\ esi_respuesta = 0
  /\ status_mutex = FALSE /\ pause_mutex = FALSE
  /\ mensaje = SinClave /\ esi_saliente = Ninguno
  /\ pc_plan = "espera_inicial" /\ pc_hc = "select"
  /\ pc_con = "lista" /\ clave_con = SinClave /\ tecleados = 0

TypeOKPlan ==
  /\ algorithm \in Algoritmos
  /\ lista_ready \in Seq(Esis)
  /\ claves_conocidas \subseteq Claves
  /\ cola_esis_bloqueados \in [Claves -> Seq(Esis \cup {CONSOLA})]
  /\ claves_bloqueadas_por_esis \subseteq Esis \X Claves
  /\ finished_esis \in Seq(Esis)
  /\ un_esi \in Esis \cup {Ninguno}
  /\ estimacion \in [Esis -> Estimacion]
  /\ fin_de_esi \in BOOLEAN /\ respuesta_ok \in BOOLEAN
  /\ block \in BOOLEAN /\ abort_esi \in BOOLEAN /\ stop \in BOOLEAN
  /\ status_mutex \in BOOLEAN /\ pause_mutex \in BOOLEAN
  /\ hay_esis \in Nat /\ esi_respuesta \in Nat
  /\ mensaje \in Claves \cup {SinClave}
  /\ esi_saliente \in Esis \cup {Ninguno}
  /\ pc_plan \in PcPlan /\ pc_hc \in {"select", "post"} /\ pc_con \in PcCon
  /\ clave_con \in Claves \cup {SinClave} /\ tecleados \in Nat

Vivo == pc_plan \notin {"salida", "error"}

-----------------------------------------------------------------------------
(* Estimation and order.                                                   *)

\* (int) applied to a float kept times 100: truncation toward zero.
Truncar(x) == IF x >= 0 THEN x \div 100 ELSE -((-x) \div 100)

\* calculate_estimation: alpha * instructions + (1 - alpha) * last estimate.
CalculateEstimation(e) ==
  LET t == estimacion[e] IN
  [estimacion EXCEPT ![e] =
     [t EXCEPT !.previa = t.estimada,
               !.estimada = Alfa * t.contador + (100 - Alfa) * Truncar(t.previa)]]

\* The estimate of a waiter that is let go; HRRN also restarts its wait.
Reestimar(e) ==
  IF algorithm = "HRRN"
  THEN [CalculateEstimation(e) EXCEPT ![e].espera = 0]
  ELSE CalculateEstimation(e)

\* response_ratio is (W + S) / S, which orders like W / S.
VaAntes(p, q, est) ==
  IF algorithm = "HRRN"
  THEN est[p].espera * est[q].estimada >= est[q].espera * est[p].estimada
  ELSE est[p].estimada <= est[q].estimada

\* sort_list_by_algorithm: list_sort promises no order among equals.
Veces(e, s) == Cardinality({i \in DOMAIN s : s[i] = e})
Ordenaciones(lista, est) ==
  {s \in [1..Len(lista) -> Range(lista)] :
     /\ \A i, j \in DOMAIN s : i < j => VaAntes(s[i], s[j], est)
     /\ \A e \in Range(lista) : Veces(e, s) = Veces(e, lista)}

\* update_values: one instruction more for un_esi.
UpdateValues ==
  LET contada == [estimacion EXCEPT ![un_esi].contador = @ + 1] IN
  IF algorithm = "HRRN"
  THEN [e \in Esis |-> [contada[e] EXCEPT !.espera = @ + Veces(e, lista_ready)]]
  ELSE [contada EXCEPT ![un_esi].estimada = @ - 100]

-----------------------------------------------------------------------------
(* main: start-up and the scheduling loop.                                 *)

EsiHasKey(k) == <<un_esi, k>> \in claves_bloqueadas_por_esis
IsKeyBlocked(k) == \E e \in Esis : <<e, k>> \in claves_bloqueadas_por_esis

\* sem_wait(&hay_esis) before the first selection.
EsperaInicial ==
  /\ pc_plan = "espera_inicial"
  /\ hay_esis > 0
  /\ hay_esis' = hay_esis - 1
  /\ pc_plan' = "wait_start"
  /\ UNCHANGED <<algorithm, listas, un_esi, estimacion, banderas, esi_respuesta,
                 status_mutex, pause_mutex, locales, pc_hc, consola, varsRed>>

\* wait_start: `if (header->id = 35)` accepts whatever header comes first.
WaitStart ==
  /\ pc_plan = "wait_start"
  /\ coord_plan # <<>>
  /\ coord_plan' = Tail(coord_plan)
  /\ pc_plan' = "primero"
  /\ UNCHANGED <<algorithm, listas, un_esi, estimacion, banderas, semaforos, locales,
                 pc_hc, consola, esi_plan, plan_esi, esi_coord, coord_esi, plan_coord>>

\* un_esi = list_remove(lista_ready, 0), for the first ESI and for the next
\* ones.  On an empty list the C code dereferences NULL.
TomarEsi ==
  /\ pc_plan \in {"primero", "elegir"}
  /\ lista_ready # <<>>
  /\ un_esi' = Head(lista_ready)
  /\ lista_ready' = Tail(lista_ready)
  /\ fin_de_esi' = (IF pc_plan = "elegir" THEN FALSE ELSE fin_de_esi)
  /\ pc_plan' = "ciclo"
  /\ UNCHANGED <<algorithm, claves_conocidas, cola_esis_bloqueados,
                 claves_bloqueadas_por_esis, finished_esis, estimacion, respuesta_ok,
                 block, abort_esi, semaforos, locales, pc_hc, consola, varsRed>>

TomarDeListaVacia ==
  /\ pc_plan \in {"primero", "elegir"}
  /\ lista_ready = <<>>
  /\ pc_plan' = "error"
  /\ UNCHANGED <<algorithm, listas, un_esi, estimacion, banderas, semaforos, locales,
                 pc_hc, consola, varsRed>>

\* while (stop != 1)
Ciclo ==
  /\ pc_plan = "ciclo"
  /\ pc_plan' = (IF stop THEN "salida" ELSE "pausa")
  /\ UNCHANGED <<algorithm, listas, un_esi, estimacion, banderas, semaforos, locales,
                 pc_hc, consola, varsRed>>

\* The pause gate: pause_mutex is locked and unlocked at once.
Pausa ==
  /\ pc_plan = "pausa"
  /\ ~pause_mutex
  /\ pc_plan' = "ejecutar"
  /\ UNCHANGED <<algorithm, listas, un_esi, estimacion, banderas, semaforos, locales,
                 pc_hc, consola, varsRed>>

\* status_mutex is taken for the whole instruction: 99 lets the Coordinador go
\* on, 21 lets un_esi run one line.
Ejecutar ==
  /\ pc_plan = "ejecutar"
  /\ ~status_mutex
  /\ status_mutex' = TRUE
  /\ plan_coord' = Cabecera(plan_coord, 99)
  /\ plan_esi' = [plan_esi EXCEPT ![un_esi] = Cabecera(@, 21)]
  /\ pc_plan' = "pregunta"
  /\ UNCHANGED <<algorithm, listas, un_esi, estimacion, banderas, hay_esis,
                 esi_respuesta, pause_mutex, locales, pc_hc, consola, esi_plan,
                 esi_coord, coord_esi, coord_plan>>

\* Mutants: the test of the owner, or of the queue, is forgotten.
PuedeTomarConDuenio(k) == k \notin claves_conocidas \/ cola_esis_bloqueados[k] = <<>>
PuedeTomarConCola(k) == k \notin claves_conocidas \/ ~IsKeyBlocked(k)

\* wait_question, 31: check_key.  The key is granted when it is new, or when
\* nobody waits for it and nobody has it.
PuedeTomar(k) ==
  \/ k \notin claves_conocidas
  \/ cola_esis_bloqueados[k] = <<>> /\ ~IsKeyBlocked(k)

\* Mutant: `block` stays as the last refusal left it.
ConcederSinReponer ==
  LET k == Head(coord_plan).clave IN
  /\ pc_plan = "pregunta"
  /\ Llega(coord_plan, {31})
  /\ PuedeTomar(k)
  /\ coord_plan' = Tail(coord_plan)
  /\ plan_coord' = Cabecera(plan_coord, 31)
  /\ claves_conocidas' = claves_conocidas \cup {k}
  /\ claves_bloqueadas_por_esis' = claves_bloqueadas_por_esis \cup {<<un_esi, k>>}
  /\ mensaje' = k
  /\ pc_plan' = "respuesta"
  /\ UNCHANGED <<algorithm, lista_ready, cola_esis_bloqueados, finished_esis, un_esi,
                 estimacion, banderas, semaforos, esi_saliente, pc_hc, consola, esi_plan,
                 plan_esi, esi_coord, coord_esi>>

ConcederClave ==
  LET k == Head(coord_plan).clave IN
  /\ pc_plan = "pregunta"
  /\ Llega(coord_plan, {31})
  /\ PuedeTomar(k)
  /\ coord_plan' = Tail(coord_plan)
  /\ plan_coord' = Cabecera(plan_coord, 31)
  /\ claves_conocidas' = claves_conocidas \cup {k}
  /\ claves_bloqueadas_por_esis' = claves_bloqueadas_por_esis \cup {<<un_esi, k>>}
  /\ block' = FALSE
  /\ mensaje' = k
  /\ pc_plan' = "respuesta"
  /\ UNCHANGED <<algorithm, lista_ready, cola_esis_bloqueados, finished_esis, un_esi,
                 estimacion, fin_de_esi, respuesta_ok, abort_esi, semaforos,
                 esi_saliente, pc_hc, consola, esi_plan, plan_esi, esi_coord, coord_esi>>

\* check_key answers 32 before it pushes un_esi on the key's queue: the
\* console's unlock, which takes no lock, fits in between.
RechazarClave ==
  LET k == Head(coord_plan).clave IN
  /\ pc_plan = "pregunta"
  /\ Llega(coord_plan, {31})
  /\ ~PuedeTomar(k)
  /\ coord_plan' = Tail(coord_plan)
  /\ plan_coord' = Cabecera(plan_coord, 32)
  /\ block' = FALSE
  /\ mensaje' = k
  /\ pc_plan' = "encolar"
  /\ UNCHANGED <<algorithm, listas, un_esi, estimacion, fin_de_esi, respuesta_ok,
                 abort_esi, semaforos, esi_saliente, pc_hc, consola, esi_plan,
                 plan_esi, esi_coord, coord_esi>>

\* Mutant: the waiter is not marked as blocked.
EncolarSinMarcar ==
  /\ pc_plan = "encolar"
  /\ cola_esis_bloqueados' = [cola_esis_bloqueados EXCEPT ![mensaje] = Append(@, un_esi)]
  /\ pc_plan' = "respuesta"
  /\ UNCHANGED <<algorithm, lista_ready, claves_conocidas, claves_bloqueadas_por_esis,
                 finished_esis, un_esi, estimacion, banderas, semaforos, locales, pc_hc,
                 consola, varsRed>>

EncolarEsi ==
  /\ pc_plan = "encolar"
  /\ cola_esis_bloqueados' = [cola_esis_bloqueados EXCEPT ![mensaje] = Append(@, un_esi)]
  /\ block' = TRUE
  /\ pc_plan' = "respuesta"
  /\ UNCHANGED <<algorithm, lista_ready, claves_conocidas, claves_bloqueadas_por_esis,
                 finished_esis, un_esi, estimacion, fin_de_esi, respuesta_ok, abort_esi,
                 semaforos, locales, pc_hc, consola, varsRed>>

\* wait_question, 32: unlock_key releases the key when un_esi has it ...
LiberarClave ==
  LET k == Head(coord_plan).clave IN
  /\ pc_plan = "pregunta"
  /\ Llega(coord_plan, {32})
  /\ coord_plan' = Tail(coord_plan)
  /\ mensaje' = k
  /\ \/ /\ EsiHasKey(k)
        /\ claves_bloqueadas_por_esis' = claves_bloqueadas_por_esis \ {<<un_esi, k>>}
        /\ plan_coord' = Cabecera(plan_coord, 34)
        /\ pc_plan' = "desbloquear"
     \/ /\ ~EsiHasKey(k)
        /\ plan_coord' = Cabecera(plan_coord, 35)
        /\ pc_plan' = "respuesta"
        /\ UNCHANGED claves_bloqueadas_por_esis
  /\ UNCHANGED <<algorithm, lista_ready, claves_conocidas, cola_esis_bloqueados,
                 finished_esis, un_esi, estimacion, banderas, semaforos, esi_saliente,
                 pc_hc, consola, esi_plan, plan_esi, esi_coord, coord_esi>>

\* Mutants: the waiter preempts under every algorithm; it is not made ready.
DesalojaSiempre(otro) == Reestimar(otro)[otro].estimada < Reestimar(otro)[un_esi].estimada
ReadySin(otro) == lista_ready

\* Where a waiter that is let go ends up: under SJF-CD a shorter one replaces
\* un_esi on the spot and un_esi goes to the ready list, else it goes there.
Desaloja(otro) ==
  /\ algorithm = "SJFCD"
  /\ Reestimar(otro)[otro].estimada < Reestimar(otro)[un_esi].estimada
EsiElegido(otro) == IF Desaloja(otro) THEN otro ELSE un_esi
ReadyCon(otro) == Append(lista_ready, IF Desaloja(otro) THEN un_esi ELSE otro)

\* Mutant: the waiter is let go without a post.
DesbloquearSinPost ==
  LET otro == Head(cola_esis_bloqueados[mensaje]) IN
  /\ pc_plan = "desbloquear"
  /\ cola_esis_bloqueados[mensaje] # <<>>
  /\ cola_esis_bloqueados' = [cola_esis_bloqueados EXCEPT ![mensaje] = Tail(@)]
  /\ estimacion' = Reestimar(otro)
  /\ un_esi' = EsiElegido(otro)
  /\ lista_ready' \in Ordenaciones(ReadyCon(otro), Reestimar(otro))
  /\ pc_plan' = "respuesta"
  /\ UNCHANGED <<algorithm, claves_conocidas, claves_bloqueadas_por_esis, finished_esis,
                 banderas, semaforos, locales, pc_hc, consola, varsRed>>

\* ... then lets the first waiter go, sorts the ready list and posts hay_esis.
DesbloquearEspera ==
  LET otro == Head(cola_esis_bloqueados[mensaje]) IN
  /\ pc_plan = "desbloquear"
  /\ cola_esis_bloqueados[mensaje] # <<>>
  /\ cola_esis_bloqueados' = [cola_esis_bloqueados EXCEPT ![mensaje] = Tail(@)]
  /\ estimacion' = Reestimar(otro)
  /\ un_esi' = EsiElegido(otro)
  /\ lista_ready' \in Ordenaciones(ReadyCon(otro), Reestimar(otro))
  /\ hay_esis' = hay_esis + 1
  /\ pc_plan' = "respuesta"
  /\ UNCHANGED <<algorithm, claves_conocidas, claves_bloqueadas_por_esis, finished_esis,
                 banderas, esi_respuesta, status_mutex, pause_mutex, locales, pc_hc,
                 consola, varsRed>>

\* Mutant: hay_esis is posted though nobody was waiting.
DesbloquearNadieConPost ==
  /\ pc_plan = "desbloquear"
  /\ cola_esis_bloqueados[mensaje] = <<>>
  /\ hay_esis' = hay_esis + 1
  /\ pc_plan' = "respuesta"
  /\ UNCHANGED <<algorithm, listas, un_esi, estimacion, banderas, esi_respuesta,
                 status_mutex, pause_mutex, locales, pc_hc, consola, varsRed>>

DesbloquearNadie ==
  /\ pc_plan = "desbloquear"
  /\ cola_esis_bloqueados[mensaje] = <<>>
  /\ pc_plan' = "respuesta"
  /\ UNCHANGED <<algorithm, listas, un_esi, estimacion, banderas, semaforos, locales,
                 pc_hc, consola, varsRed>>

\* wait_question, 33: may un_esi write this key?
ConsultarSet ==
  LET k == Head(coord_plan).clave IN
  /\ pc_plan = "pregunta"
  /\ Llega(coord_plan, {33})
  /\ coord_plan' = Tail(coord_plan)
  /\ plan_coord' = Cabecera(plan_coord, IF EsiHasKey(k) THEN 34 ELSE 35)
  /\ pc_plan' = "respuesta"
  /\ UNCHANGED <<algorithm, listas, un_esi, estimacion, banderas, semaforos, locales,
                 pc_hc, consola, esi_plan, plan_esi, esi_coord, coord_esi>>

\* wait_question, 34: un_esi is aborted (35 is only logged).
AvisoAborto ==
  /\ pc_plan = "pregunta"
  /\ Llega(coord_plan, {34, 35})
  /\ coord_plan' = Tail(coord_plan)
  /\ abort_esi' = (abort_esi \/ Head(coord_plan).id = 34)
  /\ pc_plan' = "respuesta"
  /\ UNCHANGED <<algorithm, listas, un_esi, estimacion, fin_de_esi, respuesta_ok, block,
                 semaforos, locales, pc_hc, consola, esi_plan, plan_esi, esi_coord,
                 coord_esi, plan_coord>>

\* wait_question, anything else: exit_with_error.
PreguntaInvalida ==
  /\ pc_plan = "pregunta"
  /\ coord_plan # <<>>
  /\ Head(coord_plan).id \notin 31..35
  /\ coord_plan' = Tail(coord_plan)
  /\ pc_plan' = "error"
  /\ UNCHANGED <<algorithm, listas, un_esi, estimacion, banderas, semaforos, locales,
                 pc_hc, consola, esi_plan, plan_esi, esi_coord, coord_esi, plan_coord>>

\* sem_wait(&esi_respuesta), update_values and the test of the answer, up to
\* the unlock of status_mutex.  A refusal of an aborted ESI calls finish_esi.
RecibirRespuesta ==
  LET abortado == ~respuesta_ok /\ abort_esi /\ ~block IN
  /\ pc_plan = "respuesta"
  /\ esi_respuesta > 0
  /\ estimacion[un_esi].contador < MaxInstrucciones
  /\ esi_respuesta' = esi_respuesta - 1
  /\ estimacion' = UpdateValues
  /\ finished_esis' = (IF abortado THEN Append(finished_esis, un_esi) ELSE finished_esis)
  /\ fin_de_esi' = (fin_de_esi \/ (~respuesta_ok /\ ~abort_esi))
  /\ abort_esi' = (abort_esi /\ ~abortado)
  /\ status_mutex' = FALSE
  /\ pc_plan' = (IF fin_de_esi' THEN "terminar" ELSE "ciclo")
  /\ UNCHANGED <<algorithm, lista_ready, claves_conocidas, cola_esis_bloqueados,
                 claves_bloqueadas_por_esis, un_esi, respuesta_ok, block, hay_esis,
                 pause_mutex, locales, pc_hc, consola, varsRed>>

\* Mutant: finish_esi does not look at block.
TerminarSinBlock ==
  /\ pc_plan = "terminar"
  /\ finished_esis' = Append(finished_esis, un_esi)
  /\ abort_esi' = FALSE
  /\ esi_saliente' = un_esi
  /\ pc_plan' = (IF abort_esi THEN "esperar" ELSE "liberando")
  /\ UNCHANGED <<algorithm, lista_ready, claves_conocidas, cola_esis_bloqueados,
                 claves_bloqueadas_por_esis, un_esi, estimacion, fin_de_esi,
                 respuesta_ok, block, semaforos, mensaje, pc_hc, consola, varsRed>>

\* finish_esi(un_esi): nothing at all while `block` is set; otherwise un_esi
\* is recorded as finished and, unless it was aborted, releases its keys.
Terminar ==
  /\ pc_plan = "terminar"
  /\ \/ /\ block
        /\ pc_plan' = "esperar"
        /\ UNCHANGED <<finished_esis, abort_esi, esi_saliente>>
     \/ /\ ~block
        /\ finished_esis' = Append(finished_esis, un_esi)
        /\ abort_esi' = FALSE
        /\ esi_saliente' = un_esi
        /\ pc_plan' = (IF abort_esi THEN "esperar" ELSE "liberando")
  /\ UNCHANGED <<algorithm, lista_ready, claves_conocidas, cola_esis_bloqueados,
                 claves_bloqueadas_por_esis, un_esi, estimacion, fin_de_esi,
                 respuesta_ok, block, semaforos, mensaje, pc_hc, consola, varsRed>>

\* release_keys_and_unlock_esis: one round of its loop takes a key away from
\* the leaving ESI, and unlock_esi lets that key's first waiter go.
LiberarUna(k) ==
  LET otro == Head(cola_esis_bloqueados[k]) IN
  /\ pc_plan = "liberando"
  /\ <<esi_saliente, k>> \in claves_bloqueadas_por_esis
  /\ claves_bloqueadas_por_esis' = claves_bloqueadas_por_esis \ {<<esi_saliente, k>>}
  /\ \/ /\ cola_esis_bloqueados[k] = <<>>
        /\ UNCHANGED <<cola_esis_bloqueados, estimacion, lista_ready>>
     \/ /\ cola_esis_bloqueados[k] # <<>>
        /\ cola_esis_bloqueados' = [cola_esis_bloqueados EXCEPT ![k] = Tail(@)]
        /\ estimacion' = Reestimar(otro)
        /\ lista_ready' = Append(lista_ready, otro)
  /\ UNCHANGED <<algorithm, claves_conocidas, finished_esis, un_esi, banderas,
                 semaforos, locales, pc_plan, pc_hc, consola, varsRed>>

FinLiberacion ==
  /\ pc_plan = "liberando"
  /\ \A k \in Claves : <<esi_saliente, k>> \notin claves_bloqueadas_por_esis
  /\ abort_esi' = FALSE
  /\ pc_plan' = "esperar"
  /\ UNCHANGED <<algorithm, listas, un_esi, estimacion, fin_de_esi, respuesta_ok, block,
                 semaforos, locales, pc_hc, consola, varsRed>>

\* sem_wait(&hay_esis) for the next ESI.
Esperar ==
  /\ pc_plan = "esperar"
  /\ hay_esis > 0
  /\ hay_esis' = hay_esis - 1
  /\ pc_plan' = "ordenar"
  /\ UNCHANGED <<algorithm, listas, un_esi, estimacion, banderas, esi_respuesta,
                 status_mutex, pause_mutex, locales, pc_hc, consola, varsRed>>

\* The second pause gate; `continue` when the console said EXIT.
Ordenar ==
  /\ pc_plan = "ordenar"
  /\ ~pause_mutex
  /\ \/ /\ stop
        /\ pc_plan' = "ciclo"
        /\ UNCHANGED lista_ready
     \/ /\ ~stop
        /\ pc_plan' = "elegir"
        /\ lista_ready' \in Ordenaciones(lista_ready, estimacion)
  /\ UNCHANGED <<algorithm, claves_conocidas, cola_esis_bloqueados,
                 claves_bloqueadas_por_esis, finished_esis, un_esi, estimacion, banderas,
                 semaforos, locales, pc_hc, consola, varsRed>>

Preguntas ==
  \/ ConcederClave \/ RechazarClave \/ LiberarClave \/ ConsultarSet
  \/ AvisoAborto \/ PreguntaInvalida

PasoMain ==
  \/ EsperaInicial \/ WaitStart \/ TomarEsi \/ TomarDeListaVacia
  \/ Ciclo \/ Pausa \/ Ejecutar
  \/ Preguntas \/ EncolarEsi \/ DesbloquearEspera \/ DesbloquearNadie
  \/ RecibirRespuesta \/ Terminar
  \/ \E k \in Claves : LiberarUna(k)
  \/ FinLiberacion \/ Esperar \/ Ordenar

-----------------------------------------------------------------------------
(* HostConnections: what an ESI sends.                                     *)

\* Header 20: a new ESI joins the ready list; hay_esis is posted afterwards.
NuevoEsi(e) ==
  /\ Vivo /\ pc_hc = "select"
  /\ Llega(esi_plan[e], {20})
  /\ esi_plan' = [esi_plan EXCEPT ![e] = Tail(@)]
  /\ lista_ready' = Append(lista_ready, e)
  /\ estimacion' = [estimacion EXCEPT ![e] =
       [contador |-> 0, espera |-> 0,
        estimada |-> 100 * EstimacionInicial, previa |-> 100 * EstimacionInicial]]
  /\ pc_hc' = "post"
  /\ UNCHANGED <<algorithm, claves_conocidas, cola_esis_bloqueados,
                 claves_bloqueadas_por_esis, finished_esis, un_esi, banderas, semaforos,
                 locales, pc_plan, consola, plan_esi, esi_coord, coord_esi, plan_coord,
                 coord_plan>>

AvisarNuevoEsi ==
  /\ Vivo /\ pc_hc = "post"
  /\ hay_esis' = hay_esis + 1
  /\ pc_hc' = "select"
  /\ UNCHANGED <<algorithm, listas, un_esi, estimacion, banderas, esi_respuesta,
                 status_mutex, pause_mutex, locales, pc_plan, consola, varsRed>>

\* Headers 22 (done), 23 (blocked), 24 (script ended) and 25 (aborted).
RespuestaEsi(e) ==
  LET id == Head(esi_plan[e]).id IN
  /\ Vivo /\ pc_hc = "select"
  /\ Llega(esi_plan[e], 22..25)
  /\ esi_plan' = [esi_plan EXCEPT ![e] = Tail(@)]
  /\ respuesta_ok' = (id # 23)
  /\ fin_de_esi' = (fin_de_esi \/ id \in {24, 25})
  /\ abort_esi' = (id = 25 \/ (abort_esi /\ id # 24))
  /\ esi_respuesta' = esi_respuesta + 1
  /\ UNCHANGED <<algorithm, listas, un_esi, estimacion, block, hay_esis, status_mutex,
                 pause_mutex, locales, pc_plan, pc_hc, consola, plan_esi, esi_coord,
                 coord_esi, plan_coord, coord_plan>>

PasoHostConnections ==
  \/ \E e \in Esis : NuevoEsi(e) \/ RespuestaEsi(e)
  \/ AvisarNuevoEsi

-----------------------------------------------------------------------------
(* Console: the operator types any command at any time.                    *)

Teclear(comando) ==
  /\ Vivo /\ pc_con = "lista"
  /\ comando \in Comandos
  /\ tecleados < MaxComandos
  /\ tecleados' = tecleados + 1

\* Mutant: EXIT does not wake main from its wait for an ESI.
ConsolaExitSinPost ==
  /\ Teclear("EXIT")
  /\ stop' = TRUE
  /\ pc_con' = "fin"
  /\ pause_mutex' = FALSE
  /\ UNCHANGED <<algorithm, listas, un_esi, estimacion, banderas, hay_esis, esi_respuesta,
                 status_mutex, locales, pc_plan, pc_hc, clave_con, varsRed>>

\* EXIT: ends the console, wakes main wherever it may be asleep.
ConsolaExit ==
  /\ Teclear("EXIT")
  /\ stop' = TRUE
  /\ pc_con' = "fin"
  /\ hay_esis' = hay_esis + 1
  /\ pause_mutex' = FALSE
  /\ UNCHANGED <<algorithm, listas, un_esi, estimacion, banderas, esi_respuesta,
                 status_mutex, locales, pc_plan, pc_hc, clave_con, varsRed>>

\* PAUSE locks pause_mutex; a second PAUSE waits for the mutex the console
\* itself holds.
ConsolaPause ==
  /\ Teclear("PAUSE")
  /\ pause_mutex' = TRUE
  /\ pc_con' = (IF pause_mutex THEN "colgada" ELSE "lista")
  /\ UNCHANGED <<algorithm, listas, un_esi, estimacion, banderas, hay_esis,
                 esi_respuesta, status_mutex, locales, pc_plan, pc_hc, stop, clave_con,
                 varsRed>>

ConsolaResume ==
  /\ Teclear("RESUME")
  /\ pause_mutex' = FALSE
  /\ UNCHANGED <<algorithm, listas, un_esi, estimacion, banderas, hay_esis,
                 esi_respuesta, status_mutex, locales, pc_plan, pc_hc, stop, pc_con,
                 clave_con, varsRed>>

\* BLOCK begins with sem_wait(&esi_executing), which nothing ever posts.
ConsolaBlock ==
  /\ Teclear("BLOCK")
  /\ pc_con' = "colgada"
  /\ UNCHANGED <<algorithm, listas, un_esi, estimacion, banderas, semaforos, locales,
                 pc_plan, pc_hc, stop, clave_con, varsRed>>

\* UNLOCK, unlock_key_by_console, takes no lock: it removes the key's owner ...
ConsolaUnlock(k) ==
  /\ Teclear("UNLOCK")
  /\ k \in claves_conocidas \ {ClaveVacia}
  /\ \/ \E e \in Esis :
          /\ <<e, k>> \in claves_bloqueadas_por_esis
          /\ claves_bloqueadas_por_esis' = claves_bloqueadas_por_esis \ {<<e, k>>}
     \/ /\ ~IsKeyBlocked(k)
        /\ UNCHANGED claves_bloqueadas_por_esis
  /\ clave_con' = k
  /\ pc_con' = "desbloqueo"
  /\ UNCHANGED <<algorithm, lista_ready, claves_conocidas, cola_esis_bloqueados,
                 finished_esis, un_esi, estimacion, banderas, semaforos, locales,
                 pc_plan, pc_hc, stop, varsRed>>

SinMarca(cola) == IF cola # <<>> /\ Head(cola) = CONSOLA THEN Tail(cola) ELSE cola

\* ... then drops the CONSOLA mark, if there, and lets the first waiter go.
ConsolaDesbloqueo ==
  LET espera == SinMarca(cola_esis_bloqueados[clave_con])
      otro == Head(espera)
  IN
  /\ Vivo /\ pc_con = "desbloqueo"
  /\ \/ /\ espera = <<>>
        /\ cola_esis_bloqueados' = [cola_esis_bloqueados EXCEPT ![clave_con] = <<>>]
        /\ UNCHANGED <<lista_ready, un_esi, estimacion, hay_esis>>
     \/ /\ espera # <<>>
        /\ cola_esis_bloqueados' =
             [cola_esis_bloqueados EXCEPT ![clave_con] = Tail(espera)]
        /\ estimacion' = Reestimar(otro)
        /\ un_esi' = EsiElegido(otro)
        /\ lista_ready' = ReadyCon(otro)
        /\ hay_esis' = hay_esis + 1
  /\ clave_con' = SinClave
  /\ pc_con' = "lista"
  /\ UNCHANGED <<algorithm, claves_conocidas, claves_bloqueadas_por_esis, finished_esis,
                 banderas, esi_respuesta, status_mutex, pause_mutex, locales, pc_plan,
                 pc_hc, stop, tecleados, varsRed>>

\* STATUS, get_key_status: asks the Coordinador on the socket main uses too.
ConsolaStatus(k) ==
  /\ Teclear("STATUS")
  /\ k # ClaveVacia
  /\ ~status_mutex
  /\ status_mutex' = TRUE
  /\ plan_coord' = Con(plan_coord, 33, k)
  /\ pc_con' = (IF k \in claves_conocidas THEN "status_pedida" ELSE "status_nueva")
  /\ UNCHANGED <<algorithm, listas, un_esi, estimacion, banderas, hay_esis,
                 esi_respuesta, pause_mutex, locales, pc_plan, pc_hc, stop, clave_con,
                 esi_plan, plan_esi, esi_coord, coord_esi, coord_plan>>

\* The payload is read only after 36 for a key the Planificador does not know,
\* and only after 37 or 38 for one it knows.
RespuestaEsperada ==
  Head(coord_plan).id \in (IF pc_con = "status_nueva" THEN {36} ELSE {37, 38})

ConsolaRecibeStatus ==
  /\ Vivo /\ pc_con \in {"status_nueva", "status_pedida"}
  /\ coord_plan # <<>>
  /\ coord_plan' = Tail(coord_plan)
  /\ pc_con' = (IF RespuestaEsperada THEN "status_datos" ELSE "lista")
  /\ status_mutex' = RespuestaEsperada
  /\ UNCHANGED <<algorithm, listas, un_esi, estimacion, banderas, hay_esis,
                 esi_respuesta, pause_mutex, locales, pc_plan, pc_hc, stop, clave_con,
                 tecleados, esi_plan, plan_esi, esi_coord, coord_esi, plan_coord>>

ConsolaRecibeDatos ==
  /\ Vivo /\ pc_con = "status_datos"
  /\ coord_plan # <<>>
  /\ coord_plan' = Tail(coord_plan)
  /\ pc_con' = "lista"
  /\ status_mutex' = FALSE
  /\ UNCHANGED <<algorithm, listas, un_esi, estimacion, banderas, hay_esis,
                 esi_respuesta, pause_mutex, locales, pc_plan, pc_hc, stop, clave_con,
                 tecleados, esi_plan, plan_esi, esi_coord, coord_esi, plan_coord>>

PasoConsola ==
  \/ ConsolaExit \/ ConsolaPause \/ ConsolaResume \/ ConsolaBlock
  \/ \E k \in Claves : ConsolaUnlock(k) \/ ConsolaStatus(k)
  \/ ConsolaDesbloqueo \/ ConsolaRecibeStatus \/ ConsolaRecibeDatos

PasoPlan == PasoMain \/ PasoHostConnections \/ PasoConsola
=============================================================================
