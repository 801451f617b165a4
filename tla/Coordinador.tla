---------------------------- MODULE Coordinador ----------------------------
(***************************************************************************)
(* The coordinator process: one host_esi thread per ESI, host_scheduler    *)
(* for the Planificador and host_instance for the Instances.  They talk    *)
(* through global variables (message, operation, key_is_not_blocked) and   *)
(* semaphores, with no mutex.  Which Instance keeps a key, and what an     *)
(* Instance does with it, is abstracted here: the Instance a request is    *)
(* posted to is one thread, and saving may find it down.                   *)
(***************************************************************************)
EXTENDS Red

CONSTANTS
  Nadie,           \* no request is being served by an Instance
  InstanciasCaen   \* whether save_on_instance may find the Instance down

ASSUME CoordinadorAssumption ==
  /\ Nadie \notin [op : STRING, clave : Claves]
  /\ InstanciasCaen \in BOOLEAN

VARIABLES
  message,             \* message->key: the key of the operation under way
  operation,           \* what host_scheduler and host_instance must do
  key_is_not_blocked,  \* the Planificador's last answer
  esi_operation, scheduler_response, result_instance,  \* semaphores
  one_esi, one_instance, start,
  pc_he,               \* pc_he[e]: host_esi of ESI e
  funcion,             \* funcion[e]: the operation_* function it is in
  blocked_keys,        \* blocked_keys[e]: host_esi's blocked_keys_by_this_esi
  pc_hs,               \* host_scheduler
  atendido,            \* the request the Instance is serving
  asignadas            \* keys some Instance has been given

semaforosCoord == <<esi_operation, scheduler_response, result_instance, one_esi,
                    one_instance, start>>
hilosEsi == <<pc_he, funcion, blocked_keys>>
varsCoord == <<message, operation, key_is_not_blocked, semaforosCoord, hilosEsi,
               pc_hs, atendido, asignadas>>

PcHe == {"inicio", "recv", "preparada", "planificador", "instancia", "fin"}
PcHs == {"una_esi", "una_instancia", "recv", "operacion", "respuesta", "status"}
Operation == {"GET", "SET", "STORE", "ABORT", "STATUS"}

InitCoord ==
  /\ message = SinClave /\ operation = "GET" /\ key_is_not_blocked = TRUE
  /\ esi_operation = 0 /\ scheduler_response = 0 /\ result_instance = 0
  /\ one_esi = 0 /\ one_instance = 0 /\ start = 0
  /\ pc_he = [e \in Esis |-> "inicio"]
  /\ funcion = [e \in Esis |-> "GET"]
  /\ blocked_keys = [e \in Esis |-> {}]
  /\ pc_hs = "una_esi"
  /\ atendido = Nadie
  /\ asignadas = {}

TypeOKCoord ==
  /\ message \in Claves \cup {SinClave}
  /\ operation \in Operation
  /\ key_is_not_blocked \in BOOLEAN
  /\ esi_operation \in Nat /\ scheduler_response \in Nat /\ result_instance \in Nat
  /\ one_esi \in Nat /\ one_instance \in Nat /\ start \in Nat
  /\ pc_he \in [Esis -> PcHe]
  /\ funcion \in [Esis -> {"GET", "SET", "STORE"}]
  /\ blocked_keys \in [Esis -> SUBSET Claves]
  /\ pc_hs \in PcHs
  /\ atendido \in [op : Operation, clave : Claves \cup {SinClave}] \cup {Nadie}
  /\ asignadas \subseteq Claves

\* Mutant: STORE is dispatched as SET.
FuncionConfundida(id) == IF id = 21 THEN "GET" ELSE "SET"
FuncionDe(id) == CASE id = 21 -> "GET" [] id = 22 -> "SET" [] id = 23 -> "STORE"

-----------------------------------------------------------------------------
(* host_esi.                                                               *)

\* The thread of a new ESI posts one_esi and starts to read.
HostEsi(e) ==
  /\ pc_he[e] = "inicio"
  /\ Llega(esi_coord[e], {20})
  /\ esi_coord' = [esi_coord EXCEPT ![e] = Tail(@)]
  /\ one_esi' = one_esi + 1
  /\ pc_he' = [pc_he EXCEPT ![e] = "recv"]
  /\ UNCHANGED <<message, operation, key_is_not_blocked, esi_operation,
                 scheduler_response, result_instance, one_instance, start, funcion,
                 blocked_keys, pc_hs, atendido, asignadas, esi_plan, plan_esi,
                 coord_esi, plan_coord, coord_plan>>

\* operation_get, _set, _store: the key is copied to the global message, then
\* the thread sleeps for the configured delay.
RecibirOperacion(e) ==
  /\ pc_he[e] = "recv"
  /\ Llega(esi_coord[e], {21, 22, 23})
  /\ esi_coord' = [esi_coord EXCEPT ![e] = Tail(@)]
  /\ message' = Head(esi_coord[e]).clave
  /\ funcion' = [funcion EXCEPT ![e] = FuncionDe(Head(esi_coord[e]).id)]
  /\ pc_he' = [pc_he EXCEPT ![e] = "preparada"]
  /\ UNCHANGED <<operation, key_is_not_blocked, semaforosCoord, blocked_keys, pc_hs,
                 atendido, asignadas, esi_plan, plan_esi, coord_esi, plan_coord,
                 coord_plan>>

\* The operation is published for host_scheduler; SET and STORE of a key this
\* ESI never got are aborted instead (abort_esi, stage 1).
PublicarOperacion(e) ==
  /\ pc_he[e] = "preparada"
  /\ funcion[e] = "GET" \/ message \in blocked_keys[e]
  /\ operation' = funcion[e]
  /\ esi_operation' = esi_operation + 1
  /\ pc_he' = [pc_he EXCEPT ![e] = "planificador"]
  /\ UNCHANGED <<message, key_is_not_blocked, scheduler_response, result_instance,
                 one_esi, one_instance, start, funcion, blocked_keys, pc_hs, atendido,
                 asignadas, varsRed>>

AbortarClaveNoPedida(e) ==
  /\ pc_he[e] = "preparada"
  /\ funcion[e] # "GET" /\ message \notin blocked_keys[e]
  /\ operation' = "ABORT"
  /\ esi_operation' = esi_operation + 1
  /\ coord_esi' = [coord_esi EXCEPT ![e] = Cabecera(@, 24)]
  /\ pc_he' = [pc_he EXCEPT ![e] = "recv"]
  /\ UNCHANGED <<message, key_is_not_blocked, scheduler_response, result_instance,
                 one_esi, one_instance, start, funcion, blocked_keys, pc_hs, atendido,
                 asignadas, esi_plan, plan_esi, esi_coord, plan_coord, coord_plan>>

\* Header 25: the ESI read an invalid line.
AbortarLineaInvalida(e) ==
  /\ pc_he[e] = "recv"
  /\ Llega(esi_coord[e], {25})
  /\ esi_coord' = [esi_coord EXCEPT ![e] = Tail(@)]
  /\ operation' = "ABORT"
  /\ esi_operation' = esi_operation + 1
  /\ coord_esi' = [coord_esi EXCEPT ![e] = Cabecera(@, 24)]
  /\ UNCHANGED <<message, key_is_not_blocked, scheduler_response, result_instance,
                 one_esi, one_instance, start, hilosEsi, pc_hs, atendido, asignadas,
                 esi_plan, plan_esi, plan_coord, coord_plan>>

\* The Planificador refused: GET is told it is blocked (22), SET and STORE are
\* aborted (24, abort_esi stage 2).
OperacionRechazada(e) ==
  /\ pc_he[e] = "planificador"
  /\ scheduler_response > 0
  /\ ~key_is_not_blocked
  /\ scheduler_response' = scheduler_response - 1
  /\ coord_esi' = [coord_esi EXCEPT ![e] = Cabecera(@, IF funcion[e] = "GET" THEN 22 ELSE 24)]
  /\ pc_he' = [pc_he EXCEPT ![e] = "recv"]
  /\ UNCHANGED <<message, operation, key_is_not_blocked, esi_operation, result_instance,
                 one_esi, one_instance, start, funcion, blocked_keys, pc_hs, atendido,
                 asignadas, esi_plan, plan_esi, esi_coord, plan_coord, coord_plan>>

\* It agreed: assign_instance (GET) or save_on_instance (SET, STORE) posts the
\* start semaphore of an Instance.
PedirInstancia(e) ==
  /\ pc_he[e] = "planificador"
  /\ scheduler_response > 0
  /\ key_is_not_blocked
  /\ funcion[e] = "GET" /\ message \notin asignadas => one_instance > 0
  /\ scheduler_response' = scheduler_response - 1
  /\ asignadas' = (IF funcion[e] = "GET" THEN asignadas \cup {message} ELSE asignadas)
  /\ start' = start + 1
  /\ pc_he' = [pc_he EXCEPT ![e] = "instancia"]
  /\ UNCHANGED <<message, operation, key_is_not_blocked, esi_operation, result_instance,
                 one_esi, one_instance, funcion, blocked_keys, pc_hs, atendido, varsRed>>

\* save_on_instance finds the Instance down: the ESI is aborted.
InstanciaCaida(e) ==
  /\ InstanciasCaen
  /\ pc_he[e] = "planificador"
  /\ scheduler_response > 0
  /\ key_is_not_blocked
  /\ funcion[e] \in {"SET", "STORE"}
  /\ scheduler_response' = scheduler_response - 1
  /\ coord_esi' = [coord_esi EXCEPT ![e] = Cabecera(@, 24)]
  /\ pc_he' = [pc_he EXCEPT ![e] = "recv"]
  /\ UNCHANGED <<message, operation, key_is_not_blocked, esi_operation, result_instance,
                 one_esi, one_instance, start, funcion, blocked_keys, pc_hs, atendido,
                 asignadas, esi_plan, plan_esi, esi_coord, plan_coord, coord_plan>>

\* The Instance is done: answer 23 and keep or forget the key.
ConfirmarOperacion(e) ==
  /\ pc_he[e] = "instancia"
  /\ result_instance > 0
  /\ result_instance' = result_instance - 1
  /\ blocked_keys' = [blocked_keys EXCEPT ![e] =
       CASE funcion[e] = "GET" -> @ \cup {message}
         [] funcion[e] = "STORE" -> @ \ {message}
         [] OTHER -> @]
  /\ coord_esi' = [coord_esi EXCEPT ![e] = Cabecera(@, 23)]
  /\ pc_he' = [pc_he EXCEPT ![e] = "recv"]
  /\ UNCHANGED <<message, operation, key_is_not_blocked, esi_operation,
                 scheduler_response, one_esi, one_instance, start, funcion, pc_hs,
                 atendido, asignadas, esi_plan, plan_esi, esi_coord, plan_coord,
                 coord_plan>>

\* recv() = 0: the ESI left; its dictionary is destroyed.
DesconectarEsi(e) ==
  /\ pc_he[e] = "recv"
  /\ Llega(esi_coord[e], {Cierre})
  /\ esi_coord' = [esi_coord EXCEPT ![e] = Tail(@)]
  /\ blocked_keys' = [blocked_keys EXCEPT ![e] = {}]
  /\ pc_he' = [pc_he EXCEPT ![e] = "fin"]
  /\ UNCHANGED <<message, operation, key_is_not_blocked, semaforosCoord, funcion, pc_hs,
                 atendido, asignadas, esi_plan, plan_esi, coord_esi, plan_coord,
                 coord_plan>>

PasoHostEsi(e) ==
  \/ HostEsi(e) \/ RecibirOperacion(e) \/ PublicarOperacion(e)
  \/ AbortarClaveNoPedida(e) \/ AbortarLineaInvalida(e) \/ OperacionRechazada(e)
  \/ PedirInstancia(e) \/ InstanciaCaida(e) \/ ConfirmarOperacion(e)
  \/ DesconectarEsi(e)

-----------------------------------------------------------------------------
(* host_scheduler.                                                         *)

\* Mutant: one_esi is taken without waiting for it.
EsperarEsiSinEsperar ==
  /\ pc_hs = "una_esi"
  /\ one_esi' = one_esi - 1
  /\ pc_hs' = "una_instancia"
  /\ UNCHANGED <<message, operation, key_is_not_blocked, esi_operation,
                 scheduler_response, result_instance, one_instance, start, hilosEsi,
                 atendido, asignadas, varsRed>>

EsperarEsi ==
  /\ pc_hs = "una_esi"
  /\ one_esi > 0
  /\ one_esi' = one_esi - 1
  /\ pc_hs' = "una_instancia"
  /\ UNCHANGED <<message, operation, key_is_not_blocked, esi_operation,
                 scheduler_response, result_instance, one_instance, start, hilosEsi,
                 atendido, asignadas, varsRed>>

\* one_instance is taken and given back at once: 35 starts the Planificador.
AvisarInicio ==
  /\ pc_hs = "una_instancia"
  /\ one_instance > 0
  /\ coord_plan' = Cabecera(coord_plan, 35)
  /\ pc_hs' = "recv"
  /\ UNCHANGED <<message, operation, key_is_not_blocked, semaforosCoord, hilosEsi,
                 atendido, asignadas, esi_plan, plan_esi, esi_coord, coord_esi,
                 plan_coord>>

\* Any header but 33 (STATUS) means: wait for the ESI's operation.
RecibirTurno ==
  /\ pc_hs = "recv"
  /\ plan_coord # <<>>
  /\ Head(plan_coord).id # 33
  /\ plan_coord' = Tail(plan_coord)
  /\ pc_hs' = "operacion"
  /\ UNCHANGED <<message, operation, key_is_not_blocked, semaforosCoord, hilosEsi,
                 atendido, asignadas, esi_plan, plan_esi, esi_coord, coord_esi,
                 coord_plan>>

\* Mutant: STORE only asks for permission, as SET does.
PreguntaSinLiberar(op) == IF op = "GET" THEN 31 ELSE 33

\* switch (operation), read when esi_operation is posted.
PreguntaDe(op) == CASE op = "GET" -> 31 [] op = "STORE" -> 32 [] op = "SET" -> 33

ConsultarPlanificador ==
  /\ pc_hs = "operacion"
  /\ esi_operation > 0
  /\ operation \in {"GET", "SET", "STORE"}
  /\ esi_operation' = esi_operation - 1
  /\ coord_plan' = Con(coord_plan, PreguntaDe(operation), message)
  /\ pc_hs' = "respuesta"
  /\ UNCHANGED <<message, operation, key_is_not_blocked, scheduler_response,
                 result_instance, one_esi, one_instance, start, hilosEsi, atendido,
                 asignadas, esi_plan, plan_esi, esi_coord, coord_esi, plan_coord>>

AvisarAborto ==
  /\ pc_hs = "operacion"
  /\ esi_operation > 0
  /\ operation = "ABORT"
  /\ esi_operation' = esi_operation - 1
  /\ coord_plan' = Cabecera(coord_plan, 34)
  /\ pc_hs' = "recv"
  /\ UNCHANGED <<message, operation, key_is_not_blocked, scheduler_response,
                 result_instance, one_esi, one_instance, start, hilosEsi, atendido,
                 asignadas, esi_plan, plan_esi, esi_coord, coord_esi, plan_coord>>

\* The answer: 31 and 34 allow, 32 and 35 refuse.
RecibirRespuestaPlan ==
  /\ pc_hs = "respuesta"
  /\ plan_coord # <<>>
  /\ plan_coord' = Tail(plan_coord)
  /\ key_is_not_blocked' = (\/ Head(plan_coord).id \in {31, 34}
                            \/ key_is_not_blocked /\ Head(plan_coord).id \notin {32, 35})
  /\ scheduler_response' = scheduler_response + 1
  /\ pc_hs' = "recv"
  /\ UNCHANGED <<message, operation, esi_operation, result_instance, one_esi,
                 one_instance, start, hilosEsi, atendido, asignadas, esi_plan, plan_esi,
                 esi_coord, coord_esi, coord_plan>>

\* operation_status of a key without an active Instance: 36 and the name of
\* the Instance that would get it.
SimularStatus ==
  /\ pc_hs = "recv"
  /\ Llega(plan_coord, {33})
  /\ Head(plan_coord).clave \in asignadas => InstanciasCaen
  /\ message' = Head(plan_coord).clave
  /\ plan_coord' = Tail(plan_coord)
  /\ coord_plan' = Cabecera(Cabecera(coord_plan, 36), Datos)
  /\ UNCHANGED <<operation, key_is_not_blocked, semaforosCoord, hilosEsi, pc_hs,
                 atendido, asignadas, esi_plan, plan_esi, esi_coord, coord_esi>>

\* operation_status of an assigned key: its Instance is asked, and host_scheduler
\* answers 37 (with the value) or 38 (without) when it has replied.
PedirStatus ==
  /\ pc_hs = "recv"
  /\ Llega(plan_coord, {33})
  /\ Head(plan_coord).clave \in asignadas
  /\ message' = Head(plan_coord).clave
  /\ plan_coord' = Tail(plan_coord)
  /\ operation' = "STATUS"
  /\ start' = start + 1
  /\ pc_hs' = "status"
  /\ UNCHANGED <<key_is_not_blocked, esi_operation, scheduler_response, result_instance,
                 one_esi, one_instance, hilosEsi, atendido, asignadas, esi_plan,
                 plan_esi, esi_coord, coord_esi, coord_plan>>

ResponderStatus ==
  /\ pc_hs = "status"
  /\ result_instance > 0
  /\ result_instance' = result_instance - 1
  /\ \E id \in {37, 38} : coord_plan' = Cabecera(Cabecera(coord_plan, id), Datos)
  /\ pc_hs' = "recv"
  /\ UNCHANGED <<message, operation, key_is_not_blocked, esi_operation,
                 scheduler_response, one_esi, one_instance, start, hilosEsi, atendido,
                 asignadas, esi_plan, plan_esi, esi_coord, coord_esi, plan_coord>>

PasoHostScheduler ==
  \/ EsperarEsi \/ AvisarInicio \/ RecibirTurno \/ ConsultarPlanificador
  \/ AvisarAborto \/ RecibirRespuestaPlan \/ SimularStatus \/ PedirStatus
  \/ ResponderStatus

-----------------------------------------------------------------------------
(* host_instance.                                                          *)

\* The first Instance connects.
HostInstance ==
  /\ one_instance = 0
  /\ one_instance' = 1
  /\ UNCHANGED <<message, operation, key_is_not_blocked, esi_operation,
                 scheduler_response, result_instance, one_esi, start, hilosEsi, pc_hs,
                 atendido, asignadas, varsRed>>

\* Mutant: the Instance does not wait for start.
AtenderSinEsperar ==
  /\ atendido = Nadie
  /\ atendido' = [op |-> operation, clave |-> message]
  /\ UNCHANGED <<message, operation, key_is_not_blocked, semaforosCoord, hilosEsi, pc_hs,
                 asignadas, varsRed>>

\* sem_wait(&start), switch (operation): the request is built from the globals.
AtenderPedido ==
  /\ atendido = Nadie
  /\ start > 0
  /\ start' = start - 1
  /\ atendido' = [op |-> operation, clave |-> message]
  /\ UNCHANGED <<message, operation, key_is_not_blocked, esi_operation,
                 scheduler_response, result_instance, one_esi, one_instance, hilosEsi,
                 pc_hs, asignadas, varsRed>>

\* The Instance's answer to STATUS, when it has a value, gives 0 as the length
\* of the key: message->key becomes empty, and the value is not read.
TerminarPedido ==
  /\ atendido # Nadie
  /\ atendido' = Nadie
  /\ result_instance' = result_instance + 1
  /\ message' \in {message} \cup (IF atendido.op = "STATUS" THEN {ClaveVacia} ELSE {})
  /\ UNCHANGED <<operation, key_is_not_blocked, esi_operation,
                 scheduler_response, one_esi, one_instance, start, hilosEsi, pc_hs,
                 asignadas, varsRed>>

PasoHostInstance == HostInstance \/ AtenderPedido \/ TerminarPedido

PasoCoord ==
  \/ \E e \in Esis : PasoHostEsi(e)
  \/ PasoHostScheduler
  \/ PasoHostInstance
=============================================================================
