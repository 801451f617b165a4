---------------------------- MODULE ClavesProofs ----------------------------
(***************************************************************************)
(* Who owns what, for the Planificador and for the Coordinador, as long as *)
(* the operator does not ask for STATUS and no waiter preempts (SJF-CD): a *)
(* key being written has no other owner, the two tables of owners agree, and *)
(* an owner only loses a key by its own STORE, by leaving, or by the       *)
(* operator.  With scripts that begin with a GET, every ESI is in one place *)
(* only and is recorded when it ends; with scripts that also store what they *)
(* take, main never sleeps while an ESI is ready.  It all rests on UnTurno. *)
(***************************************************************************)
EXTENDS TurnoProofs

-----------------------------------------------------------------------------
(* Ownership.                                                              *)

\* An ESI that is still running has not closed its sockets, nor told the
\* Planificador that it ended.
CierreAlFinal ==
  \A e \in Esis : pc_esi[e] # "fin" =>
    pc_he[e] # "fin" /\ Sin(esi_coord[e], {Cierre}) /\ Sin(esi_plan[e], {24, 25})

\* The Planificador has let e go on, and the Coordinador is not done yet.
Permiso(e) ==
  \/ pc_he[e] = "instancia"
  \/ /\ pc_he[e] = "planificador"
     /\ \/ pc_hs = "respuesta" /\ plan_coord # <<>> /\ Head(plan_coord).id \in {31, 34}
        \/ scheduler_response = 1 /\ key_is_not_blocked

\* Nobody else owns the key of that operation, and nobody at all if it is STORE.
DuenioUnico ==
  \A e, f \in Esis :
     Permiso(e) /\ <<f, message>> \in claves_bloqueadas_por_esis =>
       f = e /\ funcion[e] # "STORE"

\* host_esi remembers what its ESI owns, or is about to.
PorRecordar(e, k) ==
  k \in blocked_keys[e] \/ (Permiso(e) /\ funcion[e] = "GET" /\ k = message)
Recordadas ==
  \A e \in Esis, k \in Claves :
     <<e, k>> \in claves_bloqueadas_por_esis /\ pc_he[e] # "fin" => PorRecordar(e, k)

Propiedad == algorithm # "SJFCD" => DuenioUnico /\ Recordadas

\* The steps of the ESI itself, of its host_esi and of HostConnections are the
\* ones that matter.
LEMMA CierreEsi ==
  ASSUME TypeOK, CierreAlFinal, NEW e \in Esis, EsiActua(e), pc_esi'[e] # "fin"
  PROVE  pc_he'[e] # "fin" /\ Sin(esi_coord'[e], {Cierre}) /\ Sin(esi_plan'[e], {24, 25})
<1>1. PasoEsi(e) /\ pc_he' = pc_he
  BY DEF EsiActua, varsCoord, hilosEsi
<1>2. esi_coord[e] \in Canal /\ esi_plan[e] \in Canal
  BY CanalTipo DEF TypeOK
<1>3. pc_esi[e] # "fin"
  BY <1>1 DEF PasoEsi, ConectarPlanificador, ConectarCoordinador, EjecutarLinea, OperacionHecha,
     OperacionBloqueada, Abortar
<1>4. pc_he[e] # "fin" /\ Sin(esi_coord[e], {Cierre}) /\ Sin(esi_plan[e], {24, 25})
  BY <1>3 DEF CierreAlFinal
<1>5. \/ esi_plan'[e] = esi_plan[e]
      \/ \E id \in {20, 22, 23} : esi_plan'[e] = Cabecera(esi_plan[e], id)
  BY <1>1 DEF PasoEsi, ConectarPlanificador, ConectarCoordinador, EjecutarLinea, OperacionHecha,
     OperacionBloqueada, Abortar, Salir, TypeOK, TypeOKRed, TypeOKEsi
<1>6. \/ esi_coord'[e] = esi_coord[e]
      \/ \E id \in {20, 25} : esi_coord'[e] = Cabecera(esi_coord[e], id)
      \/ \E id \in 21..23, k \in Claves : esi_coord'[e] = Con(esi_coord[e], id, k)
  <2>1. CASE EjecutarLinea(e)
    <3> DEFINE n == linea'[e]
    <3>1. esi_coord'[e] = IF LineaValida(e, n) THEN Con(esi_coord[e], IdDe(guion[e][n].op), guion[e][n].clave)
                                               ELSE Cabecera(esi_coord[e], 25)
      BY <2>1 DEF EjecutarLinea, TypeOK, TypeOKRed, TypeOKEsi
    <3>2. LineaValida(e, n) => IdDe(guion[e][n].op) \in 21..23 /\ guion[e][n].clave \in Claves
      BY LineaDeGuion, IdDeTipo DEF TypeOK, LineaValida
    <3> HIDE DEF n
    <3> QED BY <3>1, <3>2
  <2>2. CASE ~EjecutarLinea(e)
    BY <1>1, <2>2 DEF PasoEsi, ConectarPlanificador, ConectarCoordinador, OperacionHecha,
       OperacionBloqueada, Abortar, Salir, TypeOK, TypeOKRed, TypeOKEsi
  <2> QED BY <2>1, <2>2
<1>7. Sin(esi_plan'[e], {24, 25})
  BY <1>2, <1>4, <1>5, CanalCabecera
<1>8. Sin(esi_coord'[e], {Cierre})
  <2>1. ASSUME NEW id \in {20, 25} PROVE Sin(Cabecera(esi_coord[e], id), {Cierre})
    BY <1>2, <1>4, CanalCabecera DEF Cierre
  <2>2. ASSUME NEW id \in 21..23, NEW k \in Claves PROVE Sin(Con(esi_coord[e], id, k), {Cierre})
    <3>1. id \in Nat /\ id \notin {Cierre} /\ k \in Claves \cup {SinClave}
      BY DEF Cierre
    <3> QED BY <1>2, <1>4, <3>1, CanalCon
  <2> QED BY <1>4, <1>6, <2>1, <2>2
<1> QED BY <1>1, <1>4, <1>7, <1>8

LEMMA PasoCierre ==
  ASSUME TypeOK, CierreAlFinal, [Next]_vars
  PROVE  CierreAlFinal'
<1> SUFFICES ASSUME NEW e \in Esis, pc_esi'[e] # "fin"
             PROVE  pc_he'[e] # "fin" /\ Sin(esi_coord'[e], {Cierre}) /\ Sin(esi_plan'[e], {24, 25})
  BY DEF CierreAlFinal
<1>1. esi_coord[e] \in Canal /\ esi_plan[e] \in Canal
  BY CanalTipo DEF TypeOK
<1>2. CASE EsiActua(e)
  BY <1>2, CierreEsi
<1>3. ASSUME pc_esi'[e] = pc_esi[e],
             pc_he'[e] = pc_he[e] \/ (pc_he'[e] # "fin" \/ Llega(esi_coord[e], {Cierre})),
             esi_coord'[e] = esi_coord[e] \/ (esi_coord[e] # <<>> /\ esi_coord'[e] = Tail(esi_coord[e])),
             esi_plan'[e] = esi_plan[e] \/ (esi_plan[e] # <<>> /\ esi_plan'[e] = Tail(esi_plan[e]))
      PROVE  pc_he'[e] # "fin" /\ Sin(esi_coord'[e], {Cierre}) /\ Sin(esi_plan'[e], {24, 25})
  <2>1. pc_he[e] # "fin" /\ Sin(esi_coord[e], {Cierre}) /\ Sin(esi_plan[e], {24, 25})
    BY <1>3 DEF CierreAlFinal
  <2>2. pc_he'[e] # "fin"
    BY <1>1, <1>3, <2>1, CanalResto DEF Llega
  <2>3. Sin(esi_coord'[e], {Cierre}) /\ Sin(esi_plan'[e], {24, 25})
    BY <1>1, <1>3, <2>1, CanalResto
  <2> QED BY <2>2, <2>3
<1>4. ASSUME NEW f \in Esis \ {e}, EsiActua(f) \/ CoordActua(PasoHostEsi(f))
      PROVE  MismosCanales(e)
  BY <1>4, EsiAjeno, HostEsiAjeno
<1>5. CASE \E f \in Esis \ {e} : EsiActua(f) \/ CoordActua(PasoHostEsi(f))
  BY <1>3, <1>4, <1>5 DEF MismosCanales
<1>6. CASE CoordActua(PasoHostEsi(e))
  <2>1. pc_esi' = pc_esi /\ esi_plan' = esi_plan
    BY <1>6, HostEsiAjeno DEF varsEsi
  <2>2. /\ pc_he'[e] = pc_he[e] \/ (pc_he'[e] # "fin" \/ Llega(esi_coord[e], {Cierre}))
        /\ esi_coord'[e] = esi_coord[e] \/ (esi_coord[e] # <<>> /\ esi_coord'[e] = Tail(esi_coord[e]))
    BY <1>6 DEF CoordActua, PasoHostEsi, HostEsi, RecibirOperacion, PublicarOperacion,
       AbortarClaveNoPedida, AbortarLineaInvalida, OperacionRechazada, PedirInstancia, InstanciaCaida,
       ConfirmarOperacion, DesconectarEsi, Llega, varsRed, hilosEsi, TypeOK, TypeOKRed, TypeOKCoord
  <2> QED BY <1>3, <2>1, <2>2
<1>7. CASE CoordActua(PasoHostScheduler \/ PasoHostInstance)
  <2>1. UNCHANGED <<pc_esi, pc_he, esi_coord, esi_plan>>
    BY <1>7 DEF CoordActua, PasoHostScheduler, PasoHostInstance, EsperarEsi, AvisarInicio, RecibirTurno,
       ConsultarPlanificador, AvisarAborto, RecibirRespuestaPlan, SimularStatus, PedirStatus,
       ResponderStatus, HostInstance, AtenderPedido, TerminarPedido, hilosEsi, varsRed, varsEsi
  <2> QED BY <1>3, <2>1
<1>8. CASE PlanActua(PasoPlan)
  <2>1. UNCHANGED <<pc_esi, pc_he>>
    BY <1>8 DEF PlanActua, varsEsi, varsCoord, hilosEsi
  <2>2. CASE PasoMain \/ PasoConsola
    <3>1. UNCHANGED <<esi_coord, esi_plan>>
      BY <2>2 DEF PasoMain, EsperaInicial, WaitStart, TomarEsi, TomarDeListaVacia, Ciclo, Pausa, Ejecutar,
         Preguntas, ConcederClave, RechazarClave, LiberarClave, ConsultarSet, AvisoAborto,
         PreguntaInvalida, EncolarEsi, DesbloquearEspera, DesbloquearNadie, RecibirRespuesta, Terminar,
         LiberarUna, FinLiberacion, Esperar, Ordenar, varsRed, PasoConsola, ConsolaExit, ConsolaPause,
         ConsolaResume, ConsolaBlock, ConsolaUnlock, ConsolaDesbloqueo, ConsolaStatus,
         ConsolaRecibeStatus, ConsolaRecibeDatos
    <3> QED BY <1>3, <2>1, <3>1
  <2>3. CASE PasoHostConnections
    <3>1. /\ esi_coord' = esi_coord
          /\ esi_plan'[e] = esi_plan[e] \/ (esi_plan[e] # <<>> /\ esi_plan'[e] = Tail(esi_plan[e]))
      BY <2>3 DEF PasoHostConnections, NuevoEsi, RespuestaEsi, AvisarNuevoEsi, Llega, varsRed, TypeOK,
         TypeOKRed
    <3> QED BY <1>3, <2>1, <3>1
  <2> QED BY <1>8, <2>2, <2>3 DEF PlanActua, PasoPlan
<1>9. CASE UNCHANGED vars
  <2>1. UNCHANGED <<pc_esi, pc_he, esi_coord, esi_plan>>
    BY <1>9 DEF vars, varsRed, varsEsi, varsCoord, hilosEsi
  <2> QED BY <1>3, <2>1
<1>10. CASE Next
  <2>1. \/ \E f \in Esis : EsiActua(f) \/ CoordActua(PasoHostEsi(f))
        \/ CoordActua(PasoHostScheduler \/ PasoHostInstance)
        \/ PlanActua(PasoPlan)
    BY <1>10 DEF Next, PasoCoord, CoordActua
  <2> QED BY <1>2, <1>5, <1>6, <1>7, <1>8, <2>1
<1> QED BY <1>9, <1>10

-----------------------------------------------------------------------------
(* Ownership is kept by every step.                                        *)

\* No key gains an owner, nobody is let go and nothing is forgotten.
LEMMA PropiedadMarco ==
  ASSUME DuenioUnico, Recordadas,
         claves_bloqueadas_por_esis' \subseteq claves_bloqueadas_por_esis,
         \A e \in Esis : Permiso(e)' => Permiso(e) /\ funcion'[e] = funcion[e] /\ message' = message,
         \A e \in Esis : pc_he'[e] # "fin" => pc_he[e] # "fin",
         \A e \in Esis, k \in Claves :
           <<e, k>> \in claves_bloqueadas_por_esis /\ PorRecordar(e, k) /\ pc_he'[e] # "fin" =>
             PorRecordar(e, k)'
  PROVE  DuenioUnico' /\ Recordadas'
<1>1. DuenioUnico'
  BY DEF DuenioUnico
<1>2. Recordadas'
  BY DEF Recordadas
<1> QED BY <1>1, <1>2

\* Steps outside the Coordinador that send it nothing.
LEMMA PropiedadSinCoord ==
  ASSUME DuenioUnico, Recordadas, UNCHANGED <<varsCoord, plan_coord>>,
         claves_bloqueadas_por_esis' \subseteq claves_bloqueadas_por_esis
  PROVE  DuenioUnico' /\ Recordadas'
<1>1. UNCHANGED <<pc_he, pc_hs, plan_coord, scheduler_response, key_is_not_blocked, funcion, message,
                  blocked_keys>>
  BY DEF varsCoord, hilosEsi, semaforosCoord
<1>2. \A e \in Esis : Permiso(e)' <=> Permiso(e)
  BY <1>1 DEF Permiso
<1>3. \A e \in Esis, k \in Claves : PorRecordar(e, k) => PorRecordar(e, k)'
  BY <1>1, <1>2 DEF PorRecordar
<1> QED BY <1>1, <1>2, <1>3, PropiedadMarco

\* Who is at rest has no leave to go on.
LEMMA SinPermiso ==
  ASSUME NEW e, Reposo(e)
  PROVE  ~Permiso(e)
BY DEF Reposo, Callado, Permiso

LEMMA HostEsiPropiedad ==
  ASSUME TypeOK, UnTurno, UnTurno', DuenioUnico, Recordadas, NEW f \in Esis,
         CoordActua(PasoHostEsi(f))
  PROVE  DuenioUnico' /\ Recordadas'
<1>1. /\ \A g \in Esis \ {f} : pc_he'[g] = pc_he[g] /\ funcion'[g] = funcion[g]
      /\ UNCHANGED <<plan_coord, pc_hs, claves_bloqueadas_por_esis>>
  BY HostEsiAjeno DEF MismosCanales, varsPlan, listas
<1>2. PasoHostEsi(f)
  BY DEF CoordActua
<1>3. key_is_not_blocked' = key_is_not_blocked
  BY <1>2 DEF PasoHostEsi, HostEsi, RecibirOperacion, PublicarOperacion, AbortarClaveNoPedida,
     AbortarLineaInvalida, OperacionRechazada, PedirInstancia, InstanciaCaida, ConfirmarOperacion,
     DesconectarEsi
<1>4. /\ DOMAIN pc_he = Esis /\ DOMAIN blocked_keys = Esis /\ DOMAIN funcion = Esis
      /\ funcion[f] \in {"GET", "SET", "STORE"} /\ \A e \in Esis : blocked_keys[e] \subseteq Claves
  BY DEF TypeOK, TypeOKCoord
\* f is not in the middle of an operation.
<1>5. CASE HostEsi(f) \/ RecibirOperacion(f) \/ AbortarLineaInvalida(f) \/ DesconectarEsi(f)
  <2>1. /\ pc_he[f] \in {"inicio", "recv"} /\ pc_he'[f] \in {"recv", "preparada", "fin"}
        /\ pc_he'[f] # "preparada" => message' = message
        /\ scheduler_response' = scheduler_response
        /\ pc_he'[f] # "fin" => blocked_keys'[f] = blocked_keys[f]
        /\ \A g \in Esis \ {f} : blocked_keys'[g] = blocked_keys[g]
    BY <1>4, <1>5 DEF HostEsi, RecibirOperacion, AbortarLineaInvalida, DesconectarEsi, hilosEsi,
       semaforosCoord
  <2>2. ~Permiso(f) /\ ~Permiso(f)'
    BY <2>1 DEF Permiso
  <2>3. \A g \in Esis \ {f} : Permiso(g)' <=> Permiso(g)
    BY <1>1, <1>3, <2>1 DEF Permiso
  <2>4. \A g \in Esis \ {f} : Permiso(g) => message' = message
    <3> SUFFICES ASSUME NEW g \in Esis \ {f}, Permiso(g), pc_he'[f] = "preparada" PROVE FALSE
      BY <2>1
    <3>1. Reposo(g)'
      <4>1. ~Reposo(f)'
        BY DEF Reposo, Callado
      <4> QED BY <4>1 DEF UnTurno
    <3> QED BY <1>1, <3>1 DEF Reposo, Callado, Permiso
  <2> QED BY <1>1, <2>1, <2>2, <2>3, <2>4, PropiedadMarco DEF PorRecordar
\* f is, and so nobody else is.
<1>6. ASSUME pc_he[f] \in {"preparada", "planificador", "instancia"}
      PROVE  /\ EnHost(f, pc_he[f])
             /\ pc_he[f] = "preparada" => Antes(f)
             /\ pc_he[f] = "planificador" => Durante(f)
             /\ \A g \in Esis \ {f} : ~Permiso(g) /\ ~Permiso(g)'
  BY <1>1, <1>6, TurnoDeHost DEF Reposo, Callado, Permiso
\* An operation that was not let go on: it is only just published, or it is over.
<1>7. ASSUME pc_he[f] \in {"preparada", "planificador", "instancia"}, ~Permiso(f)', message' = message,
             pc_he'[f] # "fin", blocked_keys' = blocked_keys, ~Permiso(f) \/ funcion[f] # "GET"
      PROVE  DuenioUnico' /\ Recordadas'
  BY <1>1, <1>6, <1>7, PropiedadMarco DEF PorRecordar
<1>8. CASE PublicarOperacion(f) \/ AbortarClaveNoPedida(f)
  <2>1. /\ pc_he[f] = "preparada" /\ pc_he'[f] \in {"planificador", "recv"}
        /\ scheduler_response' = scheduler_response /\ message' = message
        /\ blocked_keys' = blocked_keys
    BY <1>4, <1>8 DEF PublicarOperacion, AbortarClaveNoPedida
  <2>2. pc_hs # "respuesta" /\ scheduler_response = 0
    BY <1>6, <2>1 DEF Antes, SinPregunta, Posts
  <2>3. ~Permiso(f) /\ ~Permiso(f)'
    BY <1>1, <2>1, <2>2 DEF Permiso
  <2> QED BY <1>7, <2>1, <2>3
<1>9. CASE OperacionRechazada(f) \/ InstanciaCaida(f)
  <2>1. /\ pc_he[f] = "planificador" /\ pc_he'[f] = "recv" /\ scheduler_response > 0
        /\ ~key_is_not_blocked \/ funcion[f] # "GET"
        /\ message' = message /\ blocked_keys' = blocked_keys
    BY <1>4, <1>9 DEF OperacionRechazada, InstanciaCaida
  <2>2. pc_hs # "respuesta"
    BY <1>6, <2>1 DEF Durante, SinPregunta, Consultada, Respondida, Cerrada, Posts
  <2>3. ~Permiso(f)' /\ (~Permiso(f) \/ funcion[f] # "GET")
    BY <2>1, <2>2 DEF Permiso
  <2> QED BY <1>7, <2>1, <2>3
<1>10. CASE PedirInstancia(f)
  <2>1. /\ pc_he[f] = "planificador" /\ pc_he'[f] = "instancia" /\ scheduler_response > 0
        /\ key_is_not_blocked /\ message' = message /\ blocked_keys' = blocked_keys
        /\ funcion' = funcion
    BY <1>4, <1>10 DEF PedirInstancia
  <2>2. scheduler_response = 1
    BY <1>6, <2>1 DEF Durante, Posts
  <2>3. Permiso(f) /\ Permiso(f)'
    BY <2>1, <2>2 DEF Permiso
  <2> QED BY <1>1, <1>6, <2>1, <2>3, PropiedadMarco DEF PorRecordar
\* STORE forgets the key: the Planificador has taken it away already.
<1>11. CASE ConfirmarOperacion(f)
  <2>1. /\ pc_he[f] = "instancia" /\ pc_he'[f] = "recv" /\ message' = message
        /\ blocked_keys'[f] = CASE funcion[f] = "GET" -> blocked_keys[f] \cup {message}
                                [] funcion[f] = "STORE" -> blocked_keys[f] \ {message}
                                [] OTHER -> blocked_keys[f]
        /\ \A g \in Esis \ {f} : blocked_keys'[g] = blocked_keys[g]
    BY <1>4, <1>11 DEF ConfirmarOperacion
  <2>2. Permiso(f) /\ ~Permiso(f)'
    BY <2>1 DEF Permiso
  <2>3. funcion[f] = "STORE" => <<f, message>> \notin claves_bloqueadas_por_esis
    BY <2>2 DEF DuenioUnico
  <2>4. ASSUME NEW k \in Claves, <<f, k>> \in claves_bloqueadas_por_esis, PorRecordar(f, k)
        PROVE  k \in blocked_keys'[f]
    BY <1>4, <2>1, <2>3, <2>4 DEF PorRecordar
  <2> QED BY <1>1, <1>6, <2>1, <2>2, <2>4, PropiedadMarco DEF PorRecordar
<1> QED BY <1>2, <1>5, <1>8, <1>9, <1>10, <1>11 DEF PasoHostEsi

LEMMA HostSchedulerPropiedad ==
  ASSUME TypeOK, UnTurno, DuenioUnico, Recordadas, CoordActua(PasoHostScheduler)
  PROVE  DuenioUnico' /\ Recordadas'
<1>1. PasoHostScheduler /\ claves_bloqueadas_por_esis' = claves_bloqueadas_por_esis
  BY DEF CoordActua, varsPlan, listas
<1>2. \/ EsperarEsi \/ AvisarInicio \/ RecibirTurno \/ ConsultarPlanificador \/ AvisarAborto
      \/ RecibirRespuestaPlan
  BY <1>1, NadiePideStatus DEF PasoHostScheduler
<1>3. UNCHANGED <<message, pc_he, funcion, blocked_keys>>
  BY <1>2 DEF EsperarEsi, AvisarInicio, RecibirTurno, ConsultarPlanificador, AvisarAborto,
     RecibirRespuestaPlan, hilosEsi
<1>4. ASSUME NEW e \in Esis
      PROVE  Permiso(e)' <=> Permiso(e)
  <2>1. CASE pc_he[e] # "planificador"
    BY <1>3, <2>1 DEF Permiso
  <2>2. CASE pc_he[e] = "planificador"
    <3>1. Durante(e)
      BY <2>2, TurnoDeHost
    <3>2. CASE EsperarEsi \/ AvisarInicio \/ RecibirTurno \/ AvisarAborto
      BY <1>3, <2>2, <3>2 DEF EsperarEsi, AvisarInicio, RecibirTurno, AvisarAborto, Permiso,
         semaforosCoord
    <3>3. CASE ConsultarPlanificador
      <4>1. plan_coord = <<>>
        BY <3>1, <3>3 DEF ConsultarPlanificador, Durante, SinPregunta, Consultada, Respondida, Cerrada
      <4> QED BY <1>3, <2>2, <3>3, <4>1 DEF ConsultarPlanificador, Permiso
    <3>4. CASE RecibirRespuestaPlan
      <4>1. Respondida /\ Posts(0, 0)
        BY <3>1, <3>4 DEF RecibirRespuestaPlan, Durante, SinPregunta, Consultada, Cerrada
      <4>2. plan_coord # <<>> /\ Head(plan_coord).id \in {31, 32, 34, 35}
        BY <4>1 DEF Respondida, Uno
      <4>3. /\ pc_hs = "respuesta" /\ pc_hs' = "recv" /\ scheduler_response' = 1
            /\ key_is_not_blocked' <=> Head(plan_coord).id \in {31, 34}
        BY <3>4, <4>1, <4>2 DEF RecibirRespuestaPlan, Posts
      <4>4. scheduler_response = 0
        BY <4>1 DEF Posts
      <4> QED BY <1>3, <2>2, <4>2, <4>3, <4>4 DEF Permiso
    <3> QED BY <1>2, <3>2, <3>3, <3>4
  <2> QED BY <2>1, <2>2
<1> QED BY <1>1, <1>3, <1>4, PropiedadMarco DEF PorRecordar

LEMMA HostInstancePropiedad ==
  ASSUME TypeOK, UnTurno, DuenioUnico, Recordadas, CoordActua(PasoHostInstance)
  PROVE  DuenioUnico' /\ Recordadas'
<1>1. PasoHostInstance /\ claves_bloqueadas_por_esis' = claves_bloqueadas_por_esis
  BY DEF CoordActua, varsPlan, listas
<1>2. UNCHANGED <<pc_he, funcion, blocked_keys, pc_hs, plan_coord, scheduler_response,
                  key_is_not_blocked>>
  BY <1>1 DEF PasoHostInstance, HostInstance, AtenderPedido, TerminarPedido, hilosEsi, varsRed
<1>3. message' = message
  <2>1. CASE TerminarPedido
    <3>1. PICK e \in Esis : EnInstancia(e)
      BY <2>1, TurnoDeInstancia DEF TerminarPedido
    <3>2. atendido.op = funcion[e]
      BY <2>1, <3>1 DEF TerminarPedido, EnInstancia, UnaInstancia, EnHost
    <3>3. funcion[e] # "STATUS"
      BY DEF TypeOK, TypeOKCoord
    <3> QED BY <2>1, <3>2, <3>3 DEF TerminarPedido
  <2> QED BY <1>1, <2>1 DEF PasoHostInstance, HostInstance, AtenderPedido
<1>4. \A e \in Esis : Permiso(e)' <=> Permiso(e)
  BY <1>2 DEF Permiso
<1> QED BY <1>1, <1>2, <1>3, <1>4, PropiedadMarco DEF PorRecordar

-----------------------------------------------------------------------------
(* A step is a step of one thread.                                         *)

LEMMA Hilos ==
  ASSUME [Next]_vars
  PROVE  \/ \E f \in Esis : EsiActua(f) \/ CoordActua(PasoHostEsi(f))
         \/ CoordActua(PasoHostScheduler) \/ CoordActua(PasoHostInstance)
         \/ PlanActua(PasoMain) \/ PlanActua(PasoHostConnections) \/ PlanActua(PasoConsola)
         \/ UNCHANGED vars
BY DEF Next, PlanActua, PasoPlan, CoordActua, PasoCoord

LEMMA AlgoritmoFijo ==
  ASSUME [Next]_vars
  PROVE  algorithm' = algorithm
<1>1. ASSUME NEW f \in Esis, EsiActua(f) \/ CoordActua(PasoHostEsi(f)) PROVE algorithm' = algorithm
  BY <1>1 DEF EsiActua, CoordActua, varsPlan
<1>2. CASE CoordActua(PasoHostScheduler) \/ CoordActua(PasoHostInstance) \/ UNCHANGED vars
  BY <1>2 DEF CoordActua, varsPlan, vars
<1>3. CASE PlanActua(PasoMain)
  BY <1>3 DEF PlanActua, PasoMain, EsperaInicial, WaitStart, TomarEsi, TomarDeListaVacia, Ciclo, Pausa,
     Ejecutar, Preguntas, ConcederClave, RechazarClave, LiberarClave, ConsultarSet, AvisoAborto,
     PreguntaInvalida, EncolarEsi, DesbloquearEspera, DesbloquearNadie, RecibirRespuesta, Terminar,
     LiberarUna, FinLiberacion, Esperar, Ordenar
<1>4. CASE PlanActua(PasoHostConnections) \/ PlanActua(PasoConsola)
  BY <1>4 DEF PlanActua, PasoHostConnections, NuevoEsi, RespuestaEsi, AvisarNuevoEsi, PasoConsola,
     ConsolaExit, ConsolaPause, ConsolaResume, ConsolaBlock, ConsolaUnlock, ConsolaDesbloqueo,
     ConsolaStatus, ConsolaRecibeStatus, ConsolaRecibeDatos
<1> QED BY <1>1, <1>2, <1>3, <1>4, Hilos

\* check_key gives a key to un_esi when nobody has it; unlock_key takes it away.
LEMMA MainPropiedad ==
  ASSUME IInv, UnTurno, algorithm # "SJFCD", DuenioUnico, Recordadas, PlanActua(PasoMain)
  PROVE  DuenioUnico' /\ Recordadas'
<1>1. UNCHANGED <<pc_he, pc_hs, scheduler_response, key_is_not_blocked, funcion, message, blocked_keys>>
  BY DEF PlanActua, varsCoord, hilosEsi, semaforosCoord
\* The question of an operation: nobody has been let go yet.
<1>3. ASSUME pc_plan = "pregunta", Llega(coord_plan, {31, 32, 33})
      PROVE  /\ un_esi \in Esis /\ pc_he[un_esi] = "planificador" /\ pc_hs = "respuesta"
             /\ Head(coord_plan).clave = message /\ Head(coord_plan).id = PreguntaDe(funcion[un_esi])
             /\ plan_coord = <<>> /\ scheduler_response = 0
             /\ \A e \in Esis : ~Permiso(e)
             /\ \A e \in Esis \ {un_esi} : ~Permiso(e)'
  <2>1. PICK e \in Esis :
          /\ Turno(e) /\ (\A f \in Esis \ {e} : Reposo(f)) /\ Posts(0, 0)
          /\ Durante(e) /\ Consultada(e) /\ Head(coord_plan).id = PreguntaDe(funcion[e])
    BY <1>3, TurnoDePregunta DEF IInv, Llega
  <2>2. e = un_esi
    BY <2>1 DEF Turno
  <2>3. /\ pc_he[e] = "planificador" /\ pc_hs = "respuesta" /\ plan_coord = <<>>
        /\ Head(coord_plan).clave = message /\ scheduler_response = 0
    BY <2>1 DEF Durante, EnHost, Consultada, Posts
  <2>4. ~Permiso(e)
    BY <2>3 DEF Permiso
  <2>5. \A f \in Esis \ {e} : ~Permiso(f) /\ ~Permiso(f)'
    BY <1>1, <2>1 DEF Reposo, Callado, Permiso
  <2> QED BY <2>1, <2>2, <2>3, <2>4, <2>5
\* What un_esi is told.
<1>4. ASSUME pc_plan = "pregunta", Llega(coord_plan, {31, 32, 33}),
             NEW id \in {31, 32, 34, 35}, plan_coord' = Cabecera(plan_coord, id), un_esi' = un_esi
      PROVE  Permiso(un_esi)' <=> id \in {31, 34}
  <2>1. plan_coord' # <<>> /\ Head(plan_coord').id = id
    BY <1>3, <1>4, CanalPrimero
  <2> QED BY <1>1, <1>3, <1>4, <2>1 DEF Permiso
<1>5. CASE ConcederClave
  <2> DEFINE k == Head(coord_plan).clave
  <2>1. /\ pc_plan = "pregunta" /\ Llega(coord_plan, {31}) /\ PuedeTomar(k)
        /\ plan_coord' = Cabecera(plan_coord, 31) /\ un_esi' = un_esi
        /\ claves_bloqueadas_por_esis' = claves_bloqueadas_por_esis \cup {<<un_esi, k>>}
    BY <1>5 DEF ConcederClave
  <2>2. Llega(coord_plan, {31, 32, 33}) /\ Head(coord_plan).id = 31
    BY <2>1 DEF Llega
  <2>3. k = message /\ Permiso(un_esi)' /\ un_esi \in Esis /\ PreguntaDe(funcion[un_esi]) = 31
    BY <1>3, <1>4, <2>1, <2>2
  <2>4. funcion[un_esi] = "GET"
    BY <2>3 DEF PreguntaDe, IInv, TypeOK, TypeOKCoord
  <2>5. \A f \in Esis : <<f, k>> \notin claves_bloqueadas_por_esis
    BY <2>1 DEF PuedeTomar, IsKeyBlocked, IInv, SoloConocidas
  <2> HIDE DEF k
  <2>6. DuenioUnico'
    BY <1>1, <1>3, <2>1, <2>2, <2>3, <2>4, <2>5 DEF DuenioUnico
  <2>7. ASSUME NEW e \in Esis, NEW q \in Claves, <<e, q>> \in claves_bloqueadas_por_esis', pc_he'[e] # "fin"
        PROVE  PorRecordar(e, q)'
    <3>1. CASE <<e, q>> \in claves_bloqueadas_por_esis
      BY <1>1, <1>3, <2>1, <2>2, <2>7, <3>1 DEF Recordadas, PorRecordar
    <3>2. CASE <<e, q>> = <<un_esi, k>>
      <4>1. e = un_esi /\ q = k
        BY <3>2
      <4>2. Permiso(e)'
        BY <2>1, <2>3, <4>1 DEF Permiso
      <4> QED BY <1>1, <2>3, <2>4, <4>1, <4>2 DEF PorRecordar
    <3> QED BY <2>1, <2>7, <3>1, <3>2
  <2> QED BY <2>6, <2>7 DEF Recordadas
<1>6. CASE RechazarClave
  <2>1. /\ pc_plan = "pregunta" /\ Llega(coord_plan, {31, 32, 33})
        /\ plan_coord' = Cabecera(plan_coord, 32) /\ un_esi' = un_esi
        /\ claves_bloqueadas_por_esis' = claves_bloqueadas_por_esis
    BY <1>6 DEF RechazarClave, Llega, listas
  <2> QED BY <1>1, <1>3, <1>4, <2>1, PropiedadMarco DEF PorRecordar
<1>7. CASE LiberarClave \/ ConsultarSet
  <2> DEFINE k == Head(coord_plan).clave
  <2>1. /\ pc_plan = "pregunta" /\ Llega(coord_plan, {31, 32, 33}) /\ Head(coord_plan).id \in {32, 33}
        /\ \/ plan_coord' = Cabecera(plan_coord, 34) /\ EsiHasKey(k)
           \/ plan_coord' = Cabecera(plan_coord, 35)
        /\ claves_bloqueadas_por_esis' \subseteq claves_bloqueadas_por_esis /\ un_esi' = un_esi
        /\ Head(coord_plan).id = 32 /\ EsiHasKey(k) => <<un_esi, k>> \notin claves_bloqueadas_por_esis'
    BY <1>7 DEF LiberarClave, ConsultarSet, Llega, listas
  <2>2. k = message /\ un_esi \in Esis /\ PreguntaDe(funcion[un_esi]) \in {32, 33}
        /\ PreguntaDe(funcion[un_esi]) = Head(coord_plan).id
    BY <1>3, <2>1
  <2>3. funcion[un_esi] # "GET" /\ (Head(coord_plan).id # 32 => funcion[un_esi] # "STORE")
    BY <2>2 DEF PreguntaDe
  <2>4. \A f \in Esis : EsiHasKey(k) /\ <<f, k>> \in claves_bloqueadas_por_esis => f = un_esi
    BY <2>2 DEF EsiHasKey, IInv, ClaveDeUnSoloEsi
  <2>5. Permiso(un_esi)' => EsiHasKey(k)
    BY <1>4, <2>1
  <2> HIDE DEF k
  <2>6. DuenioUnico'
    BY <1>1, <1>3, <2>1, <2>2, <2>3, <2>4, <2>5 DEF DuenioUnico
  <2>7. Recordadas'
    BY <1>1, <1>3, <2>1 DEF Recordadas, PorRecordar
  <2> QED BY <2>6, <2>7
<1>8. CASE Ejecutar
  <2>1. pc_plan = "ejecutar" /\ claves_bloqueadas_por_esis' = claves_bloqueadas_por_esis
    BY <1>8 DEF Ejecutar, listas
  <2>2. \A e \in Esis : Reposo(e)
    BY <2>1 DEF UnTurno, Turno, Antes, Durante, EnInstancia, Despues, SinPregunta, Consultada,
       Respondida, Cerrada, AvisoDeAborto, Abortada, Contesto
  <2>3. \A e \in Esis : ~Permiso(e) /\ ~Permiso(e)'
    BY <1>1, <2>2 DEF Reposo, Callado, Permiso
  <2> QED BY <1>1, <2>1, <2>3, PropiedadMarco DEF PorRecordar
<1>9. CASE ~(ConcederClave \/ RechazarClave \/ LiberarClave \/ ConsultarSet \/ Ejecutar)
  <2>1. plan_coord' = plan_coord /\ claves_bloqueadas_por_esis' \subseteq claves_bloqueadas_por_esis
    BY <1>9 DEF PlanActua, PasoMain, EsperaInicial, WaitStart, TomarEsi, TomarDeListaVacia, Ciclo, Pausa,
       Preguntas, AvisoAborto, PreguntaInvalida, EncolarEsi, DesbloquearEspera, DesbloquearNadie,
       RecibirRespuesta, Terminar, LiberarUna, FinLiberacion, Esperar, Ordenar, listas, varsRed
  <2> QED BY <2>1, PropiedadSinCoord DEF PlanActua
<1> QED BY <1>5, <1>6, <1>7, <1>8, <1>9

LEMMA PasoPropiedad ==
  ASSUME "STATUS" \notin Comandos, IInv, UnTurno, UnTurno', Propiedad, [Next]_vars
  PROVE  Propiedad'
<1> SUFFICES ASSUME algorithm' # "SJFCD"
             PROVE  DuenioUnico' /\ Recordadas'
  BY DEF Propiedad
<1>1. TypeOK
  BY DEF IInv
<1>2. algorithm' = algorithm
  BY AlgoritmoFijo
<1>3. DuenioUnico /\ Recordadas
  BY <1>2 DEF Propiedad
<1>4. ASSUME NEW f \in Esis, EsiActua(f) PROVE DuenioUnico' /\ Recordadas'
  <2>1. UNCHANGED <<varsCoord, plan_coord, claves_bloqueadas_por_esis>>
    BY <1>1, <1>4, EsiAjeno DEF varsPlan, listas
  <2> QED BY <1>3, <2>1, PropiedadSinCoord
<1>5. ASSUME NEW f \in Esis, CoordActua(PasoHostEsi(f)) PROVE DuenioUnico' /\ Recordadas'
  BY <1>1, <1>3, <1>5, HostEsiPropiedad
<1>6. CASE CoordActua(PasoHostScheduler) \/ CoordActua(PasoHostInstance)
  BY <1>1, <1>3, <1>6, HostSchedulerPropiedad, HostInstancePropiedad
<1>7. CASE PlanActua(PasoMain)
  BY <1>2, <1>3, <1>7, MainPropiedad
<1>8. CASE PlanActua(PasoHostConnections)
  <2>1. UNCHANGED <<varsCoord, plan_coord, claves_bloqueadas_por_esis>>
    BY <1>8 DEF PlanActua, PasoHostConnections, NuevoEsi, RespuestaEsi, AvisarNuevoEsi, varsRed, listas
  <2> QED BY <1>3, <2>1, PropiedadSinCoord
<1>9. CASE PlanActua(PasoConsola)
  <2>1. UNCHANGED <<varsCoord, plan_coord>> /\ claves_bloqueadas_por_esis' \subseteq claves_bloqueadas_por_esis
    BY <1>9 DEF PlanActua, PasoConsola, ConsolaExit, ConsolaPause, ConsolaResume, ConsolaBlock,
       ConsolaUnlock, ConsolaDesbloqueo, ConsolaStatus, Teclear, ConsolaRecibeStatus,
       ConsolaRecibeDatos, varsRed, listas
  <2> QED BY <1>3, <2>1, PropiedadSinCoord
<1>10. CASE UNCHANGED vars
  <2>1. UNCHANGED <<varsCoord, plan_coord, claves_bloqueadas_por_esis>>
    BY <1>10 DEF vars, varsRed, varsPlan, listas
  <2> QED BY <1>3, <2>1, PropiedadSinCoord
<1> QED BY <1>4, <1>5, <1>6, <1>7, <1>8, <1>9, <1>10, Hilos

-----------------------------------------------------------------------------
(* The theorems about ownership.                                           *)

LEMMA InicioPropiedad == Init => CierreAlFinal /\ Propiedad
<1> SUFFICES ASSUME Init PROVE CierreAlFinal /\ Propiedad
  OBVIOUS
<1>1. CierreAlFinal
  BY CanalVacio DEF Init, InitRed, InitCoord, CierreAlFinal
<1>2. \A e \in Esis : ~Permiso(e)
  BY DEF Init, InitCoord, Permiso
<1>3. claves_bloqueadas_por_esis = {}
  BY DEF Init, InitPlan
<1> QED BY <1>1, <1>2, <1>3 DEF Propiedad, DuenioUnico, Recordadas

\* Who owns a key is known to both processes, but for what is on its way.
THEOREM Duenios ==
  ASSUME "STATUS" \notin Comandos
  PROVE  Spec => [](CierreAlFinal /\ Propiedad)
<1>1. Init => CierreAlFinal /\ Propiedad
  BY InicioPropiedad
<1>2. IInv /\ UnTurno /\ UnTurno' /\ CierreAlFinal /\ Propiedad /\ [Next]_vars =>
        (CierreAlFinal /\ Propiedad)'
  BY PasoCierre, PasoPropiedad DEF IInv
<1> QED BY <1>1, <1>2, Invariante, UnSoloTurno, PTL DEF Spec

\* While an Instance writes or stores a key for an ESI nobody else owns it,
\* although unlock_key gives the key up before the Instance has stored it.
THEOREM Escritura ==
  ASSUME "STATUS" \notin Comandos
  PROVE  Spec => [](algorithm # "SJFCD" => EscrituraExclusiva)
<1>1. UnTurno /\ Propiedad => (algorithm # "SJFCD" => EscrituraExclusiva)
  <2> SUFFICES ASSUME UnTurno, Propiedad, algorithm # "SJFCD",
                      NEW e \in Esis, atendido # Nadie, pc_he[e] = "instancia",
                      NEW f \in Esis, <<f, atendido.clave>> \in claves_bloqueadas_por_esis
               PROVE  f = e
    BY DEF EscrituraExclusiva
  <2>1. EnInstancia(e)
    BY TurnoDeHost
  <2>2. atendido.clave = message
    BY <2>1 DEF EnInstancia, UnaInstancia
  <2>3. Permiso(e)
    BY DEF Permiso
  <2> QED BY <2>2, <2>3 DEF Propiedad, DuenioUnico
<1> QED BY <1>1, UnSoloTurno, Duenios, PTL

\* An ESI at rest owns no key that its host_esi has forgotten, for which its
\* SET would be aborted.
THEOREM Tablas ==
  ASSUME "STATUS" \notin Comandos
  PROVE  Spec => [](algorithm # "SJFCD" => TablasCoinciden)
<1>1. UnTurno /\ CierreAlFinal /\ Propiedad => (algorithm # "SJFCD" => TablasCoinciden)
  <2> SUFFICES ASSUME UnTurno, CierreAlFinal, Propiedad, algorithm # "SJFCD",
                      NEW e \in Esis, pc_esi[e] = "listo",
                      NEW k \in Claves, <<e, k>> \in claves_bloqueadas_por_esis
               PROVE  k \in blocked_keys[e]
    BY DEF TablasCoinciden
  <2>1. pc_he[e] # "fin"
    BY DEF CierreAlFinal
  <2>2. ~Permiso(e)
    <3> SUFFICES ASSUME Permiso(e) PROVE FALSE
      OBVIOUS
    <3>1. EnHost(e, pc_he[e])
      BY TurnoDeHost DEF Permiso
    <3> QED BY <3>1 DEF EnHost
  <2> QED BY <2>1, <2>2 DEF Propiedad, Recordadas, PorRecordar
<1> QED BY <1>1, UnSoloTurno, Duenios, PTL

-----------------------------------------------------------------------------
(* Who leaves.                                                             *)

\* main has put the ESI of the round on a queue, or is about to.
Encolado == pc_plan = "encolar" \/ (pc_plan = "respuesta" /\ block)

\* The refusal of a GET, on its way from main to the ESI and back.
Rechazada(e) ==
  \/ /\ pc_he[e] = "planificador" /\ funcion[e] = "GET"
     /\ \/ pc_hs = "respuesta" /\ plan_coord # <<>> /\ Head(plan_coord).id \notin {31, 34}
        \/ scheduler_response = 1 /\ ~key_is_not_blocked
  \/ coord_esi[e] # <<>> /\ Head(coord_esi[e]).id = 22
  \/ ~Sin(esi_plan[e], {23})
RechazoEncolado ==
  /\ \A e \in Esis : Rechazada(e) => Encolado
  /\ esi_respuesta = 1 /\ ~respuesta_ok => Encolado

\* fin_de_esi belongs to the round of an ESI that has ended.
FinDeRonda ==
  /\ fin_de_esi =>
       \/ pc_plan \in EnRonda
       \/ pc_plan \in {"terminar", "liberando", "esperar", "ordenar", "elegir", "error", "salida"}
       \/ pc_plan = "ciclo" /\ stop
  /\ fin_de_esi /\ pc_plan \in EnRonda => esi_respuesta = 1 /\ pc_esi[un_esi] = "fin"

\* finish_esi is for an ESI that has ended, or does nothing (`block`).
SaleElQueTermino ==
  /\ pc_plan = "terminar" => block \/ pc_esi[un_esi] = "fin"
  /\ pc_plan = "liberando" => esi_saliente \in Esis /\ pc_esi[esi_saliente] = "fin"

Salida == RechazoEncolado /\ FinDeRonda /\ SaleElQueTermino

\* exit() is for good.
LEMMA FinEstable ==
  ASSUME TypeOK, [Next]_vars, NEW e \in Esis, pc_esi[e] = "fin"
  PROVE  pc_esi'[e] = "fin"
<1>1. ASSUME NEW f \in Esis, EsiActua(f) PROVE pc_esi'[e] = "fin"
  BY <1>1 DEF EsiActua, PasoEsi, ConectarPlanificador, ConectarCoordinador, EjecutarLinea,
     OperacionHecha, OperacionBloqueada, Abortar, Salir, TypeOK, TypeOKEsi
<1>2. CASE \A f \in Esis : ~EsiActua(f)
  BY <1>2 DEF Next, PlanActua, CoordActua, varsEsi, vars
<1> QED BY <1>1, <1>2

\* What main needs to know of an ESI's rest.
LEMMA SinRechazo ==
  ASSUME NEW e, Reposo(e)
  PROVE  ~Rechazada(e)
BY DEF Reposo, Callado, SinMensajes, Rechazada, Sin, Respuestas

\* main and HostConnections do nothing.
LEMMA SalidaMarco ==
  ASSUME IInv, [Next]_vars, Salida,
         UNCHANGED <<pc_plan, block, fin_de_esi, respuesta_ok, esi_respuesta, un_esi, esi_saliente>>,
         stop => stop', \A e \in Esis : Rechazada(e)' => Rechazada(e)
  PROVE  Salida'
<1>1. \A e \in Esis : pc_esi[e] = "fin" => pc_esi'[e] = "fin"
  BY FinEstable DEF IInv
<1>2. pc_plan \in EnRonda \cup {"terminar"} => un_esi \in Esis
  BY DEF IInv, LocalesDeMain, EnRonda, Contesto
<1>3. RechazoEncolado'
  BY DEF Salida, RechazoEncolado, Encolado
<1>4. FinDeRonda'
  BY <1>1, <1>2 DEF Salida, FinDeRonda
<1>5. SaleElQueTermino'
  BY <1>1, <1>2 DEF Salida, SaleElQueTermino
<1> QED BY <1>3, <1>4, <1>5 DEF Salida

LEMMA EsiSalida ==
  ASSUME IInv, UnTurno, Salida, [Next]_vars, NEW f \in Esis, EsiActua(f)
  PROVE  Salida'
<1>1. TypeOK /\ PasoEsi(f)
  BY DEF IInv, EsiActua
<1>2. /\ \A g \in Esis \ {f} : MismosCanales(g)
      /\ UNCHANGED <<varsPlan, varsCoord, plan_coord>>
  BY <1>1, EsiAjeno
<1>3. /\ UNCHANGED <<pc_plan, block, fin_de_esi, respuesta_ok, esi_respuesta, un_esi, esi_saliente, stop>>
      /\ UNCHANGED <<pc_he, funcion, pc_hs, plan_coord, scheduler_response, key_is_not_blocked>>
  BY <1>2 DEF varsPlan, varsCoord, banderas, semaforos, locales, consola, hilosEsi, semaforosCoord
<1>4. \A g \in Esis \ {f} : Rechazada(g)' => Rechazada(g)
  BY <1>2, <1>3 DEF Rechazada, MismosCanales, Sin
<1>5. esi_plan[f] \in Canal
  BY <1>1, CanalTipo DEF TypeOK
<1>6. Rechazada(f)' => Rechazada(f)
  <2>1. CASE ConectarPlanificador(f) \/ ConectarCoordinador(f) \/ EjecutarLinea(f)
    <3>1. /\ coord_esi'[f] = coord_esi[f]
          /\ esi_plan'[f] \in {esi_plan[f], Cabecera(esi_plan[f], 20)}
      BY <1>1, <2>1 DEF ConectarPlanificador, ConectarCoordinador, EjecutarLinea, TypeOK, TypeOKRed
    <3>2. Sin(esi_plan[f], {23}) => Sin(esi_plan'[f], {23})
      BY <1>5, <3>1, CanalCabecera
    <3> QED BY <1>3, <3>1, <3>2 DEF Rechazada
  <2>2. CASE OperacionHecha(f) \/ OperacionBloqueada(f) \/ Abortar(f)
    <3>1. /\ pc_esi[f] = "espera" /\ coord_esi[f] # <<>> /\ coord_esi'[f] = Tail(coord_esi[f])
          /\ \/ Head(coord_esi[f]).id = 22
             \/ \E id \in {22, 24, 25} : esi_plan'[f] = Cabecera(esi_plan[f], id)
      BY <1>1, <2>2 DEF OperacionHecha, OperacionBloqueada, Abortar, Llega, TypeOK, TypeOKRed
    <3>2. Turno(f)
      BY <3>1, TurnoDe DEF Reposo
    <3>3. Contestada(f)
      BY <3>1, <3>2 DEF Turno, Antes, Durante, EnInstancia, Despues, Mandada, Leida, EnHost, Informada,
         Reposo, SinMensajes
    <3>4. pc_he'[f] # "planificador" /\ coord_esi'[f] = <<>>
      BY <1>3, <3>1, <3>3 DEF Contestada, Callado, Uno
    <3>5. CASE Head(coord_esi[f]).id = 22
      BY <3>1, <3>5 DEF Rechazada
    <3>6. CASE \E id \in {22, 24, 25} : esi_plan'[f] = Cabecera(esi_plan[f], id)
      <4>1. Sin(esi_plan[f], {23}) => Sin(esi_plan'[f], {23})
        BY <1>5, <3>6, CanalCabecera
      <4> QED BY <3>4, <4>1 DEF Rechazada
    <3> QED BY <3>1, <3>5, <3>6
  <2> QED BY <1>1, <2>1, <2>2 DEF PasoEsi
<1> QED BY <1>3, <1>4, <1>6, SalidaMarco

LEMMA HostEsiSalida ==
  ASSUME IInv, UnTurno, Salida, [Next]_vars, NEW f \in Esis, CoordActua(PasoHostEsi(f))
  PROVE  Salida'
<1>1. TypeOK /\ PasoHostEsi(f)
  BY DEF IInv, CoordActua
<1>2. /\ \A g \in Esis \ {f} : MismosCanales(g) /\ funcion'[g] = funcion[g]
      /\ UNCHANGED <<varsPlan, plan_coord, pc_hs, esi_plan>>
  BY <1>1, HostEsiAjeno
<1>3. /\ UNCHANGED <<pc_plan, block, fin_de_esi, respuesta_ok, esi_respuesta, un_esi, esi_saliente, stop>>
      /\ key_is_not_blocked' = key_is_not_blocked
  BY <1>1, <1>2 DEF varsPlan, banderas, semaforos, locales, consola, PasoHostEsi, HostEsi,
     RecibirOperacion, PublicarOperacion, AbortarClaveNoPedida, AbortarLineaInvalida,
     OperacionRechazada, PedirInstancia, InstanciaCaida, ConfirmarOperacion, DesconectarEsi
<1>4. \A g \in Esis \ {f} : pc_he[g] = "planificador" => scheduler_response' = scheduler_response
  <2>1. scheduler_response' # scheduler_response => pc_he[f] = "planificador"
    BY <1>1 DEF PasoHostEsi, HostEsi, RecibirOperacion, PublicarOperacion, AbortarClaveNoPedida,
       AbortarLineaInvalida, OperacionRechazada, PedirInstancia, InstanciaCaida, ConfirmarOperacion,
       DesconectarEsi, semaforosCoord
  <2>2. ASSUME NEW g \in Esis \ {f}, pc_he[g] = "planificador" PROVE pc_he[f] # "planificador"
    BY <2>2, TurnoDeHost DEF Reposo, Callado
  <2> QED BY <2>1, <2>2
<1>5. \A g \in Esis \ {f} : Rechazada(g)' => Rechazada(g)
  BY <1>2, <1>3, <1>4 DEF Rechazada, MismosCanales, Sin
<1>6. DOMAIN pc_he = Esis /\ DOMAIN coord_esi = Esis
  BY <1>1 DEF TypeOK, TypeOKRed, TypeOKCoord
<1>7. Rechazada(f)' => Rechazada(f)
  <2>1. CASE HostEsi(f) \/ RecibirOperacion(f) \/ DesconectarEsi(f)
    <3>1. pc_he'[f] # "planificador" /\ coord_esi' = coord_esi
      BY <1>6, <2>1 DEF HostEsi, RecibirOperacion, DesconectarEsi
    <3> QED BY <1>2, <3>1 DEF Rechazada, Sin
  <2>2. CASE PublicarOperacion(f) \/ PedirInstancia(f)
    <3>1. /\ pc_he[f] \in {"preparada", "planificador"} /\ coord_esi' = coord_esi
          /\ \/ pc_he[f] = "preparada" /\ scheduler_response' = scheduler_response
             \/ pc_he'[f] # "planificador"
      BY <1>6, <2>2 DEF PublicarOperacion, PedirInstancia, varsRed
    <3>2. pc_he[f] = "preparada" => pc_hs # "respuesta" /\ scheduler_response = 0
      BY <3>1, TurnoDeHost DEF Antes, SinPregunta, Posts
    <3> QED BY <1>2, <3>1, <3>2 DEF Rechazada, Sin
  <2>3. ASSUME pc_he[f] # "planificador" \/ scheduler_response > 0,
               pc_he'[f] # "planificador", coord_esi[f] = <<>>,
               NEW id \in {22, 23, 24}, coord_esi'[f] = Cabecera(coord_esi[f], id),
               id = 22 => pc_he[f] = "planificador" /\ funcion[f] = "GET" /\ ~key_is_not_blocked
        PROVE  Rechazada(f)' => Rechazada(f)
    <3>1. coord_esi'[f] # <<>> /\ Head(coord_esi'[f]).id = id
      BY <2>3, CanalPrimero
    <3>2. CASE id # 22
      BY <1>2, <2>3, <3>1, <3>2 DEF Rechazada, Sin
    <3>3. CASE id = 22
      <4>1. Durante(f)
        BY <2>3, <3>3, TurnoDeHost
      <4>2. scheduler_response = 1
        BY <2>3, <3>3, <4>1 DEF Durante, Posts
      <4> QED BY <2>3, <3>3, <4>2 DEF Rechazada
    <3> QED BY <3>2, <3>3
  <2>4. CASE AbortarLineaInvalida(f)
    <3>1. /\ pc_he[f] = "recv" /\ pc_he' = pc_he /\ coord_esi'[f] = Cabecera(coord_esi[f], 24)
          /\ esi_coord[f] # <<>> /\ Head(esi_coord[f]).id \in Pedidos
      BY <1>6, <2>4 DEF AbortarLineaInvalida, Llega, Pedidos, hilosEsi
    <3>2. ~Sin(esi_coord[f], Pedidos)
      BY <1>1, <3>1, CanalTipo, CanalResto DEF TypeOK
    <3>3. Turno(f)
      BY <3>2, TurnoDe DEF Reposo, SinMensajes
    <3>4. coord_esi[f] = <<>>
      BY <3>2, <3>3 DEF Turno, Antes, Durante, EnInstancia, Despues, Mandada, Leida, EnHost, Contestada,
         Informada, Reposo, SinMensajes
    <3> QED BY <2>3, <3>1, <3>4
  <2>5. CASE \/ AbortarClaveNoPedida(f) \/ OperacionRechazada(f) \/ InstanciaCaida(f)
             \/ ConfirmarOperacion(f)
    <3>1. /\ pc_he[f] \in {"preparada", "planificador", "instancia"} /\ pc_he'[f] = "recv"
          /\ pc_he[f] = "planificador" => scheduler_response > 0
          /\ \E id \in {22, 23, 24} :
               /\ coord_esi'[f] = Cabecera(coord_esi[f], id)
               /\ id = 22 => pc_he[f] = "planificador" /\ funcion[f] = "GET" /\ ~key_is_not_blocked
      BY <1>6, <2>5 DEF AbortarClaveNoPedida, OperacionRechazada, InstanciaCaida, ConfirmarOperacion
    <3>2. coord_esi[f] = <<>>
      BY <3>1, TurnoDeHost DEF EnHost, SinMensajes
    <3> QED BY <2>3, <3>1, <3>2
  <2> QED BY <1>1, <2>1, <2>2, <2>4, <2>5 DEF PasoHostEsi
<1> QED BY <1>3, <1>5, <1>7, SalidaMarco

LEMMA HostSchedulerSalida ==
  ASSUME IInv, UnTurno, Salida, [Next]_vars, CoordActua(PasoHostScheduler)
  PROVE  Salida'
<1>1. UNCHANGED <<pc_plan, block, fin_de_esi, respuesta_ok, esi_respuesta, un_esi, esi_saliente, stop>>
  BY DEF CoordActua, varsPlan, banderas, semaforos, locales, consola
<1>2. \/ EsperarEsi \/ AvisarInicio \/ RecibirTurno \/ ConsultarPlanificador \/ AvisarAborto
      \/ RecibirRespuestaPlan
  BY NadiePideStatus DEF CoordActua, PasoHostScheduler
<1>3. UNCHANGED <<pc_he, funcion, coord_esi, esi_plan>>
  BY <1>2 DEF EsperarEsi, AvisarInicio, RecibirTurno, ConsultarPlanificador, AvisarAborto,
     RecibirRespuestaPlan, hilosEsi, varsRed
<1>4. ASSUME NEW e \in Esis
      PROVE  Rechazada(e)' => Rechazada(e)
  <2>1. CASE pc_he[e] # "planificador"
    BY <1>3, <2>1 DEF Rechazada, Sin
  <2>2. CASE pc_he[e] = "planificador"
    <3>1. Durante(e)
      BY <2>2, TurnoDeHost
    <3>2. CASE EsperarEsi \/ AvisarInicio \/ RecibirTurno \/ AvisarAborto
      BY <1>3, <2>2, <3>2 DEF EsperarEsi, AvisarInicio, RecibirTurno, AvisarAborto, Rechazada, Sin,
         semaforosCoord
    <3>3. CASE ConsultarPlanificador
      <4>1. plan_coord = <<>>
        BY <3>1, <3>3 DEF ConsultarPlanificador, Durante, SinPregunta, Consultada, Respondida, Cerrada
      <4> QED BY <1>3, <2>2, <3>3, <4>1 DEF ConsultarPlanificador, Rechazada, Sin
    <3>4. CASE RecibirRespuestaPlan
      <4>1. Respondida /\ Posts(0, 0)
        BY <3>1, <3>4 DEF RecibirRespuestaPlan, Durante, SinPregunta, Consultada, Cerrada
      <4>2. plan_coord # <<>> /\ Head(plan_coord).id \in {31, 32, 34, 35}
        BY <4>1 DEF Respondida, Uno
      <4>3. /\ pc_hs = "respuesta" /\ pc_hs' = "recv"
            /\ key_is_not_blocked' <=> Head(plan_coord).id \in {31, 34}
        BY <3>4, <4>1, <4>2 DEF RecibirRespuestaPlan, Posts
      <4> QED BY <1>3, <2>2, <4>2, <4>3 DEF Rechazada, Sin
    <3> QED BY <1>2, <3>2, <3>3, <3>4
  <2> QED BY <2>1, <2>2
<1> QED BY <1>1, <1>4, SalidaMarco

\* Between two rounds nobody has been refused.
LEMMA MainSinRonda ==
  ASSUME UnTurno', pc_plan' \notin EnRonda
  PROVE  RechazoEncolado'
<1>1. EntreRondas' /\ \A e \in Esis : Reposo(e)'
  BY DEF UnTurno, Turno, Antes, Durante, EnInstancia, Despues, SinPregunta, Consultada, Respondida,
     Cerrada, AvisoDeAborto, Abortada, EnRonda
<1>2. \A e \in Esis : ~Rechazada(e)'
  BY <1>1 DEF Reposo, Callado, SinMensajes, Rechazada, Sin, Respuestas
<1>3. esi_respuesta' = 0
  BY <1>1 DEF EntreRondas
<1> QED BY <1>2, <1>3 DEF RechazoEncolado

\* main is between two rounds, or begins or ends one.
LEMMA MainFueraSalida ==
  ASSUME IInv, UnTurno', Salida, [Next]_vars, algorithm # "SJFCD", PlanActua(PasoMain),
         pc_plan \notin EnRonda \/ RecibirRespuesta
  PROVE  FinDeRonda' /\ SaleElQueTermino'
<1>1. pc_esi' = pc_esi
  BY DEF PlanActua, varsEsi
<1>2. DOMAIN pc_esi = Esis
  BY DEF IInv, TypeOK, TypeOKEsi
<1>3. CASE \/ EsperaInicial \/ WaitStart \/ Pausa \/ TomarDeListaVacia \/ FinLiberacion
           \/ Esperar \/ Ordenar \/ Ciclo \/ TomarEsi \/ \E k \in Claves : LiberarUna(k)
  <2>1. /\ UNCHANGED <<stop, esi_saliente>>
        /\ \/ fin_de_esi' = fin_de_esi
           \/ pc_plan = "elegir" /\ ~fin_de_esi'
        /\ <<pc_plan, pc_plan'>> \in
             {<<"espera_inicial", "wait_start">>, <<"wait_start", "primero">>, <<"primero", "ciclo">>,
              <<"primero", "error">>, <<"ciclo", "pausa">>, <<"ciclo", "salida">>,
              <<"pausa", "ejecutar">>, <<"liberando", "liberando">>, <<"liberando", "esperar">>,
              <<"esperar", "ordenar">>, <<"ordenar", "ciclo">>, <<"ordenar", "elegir">>,
              <<"elegir", "ciclo">>, <<"elegir", "error">>}
        /\ pc_plan = "elegir" /\ pc_plan' = "ciclo" => ~fin_de_esi'
        /\ pc_plan = "ciclo" => (pc_plan' = "salida" <=> stop)
        /\ pc_plan = "ordenar" /\ pc_plan' = "ciclo" => stop
    BY <1>3 DEF EsperaInicial, WaitStart, Pausa, TomarDeListaVacia, FinLiberacion, Esperar, Ordenar,
       Ciclo, TomarEsi, LiberarUna, banderas, locales, consola
  <2>2. FinDeRonda'
    BY <2>1 DEF Salida, FinDeRonda, EnRonda, Contesto
  <2>3. SaleElQueTermino'
    BY <1>1, <2>1 DEF Salida, SaleElQueTermino
  <2> QED BY <2>2, <2>3
<1>4. CASE Ejecutar
  <2>1. pc_plan = "ejecutar" /\ pc_plan' = "pregunta" /\ fin_de_esi' = fin_de_esi
    BY <1>4 DEF Ejecutar, banderas
  <2> QED BY <2>1 DEF Salida, FinDeRonda, SaleElQueTermino, EnRonda, Contesto
<1>5. CASE Terminar
  <2>1. /\ pc_plan = "terminar" /\ pc_plan' \in {"esperar", "liberando"}
        /\ pc_plan' = "liberando" => ~block /\ esi_saliente' = un_esi
    BY <1>5 DEF Terminar
  <2>2. un_esi \in Esis
    BY <2>1 DEF IInv, LocalesDeMain
  <2>3. pc_plan' = "liberando" => pc_esi'[un_esi] = "fin"
    BY <1>1, <2>1 DEF Salida, SaleElQueTermino
  <2> QED BY <2>1, <2>2, <2>3 DEF FinDeRonda, SaleElQueTermino, EnRonda, Contesto
<1>6. CASE RecibirRespuesta
  <2>1. /\ pc_plan = "respuesta" /\ UNCHANGED <<un_esi, block>>
        /\ esi_respuesta > 0 /\ esi_respuesta' = esi_respuesta - 1
        /\ fin_de_esi' <=> fin_de_esi \/ (~respuesta_ok /\ ~abort_esi)
        /\ pc_plan' = IF fin_de_esi' THEN "terminar" ELSE "ciclo"
    BY <1>6 DEF RecibirRespuesta, IInv, TypeOK, TypeOKPlan
  <2>2. esi_respuesta' = 0
    BY <2>1 DEF UnTurno, EntreRondas, Turno, Antes, Durante, EnInstancia, Despues, SinPregunta,
       Consultada, Respondida, Cerrada, AvisoDeAborto, Abortada, EnRonda, Contesto
  <2>3. esi_respuesta = 1
    BY <2>1, <2>2 DEF IInv, TypeOK, TypeOKPlan
  <2>4. pc_plan' = "terminar" => block \/ pc_esi[un_esi] = "fin"
    BY <2>1, <2>3 DEF Salida, FinDeRonda, RechazoEncolado, Encolado, EnRonda, Contesto
  <2>5. FinDeRonda'
    BY <2>1 DEF FinDeRonda, EnRonda, Contesto
  <2>6. SaleElQueTermino'
    BY <1>1, <2>1, <2>4 DEF SaleElQueTermino
  <2> QED BY <2>5, <2>6
<1>7. ~Preguntas /\ ~EncolarEsi /\ ~DesbloquearEspera /\ ~DesbloquearNadie
  BY DEF Preguntas, ConcederClave, RechazarClave, LiberarClave, ConsultarSet, AvisoAborto,
     PreguntaInvalida, EncolarEsi, DesbloquearEspera, DesbloquearNadie, EnRonda, Contesto,
     RecibirRespuesta
<1> QED BY <1>3, <1>4, <1>5, <1>6, <1>7 DEF PlanActua, PasoMain

\* main answers a question.
LEMMA MainEnRondaSalida ==
  ASSUME IInv, UnTurno, Salida, algorithm # "SJFCD", PlanActua(PasoMain),
         pc_plan \in EnRonda, ~RecibirRespuesta
  PROVE  Salida'
<1>1. PasoMain /\ UNCHANGED <<pc_esi, pc_he, funcion, pc_hs, scheduler_response, key_is_not_blocked>>
  BY DEF PlanActua, varsEsi, varsCoord, hilosEsi, semaforosCoord
<1>2. \/ ConcederClave \/ RechazarClave \/ LiberarClave \/ ConsultarSet \/ AvisoAborto
      \/ EncolarEsi \/ DesbloquearEspera \/ DesbloquearNadie
  <2>1. ~PreguntaInvalida
    BY TurnoDePregunta DEF PreguntaInvalida, IInv
  <2> QED BY <1>1, <2>1 DEF PasoMain, EsperaInicial, WaitStart, TomarEsi, TomarDeListaVacia, Ciclo,
         Pausa, Ejecutar, Preguntas, Terminar, LiberarUna, FinLiberacion, Esperar, Ordenar, EnRonda,
         Contesto
<1>3. /\ UNCHANGED <<un_esi, fin_de_esi, respuesta_ok, esi_respuesta, esi_plan, coord_esi>>
      /\ pc_plan' \in Contesto
  BY <1>2 DEF ConcederClave, RechazarClave, LiberarClave, ConsultarSet, AvisoAborto, EncolarEsi,
     DesbloquearEspera, DesbloquearNadie, EsiElegido, Desaloja, banderas, semaforos, Contesto, varsRed
<1>4. FinDeRonda' /\ SaleElQueTermino'
  BY <1>1, <1>3 DEF Salida, FinDeRonda, SaleElQueTermino, EnRonda, Contesto
<1>5. CASE RechazarClave \/ EncolarEsi
  <2>1. Encolado'
    BY <1>5 DEF RechazarClave, EncolarEsi, Encolado
  <2> QED BY <1>4, <2>1 DEF Salida, RechazoEncolado
<1>6. ASSUME ~Encolado, \A e \in Esis : Rechazada(e)' => Rechazada(e)
      PROVE  Salida'
  BY <1>3, <1>4, <1>6 DEF Salida, RechazoEncolado
<1>7. CASE AvisoAborto \/ DesbloquearEspera \/ DesbloquearNadie
  <2>1. plan_coord' = plan_coord /\ pc_plan \in {"pregunta", "desbloquear"}
    BY <1>7 DEF AvisoAborto, DesbloquearEspera, DesbloquearNadie, varsRed
  <2>2. \A e \in Esis : Rechazada(e)' => Rechazada(e)
    BY <1>1, <1>3, <2>1 DEF Rechazada, Sin
  <2> QED BY <1>6, <2>1, <2>2 DEF Encolado
\* The key is given; or the operation is not a GET.
<1>8. CASE ConcederClave \/ LiberarClave \/ ConsultarSet
  <2>1. /\ pc_plan = "pregunta" /\ coord_plan # <<>> /\ Head(coord_plan).id \in {31, 32, 33}
        /\ Head(coord_plan).id = 31 => plan_coord' = Cabecera(plan_coord, 31)
    BY <1>8 DEF ConcederClave, LiberarClave, ConsultarSet, Llega
  <2>2. PICK e \in Esis :
          /\ \A f \in Esis \ {e} : Reposo(f)
          /\ Durante(e) /\ Consultada(e) /\ Head(coord_plan).id = PreguntaDe(funcion[e])
          /\ Posts(0, 0)
    BY <2>1, TurnoDePregunta DEF IInv
  <2>3. plan_coord = <<>> /\ scheduler_response = 0
    BY <2>2 DEF Consultada, Posts
  <2>4. funcion[e] = "GET" => plan_coord' # <<>> /\ Head(plan_coord').id = 31
    <3>1. funcion[e] = "GET" => Head(coord_plan).id = 31
      BY <2>2 DEF PreguntaDe
    <3> QED BY <2>1, <2>3, <3>1, CanalPrimero
  <2>5. \A f \in Esis \ {e} : Rechazada(f)' => Rechazada(f)
    BY <1>1, <1>3, <2>2 DEF Reposo, Callado, Rechazada, Sin
  <2>6. Rechazada(e)' => Rechazada(e)
    BY <1>1, <1>3, <2>3, <2>4 DEF Rechazada, Sin
  <2> QED BY <1>6, <2>1, <2>5, <2>6 DEF Encolado
<1> QED BY <1>2, <1>5, <1>7, <1>8

LEMMA MainSalida ==
  ASSUME IInv, UnTurno, UnTurno', Salida, [Next]_vars, algorithm # "SJFCD", PlanActua(PasoMain)
  PROVE  Salida'
<1>1. CASE pc_plan \in EnRonda /\ ~RecibirRespuesta
  BY <1>1, MainEnRondaSalida
<1>2. CASE pc_plan \notin EnRonda \/ RecibirRespuesta
  <2>1. CASE pc_plan' \notin EnRonda
    BY <1>2, <2>1, MainSinRonda, MainFueraSalida DEF Salida
  \* main begins a round: nobody has asked for anything yet.
  <2>2. CASE pc_plan' \in EnRonda
    <3>1. Ejecutar
      BY <1>2, <2>2 DEF PlanActua, PasoMain, EsperaInicial, WaitStart, TomarEsi, TomarDeListaVacia,
         Ciclo, Pausa, Preguntas, ConcederClave, RechazarClave, LiberarClave, ConsultarSet,
         AvisoAborto, PreguntaInvalida, EncolarEsi, DesbloquearEspera, DesbloquearNadie,
         RecibirRespuesta, Terminar, LiberarUna, FinLiberacion, Esperar, Ordenar, EnRonda, Contesto
    <3>2. pc_plan = "ejecutar" /\ UNCHANGED <<esi_respuesta, esi_plan, coord_esi>>
      BY <3>1 DEF Ejecutar
    <3>3. EntreRondas /\ \A e \in Esis : Reposo(e)
      BY <3>2 DEF UnTurno, Turno, Antes, Durante, EnInstancia, Despues, SinPregunta, Consultada,
         Respondida, Cerrada, AvisoDeAborto, Abortada, EnRonda, Contesto
    <3>4. \A e \in Esis : ~Rechazada(e)'
      <4>1. pc_he' = pc_he
        BY DEF PlanActua, varsCoord, hilosEsi
      <4> QED BY <3>2, <3>3, <4>1 DEF Reposo, Callado, SinMensajes, Rechazada, Sin, Respuestas
    <3>5. esi_respuesta' = 0
      BY <3>2, <3>3 DEF EntreRondas
    <3> QED BY <1>2, <3>4, <3>5, MainFueraSalida DEF Salida, RechazoEncolado
  <2> QED BY <2>1, <2>2
<1> QED BY <1>1, <1>2

\* HostConnections passes on what an ESI tells the Planificador.
LEMMA HostConnectionsSalida ==
  ASSUME IInv, UnTurno, CierreAlFinal, Salida, [Next]_vars, algorithm # "SJFCD",
         PlanActua(PasoHostConnections)
  PROVE  Salida'
<1>1. UNCHANGED <<pc_esi, pc_he, funcion, pc_hs, scheduler_response, key_is_not_blocked>>
  BY DEF PlanActua, varsEsi, varsCoord, hilosEsi, semaforosCoord
<1>2. \A e \in Esis : esi_plan[e] \in Canal
  BY CanalTipo DEF IInv, TypeOK
<1>3. DOMAIN esi_plan = Esis
  BY DEF IInv, TypeOK, TypeOKRed
<1>4. /\ UNCHANGED <<pc_plan, block, un_esi, esi_saliente, stop, plan_coord, coord_esi>>
      /\ \A e \in Esis : esi_plan'[e] = esi_plan[e] \/ (esi_plan[e] # <<>> /\ esi_plan'[e] = Tail(esi_plan[e]))
  BY <1>3 DEF PlanActua, PasoHostConnections, NuevoEsi, RespuestaEsi, AvisarNuevoEsi, Llega, banderas,
     locales, consola, varsRed
<1>5. \A e \in Esis : Rechazada(e)' => Rechazada(e)
  <2>1. \A e \in Esis : Sin(esi_plan[e], {23}) => Sin(esi_plan'[e], {23})
    BY <1>2, <1>4, CanalResto
  <2> QED BY <1>1, <1>4, <2>1 DEF Rechazada
<1>6. CASE AvisarNuevoEsi \/ \E f \in Esis : NuevoEsi(f)
  <2>1. UNCHANGED <<fin_de_esi, respuesta_ok, esi_respuesta>>
    BY <1>6 DEF AvisarNuevoEsi, NuevoEsi, banderas, semaforos
  <2> QED BY <1>4, <1>5, <2>1, SalidaMarco
<1>7. ASSUME NEW f \in Esis, RespuestaEsi(f) PROVE Salida'
  <2>1. /\ esi_plan[f] # <<>> /\ Head(esi_plan[f]).id \in Respuestas
        /\ respuesta_ok' = (Head(esi_plan[f]).id # 23)
        /\ fin_de_esi' <=> fin_de_esi \/ Head(esi_plan[f]).id \in {24, 25}
        /\ esi_respuesta' = esi_respuesta + 1
    BY <1>7 DEF RespuestaEsi, Llega, Respuestas, IInv, TypeOK, TypeOKPlan
  <2>2. ~Sin(esi_plan[f], Respuestas)
    BY <1>2, <2>1, CanalResto
  <2>3. Turno(f)
    BY <2>2, TurnoDe DEF Reposo, SinMensajes
  <2>4. /\ pc_plan \in EnRonda /\ esi_respuesta = 0 /\ f = un_esi
    BY <2>2, <2>3 DEF Turno, Antes, Durante, EnInstancia, Despues, SinPregunta, Cerrada, AvisoDeAborto,
       Abortada, Mandada, Leida, EnHost, Contestada, Reposo, SinMensajes, EnRonda, Contesto
  <2>5. Head(esi_plan[f]).id = 23 => Encolado
    <3>1. Sin(esi_plan[f], {23}) => Head(esi_plan[f]).id # 23
      BY <1>2, <2>1, CanalResto
    <3> QED BY <3>1 DEF Salida, RechazoEncolado, Rechazada
  <2>6. Head(esi_plan[f]).id \in {24, 25} => pc_esi[f] = "fin"
    <3>1. Sin(esi_plan[f], {24, 25}) => Head(esi_plan[f]).id \notin {24, 25}
      BY <1>2, <2>1, CanalResto
    <3> QED BY <3>1 DEF CierreAlFinal
  <2>7. RechazoEncolado'
    BY <1>4, <1>5, <2>1, <2>5 DEF Salida, RechazoEncolado, Encolado
  <2>8. FinDeRonda'
    BY <1>1, <1>4, <2>1, <2>4, <2>6 DEF Salida, FinDeRonda
  <2>9. SaleElQueTermino'
    BY <1>1, <1>4 DEF Salida, SaleElQueTermino
  <2> QED BY <2>7, <2>8, <2>9 DEF Salida
<1> QED BY <1>6, <1>7 DEF PlanActua, PasoHostConnections

LEMMA PasoSalida ==
  ASSUME "STATUS" \notin Comandos, IInv, UnTurno, UnTurno', CierreAlFinal, [Next]_vars,
         algorithm # "SJFCD", Salida
  PROVE  Salida'
<1>1. ASSUME NEW f \in Esis, EsiActua(f) \/ CoordActua(PasoHostEsi(f)) PROVE Salida'
  BY <1>1, EsiSalida, HostEsiSalida
<1>2. CASE CoordActua(PasoHostScheduler)
  BY <1>2, HostSchedulerSalida
<1>3. CASE CoordActua(PasoHostInstance)
  <2>1. UNCHANGED <<pc_he, funcion, pc_hs, plan_coord, scheduler_response, key_is_not_blocked, coord_esi,
                    esi_plan>>
    BY <1>3 DEF CoordActua, PasoHostInstance, HostInstance, AtenderPedido, TerminarPedido, hilosEsi,
       varsRed
  <2>2. UNCHANGED <<pc_plan, block, fin_de_esi, respuesta_ok, esi_respuesta, un_esi, esi_saliente, stop>>
    BY <1>3 DEF CoordActua, varsPlan, banderas, semaforos, locales, consola
  <2>3. \A e \in Esis : Rechazada(e)' => Rechazada(e)
    BY <2>1 DEF Rechazada, Sin
  <2> QED BY <2>2, <2>3, SalidaMarco
<1>4. CASE PlanActua(PasoMain)
  BY <1>4, MainSalida
<1>5. CASE PlanActua(PasoHostConnections)
  BY <1>5, HostConnectionsSalida
<1>6. CASE PlanActua(PasoConsola)
  <2>1. UNCHANGED <<pc_he, funcion, pc_hs, scheduler_response, key_is_not_blocked>>
    BY <1>6 DEF PlanActua, varsCoord, hilosEsi, semaforosCoord
  <2>2. /\ UNCHANGED <<pc_plan, block, fin_de_esi, respuesta_ok, esi_respuesta, un_esi, esi_saliente>>
        /\ UNCHANGED <<plan_coord, coord_esi, esi_plan>>
        /\ stop => stop'
    BY <1>6 DEF PlanActua, PasoConsola, ConsolaExit, ConsolaPause, ConsolaResume, ConsolaBlock,
       ConsolaUnlock, ConsolaDesbloqueo, ConsolaStatus, Teclear, ConsolaRecibeStatus,
       ConsolaRecibeDatos, EsiElegido, Desaloja, banderas, semaforos, locales, varsRed
  <2>3. \A e \in Esis : Rechazada(e)' => Rechazada(e)
    BY <2>1, <2>2 DEF Rechazada, Sin
  <2> QED BY <2>2, <2>3, SalidaMarco
<1>7. CASE UNCHANGED vars
  <2>1. /\ UNCHANGED <<pc_plan, block, fin_de_esi, respuesta_ok, esi_respuesta, un_esi, esi_saliente, stop>>
        /\ UNCHANGED <<pc_he, funcion, pc_hs, plan_coord, scheduler_response, key_is_not_blocked, coord_esi,
                       esi_plan>>
    BY <1>7 DEF vars, varsPlan, banderas, semaforos, locales, consola, varsCoord, hilosEsi,
       semaforosCoord, varsRed
  <2>2. \A e \in Esis : Rechazada(e)' => Rechazada(e)
    BY <2>1 DEF Rechazada, Sin
  <2> QED BY <2>1, <2>2, SalidaMarco
<1> QED BY <1>1, <1>2, <1>3, <1>4, <1>5, <1>6, <1>7, Hilos

LEMMA InicioSalida == Init => Salida
<1> SUFFICES ASSUME Init PROVE Salida
  OBVIOUS
<1>1. \A e \in Esis : ~Rechazada(e)
  BY CanalVacio DEF Init, InitRed, InitCoord, Rechazada
<1>2. pc_plan = "espera_inicial" /\ esi_respuesta = 0 /\ ~fin_de_esi
  BY DEF Init, InitPlan
<1> QED BY <1>1, <1>2 DEF Salida, RechazoEncolado, FinDeRonda, SaleElQueTermino

\* main takes an ESI out of the system, and its keys away, only if that ESI
\* has ended: an ESI that was refused a key is on a queue, and `block` says so.
THEOREM Salidas ==
  ASSUME "STATUS" \notin Comandos
  PROVE  Spec => [](algorithm # "SJFCD" => Salida)
<1>1. Init => (algorithm # "SJFCD" => Salida)
  BY InicioSalida
<1>2. IInv /\ UnTurno /\ UnTurno' /\ CierreAlFinal /\ (algorithm # "SJFCD" => Salida) /\ [Next]_vars =>
        (algorithm # "SJFCD" => Salida)'
  <2> SUFFICES ASSUME IInv, UnTurno, UnTurno', CierreAlFinal, algorithm # "SJFCD" => Salida, [Next]_vars,
                      algorithm' # "SJFCD"
               PROVE  Salida'
    OBVIOUS
  <2>1. algorithm' = algorithm
    BY AlgoritmoFijo
  <2> QED BY <2>1, PasoSalida
<1> QED BY <1>1, <1>2, Invariante, UnSoloTurno, Duenios, PTL DEF Spec

-----------------------------------------------------------------------------
(* Who loses a key.                                                        *)

\* Whatever step takes a key away from its owner.
LEMMA PasoPerder ==
  ASSUME IInv, UnTurno, algorithm # "SJFCD", Salida, [Next]_vars
  PROVE  PerderClave
<1> SUFFICES ASSUME NEW e \in Esis, NEW k \in Claves, <<e, k>> \in claves_bloqueadas_por_esis,
                    <<e, k>> \notin claves_bloqueadas_por_esis'
             PROVE  \/ pc_he[e] = "planificador" /\ funcion[e] = "STORE" /\ message = k
                    \/ pc_esi[e] = "fin"
                    \/ clave_con' = k
  BY DEF PerderClave
<1>1. PlanActua(PasoMain) \/ PlanActua(PasoConsola)
  <2>1. \A f \in Esis : ~EsiActua(f) /\ ~CoordActua(PasoHostEsi(f))
    BY DEF EsiActua, CoordActua, varsPlan, listas
  <2>2. ~CoordActua(PasoHostScheduler) /\ ~CoordActua(PasoHostInstance) /\ ~UNCHANGED vars
    BY DEF CoordActua, varsPlan, listas, vars
  <2>3. ~PlanActua(PasoHostConnections)
    BY DEF PlanActua, PasoHostConnections, NuevoEsi, RespuestaEsi, AvisarNuevoEsi, listas
  <2> QED BY <2>1, <2>2, <2>3, Hilos
<1>2. CASE PlanActua(PasoConsola)
  <2>1. PICK q \in Claves : ConsolaUnlock(q)
    BY <1>2 DEF PlanActua, PasoConsola, ConsolaExit, ConsolaPause, ConsolaResume, ConsolaBlock,
       ConsolaDesbloqueo, ConsolaStatus, ConsolaRecibeStatus, ConsolaRecibeDatos, listas
  <2>2. clave_con' = q /\ \E f \in Esis : <<f, q>> = <<e, k>>
    BY <2>1 DEF ConsolaUnlock
  <2> QED BY <2>2
<1>3. CASE PlanActua(PasoMain)
  <2>1. LiberarClave \/ \E q \in Claves : LiberarUna(q)
    BY <1>3 DEF PlanActua, PasoMain, EsperaInicial, WaitStart, TomarEsi, TomarDeListaVacia, Ciclo, Pausa,
       Ejecutar, Preguntas, ConcederClave, RechazarClave, ConsultarSet, AvisoAborto, PreguntaInvalida,
       EncolarEsi, DesbloquearEspera, DesbloquearNadie, RecibirRespuesta, Terminar, FinLiberacion,
       Esperar, Ordenar, listas
  <2>2. ASSUME NEW q \in Claves, LiberarUna(q)
        PROVE  pc_esi[e] = "fin"
    <3>1. pc_plan = "liberando" /\ <<esi_saliente, q>> = <<e, k>>
      BY <2>2 DEF LiberarUna
    <3>2. esi_saliente = e
      BY <3>1
    <3> QED BY <3>1, <3>2 DEF Salida, SaleElQueTermino
  <2>3. CASE LiberarClave
    <3>1. /\ pc_plan = "pregunta" /\ coord_plan # <<>> /\ Head(coord_plan).id = 32
          /\ <<un_esi, Head(coord_plan).clave>> = <<e, k>>
      BY <2>3 DEF LiberarClave, Llega
    <3>2. PICK f \in Esis :
            Turno(f) /\ Durante(f) /\ Consultada(f) /\ PreguntaDe(funcion[f]) = 32
      BY <3>1, TurnoDePregunta DEF IInv
    <3>3. f = e /\ message = k
      BY <3>1, <3>2 DEF Turno, Consultada
    <3>4. pc_he[e] = "planificador" /\ funcion[e] = "STORE"
      BY <3>2, <3>3 DEF Durante, EnHost, PreguntaDe, IInv, TypeOK, TypeOKCoord
    <3> QED BY <3>3, <3>4
  <2> QED BY <2>1, <2>2, <2>3
<1> QED BY <1>1, <1>2, <1>3

\* An owner only loses a key by its own STORE, when it has ended, or because
\* the operator unlocked it.
THEOREM NoSePierden ==
  ASSUME "STATUS" \notin Comandos, "SJFCD" \notin Algoritmos
  PROVE  Spec => ClavesNoSePierden
<1>1. IInv /\ UnTurno /\ (algorithm # "SJFCD" => Salida) /\ [Next]_vars => [PerderClave]_vars
  <2>1. IInv => algorithm # "SJFCD"
    BY DEF IInv, TypeOK, TypeOKPlan
  <2> QED BY <2>1, PasoPerder
<1> QED BY <1>1, Invariante, UnSoloTurno, Salidas, PTL DEF Spec, ClavesNoSePierden

-----------------------------------------------------------------------------
(* Where an ESI is.                                                        *)

\* e is a member of s; it is there only once.
Esta(e, s) == \E i \in DOMAIN s : s[i] = e
UnaVez(e, s) == \A i, j \in DOMAIN s : s[i] = e /\ s[j] = e => i = j

\* e waits for a key; e waits for a key or for its turn; e is in no list.
Espera(e) == \E k \in Claves : Esta(e, cola_esis_bloqueados[k])
Aguarda(e) == Esta(e, lista_ready) \/ Espera(e)
Ausente(e) == ~Aguarda(e) /\ ~Esta(e, finished_esis)

\* Nobody is twice in a list, nor in two of them.
SinRepetir(e) ==
  /\ UnaVez(e, lista_ready) /\ UnaVez(e, finished_esis)
  /\ \A k \in Claves : UnaVez(e, cola_esis_bloqueados[k])
  /\ Esta(e, finished_esis) => ~Aguarda(e)
  /\ Esta(e, lista_ready) => ~Espera(e)
  /\ \A k, q \in Claves :
       Esta(e, cola_esis_bloqueados[k]) /\ Esta(e, cola_esis_bloqueados[q]) => k = q

\* main is about to tell un_esi to run, or has told it; un_esi has the turn and
\* was not refused a key in it.
PorCorrer == pc_plan \in {"pausa", "ejecutar"} \/ (pc_plan = "ciclo" /\ ~stop)
Corre ==
  \/ PorCorrer \/ pc_plan \in {"pregunta", "encolar", "desbloquear"}
  \/ pc_plan \in {"respuesta", "terminar"} /\ ~block

\* HostConnections has not heard of e yet.
PorPresentarse(e) == pc_esi[e] = "inicio" \/ ~Sin(esi_plan[e], {20})

\* e is in the middle of a GET, or a GET is what it does next.
Pide(e) ==
  LET leidas == IF flag_blocked[e] \/ pc_esi[e] = "espera" THEN linea[e] ELSE linea[e] + 1 IN
  pc_esi[e] # "fin" /\ LineaValida(e, leidas) /\ guion[e][leidas].op = "GET"

\* The Coordinador has not answered e.  The refusal of a GET, and the news that
\* e was aborted, are on their way to main or have just arrived.
SinContestar(e) == coord_esi[e] = <<>> /\ (plan_esi[e] # <<>> \/ pc_esi[e] = "espera")
Negada(e) == Rechazada(e) \/ (esi_respuesta = 1 /\ ~respuesta_ok)
Abortando(e) ==
  \/ coord_esi[e] # <<>> /\ Head(coord_esi[e]).id = 24
  \/ ~Sin(esi_plan[e], {25})
  \/ esi_respuesta = 1 /\ respuesta_ok /\ fin_de_esi /\ abort_esi

\* Who waits, or is new, does a GET next; and so does un_esi as long as `block`
\* is what the refusal of somebody else left.
Primeros ==
  /\ \A e \in Esis : Aguarda(e) \/ PorPresentarse(e) => Pide(e)
  /\ \A e \in Esis : PorPresentarse(e) => Ausente(e) /\ e # un_esi
  /\ \A e \in Esis : pc_esi[e] = "inicio" => esi_plan[e] = <<>>
  /\ \A e \in Esis : ~Sin(esi_plan[e], {20}) => Tail(esi_plan[e]) = <<>>
BlockVigente ==
  /\ block /\ PorCorrer => Pide(un_esi)
  /\ block /\ pc_plan = "pregunta" => Pide(un_esi) /\ SinContestar(un_esi)
  /\ pc_plan = "desbloquear" => ~block
  /\ Encolado => Pide(un_esi) /\ Negada(un_esi)

\* abort_esi is about the ESI of the round.
AbortoVigente ==
  /\ abort_esi =>
       \/ pc_plan = "pregunta" /\ esi_respuesta = 1
       \/ pc_plan \in {"desbloquear", "respuesta"} /\ Abortando(un_esi)
       \/ pc_plan = "terminar" /\ ~block
  /\ AvisoDeAborto => Abortando(un_esi)

\* main gets to know that an ESI has ended, and then records it.
Terminados ==
  /\ \A e \in Esis : pc_esi[e] = "fin" =>
       \/ Esta(e, finished_esis)
       \/ e = un_esi /\ (pc_plan \in EnRonda \/ (pc_plan = "terminar" /\ ~block))
  /\ pc_plan \in EnRonda /\ pc_esi[un_esi] = "fin" =>
       fin_de_esi \/ ~Sin(esi_plan[un_esi], {24, 25})

Lugares ==
  /\ \A e \in Esis : SinRepetir(e)
  /\ Corre => Ausente(un_esi)
  /\ Primeros
  /\ BlockVigente
  /\ AbortoVigente
  /\ Terminados

\* A list that grows, that shrinks, that is sorted.
LEMMA EstaAlAgregar ==
  ASSUME NEW S, NEW s \in Seq(S), NEW x \in S, NEW e
  PROVE  /\ Esta(e, Append(s, x)) <=> Esta(e, s) \/ e = x
         /\ UnaVez(e, s) /\ (e = x => ~Esta(e, s)) => UnaVez(e, Append(s, x))
<1> DEFINE t == Append(s, x)
<1>1. /\ Len(s) \in Nat /\ Len(t) = Len(s) + 1 /\ DOMAIN s = 1..Len(s) /\ DOMAIN t = 1..Len(t)
      /\ \A i \in 1..Len(s) : t[i] = s[i]
      /\ t[Len(t)] = x
  OBVIOUS
<1> HIDE DEF t
<1>2. Esta(e, t) <=> Esta(e, s) \/ e = x
  <2>1. Esta(e, t) => Esta(e, s) \/ e = x
    BY <1>1 DEF Esta
  <2>2. Esta(e, s) => Esta(e, t)
    BY <1>1 DEF Esta
  <2>3. e = x => Esta(e, t)
    <3>1. Len(t) \in DOMAIN t
      BY <1>1
    <3> QED BY <1>1, <3>1 DEF Esta
  <2> QED BY <2>1, <2>2, <2>3
<1>3. UnaVez(e, s) /\ (e = x => ~Esta(e, s)) => UnaVez(e, t)
  BY <1>1 DEF Esta, UnaVez
<1> QED BY <1>2, <1>3 DEF t

LEMMA EstaAlSacar ==
  ASSUME NEW S, NEW s \in Seq(S), s # <<>>, NEW e
  PROVE  /\ Esta(Head(s), s)
         /\ Esta(e, Tail(s)) => Esta(e, s)
         /\ Esta(e, s) => e = Head(s) \/ Esta(e, Tail(s))
         /\ UnaVez(e, s) => UnaVez(e, Tail(s))
         /\ UnaVez(e, s) /\ e = Head(s) => ~Esta(e, Tail(s))
<1> DEFINE t == Tail(s)
<1>1. /\ Len(s) \in Nat \ {0} /\ Len(t) = Len(s) - 1 /\ DOMAIN s = 1..Len(s) /\ DOMAIN t = 1..Len(t)
      /\ \A i \in 1..Len(t) : t[i] = s[i + 1]
      /\ Head(s) = s[1]
  <2>1. t \in Seq(S) /\ Len(t) = Len(s) - 1 /\ \A i \in 1..Len(t) : t[i] = s[i + 1]
    BY HeadTailProperties
  <2>2. Len(s) \in Nat \ {0} /\ DOMAIN s = 1..Len(s) /\ Head(s) = s[1]
    OBVIOUS
  <2> HIDE DEF t
  <2> QED BY <2>1, <2>2
<1> HIDE DEF t
<1>2. \A i \in DOMAIN t : i + 1 \in DOMAIN s /\ t[i] = s[i + 1] /\ i # 0
  BY <1>1
<1>3. Esta(Head(s), s)
  <2>1. 1 \in DOMAIN s
    BY <1>1
  <2> QED BY <1>1, <2>1 DEF Esta
<1>4. Esta(e, t) => Esta(e, s)
  BY <1>2 DEF Esta
<1>5. UnaVez(e, s) => UnaVez(e, t)
  <2> SUFFICES ASSUME UnaVez(e, s), NEW i \in DOMAIN t, NEW j \in DOMAIN t, t[i] = e, t[j] = e
               PROVE  i = j
    BY DEF UnaVez
  <2>1. i + 1 = j + 1
    BY <1>2 DEF UnaVez
  <2> QED BY <1>1, <2>1
<1>6. UnaVez(e, s) /\ e = Head(s) => ~Esta(e, t)
  <2> SUFFICES ASSUME UnaVez(e, s), e = Head(s), NEW i \in DOMAIN t, t[i] = e
               PROVE  FALSE
    BY DEF Esta
  <2>1. 1 \in DOMAIN s /\ s[1] = e /\ i + 1 \in DOMAIN s /\ s[i + 1] = e
    BY <1>1, <1>2
  <2>2. i + 1 = 1
    BY <2>1 DEF UnaVez
  <2> QED BY <1>1, <2>2
<1>7. Esta(e, s) => e = Head(s) \/ Esta(e, t)
  <2> SUFFICES ASSUME NEW i \in DOMAIN s, s[i] = e, i # 1
               PROVE  Esta(e, t)
    BY <1>1 DEF Esta
  <2>1. i - 1 \in DOMAIN t /\ t[i - 1] = s[i]
    BY <1>1
  <2> QED BY <2>1 DEF Esta
<1> QED BY <1>3, <1>4, <1>5, <1>6, <1>7 DEF t

\* The places an element has in a list, as a set.
LEMMA VecesEsta ==
  ASSUME NEW S, NEW s \in Seq(S), NEW e
  PROVE  /\ Veces(e, s) = 0 <=> ~Esta(e, s)
         /\ Veces(e, s) <= 1 <=> UnaVez(e, s)
         /\ Veces(e, s) \in Nat
<1> DEFINE P == {i \in DOMAIN s : s[i] = e}
<1>1. P \in SUBSET (1..Len(s)) /\ IsFiniteSet(1..Len(s))
  BY FS_Interval
<1>2. IsFiniteSet(P)
  BY <1>1, FS_Subset
<1>3. Veces(e, s) = Cardinality(P)
  BY DEF Veces
<1>4. Esta(e, s) <=> P # {}
  BY DEF Esta
<1>5. UnaVez(e, s) <=> \A i, j \in P : i = j
  BY DEF UnaVez
<1> HIDE DEF P
<1>6. Cardinality(P) \in Nat /\ (Cardinality(P) = 0 <=> P = {})
  BY <1>2, FS_CardinalityType, FS_EmptySet
<1>7. Cardinality(P) <= 1 => \A i, j \in P : i = j
  <2> SUFFICES ASSUME Cardinality(P) <= 1, NEW i \in P, NEW j \in P, i # j
               PROVE  FALSE
    OBVIOUS
  <2>1. IsFiniteSet(P \ {i}) /\ Cardinality(P \ {i}) = Cardinality(P) - 1
    BY <1>2, FS_RemoveElement
  <2>2. Cardinality(P \ {i}) = 0
    BY <1>6, <2>1, FS_CardinalityType
  <2>3. P \ {i} = {}
    BY <2>1, <2>2, FS_EmptySet
  <2> QED BY <2>3
<1>8. (\A i, j \in P : i = j) => Cardinality(P) <= 1
  <2> SUFFICES ASSUME \A i, j \in P : i = j, P # {}
               PROVE  Cardinality(P) <= 1
    BY <1>6
  <2>1. PICK i \in P : P = {i}
    OBVIOUS
  <2>2. Cardinality(P) = 1
    BY <2>1, FS_Singleton
  <2> QED BY <2>2
<1> QED BY <1>3, <1>4, <1>5, <1>6, <1>7, <1>8

LEMMA EstaAlOrdenar ==
  ASSUME NEW S, NEW lista \in Seq(S), NEW est, NEW s \in Ordenaciones(lista, est), NEW e
  PROVE  /\ Esta(e, s) <=> Esta(e, lista)
         /\ UnaVez(e, lista) => UnaVez(e, s)
<1>1. s \in Seq(S)
  BY OrdenacionesTipo
<1>2. /\ \A i \in DOMAIN s : s[i] \in Range(lista)
      /\ \A a \in Range(lista) : Veces(a, s) = Veces(a, lista)
  BY DEF Ordenaciones
<1>3. e \in Range(lista) <=> Esta(e, lista)
  BY DEF Range, Esta
<1>4. Esta(e, s) => Esta(e, lista)
  BY <1>2, <1>3 DEF Esta
<1>5. CASE Esta(e, lista)
  <2>1. Veces(e, s) = Veces(e, lista)
    BY <1>2, <1>3, <1>5
  <2> QED BY <1>1, <1>5, <2>1, VecesEsta
<1>6. CASE ~Esta(e, lista)
  BY <1>4, <1>6 DEF UnaVez, Esta
<1> QED BY <1>5, <1>6

\* What is on a channel stays there when more is sent.
LEMMA CanalCrece ==
  ASSUME NEW s \in Canal, NEW id \in Nat, NEW ids
  PROVE  Sin(Cabecera(s, id), ids) <=> Sin(s, ids) /\ id \notin ids
<1> DEFINE m == [id |-> id, clave |-> SinClave]
           t == Append(s, m)
<1>1. s \in Seq(Mensaje({})) /\ m \in Mensaje({})
  BY DEF Canal, Mensaje
<1>2. m.id = id
  OBVIOUS
<1> HIDE DEF m
<1>3. /\ Len(s) \in Nat /\ DOMAIN s = 1..Len(s) /\ DOMAIN t = 1..(Len(s) + 1)
      /\ \A i \in 1..Len(s) : t[i] = s[i]
      /\ t[Len(s) + 1] = m
  BY <1>1
<1>4. Cabecera(s, id) = t
  BY DEF Cabecera, Con, m
<1> HIDE DEF t
<1>5. Sin(t, ids) => Sin(s, ids)
  BY <1>3 DEF Sin
<1>6. Sin(t, ids) => id \notin ids
  <2>1. Len(s) + 1 \in DOMAIN t
    BY <1>3
  <2> QED BY <1>2, <1>3, <2>1 DEF Sin
<1>7. Sin(s, ids) /\ id \notin ids => Sin(t, ids)
  BY <1>2, <1>3 DEF Sin
<1> QED BY <1>4, <1>5, <1>6, <1>7

\* Neither main nor the lists change, and nobody is done with its GET.
LEMMA LugaresMarco ==
  ASSUME IInv, Lugares,
         UNCHANGED <<lista_ready, cola_esis_bloqueados, finished_esis, pc_plan, block, un_esi,
                     esi_respuesta, respuesta_ok, fin_de_esi, abort_esi>>,
         stop => stop',
         \A e \in Esis : Pide(e) => Pide(e)',
         \A e \in Esis : PorPresentarse(e)' => PorPresentarse(e),
         \A e \in Esis : pc_esi'[e] = "inicio" => esi_plan'[e] = <<>>,
         \A e \in Esis : ~Sin(esi_plan'[e], {20}) => Tail(esi_plan'[e]) = <<>>,
         \A e \in Esis : pc_esi'[e] = "fin" => pc_esi[e] = "fin",
         \A e \in Esis : Sin(esi_plan'[e], {24, 25}) => Sin(esi_plan[e], {24, 25}),
         pc_plan = "pregunta" /\ Pide(un_esi) /\ SinContestar(un_esi) => SinContestar(un_esi)',
         pc_plan \in Contesto /\ Pide(un_esi) /\ Negada(un_esi) => Negada(un_esi)',
         pc_plan \in Contesto /\ Abortando(un_esi) => Abortando(un_esi)',
         AvisoDeAborto' => Abortando(un_esi)'
  PROVE  Lugares'
<1>1. Corre' => Corre
  BY DEF Corre, PorCorrer
<1>2. \A e : /\ Aguarda(e)' <=> Aguarda(e)
             /\ Ausente(e)' <=> Ausente(e)
             /\ SinRepetir(e)' <=> SinRepetir(e)
             /\ Esta(e, finished_esis') <=> Esta(e, finished_esis)
  BY DEF Aguarda, Espera, Ausente, SinRepetir, Esta, UnaVez
<1>3. pc_plan \notin {"espera_inicial", "wait_start", "primero", "error"} => un_esi \in Esis
  BY DEF IInv, LocalesDeMain
<1>4. (\A e \in Esis : SinRepetir(e)') /\ (Corre' => Ausente(un_esi)')
  BY <1>1, <1>2 DEF Lugares
<1>5. Primeros'
  <2>1. \A e \in Esis : Aguarda(e)' \/ PorPresentarse(e)' => Pide(e)'
    BY <1>2 DEF Lugares, Primeros
  <2>2. \A e \in Esis : PorPresentarse(e)' => Ausente(e)' /\ e # un_esi'
    BY <1>2 DEF Lugares, Primeros
  <2> QED BY <2>1, <2>2 DEF Primeros
<1>6. BlockVigente'
  <2>1. block' /\ PorCorrer' => Pide(un_esi)'
    BY <1>3 DEF Lugares, BlockVigente, PorCorrer
  <2>2. block' /\ pc_plan' = "pregunta" => Pide(un_esi)' /\ SinContestar(un_esi)'
    BY <1>3 DEF Lugares, BlockVigente
  <2>3. pc_plan' = "desbloquear" => ~block'
    BY DEF Lugares, BlockVigente
  <2>4. Encolado' => Pide(un_esi)' /\ Negada(un_esi)'
    BY <1>3 DEF Lugares, BlockVigente, Encolado, Contesto
  <2> QED BY <2>1, <2>2, <2>3, <2>4 DEF BlockVigente
<1>7. AbortoVigente'
  BY DEF Lugares, AbortoVigente, Contesto
<1>8. Terminados'
  BY <1>2, <1>3 DEF Lugares, Terminados, EnRonda, Contesto
<1> QED BY <1>4, <1>5, <1>6, <1>7, <1>8 DEF Lugares

\* A round is the round of un_esi; between rounds everybody rests.
LEMMA RondaDe ==
  ASSUME IInv, UnTurno, algorithm # "SJFCD"
  PROVE  /\ pc_plan \in EnRonda => un_esi \in Esis /\ Turno(un_esi)
         /\ \A e \in Esis : ~Reposo(e) => e = un_esi /\ pc_plan \in EnRonda
<1>1. ASSUME NEW e \in Esis, Turno(e) PROVE e = un_esi /\ pc_plan \in EnRonda
  BY <1>1 DEF Turno, Antes, Durante, EnInstancia, Despues, SinPregunta, Consultada, Respondida,
     Cerrada, AvisoDeAborto, Abortada, EnRonda
<1>2. pc_plan \in EnRonda => \E e \in Esis : Turno(e)
  BY DEF UnTurno, EntreRondas
<1> QED BY <1>1, <1>2, TurnoDe

\* Who has an answer of the Coordinador to read.
LEMMA RondaContestada ==
  ASSUME IInv, UnTurno, algorithm # "SJFCD", NEW f \in Esis, pc_esi[f] = "espera", coord_esi[f] # <<>>
  PROVE  /\ f = un_esi /\ pc_plan \in EnRonda /\ esi_respuesta = 0
         /\ Contestada(f)
<1>1. ~Reposo(f)
  BY DEF Reposo
<1>2. Turno(f) /\ f = un_esi /\ pc_plan \in EnRonda
  BY <1>1, TurnoDe, RondaDe
<1>3. Despues(f) /\ Contestada(f)
  BY <1>2 DEF Turno, Antes, Durante, EnInstancia, Despues, Mandada, Leida, EnHost, Informada, Reposo,
     SinMensajes
<1>4. esi_respuesta = 0
  BY <1>1, <1>3 DEF Despues
<1> QED BY <1>2, <1>3, <1>4

\* Who has an answer that is not the refusal of a GET is in no list.
LEMMA RondaSinNegar ==
  ASSUME IInv, UnTurno, algorithm # "SJFCD", Lugares, NEW f \in Esis, pc_esi[f] = "espera",
         coord_esi[f] # <<>>, LineaValida(f, linea[f]) => Head(coord_esi[f]).id # 22
  PROVE  /\ Ausente(f) /\ ~PorPresentarse(f) /\ ~Encolado
         /\ pc_plan = "pregunta" => ~block
<1>1. f = un_esi /\ pc_plan \in EnRonda /\ Contestada(f) /\ esi_respuesta = 0
  BY RondaContestada
<1>2. ~PorPresentarse(f)
  BY <1>1 DEF Lugares, Primeros
<1>3. ~Encolado
  <2> SUFFICES ASSUME Encolado PROVE FALSE
    OBVIOUS
  <2>1. Pide(f) /\ Negada(f)
    BY <1>1 DEF Lugares, BlockVigente
  <2>2. Head(coord_esi[f]).id # 22
    BY <2>1 DEF Pide
  <2>3. Sin(esi_plan[f], {23})
    BY <1>1 DEF Contestada, Sin, Respuestas
  <2> QED BY <1>1, <2>1, <2>2, <2>3 DEF Negada, Rechazada, Contestada, Callado
<1>4. pc_plan = "pregunta" => ~block
  BY <1>1 DEF Lugares, BlockVigente, SinContestar
<1>5. Corre
  BY <1>1, <1>3 DEF Corre, Encolado, EnRonda, Contesto
<1> QED BY <1>1, <1>2, <1>3, <1>4, <1>5 DEF Lugares

\* An ESI goes on with its script: it has connected, read a line, or been
\* refused a key.
LEMMA EsiSigueLugares ==
  ASSUME IInv, UnTurno, algorithm # "SJFCD", Lugares, NEW f \in Esis, EsiActua(f),
         ConectarPlanificador(f) \/ ConectarCoordinador(f) \/ EjecutarLinea(f) \/ OperacionBloqueada(f)
  PROVE  Lugares'
<1>1. TypeOK
  BY DEF IInv
<1>2. /\ \A g \in Esis \ {f} : MismosCanales(g) /\ MismoPedido(g)
      /\ UNCHANGED <<varsPlan, varsCoord, plan_coord, coord_plan, guion>>
  BY <1>1, EsiAjeno
<1>3. /\ UNCHANGED <<lista_ready, cola_esis_bloqueados, finished_esis, pc_plan, block, un_esi,
                     esi_respuesta, respuesta_ok, fin_de_esi, abort_esi, stop>>
      /\ UNCHANGED <<pc_he, funcion, pc_hs, esi_operation, scheduler_response, key_is_not_blocked,
                     operation>>
  BY <1>2 DEF varsPlan, varsCoord, listas, banderas, semaforos, consola, hilosEsi, semaforosCoord
<1>4. esi_plan[f] \in Canal /\ coord_esi[f] \in Canal
  BY <1>1, CanalTipo DEF TypeOK
<1>5. \A g \in Esis \ {f} : flag_blocked'[g] = flag_blocked[g]
  BY <1>1 DEF ConectarPlanificador, ConectarCoordinador, EjecutarLinea, OperacionBloqueada, TypeOK,
     TypeOKEsi
\* What becomes of f.
<1>6. /\ pc_esi[f] = "inicio" =>
           pc_esi'[f] = "conectar" /\ esi_plan'[f] = Cabecera(esi_plan[f], 20)
      /\ pc_esi[f] # "inicio" =>
           esi_plan'[f] \in {esi_plan[f], Cabecera(esi_plan[f], 23)}
      /\ pc_esi[f] \notin {"inicio", "espera"} => esi_plan'[f] = esi_plan[f]
      /\ pc_esi'[f] \in {"conectar", "listo", "espera"} /\ pc_esi[f] # "fin"
      /\ \/ /\ UNCHANGED <<linea, flag_blocked, coord_esi, plan_esi>>
            /\ pc_esi'[f] # "espera" /\ pc_esi[f] # "espera"
         \/ /\ pc_esi[f] = "listo" /\ pc_esi'[f] = "espera"
            /\ UNCHANGED <<flag_blocked, coord_esi, esi_plan>>
            /\ linea'[f] = IF flag_blocked[f] THEN linea[f] ELSE linea[f] + 1
         \/ /\ pc_esi[f] = "espera" /\ pc_esi'[f] = "listo" /\ flag_blocked'[f]
            /\ UNCHANGED <<linea, plan_esi>>
            /\ coord_esi[f] # <<>> /\ Head(coord_esi[f]).id = 22
            /\ esi_plan'[f] = Cabecera(esi_plan[f], 23)
  BY <1>1 DEF ConectarPlanificador, ConectarCoordinador, EjecutarLinea, OperacionBloqueada, Llega, TypeOK,
     TypeOKEsi, TypeOKRed
<1>7. \A e \in Esis : Pide(e) => Pide(e)'
  <2>1. \A e \in Esis \ {f} : Pide(e) => Pide(e)'
    BY <1>2, <1>5 DEF MismosCanales, MismoPedido, Pide, LineaValida
  <2>2. Pide(f) => Pide(f)'
    BY <1>2, <1>6 DEF Pide, LineaValida
  <2> QED BY <2>1, <2>2
<1>8. /\ Sin(esi_plan[f], {20}) /\ pc_esi[f] # "inicio" => Sin(esi_plan'[f], {20})
      /\ Sin(esi_plan'[f], {24, 25}) => Sin(esi_plan[f], {24, 25})
      /\ Sin(esi_plan'[f], {25}) => Sin(esi_plan[f], {25})
      /\ Sin(esi_plan'[f], {23}) => Sin(esi_plan[f], {23})
      /\ ~Sin(esi_plan[f], {20}) => esi_plan'[f] = esi_plan[f] \/ pc_esi[f] \in {"inicio", "espera"}
  <2>1. ASSUME NEW id \in {20, 23}
        PROVE  /\ Sin(Cabecera(esi_plan[f], id), {20}) <=> Sin(esi_plan[f], {20}) /\ id \notin {20}
               /\ Sin(Cabecera(esi_plan[f], id), {23}) <=> Sin(esi_plan[f], {23}) /\ id \notin {23}
               /\ Sin(Cabecera(esi_plan[f], id), {25}) <=> Sin(esi_plan[f], {25}) /\ id \notin {25}
               /\ Sin(Cabecera(esi_plan[f], id), {24, 25}) <=>
                    Sin(esi_plan[f], {24, 25}) /\ id \notin {24, 25}
    BY <1>4, CanalCrece
  <2>2. esi_plan'[f] = esi_plan[f] \/ \E id \in {20, 23} : esi_plan'[f] = Cabecera(esi_plan[f], id)
    BY <1>6
  <2>3. pc_esi[f] # "inicio" => esi_plan'[f] \in {esi_plan[f], Cabecera(esi_plan[f], 23)}
    BY <1>6
  <2>4. pc_esi[f] \notin {"inicio", "espera"} => esi_plan'[f] = esi_plan[f]
    BY <1>6
  <2> QED BY <2>1, <2>2, <2>3, <2>4
<1>9. pc_esi[f] = "inicio" => esi_plan[f] = <<>>
  BY DEF Lugares, Primeros
<1>10. pc_esi[f] = "espera" => f = un_esi
  BY RondaDe DEF Reposo
<1>11. pc_esi[f] = "espera" => ~PorPresentarse(f)
  BY <1>10 DEF Lugares, Primeros
<1>12. \A e \in Esis : PorPresentarse(e)' => PorPresentarse(e)
  BY <1>2, <1>6, <1>8 DEF PorPresentarse, MismosCanales
<1>13. \A e \in Esis : pc_esi'[e] = "inicio" => esi_plan'[e] = <<>>
  BY <1>2, <1>6 DEF Lugares, Primeros, MismosCanales
<1>14. \A e \in Esis : ~Sin(esi_plan'[e], {20}) => Tail(esi_plan'[e]) = <<>>
  <2>1. \A e \in Esis \ {f} : ~Sin(esi_plan'[e], {20}) => Tail(esi_plan'[e]) = <<>>
    BY <1>2 DEF Lugares, Primeros, MismosCanales
  <2>2. CASE pc_esi[f] = "inicio"
    <3>1. Uno(esi_plan'[f], {20})
      BY <1>4, <1>6, <1>9, <2>2, CanalCabecera, CanalVacio
    <3> QED BY <2>1, <3>1 DEF Uno
  <2>3. CASE pc_esi[f] # "inicio"
    BY <1>8, <1>11, <2>1, <2>3 DEF Lugares, Primeros, PorPresentarse
  <2> QED BY <2>2, <2>3
<1>15. /\ \A e \in Esis : pc_esi'[e] = "fin" => pc_esi[e] = "fin"
       /\ \A e \in Esis : Sin(esi_plan'[e], {24, 25}) => Sin(esi_plan[e], {24, 25})
  BY <1>2, <1>6, <1>8 DEF MismosCanales
<1>16. pc_plan \in EnRonda => un_esi \in Esis
  BY DEF IInv, LocalesDeMain, EnRonda, Contesto
<1>17. pc_plan = "pregunta" /\ SinContestar(un_esi) => SinContestar(un_esi)'
  BY <1>2, <1>3, <1>6, <1>16 DEF SinContestar, MismosCanales, EnRonda
<1>18. pc_plan \in Contesto /\ Negada(un_esi) => Negada(un_esi)'
  <2>1. CASE un_esi # f
    BY <1>2, <1>3, <1>16, <2>1 DEF Negada, Rechazada, MismosCanales, Sin, EnRonda
  <2>2. CASE un_esi = f
    <3>1. CASE coord_esi' = coord_esi
      BY <1>2, <1>3, <1>8, <2>2, <3>1 DEF Negada, Rechazada
    <3>2. CASE esi_plan'[f] = Cabecera(esi_plan[f], 23)
      <4>1. ~Sin(esi_plan'[f], {23})
        BY <1>4, <3>2, CanalCrece
      <4> QED BY <1>3, <2>2, <4>1 DEF Negada, Rechazada
    <3> QED BY <1>6, <3>1, <3>2
  <2> QED BY <2>1, <2>2
<1>19. pc_plan \in EnRonda /\ Abortando(un_esi) => Abortando(un_esi)'
  BY <1>2, <1>3, <1>6, <1>8, <1>16 DEF Abortando, MismosCanales
<1>20. AvisoDeAborto' => Abortando(un_esi)'
  <2>1. AvisoDeAborto' => AvisoDeAborto
    BY <1>2, <1>3 DEF AvisoDeAborto, SinPregunta, Posts, Abortada, Uno
  <2>2. AvisoDeAborto => pc_plan \in EnRonda /\ Abortando(un_esi)
    BY DEF Lugares, AbortoVigente, AvisoDeAborto, SinPregunta, Abortada, EnRonda
  <2> QED BY <1>19, <2>1, <2>2
<1> HIDE DEF Lugares
<1> QED BY <1>3, <1>7, <1>12, <1>13, <1>14, <1>15, <1>17, <1>18, <1>19, <1>20, LugaresMarco DEF EnRonda

\* An ESI has ended, or its operation was done.
LEMMA EsiTerminaLugares ==
  ASSUME IInv, UnTurno, algorithm # "SJFCD", Lugares, NEW f \in Esis, EsiActua(f),
         OperacionHecha(f) \/ Abortar(f)
  PROVE  Lugares'
<1>1. TypeOK
  BY DEF IInv
<1>2. /\ \A g \in Esis \ {f} : MismosCanales(g) /\ MismoPedido(g)
      /\ UNCHANGED <<varsPlan, varsCoord, plan_coord, coord_plan, guion>>
  BY <1>1, EsiAjeno
<1>3. /\ UNCHANGED <<lista_ready, cola_esis_bloqueados, finished_esis, pc_plan, block, un_esi,
                     esi_respuesta, respuesta_ok, fin_de_esi, abort_esi, stop>>
      /\ UNCHANGED <<pc_hs, esi_operation, scheduler_response, operation>>
  BY <1>2 DEF varsPlan, varsCoord, listas, banderas, semaforos, consola, semaforosCoord
<1>4. esi_plan[f] \in Canal
  BY <1>1, CanalTipo DEF TypeOK
<1>5. \A g \in Esis \ {f} : flag_blocked'[g] = flag_blocked[g]
  BY <1>1 DEF OperacionHecha, Abortar, TypeOK, TypeOKEsi
<1>6. /\ pc_esi[f] = "espera" /\ coord_esi[f] # <<>>
      /\ LineaValida(f, linea[f]) => Head(coord_esi[f]).id # 22
      /\ \/ /\ pc_esi'[f] = "listo" /\ Head(coord_esi[f]).id = 23
            /\ esi_plan'[f] = Cabecera(esi_plan[f], 22)
         \/ /\ pc_esi'[f] = "fin" /\ Head(coord_esi[f]).id = 23
            /\ esi_plan'[f] = Cabecera(esi_plan[f], 24)
         \/ pc_esi'[f] = "fin" /\ esi_plan'[f] = Cabecera(esi_plan[f], 25)
  BY <1>1 DEF OperacionHecha, Abortar, Salir, Llega, TypeOK, TypeOKEsi, TypeOKRed
<1>7. f = un_esi /\ pc_plan \in EnRonda /\ esi_respuesta = 0 /\ Contestada(f)
  BY <1>6, RondaContestada
<1>8. Ausente(f) /\ ~PorPresentarse(f) /\ ~Encolado /\ (pc_plan = "pregunta" => ~block)
  BY <1>6, RondaSinNegar
<1>9. \A e : /\ Aguarda(e)' <=> Aguarda(e)
             /\ Ausente(e)' <=> Ausente(e)
             /\ SinRepetir(e)' <=> SinRepetir(e)
             /\ Esta(e, finished_esis') <=> Esta(e, finished_esis)
  BY <1>3 DEF Aguarda, Espera, Ausente, SinRepetir, Esta, UnaVez
<1>10. ~PorPresentarse(f)' /\ pc_esi'[f] # "inicio"
  <2>1. \A id \in {22, 24, 25} : Sin(Cabecera(esi_plan[f], id), {20}) <=> Sin(esi_plan[f], {20})
    BY <1>4, CanalCrece
  <2> QED BY <1>6, <1>8, <2>1 DEF PorPresentarse
<1>11. (\A e \in Esis : SinRepetir(e)') /\ (Corre' => Ausente(un_esi)')
  BY <1>3, <1>9 DEF Lugares, Corre, PorCorrer
<1>12. Primeros'
  <2>1. \A e \in Esis \ {f} :
          (Pide(e)' <=> Pide(e)) /\ (PorPresentarse(e)' <=> PorPresentarse(e))
    BY <1>2, <1>5 DEF MismosCanales, MismoPedido, Pide, LineaValida, PorPresentarse
  <2>2. ~Aguarda(f)'
    BY <1>8, <1>9 DEF Ausente
  <2>3. \A e \in Esis : Aguarda(e)' \/ PorPresentarse(e)' => Pide(e)'
    BY <1>9, <1>10, <2>1, <2>2 DEF Lugares, Primeros
  <2>4. \A e \in Esis : PorPresentarse(e)' => Ausente(e)' /\ e # un_esi'
    BY <1>3, <1>9, <1>10, <2>1 DEF Lugares, Primeros
  <2>5. /\ \A e \in Esis : pc_esi'[e] = "inicio" => esi_plan'[e] = <<>>
        /\ \A e \in Esis : ~Sin(esi_plan'[e], {20}) => Tail(esi_plan'[e]) = <<>>
    BY <1>2, <1>10 DEF Lugares, Primeros, MismosCanales, PorPresentarse
  <2> QED BY <2>3, <2>4, <2>5 DEF Primeros
<1>13. BlockVigente'
  <2>1. ~PorCorrer' /\ ~Encolado'
    BY <1>3, <1>7, <1>8 DEF PorCorrer, Encolado, EnRonda, Contesto
  <2> QED BY <1>3, <1>8, <2>1 DEF Lugares, BlockVigente
<1>14. AbortoVigente'
  <2>1. Abortando(f) => Abortando(f)'
    <3>1. Abortando(f) => Head(coord_esi[f]).id = 24
      BY <1>6, <1>7 DEF Abortando, Contestada, Sin, Respuestas
    <3>2. Head(coord_esi[f]).id = 24 => ~Sin(esi_plan'[f], {25})
      BY <1>4, <1>6, CanalCrece
    <3> QED BY <3>1, <3>2 DEF Abortando
  <2>2. AvisoDeAborto' => AvisoDeAborto
    BY <1>2, <1>3 DEF AvisoDeAborto, SinPregunta, Posts, Abortada, Uno
  <2> QED BY <1>3, <1>7, <2>1, <2>2 DEF Lugares, AbortoVigente
<1>15. Terminados'
  <2>1. pc_esi'[f] = "fin" => ~Sin(esi_plan'[f], {24, 25})
    <3>1. \A id \in {24, 25} : ~Sin(Cabecera(esi_plan[f], id), {24, 25})
      BY <1>4, CanalCrece
    <3> QED BY <1>6, <3>1
  <2>2. \A e \in Esis \ {f} : pc_esi'[e] = pc_esi[e]
    BY <1>2 DEF MismosCanales
  <2> QED BY <1>3, <1>7, <1>9, <2>1, <2>2 DEF Lugares, Terminados
<1> QED BY <1>11, <1>12, <1>13, <1>14, <1>15 DEF Lugares

LEMMA EsiLugares ==
  ASSUME IInv, UnTurno, algorithm # "SJFCD", Lugares, NEW f \in Esis, EsiActua(f)
  PROVE  Lugares'
BY EsiSigueLugares, EsiTerminaLugares DEF EsiActua, PasoEsi

\* host_esi: what it does for its ESI, and when.
LEMMA HostEsiEtapa ==
  ASSUME IInv, UnTurno, algorithm # "SJFCD", NEW f \in Esis, CoordActua(PasoHostEsi(f))
  PROVE  \/ /\ HostEsi(f) \/ DesconectarEsi(f)
            /\ pc_he[f] # "planificador" /\ coord_esi' = coord_esi
            /\ UNCHANGED <<operation, esi_operation, scheduler_response, key_is_not_blocked>>
         \/ /\ f = un_esi /\ pc_plan = "pregunta" /\ coord_esi[f] = <<>> /\ pc_esi[f] = "espera"
            /\ \/ RecibirOperacion(f) \/ PublicarOperacion(f)
               \/ AbortarLineaInvalida(f) /\ ~LineaValida(f, linea[f])
               \/ AbortarClaveNoPedida(f) /\ guion[f][linea[f]].op # "GET"
         \/ /\ f = un_esi /\ pc_plan \in Contesto /\ coord_esi[f] = <<>> /\ pc_esi[f] = "espera"
            /\ Sin(esi_plan[f], {23}) /\ esi_respuesta = 0 /\ pc_hs = "recv"
            /\ \/ OperacionRechazada(f) /\ funcion[f] = guion[f][linea[f]].op
               \/ PedirInstancia(f) \/ InstanciaCaida(f) \/ ConfirmarOperacion(f)
<1>1. TypeOK /\ PasoHostEsi(f)
  BY DEF IInv, CoordActua
<1>2. esi_coord[f] \in Canal
  BY <1>1, CanalTipo DEF TypeOK
<1>3. CASE HostEsi(f) \/ DesconectarEsi(f)
  BY <1>3 DEF HostEsi, DesconectarEsi, semaforosCoord
<1>4. CASE RecibirOperacion(f) \/ AbortarLineaInvalida(f)
  <2>1. esi_coord[f] # <<>> /\ Head(esi_coord[f]).id \in Pedidos
    BY <1>4 DEF RecibirOperacion, AbortarLineaInvalida, Llega, Pedidos
  <2>2. ~Sin(esi_coord[f], Pedidos)
    BY <1>2, <2>1, CanalResto
  <2>3. Turno(f) /\ f = un_esi
    BY <2>2, TurnoDe, RondaDe DEF Reposo, SinMensajes
  <2>4. Antes(f) /\ Leida(f)
    BY <2>2, <2>3 DEF Turno, Antes, Durante, EnInstancia, Despues, Mandada, EnHost, Contestada,
       Informada, Reposo, SinMensajes
  <2>5. pc_plan = "pregunta" /\ coord_esi[f] = <<>> /\ pc_esi[f] = "espera"
    BY <2>4 DEF Antes, SinPregunta, Leida
  <2>6. Head(esi_coord[f]) = Pedido(f)
    BY <1>2, <2>1, <2>4, CanalResto DEF Leida
  <2>7. ASSUME LineaValida(f, linea[f]) PROVE Head(esi_coord[f]).id # 25
    <3>1. guion[f][linea[f]].op \in {"GET", "SET", "STORE"}
      BY <1>1, <2>7, LineaDeGuion DEF TypeOK, LineaValida
    <3> QED BY <2>6, <2>7, <3>1 DEF Pedido, IdDe
  <2>8. AbortarLineaInvalida(f) => ~LineaValida(f, linea[f])
    BY <2>7 DEF AbortarLineaInvalida, Llega
  <2> QED BY <1>4, <2>3, <2>5, <2>8
<1>5. CASE PublicarOperacion(f) \/ AbortarClaveNoPedida(f)
  <2>1. pc_he[f] = "preparada"
    BY <1>5 DEF PublicarOperacion, AbortarClaveNoPedida
  <2>2. Turno(f) /\ EnHost(f, "preparada") /\ Antes(f)
    BY <2>1, TurnoDeHost
  <2>3. f = un_esi
    BY <2>2 DEF Turno
  <2>4. /\ pc_plan = "pregunta" /\ coord_esi[f] = <<>> /\ pc_esi[f] = "espera"
        /\ funcion[f] = guion[f][linea[f]].op
    BY <2>2 DEF Antes, SinPregunta, EnHost, SinMensajes, EnPedido
  <2> QED BY <1>5, <2>3, <2>4 DEF AbortarClaveNoPedida
<1>6. CASE OperacionRechazada(f) \/ PedirInstancia(f) \/ InstanciaCaida(f) \/ ConfirmarOperacion(f)
  <2>1. /\ pc_he[f] \in {"planificador", "instancia"}
        /\ pc_he[f] = "planificador" => scheduler_response > 0
    BY <1>6 DEF OperacionRechazada, PedirInstancia, InstanciaCaida, ConfirmarOperacion
  <2>2. /\ Turno(f) /\ EnHost(f, pc_he[f]) /\ (Durante(f) \/ EnInstancia(f))
        /\ pc_he[f] = "planificador" => Durante(f)
    BY <2>1, TurnoDeHost
  <2>3. f = un_esi
    BY <2>2 DEF Turno
  <2>4. Cerrada /\ esi_respuesta = 0
    BY <2>1, <2>2 DEF Durante, EnInstancia, EnHost, Posts
  <2>5. /\ pc_plan \in Contesto /\ pc_hs = "recv" /\ coord_esi[f] = <<>> /\ pc_esi[f] = "espera"
        /\ Sin(esi_plan[f], {23}) /\ funcion[f] = guion[f][linea[f]].op
    BY <2>2, <2>4 DEF Cerrada, EnHost, SinMensajes, EnPedido, Sin, Respuestas
  <2> QED BY <1>6, <2>3, <2>4, <2>5
<1> QED BY <1>1, <1>3, <1>4, <1>5, <1>6 DEF PasoHostEsi

LEMMA HostEsiLugares ==
  ASSUME IInv, UnTurno, algorithm # "SJFCD", Lugares, NEW f \in Esis, CoordActua(PasoHostEsi(f))
  PROVE  Lugares'
<1>1. TypeOK
  BY DEF IInv
<1>2. /\ \A g \in Esis \ {f} : MismosCanales(g) /\ funcion'[g] = funcion[g]
      /\ UNCHANGED <<varsEsi, varsPlan, plan_esi, esi_plan, plan_coord, coord_plan, pc_hs>>
  BY <1>1, HostEsiAjeno
<1>3. UNCHANGED <<lista_ready, cola_esis_bloqueados, finished_esis, pc_plan, block, un_esi,
                  esi_respuesta, respuesta_ok, fin_de_esi, abort_esi, stop, guion, pc_esi, linea,
                  flag_blocked>>
  BY <1>2 DEF varsPlan, varsEsi, listas, banderas, semaforos, consola
<1>4. /\ \A e : Pide(e)' <=> Pide(e)
      /\ \A e : PorPresentarse(e)' <=> PorPresentarse(e)
  BY <1>2, <1>3 DEF Pide, LineaValida, PorPresentarse, Sin
<1>5. coord_esi[f] \in Canal /\ DOMAIN coord_esi = Esis /\ DOMAIN pc_he = Esis
  BY <1>1, CanalTipo DEF TypeOK, TypeOKRed, TypeOKCoord
<1>6. /\ \A e \in Esis : pc_esi'[e] = "inicio" => esi_plan'[e] = <<>>
      /\ \A e \in Esis : ~Sin(esi_plan'[e], {20}) => Tail(esi_plan'[e]) = <<>>
      /\ \A e \in Esis : Sin(esi_plan'[e], {24, 25}) => Sin(esi_plan[e], {24, 25})
  BY <1>2, <1>3 DEF Lugares, Primeros, Sin
<1>7. pc_plan \in EnRonda => un_esi \in Esis
  BY DEF IInv, LocalesDeMain, EnRonda, Contesto
\* A thread that starts or ends.
<1>8. CASE /\ HostEsi(f) \/ DesconectarEsi(f)
           /\ pc_he[f] # "planificador" /\ coord_esi' = coord_esi
           /\ UNCHANGED <<operation, esi_operation, scheduler_response, key_is_not_blocked>>
  <2>1. SinContestar(un_esi) => SinContestar(un_esi)'
    BY <1>2, <1>3, <1>8 DEF SinContestar
  <2>2. pc_plan \in Contesto /\ Negada(un_esi) => Negada(un_esi)'
    BY <1>2, <1>3, <1>7, <1>8 DEF Negada, Rechazada, Sin, MismosCanales, EnRonda
  <2>3. Abortando(un_esi) => Abortando(un_esi)'
    BY <1>2, <1>3, <1>8 DEF Abortando, Sin
  <2>4. AvisoDeAborto' => AvisoDeAborto
    BY <1>2, <1>3, <1>8 DEF AvisoDeAborto, SinPregunta, Posts, Abortada, Uno
  <2>5. AvisoDeAborto' => Abortando(un_esi)'
    BY <2>3, <2>4 DEF Lugares, AbortoVigente
  <2> HIDE DEF Lugares
  <2> QED BY <1>3, <1>4, <1>6, <2>1, <2>2, <2>3, <2>5, LugaresMarco
\* A request that comes in, is published or refused.
<1>9. CASE /\ f = un_esi /\ pc_plan = "pregunta" /\ coord_esi[f] = <<>> /\ pc_esi[f] = "espera"
           /\ \/ RecibirOperacion(f) \/ PublicarOperacion(f)
              \/ AbortarLineaInvalida(f) /\ ~LineaValida(f, linea[f])
              \/ AbortarClaveNoPedida(f) /\ guion[f][linea[f]].op # "GET"
  <2>1. CASE RecibirOperacion(f) \/ PublicarOperacion(f)
    <3>1. coord_esi' = coord_esi
      BY <2>1 DEF RecibirOperacion, PublicarOperacion, varsRed
    <3>2. AvisoDeAborto' => AvisoDeAborto
      <4>1. CASE RecibirOperacion(f)
        <5>1. UNCHANGED <<operation, esi_operation, scheduler_response>>
          BY <4>1 DEF RecibirOperacion, semaforosCoord
        <5> QED BY <1>2, <1>3, <5>1 DEF AvisoDeAborto, SinPregunta, Posts, Abortada, Uno
      <4>2. CASE PublicarOperacion(f)
        <5>1. operation' # "ABORT" /\ esi_operation' # 0
          BY <1>1, <4>2 DEF PublicarOperacion, TypeOK, TypeOKCoord
        <5>2. ~AvisoDeAborto'
          <6>1. ~Abortada' \/ Abortada
            BY <1>2, <1>3 DEF Abortada, Uno
          <6>2. Posts(0, 0)' => FALSE
            BY <5>1 DEF Posts
          <6> QED BY <5>1, <6>2 DEF AvisoDeAborto
        <5> QED BY <5>2
      <4> QED BY <2>1, <4>1, <4>2
    <3>3. SinContestar(un_esi) => SinContestar(un_esi)'
      BY <1>2, <1>3, <3>1 DEF SinContestar
    <3>4. AvisoDeAborto' => Abortando(un_esi)'
      BY <1>2, <1>3, <3>1, <3>2 DEF Lugares, AbortoVigente, Abortando, Sin
    <3> HIDE DEF Lugares
    <3> QED BY <1>3, <1>4, <1>6, <1>9, <3>3, <3>4, LugaresMarco DEF Contesto
  <2>2. CASE \/ AbortarLineaInvalida(f) /\ ~LineaValida(f, linea[f])
             \/ AbortarClaveNoPedida(f) /\ guion[f][linea[f]].op # "GET"
    <3>1. coord_esi'[f] = Cabecera(<<>>, 24)
      BY <1>5, <1>9, <2>2 DEF AbortarLineaInvalida, AbortarClaveNoPedida
    <3>2. coord_esi'[f] # <<>> /\ Head(coord_esi'[f]).id = 24
      BY <3>1, CanalPrimero
    <3>3. ~Pide(un_esi)
      BY <1>9, <2>2 DEF Pide
    <3>4. Abortando(un_esi)'
      BY <1>3, <1>9, <3>2 DEF Abortando
    <3> QED BY <1>3, <1>4, <1>6, <1>9, <3>3, <3>4, LugaresMarco DEF Contesto
  <2> QED BY <1>9, <2>1, <2>2
\* The answer.
<1>10. CASE /\ f = un_esi /\ pc_plan \in Contesto /\ coord_esi[f] = <<>> /\ pc_esi[f] = "espera"
            /\ Sin(esi_plan[f], {23}) /\ esi_respuesta = 0 /\ pc_hs = "recv"
            /\ \/ OperacionRechazada(f) /\ funcion[f] = guion[f][linea[f]].op
               \/ PedirInstancia(f) \/ InstanciaCaida(f) \/ ConfirmarOperacion(f)
  <2>1. pc_plan \in Contesto /\ Pide(un_esi) /\ Negada(un_esi) => Negada(un_esi)'
    <3>1. CASE OperacionRechazada(f) /\ funcion[f] = guion[f][linea[f]].op
      <4>1. Pide(un_esi) => coord_esi'[f] = Cabecera(<<>>, 22)
        BY <1>5, <1>10, <3>1 DEF OperacionRechazada, Pide
      <4>2. Pide(un_esi) => coord_esi'[f] # <<>> /\ Head(coord_esi'[f]).id = 22
        BY <4>1, CanalPrimero
      <4> QED BY <1>3, <1>10, <4>2 DEF Negada, Rechazada
    <3>2. CASE PedirInstancia(f) \/ InstanciaCaida(f) \/ ConfirmarOperacion(f)
      <4>1. pc_he[f] = "instancia" \/ key_is_not_blocked
        BY <3>2 DEF PedirInstancia, InstanciaCaida, ConfirmarOperacion
      <4>2. ~Negada(un_esi)
        BY <1>10, <4>1 DEF Negada, Rechazada
      <4> QED BY <4>2
    <3> QED BY <1>10, <3>1, <3>2
  <2>2. Abortando(un_esi) => Abortando(un_esi)'
    BY <1>2, <1>3, <1>10 DEF Abortando, Sin
  <2>3. ~AvisoDeAborto'
    BY <1>3, <1>10 DEF AvisoDeAborto, SinPregunta, Abortada, Contesto
  <2> QED BY <1>3, <1>4, <1>6, <1>10, <2>1, <2>2, <2>3, LugaresMarco DEF Contesto
<1> QED BY <1>8, <1>9, <1>10, HostEsiEtapa

\* host_scheduler asks main, takes its answer, or tells it of an abort.
LEMMA HostSchedulerLugares ==
  ASSUME IInv, UnTurno, algorithm # "SJFCD", Lugares, CoordActua(PasoHostScheduler)
  PROVE  Lugares'
<1>1. /\ UNCHANGED <<lista_ready, cola_esis_bloqueados, finished_esis, pc_plan, block, un_esi,
                     esi_respuesta, respuesta_ok, fin_de_esi, abort_esi, stop>>
      /\ UNCHANGED <<guion, pc_esi, linea, flag_blocked>>
  BY DEF CoordActua, varsPlan, varsEsi, listas, banderas, semaforos, consola
<1>2. \/ EsperarEsi \/ AvisarInicio \/ RecibirTurno \/ ConsultarPlanificador \/ AvisarAborto
      \/ RecibirRespuestaPlan
  BY NadiePideStatus DEF CoordActua, PasoHostScheduler
<1>3. UNCHANGED <<pc_he, funcion, coord_esi, esi_plan, plan_esi, operation>>
  BY <1>2 DEF EsperarEsi, AvisarInicio, RecibirTurno, ConsultarPlanificador, AvisarAborto,
     RecibirRespuestaPlan, hilosEsi, varsRed
<1>4. /\ \A e : Pide(e)' <=> Pide(e)
      /\ \A e : PorPresentarse(e)' <=> PorPresentarse(e)
      /\ \A e : SinContestar(e)' <=> SinContestar(e)
      /\ \A e : Abortando(e)' <=> Abortando(e)
  BY <1>1, <1>3 DEF Pide, LineaValida, PorPresentarse, SinContestar, Abortando, Sin
<1>5. /\ \A e \in Esis : pc_esi'[e] = "inicio" => esi_plan'[e] = <<>>
      /\ \A e \in Esis : ~Sin(esi_plan'[e], {20}) => Tail(esi_plan'[e]) = <<>>
      /\ \A e \in Esis : Sin(esi_plan'[e], {24, 25}) => Sin(esi_plan[e], {24, 25})
  BY <1>1, <1>3 DEF Lugares, Primeros, Sin
<1>6. pc_plan \in EnRonda => un_esi \in Esis /\ Turno(un_esi)
  BY RondaDe
\* main refused: host_esi is told so.
<1>7. pc_plan \in Contesto /\ Negada(un_esi) => Negada(un_esi)'
  <2>1. CASE ~(pc_he[un_esi] = "planificador" /\ RecibirRespuestaPlan)
    <3>1. CASE pc_he[un_esi] # "planificador"
      BY <1>1, <1>3, <3>1 DEF Negada, Rechazada, Sin
    <3>2. CASE pc_he[un_esi] = "planificador" /\ ~RecibirRespuestaPlan
      <4>1. CASE EsperarEsi \/ AvisarInicio
        BY <1>1, <1>3, <4>1 DEF EsperarEsi, AvisarInicio, Negada, Rechazada, Sin, semaforosCoord
      <4>2. CASE RecibirTurno \/ ConsultarPlanificador \/ AvisarAborto
        <5>1. pc_hs # "respuesta" /\ UNCHANGED <<scheduler_response, key_is_not_blocked>>
          BY <4>2 DEF RecibirTurno, ConsultarPlanificador, AvisarAborto, semaforosCoord
        <5> QED BY <1>1, <1>3, <5>1 DEF Negada, Rechazada, Sin
      <4> QED BY <1>2, <3>2, <4>1, <4>2
    <3> QED BY <2>1, <3>1, <3>2
  <2>2. CASE pc_plan \in Contesto /\ pc_he[un_esi] = "planificador" /\ RecibirRespuestaPlan
    <3>1. Durante(un_esi)
      BY <1>6, <2>2, TurnoDeHost DEF EnRonda
    <3>2. Respondida /\ Posts(0, 0)
      BY <2>2, <3>1 DEF RecibirRespuestaPlan, Durante, SinPregunta, Consultada, Cerrada
    <3>3. plan_coord # <<>> /\ Head(plan_coord).id \in {31, 32, 34, 35}
      BY <3>2 DEF Respondida, Uno
    <3>4. /\ scheduler_response = 0 /\ scheduler_response' = 1
          /\ key_is_not_blocked' <=> Head(plan_coord).id \in {31, 34}
      BY <2>2, <3>2, <3>3 DEF RecibirRespuestaPlan, Posts
    <3> QED BY <1>1, <1>3, <2>2, <3>4 DEF Negada, Rechazada, Sin
  <2> QED BY <2>1, <2>2
\* An abort that is published was answered to the ESI at once.
<1>8. AvisoDeAborto' => AvisoDeAborto
  <2>1. CASE EsperarEsi \/ AvisarInicio
    <3>1. UNCHANGED <<esi_operation, scheduler_response, operation, plan_coord, pc_plan>>
      BY <1>1, <2>1 DEF EsperarEsi, AvisarInicio, semaforosCoord, varsRed
    <3>2. CASE EsperarEsi
      BY <3>1, <3>2 DEF EsperarEsi, varsRed, AvisoDeAborto, SinPregunta, Abortada, Posts, Uno
    <3>3. CASE AvisarInicio
      <4>1. coord_plan \in Canal
        BY CanalTipo DEF IInv, TypeOK
      <4>2. coord_plan = <<>> /\ pc_hs = "una_instancia"
        BY <3>3 DEF AvisarInicio, UnTurno, EntreRondas, Turno, Antes, Durante, EnInstancia, Despues,
           SinPregunta, Consultada, Respondida, Cerrada, AvisoDeAborto, Abortada
      <4>3. coord_plan' # <<>> /\ Head(coord_plan').id = 35
        BY <3>3, <4>2, CanalPrimero DEF AvisarInicio
      <4> QED BY <4>3 DEF AvisoDeAborto, SinPregunta, Abortada, Uno
    <3> QED BY <2>1, <3>2, <3>3
  <2>2. CASE RecibirTurno
    <3>1. /\ pc_hs = "recv" /\ pc_hs' = "operacion" /\ plan_coord # <<>>
          /\ UNCHANGED <<esi_operation, scheduler_response, operation, coord_plan>>
      BY <2>2 DEF RecibirTurno, semaforosCoord
    <3>2. AvisoDeAborto' => SinPregunta' /\ Posts(1, 0)' /\ operation' = "ABORT"
      BY <3>1 DEF AvisoDeAborto, Abortada
    <3>3. ASSUME SinPregunta', Posts(1, 0)', operation' = "ABORT" PROVE AvisoDeAborto
      <4>1. pc_plan = "pregunta" /\ Posts(1, 0) /\ operation = "ABORT" /\ plan_coord # <<>>
            /\ coord_plan = <<>> /\ pc_hs = "recv"
        BY <1>1, <3>1, <3>3 DEF SinPregunta, Posts
      <4>2. Turno(un_esi) /\ ~Abortada /\ ~Cerrada
        BY <1>6, <4>1 DEF EnRonda, Abortada, Cerrada
      <4>3. SinPregunta
        BY <4>1, <4>2 DEF Turno, Antes, Durante, EnInstancia, Despues, AvisoDeAborto, SinPregunta,
           Consultada, Respondida, Cerrada, Contesto
      <4> QED BY <4>1, <4>3 DEF AvisoDeAborto
    <3> QED BY <3>2, <3>3
  <2>3. CASE ConsultarPlanificador
    <3>1. pc_hs' = "respuesta"
      BY <2>3 DEF ConsultarPlanificador
    <3> QED BY <3>1 DEF AvisoDeAborto, SinPregunta, Abortada
  <2>4. CASE AvisarAborto
    <3>1. pc_hs = "operacion" /\ esi_operation > 0 /\ operation = "ABORT" /\ pc_hs' = "recv"
          /\ UNCHANGED plan_coord
      BY <2>4 DEF AvisarAborto
    <3>2. AvisoDeAborto' => pc_plan = "pregunta"
      BY <1>1 DEF AvisoDeAborto, SinPregunta, Abortada
    <3>3. pc_plan = "pregunta" => Turno(un_esi)
      BY <1>6 DEF EnRonda
    <3>4. (SinPregunta /\ Posts(1, 0)) \/ ~Turno(un_esi)
      BY <3>1 DEF Turno, Antes, Durante, EnInstancia, Despues, AvisoDeAborto, SinPregunta, Consultada,
         Respondida, Cerrada, Abortada, Posts
    <3> QED BY <3>1, <3>2, <3>3, <3>4 DEF AvisoDeAborto
  <2>5. CASE RecibirRespuestaPlan
    <3>1. pc_hs = "respuesta" /\ pc_hs' = "recv" /\ UNCHANGED coord_plan
      BY <2>5 DEF RecibirRespuestaPlan
    <3>2. scheduler_response' # 0
      BY <2>5 DEF RecibirRespuestaPlan, IInv, TypeOK, TypeOKCoord
    <3> QED BY <3>2 DEF AvisoDeAborto, Posts
  <2> QED BY <1>2, <2>1, <2>2, <2>3, <2>4, <2>5
<1>9. AvisoDeAborto' => Abortando(un_esi)'
  BY <1>1, <1>4, <1>8 DEF Lugares, AbortoVigente
<1> HIDE DEF Lugares
<1> QED BY <1>1, <1>4, <1>5, <1>7, <1>9, LugaresMarco

\* host_instance: the round does not change but for the Instance.
LEMMA HostInstanceLugares ==
  ASSUME IInv, Lugares, CoordActua(PasoHostInstance)
  PROVE  Lugares'
<1>1. /\ UNCHANGED <<lista_ready, cola_esis_bloqueados, finished_esis, pc_plan, block, un_esi,
                     esi_respuesta, respuesta_ok, fin_de_esi, abort_esi, stop>>
      /\ UNCHANGED <<guion, pc_esi, linea, flag_blocked>>
  BY DEF CoordActua, varsPlan, varsEsi, listas, banderas, semaforos, consola
<1>2. /\ UNCHANGED <<pc_he, funcion, coord_esi, esi_plan, plan_esi, plan_coord, coord_plan>>
      /\ UNCHANGED <<operation, pc_hs, esi_operation, scheduler_response, key_is_not_blocked>>
  BY DEF CoordActua, PasoHostInstance, HostInstance, AtenderPedido, TerminarPedido, hilosEsi, varsRed,
     semaforosCoord
<1>3. /\ \A e : Pide(e)' <=> Pide(e)
      /\ \A e : PorPresentarse(e)' <=> PorPresentarse(e)
      /\ \A e : SinContestar(e)' <=> SinContestar(e)
      /\ \A e : Abortando(e)' <=> Abortando(e)
      /\ \A e : Negada(e)' <=> Negada(e)
      /\ AvisoDeAborto' <=> AvisoDeAborto
  BY <1>1, <1>2 DEF Pide, LineaValida, PorPresentarse, SinContestar, Abortando, Negada, Rechazada, Sin,
     AvisoDeAborto, SinPregunta, Abortada, Posts, Uno
<1>4. /\ \A e \in Esis : pc_esi'[e] = "inicio" => esi_plan'[e] = <<>>
      /\ \A e \in Esis : ~Sin(esi_plan'[e], {20}) => Tail(esi_plan'[e]) = <<>>
      /\ \A e \in Esis : Sin(esi_plan'[e], {24, 25}) => Sin(esi_plan[e], {24, 25})
  BY <1>1, <1>2 DEF Lugares, Primeros, Sin
<1>5. AvisoDeAborto' => Abortando(un_esi)'
  BY <1>1, <1>3 DEF Lugares, AbortoVigente
<1> HIDE DEF Lugares
<1> QED BY <1>1, <1>3, <1>4, <1>5, LugaresMarco

-----------------------------------------------------------------------------
(* main and the places of the ESIs.                                        *)

\* What no step of main changes.
LEMMA MainAjeno ==
  ASSUME PlanActua(PasoMain)
  PROVE  /\ UNCHANGED <<pc_esi, pc_he, funcion, pc_hs, operation, esi_operation, scheduler_response,
                        key_is_not_blocked, esi_plan, coord_esi, stop>>
         /\ \A e : Pide(e)' <=> Pide(e)
         /\ \A e : PorPresentarse(e)' <=> PorPresentarse(e)
<1>1. UNCHANGED <<guion, linea, flag_blocked, pc_esi, pc_he, funcion, pc_hs, operation, esi_operation,
                  scheduler_response, key_is_not_blocked>>
  BY DEF PlanActua, varsEsi, varsCoord, hilosEsi, semaforosCoord
<1>2. UNCHANGED <<esi_plan, coord_esi, stop>>
  BY DEF PlanActua, PasoMain, EsperaInicial, WaitStart, TomarEsi, TomarDeListaVacia, Ciclo, Pausa,
     Ejecutar, Preguntas, ConcederClave, RechazarClave, LiberarClave, ConsultarSet, AvisoAborto,
     PreguntaInvalida, EncolarEsi, DesbloquearEspera, DesbloquearNadie, RecibirRespuesta, Terminar,
     LiberarUna, FinLiberacion, Esperar, Ordenar, consola, varsRed
<1>3. /\ \A e : Pide(e)' <=> Pide(e)
      /\ \A e : PorPresentarse(e)' <=> PorPresentarse(e)
  BY <1>1, <1>2 DEF Pide, LineaValida, PorPresentarse, Sin
<1> QED BY <1>1, <1>2, <1>3

\* The lists are as they were.
LEMMA MismosLugares ==
  ASSUME UNCHANGED <<lista_ready, cola_esis_bloqueados, finished_esis>>
  PROVE  \A e : /\ Aguarda(e)' <=> Aguarda(e)
                /\ Ausente(e)' <=> Ausente(e)
                /\ SinRepetir(e)' <=> SinRepetir(e)
                /\ Esta(e, finished_esis') <=> Esta(e, finished_esis)
BY DEF Aguarda, Espera, Ausente, SinRepetir, Esta, UnaVez

\* The first waiter of a queue goes to the ready list.
LEMMA PasaAReady ==
  ASSUME IInv, NEW k \in Claves, NEW otro \in Esis, NEW c, \A e \in Esis : SinRepetir(e),
         Esta(otro, cola_esis_bloqueados[k]),
         \A e \in Esis : /\ Esta(e, c) => Esta(e, cola_esis_bloqueados[k])
                         /\ Esta(e, cola_esis_bloqueados[k]) => e = otro \/ Esta(e, c)
                         /\ UnaVez(e, cola_esis_bloqueados[k]) => UnaVez(e, c)
                         /\ UnaVez(e, cola_esis_bloqueados[k]) /\ e = otro => ~Esta(e, c),
         cola_esis_bloqueados' = [cola_esis_bloqueados EXCEPT ![k] = c],
         \A e \in Esis : /\ Esta(e, lista_ready') <=> Esta(e, lista_ready) \/ e = otro
                         /\ UnaVez(e, lista_ready) /\ (e = otro => ~Esta(e, lista_ready)) =>
                              UnaVez(e, lista_ready'),
         finished_esis' = finished_esis
  PROVE  \A e \in Esis : /\ SinRepetir(e)' /\ (Aguarda(e)' <=> Aguarda(e))
                         /\ Ausente(e)' <=> Ausente(e)
                         /\ Esta(e, finished_esis') <=> Esta(e, finished_esis)
<1> TAKE e \in Esis
<1>1. DOMAIN cola_esis_bloqueados = Claves
  BY DEF IInv, TypeOK, TypeOKPlan
<1>2. /\ cola_esis_bloqueados'[k] = c
      /\ \A q \in Claves \ {k} : cola_esis_bloqueados'[q] = cola_esis_bloqueados[q]
  BY <1>1
<1>3. /\ UnaVez(e, lista_ready) /\ UnaVez(e, finished_esis)
      /\ \A q \in Claves : UnaVez(e, cola_esis_bloqueados[q])
      /\ Esta(e, finished_esis) => ~Esta(e, lista_ready) /\ ~Espera(e)
      /\ Esta(e, lista_ready) => ~Espera(e)
      /\ \A p, q \in Claves :
           Esta(e, cola_esis_bloqueados[p]) /\ Esta(e, cola_esis_bloqueados[q]) => p = q
  BY DEF SinRepetir, Aguarda
<1>4. e = otro => Espera(e) /\ ~Esta(e, lista_ready)
  BY <1>3 DEF Espera
<1>5. Espera(e)' <=> Espera(e) /\ e # otro
  <2>1. Espera(e)' => Espera(e)
    BY <1>2 DEF Espera
  <2>2. Espera(e) /\ e # otro => Espera(e)'
    BY <1>2 DEF Espera
  <2>3. e = otro => ~Espera(e)'
    <3> SUFFICES ASSUME e = otro, NEW q \in Claves, Esta(e, cola_esis_bloqueados'[q]) PROVE FALSE
      BY DEF Espera
    <3>1. q # k
      BY <1>2, <1>3
    <3>2. Esta(e, cola_esis_bloqueados[q])
      BY <1>2, <3>1
    <3> QED BY <1>3, <3>1, <3>2
  <2> QED BY <2>1, <2>2, <2>3
<1>6. Aguarda(e)' <=> Aguarda(e)
  BY <1>4, <1>5 DEF Aguarda
<1>7. UnaVez(e, lista_ready')
  BY <1>3, <1>4
<1>8. \A q \in Claves : UnaVez(e, cola_esis_bloqueados'[q])
  BY <1>2, <1>3
<1>9. \A p, q \in Claves :
        Esta(e, cola_esis_bloqueados'[p]) /\ Esta(e, cola_esis_bloqueados'[q]) => p = q
  <2>1. \A q \in Claves : Esta(e, cola_esis_bloqueados'[q]) => Esta(e, cola_esis_bloqueados[q])
    BY <1>2
  <2> QED BY <1>3, <2>1
<1>10. Esta(e, lista_ready') => ~Espera(e)'
  BY <1>3, <1>5
<1>11. SinRepetir(e)'
  BY <1>3, <1>6, <1>7, <1>8, <1>9, <1>10 DEF SinRepetir, Aguarda
<1> QED BY <1>6, <1>11 DEF Ausente

\* main moves between two rounds and loses sight of nobody.
LEMMA MainFueraMarco ==
  ASSUME IInv, Lugares, PlanActua(PasoMain),
         pc_plan \notin EnRonda \cup {"terminar"}, pc_plan' \notin EnRonda \cup {"terminar"},
         un_esi' = un_esi, block' = block, abort_esi' => abort_esi, Corre' => Corre,
         PorCorrer' => PorCorrer,
         \A e \in Esis : /\ SinRepetir(e)' /\ (Aguarda(e)' <=> Aguarda(e))
                         /\ Ausente(e)' <=> Ausente(e)
                         /\ Esta(e, finished_esis') <=> Esta(e, finished_esis)
  PROVE  Lugares'
<1>1. /\ UNCHANGED <<pc_esi, esi_plan>>
      /\ \A e : Pide(e)' <=> Pide(e)
      /\ \A e : PorPresentarse(e)' <=> PorPresentarse(e)
  BY MainAjeno
<1>2. Corre => un_esi \in Esis
  BY DEF IInv, LocalesDeMain, Corre, PorCorrer
<1>3. (\A e \in Esis : SinRepetir(e)') /\ (Corre' => Ausente(un_esi)')
  BY <1>2 DEF Lugares
<1>4. Primeros'
  <2>1. \A e \in Esis : Aguarda(e)' \/ PorPresentarse(e)' => Pide(e)'
    BY <1>1 DEF Lugares, Primeros
  <2>2. \A e \in Esis : PorPresentarse(e)' => Ausente(e)' /\ e # un_esi'
    BY <1>1 DEF Lugares, Primeros
  <2>3. /\ \A e \in Esis : pc_esi'[e] = "inicio" => esi_plan'[e] = <<>>
        /\ \A e \in Esis : ~Sin(esi_plan'[e], {20}) => Tail(esi_plan'[e]) = <<>>
    BY <1>1 DEF Lugares, Primeros, Sin
  <2> QED BY <2>1, <2>2, <2>3 DEF Primeros
<1>5. BlockVigente'
  <2>1. block' /\ PorCorrer' => Pide(un_esi)'
    BY <1>1 DEF Lugares, BlockVigente
  <2>2. pc_plan' \notin {"pregunta", "desbloquear"} /\ ~Encolado'
    BY DEF Encolado, EnRonda, Contesto
  <2> QED BY <2>1, <2>2 DEF BlockVigente
<1>6. AbortoVigente'
  <2>1. ~abort_esi'
    BY DEF Lugares, AbortoVigente, EnRonda, Contesto
  <2>2. ~AvisoDeAborto'
    BY DEF AvisoDeAborto, SinPregunta, Abortada, EnRonda
  <2> QED BY <2>1, <2>2 DEF AbortoVigente
<1>7. Terminados'
  BY <1>1 DEF Lugares, Terminados
<1> QED BY <1>3, <1>4, <1>5, <1>6, <1>7 DEF Lugares

\* main waits, sorts its list, lets waiters go, or goes on to the next round.
LEMMA MainFueraLugares ==
  ASSUME IInv, Lugares, PlanActua(PasoMain),
         \/ EsperaInicial \/ WaitStart \/ TomarDeListaVacia \/ Ciclo \/ Pausa \/ Esperar \/ Ordenar
         \/ FinLiberacion \/ \E k \in Claves : LiberarUna(k)
  PROVE  Lugares'
<1>1. /\ pc_plan \notin EnRonda \cup {"terminar"} /\ pc_plan' \notin EnRonda \cup {"terminar"}
      /\ un_esi' = un_esi /\ block' = block /\ (abort_esi' => abort_esi)
      /\ finished_esis' = finished_esis
      /\ pc_plan' \in {"pausa", "ejecutar"} => pc_plan \in {"ciclo", "pausa"}
      /\ pc_plan' = "pausa" => pc_plan = "ciclo" /\ ~stop
      /\ pc_plan' = "ciclo" => stop
  <2>1. CASE \/ EsperaInicial \/ WaitStart \/ TomarDeListaVacia \/ Esperar \/ FinLiberacion
    BY <2>1 DEF EsperaInicial, WaitStart, TomarDeListaVacia, Esperar, FinLiberacion, EnRonda, Contesto,
       listas, banderas
  <2>2. CASE Ciclo \/ Pausa \/ Ordenar
    BY <2>2 DEF Ciclo, Pausa, Ordenar, EnRonda, Contesto, listas, banderas
  <2>3. ASSUME NEW k \in Claves, LiberarUna(k)
        PROVE  pc_plan = "liberando" /\ UNCHANGED <<pc_plan, un_esi, block, abort_esi, finished_esis>>
    BY <2>3 DEF LiberarUna, banderas
  <2> QED BY <2>1, <2>2, <2>3 DEF EnRonda, Contesto
<1>2. stop' = stop
  BY MainAjeno
<1>3. PorCorrer' => PorCorrer
  <2>1. pc_plan' = "ejecutar" => pc_plan = "pausa"
    BY DEF EsperaInicial, WaitStart, TomarDeListaVacia, Ciclo, Pausa, Esperar, Ordenar, FinLiberacion,
       LiberarUna
  <2> QED BY <1>1, <1>2, <2>1 DEF PorCorrer
<1>4. Corre' => Corre
  BY <1>1, <1>3 DEF Corre, EnRonda, Contesto
<1>5. ASSUME UNCHANGED <<lista_ready, cola_esis_bloqueados>> PROVE Lugares'
  <2>1. \A e \in Esis : /\ SinRepetir(e)' /\ (Aguarda(e)' <=> Aguarda(e))
                        /\ Ausente(e)' <=> Ausente(e)
                        /\ Esta(e, finished_esis') <=> Esta(e, finished_esis)
    BY <1>1, <1>5, MismosLugares DEF Lugares
  <2> HIDE DEF Lugares
  <2> QED BY <1>1, <1>3, <1>4, <2>1, MainFueraMarco
<1>6. CASE \/ EsperaInicial \/ WaitStart \/ TomarDeListaVacia \/ Ciclo \/ Pausa \/ Esperar \/ FinLiberacion
  BY <1>5, <1>6 DEF EsperaInicial, WaitStart, TomarDeListaVacia, Ciclo, Pausa, Esperar, FinLiberacion,
     listas
<1>7. CASE Ordenar
  <2>1. cola_esis_bloqueados' = cola_esis_bloqueados
    BY <1>7 DEF Ordenar
  <2>2. CASE lista_ready' \in Ordenaciones(lista_ready, estimacion)
    <3>1. \A e : /\ Esta(e, lista_ready') <=> Esta(e, lista_ready)
                 /\ UnaVez(e, lista_ready) => UnaVez(e, lista_ready')
      BY <2>2, EstaAlOrdenar DEF IInv, TypeOK, TypeOKPlan
    <3>2. \A e : Espera(e)' <=> Espera(e)
      BY <2>1 DEF Espera, Esta
    <3>3. \A e \in Esis : Aguarda(e)' <=> Aguarda(e)
      BY <3>1, <3>2 DEF Aguarda
    <3>4. \A e \in Esis : SinRepetir(e)'
      <4> TAKE e \in Esis
      <4>1. SinRepetir(e)
        BY DEF Lugares
      <4> QED BY <1>1, <2>1, <3>1, <3>2, <3>3, <4>1 DEF SinRepetir
    <3>5. \A e \in Esis : /\ Ausente(e)' <=> Ausente(e)
                          /\ Esta(e, finished_esis') <=> Esta(e, finished_esis)
      BY <1>1, <3>3 DEF Ausente
    <3> QED BY <1>1, <1>3, <1>4, <3>3, <3>4, <3>5, MainFueraMarco
  <2> QED BY <1>5, <1>7, <2>1, <2>2 DEF Ordenar
<1>8. ASSUME NEW k \in Claves, LiberarUna(k) PROVE Lugares'
  <2>1. CASE cola_esis_bloqueados[k] = <<>>
    BY <1>5, <1>8, <2>1 DEF LiberarUna
  <2>2. CASE cola_esis_bloqueados[k] # <<>>
    <3> DEFINE cola == cola_esis_bloqueados[k]
               otro == Head(cola)
    <3>1. /\ cola_esis_bloqueados' = [cola_esis_bloqueados EXCEPT ![k] = Tail(@)]
          /\ lista_ready' = Append(lista_ready, otro)
          /\ <<esi_saliente, k>> \in claves_bloqueadas_por_esis
      BY <1>8, <2>2 DEF LiberarUna
    <3>2. esi_saliente \in Esis
      BY <3>1 DEF IInv, TypeOK, TypeOKPlan
    <3>3. otro \in Esis
      BY <2>2, <3>1, <3>2, PrimeroDeConDuenio DEF IInv, TypeOK, InvPlan
    <3>4. /\ cola \in Seq(Esis \cup {CONSOLA}) /\ lista_ready \in Seq(Esis)
          /\ cola_esis_bloqueados' = [cola_esis_bloqueados EXCEPT ![k] = Tail(cola)]
      BY <3>1 DEF IInv, TypeOK, TypeOKPlan
    <3>5. Esta(otro, cola)
      BY <2>2, <3>4, EstaAlSacar
    <3>6. \A e \in Esis : /\ Esta(e, Tail(cola)) => Esta(e, cola)
                          /\ Esta(e, cola) => e = otro \/ Esta(e, Tail(cola))
                          /\ UnaVez(e, cola) => UnaVez(e, Tail(cola))
                          /\ UnaVez(e, cola) /\ e = otro => ~Esta(e, Tail(cola))
      BY <2>2, <3>4, EstaAlSacar
    <3> HIDE DEF otro
    <3>7. \A e \in Esis : /\ Esta(e, lista_ready') <=> Esta(e, lista_ready) \/ e = otro
                          /\ UnaVez(e, lista_ready) /\ (e = otro => ~Esta(e, lista_ready)) =>
                               UnaVez(e, lista_ready')
      BY <3>1, <3>3, <3>4, EstaAlAgregar
    <3>8. \A e \in Esis : SinRepetir(e)
      BY DEF Lugares
    <3>9. \A e \in Esis : /\ SinRepetir(e)' /\ (Aguarda(e)' <=> Aguarda(e))
                          /\ Ausente(e)' <=> Ausente(e)
                          /\ Esta(e, finished_esis') <=> Esta(e, finished_esis)
      BY <1>1, <3>3, <3>4, <3>5, <3>6, <3>7, <3>8, PasaAReady
    <3> QED BY <1>1, <1>3, <1>4, <3>9, MainFueraMarco
  <2> QED BY <2>1, <2>2
<1> QED BY <1>6, <1>7, <1>8

\* un_esi is the first of the ready list.
LEMMA TomarLugares ==
  ASSUME IInv, Lugares, PlanActua(PasoMain), TomarEsi
  PROVE  Lugares'
<1>1. /\ UNCHANGED <<pc_esi, esi_plan>>
      /\ \A e : Pide(e)' <=> Pide(e)
      /\ \A e : PorPresentarse(e)' <=> PorPresentarse(e)
  BY MainAjeno
<1>2. /\ pc_plan \in {"primero", "elegir"} /\ pc_plan' = "ciclo" /\ lista_ready # <<>>
      /\ un_esi' = Head(lista_ready) /\ lista_ready' = Tail(lista_ready)
      /\ UNCHANGED <<cola_esis_bloqueados, finished_esis, block, abort_esi>>
  BY DEF TomarEsi
<1>3. lista_ready \in Seq(Esis)
  BY DEF IInv, TypeOK, TypeOKPlan
<1>4. un_esi' \in Esis
  BY <1>2, <1>3
<1>5. /\ \A e : /\ Esta(e, lista_ready') => Esta(e, lista_ready)
                /\ UnaVez(e, lista_ready) => UnaVez(e, lista_ready')
      /\ Esta(un_esi', lista_ready)
      /\ UnaVez(un_esi', lista_ready) => ~Esta(un_esi', lista_ready')
  BY <1>2, <1>3, EstaAlSacar
<1>6. \A e : (Espera(e)' <=> Espera(e)) /\ (Esta(e, finished_esis') <=> Esta(e, finished_esis))
  BY <1>2 DEF Espera, Esta
<1>7. \A e \in Esis : SinRepetir(e)'
  <2> TAKE e \in Esis
  <2>1. SinRepetir(e)
    BY DEF Lugares
  <2> QED BY <1>2, <1>5, <1>6, <2>1 DEF SinRepetir, Aguarda
<1>8. Ausente(un_esi)'
  <2>1. SinRepetir(un_esi')
    BY <1>4 DEF Lugares
  <2>2. ~Esta(un_esi', lista_ready') /\ ~Espera(un_esi') /\ ~Esta(un_esi', finished_esis)
    BY <1>5, <2>1 DEF SinRepetir, Aguarda
  <2>3. Espera(un_esi)' <=> Espera(un_esi')
    BY <1>2 DEF Espera, Esta
  <2> QED BY <1>2, <2>2, <2>3 DEF Ausente, Aguarda
<1>9. \A e : (Aguarda(e)' => Aguarda(e)) /\ (Ausente(e) => Ausente(e)')
  BY <1>5, <1>6 DEF Aguarda, Ausente
<1>10. Aguarda(un_esi')
  BY <1>5 DEF Aguarda
<1>11. Primeros'
  <2>1. \A e \in Esis : Aguarda(e)' \/ PorPresentarse(e)' => Pide(e)'
    BY <1>1, <1>9 DEF Lugares, Primeros
  <2>2. \A e \in Esis : PorPresentarse(e)' => Ausente(e)' /\ e # un_esi'
    BY <1>1, <1>9, <1>10 DEF Lugares, Primeros, Ausente
  <2>3. /\ \A e \in Esis : pc_esi'[e] = "inicio" => esi_plan'[e] = <<>>
        /\ \A e \in Esis : ~Sin(esi_plan'[e], {20}) => Tail(esi_plan'[e]) = <<>>
    BY <1>1 DEF Lugares, Primeros, Sin
  <2> QED BY <2>1, <2>2, <2>3 DEF Primeros
<1>12. Pide(un_esi)'
  <2>1. Pide(un_esi')
    BY <1>4, <1>10 DEF Lugares, Primeros
  <2>2. UNCHANGED <<guion, linea, flag_blocked>>
    BY DEF PlanActua, varsEsi
  <2> QED BY <1>1, <2>1, <2>2 DEF Pide, LineaValida
<1>13. BlockVigente'
  BY <1>2, <1>12 DEF BlockVigente, Encolado
<1>14. AbortoVigente'
  <2>1. ~abort_esi'
    BY <1>2 DEF Lugares, AbortoVigente
  <2>2. ~AvisoDeAborto'
    BY <1>2 DEF AvisoDeAborto, SinPregunta, Abortada
  <2> QED BY <2>1, <2>2 DEF AbortoVigente
<1>15. Terminados'
  BY <1>1, <1>2, <1>6 DEF Lugares, Terminados, EnRonda, Contesto
<1> QED BY <1>7, <1>8, <1>11, <1>13, <1>14, <1>15 DEF Lugares

\* main gives un_esi the turn.
LEMMA EjecutarLugares ==
  ASSUME IInv, UnTurno, Lugares, PlanActua(PasoMain), Ejecutar
  PROVE  Lugares'
<1>1. /\ UNCHANGED <<pc_esi, pc_hs, esi_operation, scheduler_response, operation, esi_plan, coord_esi>>
      /\ \A e : Pide(e)' <=> Pide(e)
      /\ \A e : PorPresentarse(e)' <=> PorPresentarse(e)
  BY MainAjeno
<1>2. /\ pc_plan = "ejecutar" /\ pc_plan' = "pregunta"
      /\ plan_coord' = Cabecera(plan_coord, 99)
      /\ plan_esi' = [plan_esi EXCEPT ![un_esi] = Cabecera(@, 21)]
      /\ UNCHANGED <<lista_ready, cola_esis_bloqueados, finished_esis, block, abort_esi, un_esi>>
  BY DEF Ejecutar, listas, banderas
<1>3. un_esi \in Esis
  BY <1>2 DEF IInv, LocalesDeMain
<1>4. \A e : /\ Aguarda(e)' <=> Aguarda(e)
             /\ Ausente(e)' <=> Ausente(e)
             /\ SinRepetir(e)' <=> SinRepetir(e)
             /\ Esta(e, finished_esis') <=> Esta(e, finished_esis)
  BY <1>2, MismosLugares
<1>5. EntreRondas /\ Reposo(un_esi)
  BY <1>2, <1>3 DEF UnTurno, Turno, Antes, Durante, EnInstancia, Despues, SinPregunta, Consultada,
     Respondida, Cerrada, AvisoDeAborto, Abortada, EnRonda, Contesto
<1>6. Ausente(un_esi) /\ pc_esi[un_esi] # "fin"
  <2>1. Ausente(un_esi)
    BY <1>2 DEF Lugares, Corre, PorCorrer
  <2>2. ~Esta(un_esi, finished_esis)
    BY <2>1 DEF Ausente
  <2> QED BY <1>2, <1>3, <2>1, <2>2 DEF Lugares, Terminados, EnRonda, Contesto
<1>7. (\A e \in Esis : SinRepetir(e)') /\ Ausente(un_esi)'
  BY <1>2, <1>4, <1>6 DEF Lugares
<1>8. Primeros'
  <2>1. \A e \in Esis : Aguarda(e)' \/ PorPresentarse(e)' => Pide(e)'
    BY <1>1, <1>4 DEF Lugares, Primeros
  <2>2. \A e \in Esis : PorPresentarse(e)' => Ausente(e)' /\ e # un_esi'
    BY <1>1, <1>2, <1>4 DEF Lugares, Primeros
  <2>3. /\ \A e \in Esis : pc_esi'[e] = "inicio" => esi_plan'[e] = <<>>
        /\ \A e \in Esis : ~Sin(esi_plan'[e], {20}) => Tail(esi_plan'[e]) = <<>>
    BY <1>1 DEF Lugares, Primeros, Sin
  <2> QED BY <2>1, <2>2, <2>3 DEF Primeros
<1>9. BlockVigente'
  <2>1. SinContestar(un_esi)'
    <3>1. plan_esi'[un_esi] = Cabecera(plan_esi[un_esi], 21) /\ plan_esi[un_esi] = <<>>
      BY <1>2, <1>3, <1>5 DEF IInv, TypeOK, TypeOKRed, Reposo
    <3>2. plan_esi'[un_esi] # <<>>
      BY <3>1, CanalPrimero
    <3> QED BY <1>1, <1>2, <1>5, <3>2 DEF SinContestar, Reposo, SinMensajes
  <2>2. block => Pide(un_esi)'
    BY <1>1, <1>2 DEF Lugares, BlockVigente, PorCorrer
  <2> QED BY <1>2, <2>1, <2>2 DEF BlockVigente, PorCorrer, Encolado
<1>10. AbortoVigente'
  <2>1. ~abort_esi'
    BY <1>2 DEF Lugares, AbortoVigente
  <2>2. ~AvisoDeAborto'
    <3>1. plan_coord' # <<>>
      BY <1>2, <1>5, CanalPrimero DEF EntreRondas
    <3>2. esi_operation' = 0
      BY <1>1, <1>5 DEF EntreRondas, Posts
    <3> QED BY <3>1, <3>2 DEF AvisoDeAborto, Abortada, Posts
  <2> QED BY <2>1, <2>2 DEF AbortoVigente
<1>11. Terminados'
  <2>1. \A e \in Esis : pc_esi'[e] = "fin" => Esta(e, finished_esis')
    BY <1>1, <1>2, <1>4 DEF Lugares, Terminados, EnRonda, Contesto
  <2> QED BY <1>1, <1>2, <1>6, <2>1 DEF Terminados
<1> QED BY <1>7, <1>8, <1>9, <1>10, <1>11 DEF Lugares

\* main takes the answer of un_esi: a refused ESI is on its queue, and an ESI
\* that was aborted has ended.
LEMMA RespuestaLugares ==
  ASSUME IInv, UnTurno, algorithm # "SJFCD", Lugares, PlanActua(PasoMain), RecibirRespuesta
  PROVE  Lugares'
<1>1. /\ UNCHANGED <<pc_esi, esi_plan>>
      /\ \A e : Pide(e)' <=> Pide(e)
      /\ \A e : PorPresentarse(e)' <=> PorPresentarse(e)
  BY MainAjeno
<1>2. un_esi \in Esis /\ Turno(un_esi)
  BY RondaDe DEF RecibirRespuesta, EnRonda, Contesto
<1>3. pc_plan = "respuesta" /\ esi_respuesta > 0
  BY DEF RecibirRespuesta
<1>4. Reposo(un_esi) /\ esi_respuesta = 1
  BY <1>2, <1>3 DEF Turno, Antes, Durante, EnInstancia, Despues
<1>5. coord_esi[un_esi] = <<>> /\ Sin(esi_plan[un_esi], {24, 25}) /\ Sin(esi_plan[un_esi], {25})
  BY <1>4 DEF Reposo, SinMensajes, Sin, Respuestas
<1>6. block => Pide(un_esi) /\ ~respuesta_ok
  <2>1. block => Pide(un_esi) /\ Negada(un_esi)
    BY <1>3 DEF Lugares, BlockVigente, Encolado
  <2> QED BY <1>4, <2>1, SinRechazo DEF Negada
<1>7. abort_esi => respuesta_ok /\ fin_de_esi /\ ~block
  <2>1. abort_esi => respuesta_ok /\ fin_de_esi
    BY <1>3, <1>5 DEF Lugares, AbortoVigente, Abortando
  <2> QED BY <1>6, <2>1
<1>8. /\ finished_esis' = finished_esis
      /\ abort_esi' = abort_esi
      /\ block => pc_plan' = "terminar"
      /\ fin_de_esi => pc_plan' = "terminar"
      /\ pc_plan' \in {"terminar", "ciclo"}
      /\ UNCHANGED <<lista_ready, cola_esis_bloqueados, block, un_esi>>
  <2>1. abort_esi \in BOOLEAN
    BY DEF IInv, TypeOK, TypeOKPlan
  <2> QED BY <1>6, <1>7, <2>1 DEF RecibirRespuesta
<1>9. \A e : /\ Aguarda(e)' <=> Aguarda(e)
             /\ Ausente(e)' <=> Ausente(e)
             /\ SinRepetir(e)' <=> SinRepetir(e)
             /\ Esta(e, finished_esis') <=> Esta(e, finished_esis)
  BY <1>8, MismosLugares
<1>10. \A e \in Esis : SinRepetir(e)'
  BY <1>9 DEF Lugares
<1>11. Corre' => Ausente(un_esi)'
  BY <1>3, <1>8, <1>9 DEF Lugares, Corre, PorCorrer
<1>12. Primeros'
  <2>1. \A e \in Esis : Aguarda(e)' \/ PorPresentarse(e)' => Pide(e)'
    BY <1>1, <1>9 DEF Lugares, Primeros
  <2>2. \A e \in Esis : PorPresentarse(e)' => Ausente(e)' /\ e # un_esi'
    BY <1>1, <1>8, <1>9 DEF Lugares, Primeros
  <2>3. /\ \A e \in Esis : pc_esi'[e] = "inicio" => esi_plan'[e] = <<>>
        /\ \A e \in Esis : ~Sin(esi_plan'[e], {20}) => Tail(esi_plan'[e]) = <<>>
    BY <1>1 DEF Lugares, Primeros, Sin
  <2> QED BY <2>1, <2>2, <2>3 DEF Primeros
<1>13. BlockVigente'
  BY <1>8 DEF BlockVigente, PorCorrer, Encolado
<1>14. AbortoVigente'
  <2>1. abort_esi' => pc_plan' = "terminar" /\ ~block'
    BY <1>7, <1>8
  <2>2. ~AvisoDeAborto'
    BY <1>8 DEF AvisoDeAborto, SinPregunta, Abortada
  <2> QED BY <2>1, <2>2 DEF AbortoVigente
<1>15. Terminados'
  <2>1. block => pc_esi[un_esi] # "fin"
    BY <1>6 DEF Pide
  <2>2. pc_esi[un_esi] = "fin" => fin_de_esi
    BY <1>3, <1>5 DEF Lugares, Terminados, EnRonda, Contesto
  <2> QED BY <1>1, <1>3, <1>8, <1>9, <2>1, <2>2 DEF Lugares, Terminados, EnRonda, Contesto
<1> QED BY <1>10, <1>11, <1>12, <1>13, <1>14, <1>15 DEF Lugares

\* finish_esi records un_esi, unless it was refused a key.
LEMMA TerminarLugares ==
  ASSUME IInv, Lugares, PlanActua(PasoMain), Terminar
  PROVE  Lugares'
<1>1. /\ UNCHANGED <<pc_esi, esi_plan>>
      /\ \A e : Pide(e)' <=> Pide(e)
      /\ \A e : PorPresentarse(e)' <=> PorPresentarse(e)
  BY MainAjeno
<1>2. /\ pc_plan = "terminar" /\ pc_plan' \in {"esperar", "liberando"}
      /\ UNCHANGED <<lista_ready, cola_esis_bloqueados, un_esi>>
      /\ block => finished_esis' = finished_esis /\ abort_esi' = abort_esi
      /\ ~block => finished_esis' = Append(finished_esis, un_esi) /\ ~abort_esi'
  BY DEF Terminar
<1>3. un_esi \in Esis /\ finished_esis \in Seq(Esis)
  BY <1>2 DEF IInv, LocalesDeMain, TypeOK, TypeOKPlan
<1>4. ~block => Ausente(un_esi)
  BY <1>2 DEF Lugares, Corre
<1>5. \A e : /\ Esta(e, finished_esis') <=> Esta(e, finished_esis) \/ (~block /\ e = un_esi)
             /\ UnaVez(e, finished_esis) => UnaVez(e, finished_esis')
  <2>1. CASE block
    BY <1>2, <2>1
  <2>2. CASE ~block
    <3>1. ~Esta(un_esi, finished_esis)
      BY <1>4, <2>2 DEF Ausente
    <3>2. finished_esis' = Append(finished_esis, un_esi)
      BY <1>2, <2>2
    <3>3. \A e : /\ Esta(e, Append(finished_esis, un_esi)) <=> Esta(e, finished_esis) \/ e = un_esi
                 /\ UnaVez(e, finished_esis) /\ (e = un_esi => ~Esta(e, finished_esis)) =>
                      UnaVez(e, Append(finished_esis, un_esi))
      BY <1>3, EstaAlAgregar
    <3> QED BY <2>2, <3>1, <3>2, <3>3
  <2> QED BY <2>1, <2>2
<1>6. \A e : (Aguarda(e)' <=> Aguarda(e)) /\ (Espera(e)' <=> Espera(e))
  BY <1>2 DEF Aguarda, Espera, Esta
<1>7. \A e \in Esis : SinRepetir(e)'
  <2> TAKE e \in Esis
  <2>1. SinRepetir(e)
    BY DEF Lugares
  <2>2. ~block /\ e = un_esi => ~Aguarda(e)
    BY <1>4 DEF Ausente
  <2> QED BY <1>2, <1>5, <1>6, <2>1, <2>2 DEF SinRepetir
<1>8. Primeros'
  <2>1. \A e \in Esis : Aguarda(e)' \/ PorPresentarse(e)' => Pide(e)'
    BY <1>1, <1>6 DEF Lugares, Primeros
  <2>2. \A e \in Esis : PorPresentarse(e)' => Ausente(e)' /\ e # un_esi'
    BY <1>1, <1>2, <1>5, <1>6 DEF Lugares, Primeros, Ausente
  <2>3. /\ \A e \in Esis : pc_esi'[e] = "inicio" => esi_plan'[e] = <<>>
        /\ \A e \in Esis : ~Sin(esi_plan'[e], {20}) => Tail(esi_plan'[e]) = <<>>
    BY <1>1 DEF Lugares, Primeros, Sin
  <2> QED BY <2>1, <2>2, <2>3 DEF Primeros
<1>9. ~Corre' /\ BlockVigente'
  BY <1>2 DEF Corre, BlockVigente, PorCorrer, Encolado
<1>10. AbortoVigente'
  <2>1. ~abort_esi'
    BY <1>2 DEF Lugares, AbortoVigente
  <2>2. ~AvisoDeAborto'
    BY <1>2 DEF AvisoDeAborto, SinPregunta, Abortada
  <2> QED BY <2>1, <2>2 DEF AbortoVigente
<1>11. Terminados'
  BY <1>1, <1>2, <1>5 DEF Lugares, Terminados, EnRonda, Contesto
<1> QED BY <1>7, <1>8, <1>9, <1>10, <1>11 DEF Lugares

\* main deals with the question of the round, and whoever it puts on a list was
\* refused a key.
LEMMA MainRondaMarco ==
  ASSUME IInv, Lugares, PlanActua(PasoMain), un_esi \in Esis,
         pc_plan \in EnRonda, pc_plan' \in Contesto,
         UNCHANGED <<un_esi, esi_respuesta, respuesta_ok, fin_de_esi>>,
         \A e \in Esis : /\ SinRepetir(e)'
                         /\ Aguarda(e)' => Aguarda(e) \/ Pide(e)
                         /\ Ausente(e) /\ e # un_esi => Ausente(e)'
                         /\ Esta(e, finished_esis') <=> Esta(e, finished_esis),
         Corre' => Ausente(un_esi)',
         pc_plan' = "desbloquear" => ~block',
         Encolado' => Pide(un_esi) /\ Negada(un_esi)',
         abort_esi' => pc_plan' # "encolar" /\ Abortando(un_esi)'
  PROVE  Lugares'
<1>1. /\ UNCHANGED <<pc_esi, esi_plan>>
      /\ \A e : Pide(e)' <=> Pide(e)
      /\ \A e : PorPresentarse(e)' <=> PorPresentarse(e)
  BY MainAjeno
<1>2. Primeros'
  <2>1. \A e \in Esis : Aguarda(e)' \/ PorPresentarse(e)' => Pide(e)'
    BY <1>1 DEF Lugares, Primeros
  <2>2. \A e \in Esis : PorPresentarse(e)' => Ausente(e)' /\ e # un_esi'
    BY <1>1 DEF Lugares, Primeros
  <2>3. /\ \A e \in Esis : pc_esi'[e] = "inicio" => esi_plan'[e] = <<>>
        /\ \A e \in Esis : ~Sin(esi_plan'[e], {20}) => Tail(esi_plan'[e]) = <<>>
    BY <1>1 DEF Lugares, Primeros, Sin
  <2> QED BY <2>1, <2>2, <2>3 DEF Primeros
<1>3. BlockVigente'
  <2>1. ~PorCorrer' /\ pc_plan' # "pregunta"
    BY DEF PorCorrer, Contesto
  <2>2. Encolado' => Pide(un_esi)' /\ Negada(un_esi)'
    BY <1>1
  <2> QED BY <2>1, <2>2 DEF BlockVigente
<1>4. AbortoVigente'
  <2>1. ~AvisoDeAborto'
    BY DEF AvisoDeAborto, SinPregunta, Abortada, Contesto
  <2> QED BY <2>1 DEF AbortoVigente, Contesto
<1>5. Terminados'
  <2>1. \A e \in Esis : pc_esi[e] = "fin" => Esta(e, finished_esis) \/ e = un_esi
    BY DEF Lugares, Terminados
  <2>2. pc_esi[un_esi] = "fin" => fin_de_esi \/ ~Sin(esi_plan[un_esi], {24, 25})
    BY DEF Lugares, Terminados
  <2> QED BY <1>1, <2>1, <2>2 DEF Terminados, EnRonda
<1> QED BY <1>2, <1>3, <1>4, <1>5 DEF Lugares

\* wait_question and check_key answer: only a GET is refused, and only an ESI
\* that was told so is aborted.
LEMMA PreguntaLugares ==
  ASSUME IInv, UnTurno, algorithm # "SJFCD", Lugares, PlanActua(PasoMain), Preguntas
  PROVE  Lugares'
<1>1. /\ pc_plan = "pregunta" /\ coord_plan # <<>>
      /\ UNCHANGED <<lista_ready, cola_esis_bloqueados, finished_esis, un_esi, esi_respuesta,
                     respuesta_ok, fin_de_esi>>
  BY DEF Preguntas, ConcederClave, RechazarClave, LiberarClave, ConsultarSet, AvisoAborto,
     PreguntaInvalida, Llega, listas, banderas, semaforos
<1>2. un_esi \in Esis
  BY <1>1 DEF IInv, LocalesDeMain
<1>3. /\ Posts(0, 0) /\ PreguntaDe(funcion[un_esi]) \in {31, 32, 33}
      /\ \/ /\ Durante(un_esi) /\ Consultada(un_esi)
            /\ Head(coord_plan).id = PreguntaDe(funcion[un_esi])
         \/ Despues(un_esi) /\ Abortada /\ Head(coord_plan).id = 34
  BY <1>1, TurnoDePregunta DEF IInv, Turno
<1>4. \A e : /\ Aguarda(e)' <=> Aguarda(e)
             /\ Ausente(e)' <=> Ausente(e)
             /\ SinRepetir(e)' <=> SinRepetir(e)
             /\ Esta(e, finished_esis') <=> Esta(e, finished_esis)
  BY <1>1, MismosLugares
<1>5. Ausente(un_esi)' /\ \A e \in Esis : SinRepetir(e)'
  BY <1>1, <1>4 DEF Lugares, Corre
<1>6. block => Pide(un_esi) /\ SinContestar(un_esi)
  BY <1>1 DEF Lugares, BlockVigente
\* The line of the round is a GET: what Pide says of an ESI that waits.
<1>7. Durante(un_esi) =>
        /\ ~abort_esi /\ pc_esi[un_esi] = "espera" /\ pc_he[un_esi] = "planificador"
        /\ LineaValida(un_esi, linea[un_esi])
        /\ funcion[un_esi] = guion[un_esi][linea[un_esi]].op
        /\ Pide(un_esi) <=> funcion[un_esi] = "GET"
  <2>1. Durante(un_esi) => ~abort_esi
    BY <1>1 DEF Lugares, AbortoVigente, Durante
  <2>2. Durante(un_esi) =>
          /\ pc_esi[un_esi] = "espera" /\ pc_he[un_esi] = "planificador"
          /\ LineaValida(un_esi, linea[un_esi])
          /\ funcion[un_esi] = guion[un_esi][linea[un_esi]].op
    BY DEF Durante, EnHost, EnPedido
  <2> QED BY <2>1, <2>2 DEF Pide
<1>8. /\ Head(coord_plan).id = 31 => Durante(un_esi) /\ Pide(un_esi)
      /\ Head(coord_plan).id \in {32, 33} => Durante(un_esi) /\ ~Pide(un_esi)
  <2>1. /\ Head(coord_plan).id = 31 => Durante(un_esi) /\ funcion[un_esi] = "GET"
        /\ Head(coord_plan).id \in {32, 33} => Durante(un_esi) /\ funcion[un_esi] # "GET"
    <3>1. funcion[un_esi] \in {"GET", "SET", "STORE"}
      BY <1>2, FuncionDeLinea DEF IInv, TypeOK, TypeOKCoord
    <3> QED BY <1>3, <3>1 DEF PreguntaDe
  <2> QED BY <1>7, <2>1
<1>9. ASSUME pc_plan' \in Contesto, pc_plan' = "desbloquear" => ~block',
             Encolado' => Pide(un_esi) /\ Negada(un_esi)',
             abort_esi' => pc_plan' # "encolar" /\ Abortando(un_esi)'
      PROVE  Lugares'
  <2>1. \A e \in Esis : Ausente(e) => Ausente(e)'
    BY <1>4
  <2> HIDE DEF Lugares
  <2> QED BY <1>1, <1>2, <1>4, <1>5, <1>9, <2>1, MainRondaMarco DEF EnRonda
<1>10. CASE ConcederClave
  <2>1. Head(coord_plan).id = 31 /\ pc_plan' = "respuesta" /\ ~block' /\ abort_esi' = abort_esi
    BY <1>10 DEF ConcederClave, Llega
  <2> QED BY <1>7, <1>8, <1>9, <2>1 DEF Encolado, Contesto
<1>11. CASE RechazarClave
  <2>1. /\ Head(coord_plan).id = 31 /\ pc_plan' = "encolar" /\ ~block' /\ abort_esi' = abort_esi
        /\ plan_coord' = Cabecera(plan_coord, 32)
    BY <1>11 DEF RechazarClave, Llega, listas
  <2>2. Durante(un_esi) /\ Consultada(un_esi)
    BY <1>3, <2>1
  <2>3. plan_coord' # <<>> /\ Head(plan_coord').id = 32
    BY <2>1, <2>2, CanalPrimero DEF Consultada
  <2>4. pc_he'[un_esi] = "planificador" /\ funcion'[un_esi] = "GET" /\ pc_hs' = "respuesta"
    BY <1>7, <1>8, <2>1, <2>2, MainAjeno DEF Consultada
  <2>5. Negada(un_esi)'
    BY <1>1, <2>3, <2>4 DEF Negada, Rechazada
  <2> QED BY <1>7, <1>8, <1>9, <2>1, <2>5 DEF Encolado, Contesto
<1>12. CASE LiberarClave
  <2>1. /\ Head(coord_plan).id = 32 /\ pc_plan' \in {"desbloquear", "respuesta"} /\ block' = block
        /\ abort_esi' = abort_esi
    BY <1>12 DEF LiberarClave, Llega, banderas
  <2> QED BY <1>6, <1>7, <1>8, <1>9, <2>1 DEF Encolado, Contesto
<1>13. CASE ConsultarSet
  <2>1. Head(coord_plan).id = 33 /\ pc_plan' = "respuesta" /\ block' = block /\ abort_esi' = abort_esi
    BY <1>13 DEF ConsultarSet, Llega, banderas
  <2> QED BY <1>6, <1>7, <1>8, <1>9, <2>1 DEF Encolado, Contesto
<1>14. CASE AvisoAborto
  <2>1. /\ Head(coord_plan).id \in {34, 35} /\ pc_plan' = "respuesta" /\ block' = block
        /\ abort_esi' <=> abort_esi \/ Head(coord_plan).id = 34
    BY <1>14 DEF AvisoAborto, Llega
  <2>2. Despues(un_esi) /\ Abortada /\ Head(coord_plan).id = 34
    BY <1>3, <2>1
  <2>3. ~SinContestar(un_esi)
    BY <2>2 DEF Despues, SinContestar, Contestada, Informada, Reposo, Uno
  <2>4. Abortando(un_esi)
    BY <1>3, <2>2 DEF Lugares, AbortoVigente, AvisoDeAborto
  <2>5. Abortando(un_esi)'
    <3>1. UNCHANGED <<coord_esi, esi_plan>> /\ abort_esi'
      BY <2>1, <2>2, MainAjeno
    <3> QED BY <1>1, <2>4, <3>1 DEF Abortando, Sin
  <2> QED BY <1>6, <1>9, <2>1, <2>3, <2>5 DEF Encolado, Contesto
<1>15. ~PreguntaInvalida
  BY <1>3 DEF PreguntaInvalida
<1> QED BY <1>10, <1>11, <1>12, <1>13, <1>14, <1>15 DEF Preguntas

\* check_key puts un_esi on the queue of the key it was refused.
LEMMA EncolarLugares ==
  ASSUME IInv, Lugares, PlanActua(PasoMain), EncolarEsi
  PROVE  Lugares'
<1>1. /\ pc_plan = "encolar" /\ pc_plan' = "respuesta" /\ block'
      /\ cola_esis_bloqueados' =
           [cola_esis_bloqueados EXCEPT ![mensaje] = Append(cola_esis_bloqueados[mensaje], un_esi)]
      /\ UNCHANGED <<lista_ready, finished_esis, un_esi, esi_respuesta, respuesta_ok, fin_de_esi,
                     abort_esi>>
  BY DEF EncolarEsi, semaforos
<1>2. un_esi \in Esis /\ mensaje \in Claves
  BY <1>1 DEF IInv, LocalesDeMain
<1> DEFINE cola == cola_esis_bloqueados[mensaje]
<1>3. cola \in Seq(Esis \cup {CONSOLA}) /\ DOMAIN cola_esis_bloqueados = Claves
  BY <1>2 DEF IInv, TypeOK, TypeOKPlan
<1>4. /\ cola_esis_bloqueados'[mensaje] = Append(cola, un_esi)
      /\ \A k \in Claves \ {mensaje} : cola_esis_bloqueados'[k] = cola_esis_bloqueados[k]
  BY <1>1, <1>2, <1>3
<1>5. \A e : /\ Esta(e, Append(cola, un_esi)) <=> Esta(e, cola) \/ e = un_esi
             /\ UnaVez(e, cola) /\ (e = un_esi => ~Esta(e, cola)) => UnaVez(e, Append(cola, un_esi))
  BY <1>2, <1>3, EstaAlAgregar
<1> HIDE DEF cola
<1>6. /\ \A e : Esta(e, cola_esis_bloqueados'[mensaje]) <=> Esta(e, cola) \/ e = un_esi
      /\ \A e : UnaVez(e, cola) /\ (e = un_esi => ~Esta(e, cola)) =>
           UnaVez(e, cola_esis_bloqueados'[mensaje])
  BY <1>4, <1>5
<1>7. Ausente(un_esi) /\ Pide(un_esi) /\ Negada(un_esi) /\ ~abort_esi
  BY <1>1 DEF Lugares, Corre, BlockVigente, Encolado, AbortoVigente
<1>8. \A e : Espera(e)' <=> Espera(e) \/ e = un_esi
  BY <1>2, <1>4, <1>6 DEF Espera, cola
<1>9. \A e : Esta(e, lista_ready') <=> Esta(e, lista_ready)
  BY <1>1
<1>10. \A e : Aguarda(e)' <=> Aguarda(e) \/ e = un_esi
  BY <1>8, <1>9 DEF Aguarda
<1>11. ASSUME NEW e \in Esis PROVE SinRepetir(e)'
  <2>1. SinRepetir(e)
    BY DEF Lugares
  <2>2. e = un_esi => /\ ~Esta(e, lista_ready) /\ ~Esta(e, finished_esis)
                      /\ \A k \in Claves : ~Esta(e, cola_esis_bloqueados[k])
    BY <1>7 DEF Ausente, Aguarda, Espera
  <2>3. \A k \in Claves : UnaVez(e, cola_esis_bloqueados'[k])
    BY <1>2, <1>4, <1>6, <2>1, <2>2 DEF SinRepetir, cola
  <2>4. \A k, q \in Claves :
          Esta(e, cola_esis_bloqueados'[k]) /\ Esta(e, cola_esis_bloqueados'[q]) => k = q
    <3>1. CASE e = un_esi
      <4>1. \A k \in Claves : Esta(e, cola_esis_bloqueados'[k]) => k = mensaje
        BY <1>4, <2>2, <3>1
      <4> QED BY <4>1
    <3>2. CASE e # un_esi
      <4>1. \A k \in Claves : Esta(e, cola_esis_bloqueados'[k]) => Esta(e, cola_esis_bloqueados[k])
        BY <1>4, <1>6, <3>2 DEF cola
      <4> QED BY <2>1, <4>1 DEF SinRepetir
    <3> QED BY <3>1, <3>2
  <2> QED BY <1>1, <1>8, <1>9, <1>10, <2>1, <2>2, <2>3, <2>4 DEF SinRepetir
<1>12. Negada(un_esi)'
  <2>1. UNCHANGED <<pc_he, funcion, pc_hs, scheduler_response, key_is_not_blocked, esi_plan, coord_esi>>
    BY MainAjeno
  <2>2. plan_coord' = plan_coord
    BY DEF EncolarEsi, varsRed
  <2> QED BY <1>1, <1>7, <2>1, <2>2 DEF Negada, Rechazada, Sin
<1>13. \A e \in Esis : /\ Aguarda(e)' => Aguarda(e) \/ Pide(e)
                       /\ Ausente(e) /\ e # un_esi => Ausente(e)'
                       /\ Esta(e, finished_esis') <=> Esta(e, finished_esis)
  BY <1>1, <1>7, <1>10 DEF Ausente
<1>14. ~Corre' /\ pc_plan \in EnRonda /\ pc_plan' \in Contesto
  BY <1>1 DEF Corre, PorCorrer, EnRonda, Contesto
<1> HIDE DEF Lugares
<1> QED BY <1>1, <1>2, <1>7, <1>11, <1>12, <1>13, <1>14, MainRondaMarco

\* unlock_key lets the first waiter go.
LEMMA DesbloquearLugares ==
  ASSUME IInv, algorithm # "SJFCD", Lugares, PlanActua(PasoMain), DesbloquearEspera \/ DesbloquearNadie
  PROVE  Lugares'
<1>1. /\ pc_plan = "desbloquear" /\ pc_plan' = "respuesta"
      /\ UNCHANGED <<finished_esis, esi_respuesta, respuesta_ok, fin_de_esi, block, abort_esi, un_esi>>
  BY DEF DesbloquearEspera, DesbloquearNadie, EsiElegido, Desaloja, listas, banderas, semaforos
<1>2. un_esi \in Esis /\ mensaje \in Claves
  BY <1>1 DEF IInv, LocalesDeMain
<1>3. Ausente(un_esi) /\ ~block /\ (abort_esi => Abortando(un_esi))
  BY <1>1 DEF Lugares, Corre, BlockVigente, AbortoVigente
<1>4. abort_esi' => Abortando(un_esi)'
  <2>1. UNCHANGED <<esi_plan, coord_esi>>
    BY MainAjeno
  <2> QED BY <1>1, <1>3, <2>1 DEF Abortando, Sin
<1>5. pc_plan \in EnRonda /\ pc_plan' \in Contesto /\ ~Encolado'
  BY <1>1, <1>3 DEF EnRonda, Contesto, Encolado
<1>6. \A e \in Esis : /\ SinRepetir(e)' /\ (Aguarda(e)' <=> Aguarda(e))
                      /\ Ausente(e)' <=> Ausente(e)
                      /\ Esta(e, finished_esis') <=> Esta(e, finished_esis)
  <2>1. CASE DesbloquearNadie
    <3>1. UNCHANGED <<lista_ready, cola_esis_bloqueados>>
      BY <2>1 DEF DesbloquearNadie, listas
    <3> QED BY <1>1, <3>1, MismosLugares DEF Lugares
  <2>2. CASE DesbloquearEspera
    <3> DEFINE cola == cola_esis_bloqueados[mensaje]
               otro == Head(cola)
    <3>1. /\ cola # <<>>
          /\ cola_esis_bloqueados' = [cola_esis_bloqueados EXCEPT ![mensaje] = Tail(cola)]
          /\ lista_ready' \in Ordenaciones(Append(lista_ready, otro), Reestimar(otro))
      BY <2>2 DEF DesbloquearEspera, ReadyCon, Desaloja
    <3>2. otro \in Esis
      BY <1>1, <3>1, PrimeroLiberado DEF IInv, TypeOK, InvPlan
    <3>3. cola \in Seq(Esis \cup {CONSOLA}) /\ lista_ready \in Seq(Esis)
      BY <1>2 DEF IInv, TypeOK, TypeOKPlan
    <3>4. Esta(otro, cola)
      BY <3>1, <3>3, EstaAlSacar
    <3>5. \A e \in Esis : /\ Esta(e, Tail(cola)) => Esta(e, cola)
                          /\ Esta(e, cola) => e = otro \/ Esta(e, Tail(cola))
                          /\ UnaVez(e, cola) => UnaVez(e, Tail(cola))
                          /\ UnaVez(e, cola) /\ e = otro => ~Esta(e, Tail(cola))
      BY <3>1, <3>3, EstaAlSacar
    <3> HIDE DEF otro
    <3>6. Append(lista_ready, otro) \in Seq(Esis)
      BY <3>2, <3>3
    <3>7. \A e : /\ Esta(e, lista_ready') <=> Esta(e, Append(lista_ready, otro))
                 /\ UnaVez(e, Append(lista_ready, otro)) => UnaVez(e, lista_ready')
      BY <3>1, <3>6, EstaAlOrdenar
    <3>8. \A e : /\ Esta(e, Append(lista_ready, otro)) <=> Esta(e, lista_ready) \/ e = otro
                 /\ UnaVez(e, lista_ready) /\ (e = otro => ~Esta(e, lista_ready)) =>
                      UnaVez(e, Append(lista_ready, otro))
      BY <3>2, <3>3, EstaAlAgregar
    <3>9. \A e \in Esis : /\ Esta(e, lista_ready') <=> Esta(e, lista_ready) \/ e = otro
                          /\ UnaVez(e, lista_ready) /\ (e = otro => ~Esta(e, lista_ready)) =>
                               UnaVez(e, lista_ready')
      BY <3>7, <3>8
    <3>10. \A e \in Esis : SinRepetir(e)
      BY DEF Lugares
    <3> QED BY <1>1, <1>2, <3>1, <3>2, <3>4, <3>5, <3>9, <3>10, PasaAReady
  <2> QED BY <2>1, <2>2
<1>7. Ausente(un_esi)'
  <2>1. Ausente(un_esi)' <=> Ausente(un_esi)
    BY <1>1, <1>2, <1>6
  <2> QED BY <1>3, <2>1
<1> HIDE DEF Lugares
<1> QED BY <1>1, <1>2, <1>3, <1>4, <1>5, <1>6, <1>7, MainRondaMarco

LEMMA MainLugares ==
  ASSUME IInv, UnTurno, algorithm # "SJFCD", Lugares, PlanActua(PasoMain)
  PROVE  Lugares'
<1>1. PasoMain
  BY DEF PlanActua
<1> QED BY <1>1, MainFueraLugares, TomarLugares, EjecutarLugares, RespuestaLugares, TerminarLugares,
     PreguntaLugares, EncolarLugares, DesbloquearLugares DEF PasoMain

-----------------------------------------------------------------------------
(* HostConnections, the console and the places of the ESIs.                *)

\* ESIs are put on lists, and neither main nor the round changes.
LEMMA ListasMarco ==
  ASSUME IInv, Lugares,
         UNCHANGED <<pc_plan, block, un_esi, esi_respuesta, respuesta_ok, fin_de_esi, abort_esi, stop>>,
         UNCHANGED <<guion, pc_esi, linea, flag_blocked, pc_he, funcion, operation, pc_hs, esi_operation,
                     scheduler_response, key_is_not_blocked>>,
         UNCHANGED <<plan_coord, coord_plan, coord_esi, plan_esi>>,
         pc_plan \in EnRonda => esi_plan'[un_esi] = esi_plan[un_esi],
         \A e \in Esis : /\ SinRepetir(e)'
                         /\ Aguarda(e)' => Aguarda(e) \/ Pide(e)
                         /\ Ausente(e) /\ e = un_esi => Ausente(e)'
                         /\ Esta(e, finished_esis') <=> Esta(e, finished_esis),
         \A e \in Esis : /\ PorPresentarse(e)' => PorPresentarse(e) /\ Ausente(e)'
                         /\ pc_esi[e] = "inicio" => esi_plan'[e] = <<>>
                         /\ ~Sin(esi_plan'[e], {20}) => Tail(esi_plan'[e]) = <<>>
  PROVE  Lugares'
<1>1. Corre => un_esi \in Esis
  BY DEF IInv, LocalesDeMain, Corre, PorCorrer
<1>2. \A e : Pide(e)' <=> Pide(e)
  BY DEF Pide, LineaValida
<1>3. Corre' => Ausente(un_esi)'
  <2>1. (Corre' <=> Corre) /\ un_esi' = un_esi
    BY DEF Corre, PorCorrer
  <2> QED BY <1>1, <2>1 DEF Lugares
<1>4. Primeros'
  <2>1. \A e \in Esis : Aguarda(e)' \/ PorPresentarse(e)' => Pide(e)'
    BY <1>2 DEF Lugares, Primeros
  <2>2. \A e \in Esis : PorPresentarse(e)' => Ausente(e)' /\ e # un_esi'
    BY DEF Lugares, Primeros
  <2> QED BY <2>1, <2>2 DEF Primeros
<1>5. pc_plan \in EnRonda =>
        /\ Negada(un_esi)' <=> Negada(un_esi)
        /\ Abortando(un_esi)' <=> Abortando(un_esi)
        /\ SinContestar(un_esi)' <=> SinContestar(un_esi)
  BY DEF Negada, Rechazada, Abortando, SinContestar, Sin
<1>6. BlockVigente'
  <2>1. (PorCorrer' <=> PorCorrer) /\ (Encolado' <=> Encolado) /\ (Pide(un_esi)' <=> Pide(un_esi))
    BY <1>2 DEF PorCorrer, Encolado
  <2>2. Encolado => pc_plan \in EnRonda
    BY DEF Encolado, EnRonda, Contesto
  <2> QED BY <1>5, <2>1, <2>2 DEF Lugares, BlockVigente, EnRonda
<1>7. AbortoVigente'
  <2>1. AvisoDeAborto' <=> AvisoDeAborto
    BY DEF AvisoDeAborto, SinPregunta, Abortada, Posts, Uno
  <2>2. AvisoDeAborto => pc_plan \in EnRonda
    BY DEF AvisoDeAborto, SinPregunta, Abortada, EnRonda
  <2> QED BY <1>5, <2>1, <2>2 DEF Lugares, AbortoVigente, EnRonda, Contesto
<1>8. Terminados'
  BY DEF Lugares, Terminados
<1> QED BY <1>3, <1>4, <1>6, <1>7, <1>8 DEF Lugares

\* A new ESI joins the ready list.
LEMMA NuevoEsiLugares ==
  ASSUME IInv, Lugares, NEW f \in Esis, PlanActua(NuevoEsi(f))
  PROVE  Lugares'
<1>1. /\ UNCHANGED <<pc_plan, block, un_esi, esi_respuesta, respuesta_ok, fin_de_esi, abort_esi, stop>>
      /\ UNCHANGED <<plan_coord, coord_plan, coord_esi, plan_esi, cola_esis_bloqueados, finished_esis>>
      /\ esi_plan[f] # <<>> /\ Head(esi_plan[f]).id = 20
      /\ esi_plan' = [esi_plan EXCEPT ![f] = Tail(esi_plan[f])]
      /\ lista_ready' = Append(lista_ready, f)
  BY DEF PlanActua, NuevoEsi, Llega, banderas, semaforos, consola
<1>2. UNCHANGED <<guion, pc_esi, linea, flag_blocked, pc_he, funcion, operation, pc_hs, esi_operation,
                  scheduler_response, key_is_not_blocked>>
  BY DEF PlanActua, varsEsi, varsCoord, hilosEsi, semaforosCoord
<1>3. /\ DOMAIN esi_plan = Esis /\ lista_ready \in Seq(Esis)
      /\ esi_plan[f] \in Canal
  BY CanalTipo DEF IInv, TypeOK, TypeOKRed, TypeOKPlan
<1>4. ~Sin(esi_plan[f], {20})
  BY <1>1, <1>3, CanalResto
<1>5. /\ Ausente(f) /\ f # un_esi /\ Pide(f) /\ Tail(esi_plan[f]) = <<>> /\ pc_esi[f] # "inicio"
  BY <1>1, <1>4 DEF Lugares, Primeros, PorPresentarse
<1>6. esi_plan'[f] = <<>> /\ \A e \in Esis \ {f} : esi_plan'[e] = esi_plan[e]
  BY <1>1, <1>3, <1>5
<1>7. pc_plan \in EnRonda => esi_plan'[un_esi] = esi_plan[un_esi]
  <2>1. pc_plan \in EnRonda => un_esi \in Esis
    BY DEF IInv, LocalesDeMain, EnRonda, Contesto
  <2> QED BY <1>5, <1>6, <2>1
<1>8. \A e : /\ Esta(e, lista_ready') <=> Esta(e, lista_ready) \/ e = f
             /\ UnaVez(e, lista_ready) /\ (e = f => ~Esta(e, lista_ready)) => UnaVez(e, lista_ready')
  BY <1>1, <1>3, EstaAlAgregar
<1>9. \A e : (Espera(e)' <=> Espera(e)) /\ (Esta(e, finished_esis') <=> Esta(e, finished_esis))
  BY <1>1 DEF Espera, Esta
<1>10. \A e : Aguarda(e)' <=> Aguarda(e) \/ e = f
  BY <1>8, <1>9 DEF Aguarda
<1>11. ASSUME NEW e \in Esis PROVE SinRepetir(e)'
  <2>1. SinRepetir(e)
    BY DEF Lugares
  <2>2. e = f => ~Esta(e, lista_ready) /\ ~Espera(e) /\ ~Esta(e, finished_esis)
    BY <1>5 DEF Ausente, Aguarda
  <2> QED BY <1>1, <1>8, <1>9, <1>10, <2>1, <2>2 DEF SinRepetir
<1>12. \A e \in Esis : e # f => (Ausente(e)' <=> Ausente(e))
  BY <1>9, <1>10 DEF Ausente
<1>13. \A e \in Esis : /\ PorPresentarse(e)' => PorPresentarse(e) /\ Ausente(e)'
                       /\ pc_esi[e] = "inicio" => esi_plan'[e] = <<>>
                       /\ ~Sin(esi_plan'[e], {20}) => Tail(esi_plan'[e]) = <<>>
  <2> TAKE e \in Esis
  <2>1. CASE e = f
    <3>1. Sin(esi_plan'[f], {20})
      BY <1>6 DEF Sin
    <3>2. ~PorPresentarse(e)'
      BY <1>2, <1>5, <2>1, <3>1 DEF PorPresentarse, Sin
    <3> QED BY <1>6, <2>1, <3>1, <3>2
  <2>2. CASE e # f
    <3>1. esi_plan'[e] = esi_plan[e]
      BY <1>6, <2>2
    <3>2. PorPresentarse(e)' <=> PorPresentarse(e)
      BY <1>2, <3>1 DEF PorPresentarse, Sin
    <3> QED BY <1>12, <2>2, <3>1, <3>2 DEF Lugares, Primeros
  <2> QED BY <2>1, <2>2
<1>14. \A e \in Esis : /\ Aguarda(e)' => Aguarda(e) \/ Pide(e)
                       /\ Ausente(e) /\ e = un_esi => Ausente(e)'
  BY <1>5, <1>10, <1>12
<1> HIDE DEF Lugares
<1> QED BY <1>1, <1>2, <1>7, <1>9, <1>11, <1>13, <1>14, ListasMarco

\* HostConnections reads the answer of the round, the only one there is.
LEMMA RespuestaRecibida ==
  ASSUME IInv, UnTurno, algorithm # "SJFCD", Salida, NEW f \in Esis, esi_plan[f] # <<>>,
         Head(esi_plan[f]).id \in Respuestas
  PROVE  /\ f = un_esi /\ pc_plan \in EnRonda /\ Informada(f) /\ esi_respuesta = 0 /\ ~fin_de_esi
         /\ \A ids : ids \subseteq Respuestas /\ ~Sin(esi_plan[f], ids) => Head(esi_plan[f]).id \in ids
<1>1. esi_plan[f] \in Canal
  BY CanalTipo DEF IInv, TypeOK
<1>2. ~Sin(esi_plan[f], Respuestas)
  BY <1>1, CanalResto
<1>3. Turno(f) /\ f = un_esi /\ pc_plan \in EnRonda
  <2>1. ~Reposo(f)
    BY <1>2 DEF Reposo, SinMensajes
  <2> QED BY <2>1, TurnoDe, RondaDe
<1>4. Informada(f) /\ esi_respuesta = 0
  BY <1>2, <1>3 DEF Turno, Antes, Durante, EnInstancia, Despues, Mandada, Leida, EnHost, Contestada,
     Reposo, SinMensajes
<1>5. ~fin_de_esi
  BY <1>3, <1>4 DEF Salida, FinDeRonda
<1>6. Sin(Tail(esi_plan[f]), Respuestas)
  <2>1. Termina(esi_plan[f], Respuestas)
    BY <1>4 DEF Informada
  <2> QED BY <1>1, <2>1, CanalResto
<1>7. ASSUME NEW ids, ids \subseteq Respuestas, ~Sin(esi_plan[f], ids), Head(esi_plan[f]).id \notin ids
      PROVE  FALSE
  <2>1. Sin(Tail(esi_plan[f]), ids)
    BY <1>6, <1>7 DEF Sin
  <2>2. \A i \in DOMAIN esi_plan[f] :
          i = 1 \/ (i - 1 \in DOMAIN Tail(esi_plan[f]) /\ esi_plan[f][i] = Tail(esi_plan[f])[i - 1])
    BY <1>1 DEF Canal
  <2>3. esi_plan[f][1] = Head(esi_plan[f])
    BY <1>1 DEF Canal
  <2> QED BY <1>7, <2>1, <2>2, <2>3 DEF Sin
<1> QED BY <1>3, <1>4, <1>5, <1>7

\* un_esi answers: that it was refused, that it ended, that it was aborted.
LEMMA RespuestaEsiLugares ==
  ASSUME IInv, UnTurno, algorithm # "SJFCD", CierreAlFinal, Salida, Lugares,
         NEW f \in Esis, PlanActua(RespuestaEsi(f))
  PROVE  Lugares'
<1> DEFINE id == Head(esi_plan[f]).id
<1>1. /\ UNCHANGED <<pc_plan, block, un_esi, stop>>
      /\ UNCHANGED <<lista_ready, cola_esis_bloqueados, finished_esis>>
      /\ UNCHANGED <<plan_coord, coord_plan, coord_esi, plan_esi>>
      /\ esi_plan[f] # <<>> /\ id \in Respuestas
      /\ esi_plan' = [esi_plan EXCEPT ![f] = Tail(esi_plan[f])]
      /\ respuesta_ok' <=> id # 23
      /\ fin_de_esi' <=> fin_de_esi \/ id \in {24, 25}
      /\ abort_esi' <=> id = 25 \/ (abort_esi /\ id # 24)
      /\ esi_respuesta' = esi_respuesta + 1
  BY DEF PlanActua, RespuestaEsi, Llega, Respuestas, listas, consola
<1>2. UNCHANGED <<guion, pc_esi, linea, flag_blocked, pc_he, funcion, operation, pc_hs, esi_operation,
                  scheduler_response, key_is_not_blocked>>
  BY DEF PlanActua, varsEsi, varsCoord, hilosEsi, semaforosCoord
<1>3. DOMAIN esi_plan = Esis /\ esi_plan[f] \in Canal
  BY CanalTipo DEF IInv, TypeOK, TypeOKRed
<1>4. /\ f = un_esi /\ pc_plan \in EnRonda /\ Informada(f) /\ esi_respuesta = 0 /\ ~fin_de_esi
      /\ \A ids : ids \subseteq Respuestas /\ ~Sin(esi_plan[f], ids) => id \in ids
  BY <1>1, RespuestaRecibida
<1>5. esi_respuesta' = 1
  BY <1>1, <1>4
\* What is left of the round on the socket.
<1>6. /\ ~Sin(esi_plan[f], {23}) => id \in {23}
      /\ ~Sin(esi_plan[f], {25}) => id \in {25}
      /\ ~Sin(esi_plan[f], {24, 25}) => id \in {24, 25}
  <2>1. {23} \subseteq Respuestas /\ {25} \subseteq Respuestas /\ {24, 25} \subseteq Respuestas
    BY DEF Respuestas
  <2> HIDE DEF id
  <2> QED BY <1>4, <2>1
<1>7. ~SinContestar(un_esi) /\ (Negada(un_esi) => id = 23) /\ (Abortando(un_esi) => id = 25)
  <2>1. /\ plan_esi[f] = <<>> /\ pc_esi[f] # "espera" /\ pc_he[f] # "planificador" /\ coord_esi[f] = <<>>
    BY <1>4 DEF Informada, Callado
  <2> QED BY <1>4, <1>6, <2>1 DEF SinContestar, Negada, Rechazada, Abortando
<1>8. /\ ~PorPresentarse(f) /\ pc_esi[f] # "inicio"
      /\ Sin(esi_plan[f], {20}) /\ Sin(Tail(esi_plan[f]), {20})
  <2>1. ~PorPresentarse(f)
    BY <1>4 DEF Lugares, Primeros
  <2> QED BY <1>1, <1>3, <2>1, CanalResto DEF PorPresentarse
<1>9. esi_plan'[f] = Tail(esi_plan[f]) /\ \A e \in Esis \ {f} : esi_plan'[e] = esi_plan[e]
  BY <1>1, <1>3
<1>10. /\ \A e : Pide(e)' <=> Pide(e)
       /\ \A e : Aguarda(e)' <=> Aguarda(e)
       /\ \A e : Ausente(e)' <=> Ausente(e)
       /\ \A e : SinRepetir(e)' <=> SinRepetir(e)
       /\ \A e : Esta(e, finished_esis') <=> Esta(e, finished_esis)
  <2>1. \A e : Pide(e)' <=> Pide(e)
    BY <1>2 DEF Pide, LineaValida
  <2> QED BY <1>1, <2>1, MismosLugares
<1> HIDE DEF id
<1>11. (\A e \in Esis : SinRepetir(e)') /\ (Corre' => Ausente(un_esi)')
  <2>1. Corre' <=> Corre
    BY <1>1 DEF Corre, PorCorrer
  <2>2. Ausente(un_esi)' <=> Ausente(un_esi)
    BY <1>1 DEF Ausente, Aguarda, Espera, Esta
  <2> QED BY <1>10, <2>1, <2>2 DEF Lugares
<1>12. Primeros'
  <2>1. \A e \in Esis : PorPresentarse(e)' => PorPresentarse(e)
    BY <1>2, <1>8, <1>9 DEF PorPresentarse, Sin
  <2>2. \A e \in Esis : Aguarda(e)' \/ PorPresentarse(e)' => Pide(e)'
    BY <1>10, <2>1 DEF Lugares, Primeros
  <2>3. \A e \in Esis : PorPresentarse(e)' => Ausente(e)' /\ e # un_esi'
    BY <1>1, <1>10, <2>1 DEF Lugares, Primeros
  <2>4. \A e \in Esis : pc_esi'[e] = "inicio" => esi_plan'[e] = <<>>
    BY <1>2, <1>8, <1>9 DEF Lugares, Primeros
  <2>5. \A e \in Esis : ~Sin(esi_plan'[e], {20}) => Tail(esi_plan'[e]) = <<>>
    BY <1>8, <1>9 DEF Lugares, Primeros
  <2> QED BY <2>2, <2>3, <2>4, <2>5 DEF Primeros
<1>13. BlockVigente'
  <2>1. ~PorCorrer' /\ (pc_plan' = "pregunta" => ~block') /\ (pc_plan' = "desbloquear" => ~block')
    BY <1>1, <1>4, <1>7 DEF Lugares, BlockVigente, PorCorrer, EnRonda, Contesto
  <2>2. Encolado' => Pide(un_esi)' /\ Negada(un_esi)'
    <3>1. Encolado' => Pide(un_esi) /\ id = 23
      BY <1>1, <1>7 DEF Lugares, BlockVigente, Encolado
    <3>2. id = 23 => Negada(un_esi)'
      BY <1>1, <1>5 DEF Negada
    <3>3. Pide(un_esi)' <=> Pide(un_esi)
      BY <1>1, <1>2 DEF Pide, LineaValida
    <3> QED BY <3>1, <3>2, <3>3
  <2> QED BY <2>1, <2>2 DEF BlockVigente
<1>14. id = 25 => Abortando(un_esi)'
  BY <1>1, <1>5 DEF Abortando
<1>15. AbortoVigente'
  <2>1. AvisoDeAborto' => AvisoDeAborto
    BY <1>1, <1>2 DEF AvisoDeAborto, SinPregunta, Abortada, Posts, Uno
  <2>2. AvisoDeAborto' => Abortando(un_esi)'
    BY <1>7, <1>14, <2>1 DEF Lugares, AbortoVigente
  <2>3. CASE pc_plan = "pregunta"
    BY <1>1, <1>4, <2>2, <2>3 DEF AbortoVigente
  <2>4. CASE pc_plan \in Contesto
    <3>1. abort_esi' => id = 25
      BY <1>1, <1>7, <2>4 DEF Lugares, AbortoVigente, Contesto
    <3>2. pc_plan = "encolar" => id # 25
      BY <1>7 DEF Lugares, BlockVigente, Encolado
    <3> QED BY <1>1, <1>14, <2>2, <2>4, <3>1, <3>2 DEF AbortoVigente, Contesto
  <2> QED BY <1>4, <2>3, <2>4 DEF EnRonda
<1>16. Terminados'
  <2>1. \A e \in Esis : pc_esi[e] = "fin" => Esta(e, finished_esis) \/ e = un_esi
    BY DEF Lugares, Terminados
  <2>2. pc_esi[un_esi] = "fin" => fin_de_esi'
    BY <1>1, <1>4, <1>6 DEF Lugares, Terminados
  <2> QED BY <1>1, <1>2, <1>4, <1>10, <2>1, <2>2 DEF Terminados
<1> QED BY <1>11, <1>12, <1>13, <1>15, <1>16 DEF Lugares

LEMMA HostConnectionsLugares ==
  ASSUME IInv, UnTurno, algorithm # "SJFCD", CierreAlFinal, Salida, Lugares,
         PlanActua(PasoHostConnections)
  PROVE  Lugares'
<1>1. CASE AvisarNuevoEsi
  <2>1. /\ UNCHANGED <<pc_plan, block, un_esi, esi_respuesta, respuesta_ok, fin_de_esi, abort_esi, stop>>
        /\ UNCHANGED <<plan_coord, coord_plan, coord_esi, plan_esi, esi_plan>>
        /\ UNCHANGED <<lista_ready, cola_esis_bloqueados, finished_esis>>
    BY <1>1 DEF AvisarNuevoEsi, listas, banderas, consola, varsRed
  <2>2. UNCHANGED <<guion, pc_esi, linea, flag_blocked, pc_he, funcion, operation, pc_hs, esi_operation,
                    scheduler_response, key_is_not_blocked>>
    BY DEF PlanActua, varsEsi, varsCoord, hilosEsi, semaforosCoord
  <2>3. \A e : /\ Aguarda(e)' <=> Aguarda(e)
               /\ Ausente(e)' <=> Ausente(e)
               /\ SinRepetir(e)' <=> SinRepetir(e)
               /\ Esta(e, finished_esis') <=> Esta(e, finished_esis)
    BY <2>1, MismosLugares
  <2>4. \A e : PorPresentarse(e)' <=> PorPresentarse(e)
    BY <2>1, <2>2 DEF PorPresentarse, Sin
  <2>5. \A e \in Esis : /\ PorPresentarse(e)' => PorPresentarse(e) /\ Ausente(e)'
                        /\ pc_esi[e] = "inicio" => esi_plan'[e] = <<>>
                        /\ ~Sin(esi_plan'[e], {20}) => Tail(esi_plan'[e]) = <<>>
    BY <2>1, <2>3, <2>4 DEF Lugares, Primeros
  <2>6. \A e \in Esis : SinRepetir(e)
    BY DEF Lugares
  <2> HIDE DEF Lugares
  <2> QED BY <2>1, <2>2, <2>3, <2>5, <2>6, ListasMarco
<1>2. ASSUME NEW f \in Esis, NuevoEsi(f) PROVE Lugares'
  <2>1. PlanActua(NuevoEsi(f))
    BY <1>2 DEF PlanActua
  <2> QED BY <2>1, NuevoEsiLugares
<1>3. ASSUME NEW f \in Esis, RespuestaEsi(f) PROVE Lugares'
  <2>1. PlanActua(RespuestaEsi(f))
    BY <1>3 DEF PlanActua
  <2> QED BY <2>1, RespuestaEsiLugares
<1> QED BY <1>1, <1>2, <1>3 DEF PlanActua, PasoHostConnections

\* UNLOCK drops the console's mark and lets the first waiter go.
LEMMA DesbloqueoLugares ==
  ASSUME IInv, algorithm # "SJFCD", Lugares, PlanActua(ConsolaDesbloqueo)
  PROVE  Lugares'
<1> DEFINE cola == cola_esis_bloqueados[clave_con]
           espera == SinMarca(cola)
           otro == Head(espera)
<1>1. /\ UNCHANGED <<pc_plan, block, esi_respuesta, respuesta_ok, fin_de_esi, abort_esi, stop>>
      /\ UNCHANGED <<plan_coord, coord_plan, coord_esi, plan_esi, esi_plan, finished_esis>>
      /\ pc_con = "desbloqueo"
      /\ \/ /\ espera = <<>>
            /\ cola_esis_bloqueados' = [cola_esis_bloqueados EXCEPT ![clave_con] = <<>>]
            /\ UNCHANGED <<lista_ready, un_esi>>
         \/ /\ espera # <<>>
            /\ cola_esis_bloqueados' = [cola_esis_bloqueados EXCEPT ![clave_con] = Tail(espera)]
            /\ un_esi' = un_esi
            /\ lista_ready' = Append(lista_ready, otro)
  BY DEF PlanActua, ConsolaDesbloqueo, EsiElegido, ReadyCon, Desaloja, banderas, varsRed
<1>2. UNCHANGED <<guion, pc_esi, linea, flag_blocked, pc_he, funcion, operation, pc_hs, esi_operation,
                  scheduler_response, key_is_not_blocked>>
  BY DEF PlanActua, varsEsi, varsCoord, hilosEsi, semaforosCoord
<1>3. clave_con \in Claves /\ espera \in Seq(Esis)
  BY <1>1, EsperaDeConsola DEF IInv, TypeOK, InvPlan
<1>4. /\ cola \in Seq(Esis \cup {CONSOLA}) /\ lista_ready \in Seq(Esis)
      /\ DOMAIN cola_esis_bloqueados = Claves
  BY <1>3 DEF IInv, TypeOK, TypeOKPlan
<1>5. \A e \in Esis : /\ Esta(e, espera) <=> Esta(e, cola)
                      /\ UnaVez(e, cola) => UnaVez(e, espera)
  <2>1. CASE cola # <<>> /\ Head(cola) = CONSOLA
    <3>1. espera = Tail(cola)
      BY <2>1 DEF SinMarca
    <3>2. \A e : /\ Esta(e, Tail(cola)) => Esta(e, cola)
                 /\ Esta(e, cola) => e = Head(cola) \/ Esta(e, Tail(cola))
                 /\ UnaVez(e, cola) => UnaVez(e, Tail(cola))
      BY <1>4, <2>1, EstaAlSacar
    <3>3. CONSOLA \notin Esis
      BY PlanificadorAssumption
    <3> QED BY <2>1, <3>1, <3>2, <3>3
  <2>2. CASE ~(cola # <<>> /\ Head(cola) = CONSOLA)
    BY <2>2 DEF SinMarca
  <2> QED BY <2>1, <2>2
<1>6. \A e \in Esis : SinRepetir(e)
  BY DEF Lugares
<1> HIDE DEF espera
<1>7. \A e \in Esis : /\ SinRepetir(e)' /\ (Aguarda(e)' <=> Aguarda(e))
                      /\ Ausente(e)' <=> Ausente(e)
                      /\ Esta(e, finished_esis') <=> Esta(e, finished_esis)
  <2>1. CASE espera = <<>>
    <3>1. /\ cola_esis_bloqueados'[clave_con] = espera
          /\ \A q \in Claves \ {clave_con} : cola_esis_bloqueados'[q] = cola_esis_bloqueados[q]
          /\ UNCHANGED <<lista_ready, finished_esis>>
      BY <1>1, <1>3, <1>4, <2>1
    <3> HIDE DEF cola
    <3>2. \A e \in Esis, q \in Claves :
            /\ Esta(e, cola_esis_bloqueados'[q]) <=> Esta(e, cola_esis_bloqueados[q])
            /\ UnaVez(e, cola_esis_bloqueados[q]) => UnaVez(e, cola_esis_bloqueados'[q])
      BY <1>5, <3>1 DEF cola
    <3>3. \A e \in Esis : (Espera(e)' <=> Espera(e)) /\ (Aguarda(e)' <=> Aguarda(e))
      BY <3>1, <3>2 DEF Espera, Aguarda
    <3>4. \A e \in Esis : SinRepetir(e)'
      BY <1>6, <3>1, <3>2, <3>3 DEF SinRepetir
    <3> QED BY <3>1, <3>3, <3>4 DEF Ausente
  <2>2. CASE espera # <<>>
    <3>1. otro \in Esis
      BY <1>3, <2>2
    <3>2. /\ Esta(otro, espera)
          /\ \A e \in Esis : /\ Esta(e, Tail(espera)) => Esta(e, espera)
                             /\ Esta(e, espera) => e = otro \/ Esta(e, Tail(espera))
                             /\ UnaVez(e, espera) => UnaVez(e, Tail(espera))
                             /\ UnaVez(e, espera) /\ e = otro => ~Esta(e, Tail(espera))
      BY <1>3, <2>2, EstaAlSacar
    <3>3. \A e \in Esis : /\ Esta(e, Append(lista_ready, otro)) <=> Esta(e, lista_ready) \/ e = otro
                          /\ UnaVez(e, lista_ready) /\ (e = otro => ~Esta(e, lista_ready)) =>
                               UnaVez(e, Append(lista_ready, otro))
      BY <1>4, <3>1, EstaAlAgregar
    <3> HIDE DEF otro, cola
    <3>4. /\ cola_esis_bloqueados' = [cola_esis_bloqueados EXCEPT ![clave_con] = Tail(espera)]
          /\ lista_ready' = Append(lista_ready, otro) /\ finished_esis' = finished_esis
      BY <1>1, <2>2 DEF cola, otro
    <3>5. /\ Esta(otro, cola_esis_bloqueados[clave_con])
          /\ \A e \in Esis :
               /\ Esta(e, Tail(espera)) => Esta(e, cola_esis_bloqueados[clave_con])
               /\ Esta(e, cola_esis_bloqueados[clave_con]) => e = otro \/ Esta(e, Tail(espera))
               /\ UnaVez(e, cola_esis_bloqueados[clave_con]) => UnaVez(e, Tail(espera))
               /\ UnaVez(e, cola_esis_bloqueados[clave_con]) /\ e = otro => ~Esta(e, Tail(espera))
      BY <1>5, <3>1, <3>2 DEF cola
    <3>6. \A e \in Esis : /\ Esta(e, lista_ready') <=> Esta(e, lista_ready) \/ e = otro
                          /\ UnaVez(e, lista_ready) /\ (e = otro => ~Esta(e, lista_ready)) =>
                               UnaVez(e, lista_ready')
      BY <3>3, <3>4
    <3> QED BY <1>3, <1>6, <3>1, <3>4, <3>5, <3>6, PasaAReady
  <2> QED BY <2>1, <2>2
<1>8. UNCHANGED <<pc_plan, block, un_esi, esi_respuesta, respuesta_ok, fin_de_esi, abort_esi, stop>>
  BY <1>1
<1>9. \A e : PorPresentarse(e)' <=> PorPresentarse(e)
  BY <1>1, <1>2 DEF PorPresentarse, Sin
<1>10. \A e \in Esis : /\ PorPresentarse(e)' => PorPresentarse(e) /\ Ausente(e)'
                       /\ pc_esi[e] = "inicio" => esi_plan'[e] = <<>>
                       /\ ~Sin(esi_plan'[e], {20}) => Tail(esi_plan'[e]) = <<>>
  BY <1>1, <1>7, <1>9 DEF Lugares, Primeros
<1> HIDE DEF Lugares
<1> QED BY <1>1, <1>2, <1>7, <1>8, <1>10, ListasMarco

LEMMA ConsolaLugares ==
  ASSUME "STATUS" \notin Comandos, IInv, UnTurno, algorithm # "SJFCD", Lugares, PlanActua(PasoConsola)
  PROVE  Lugares'
<1>1. CASE ConsolaDesbloqueo
  <2>1. PlanActua(ConsolaDesbloqueo)
    BY <1>1 DEF PlanActua
  <2> QED BY <2>1, DesbloqueoLugares
<1>2. CASE \/ ConsolaExit \/ ConsolaPause \/ ConsolaResume \/ ConsolaBlock
           \/ \E k \in Claves : ConsolaUnlock(k)
  <2>1. /\ UNCHANGED <<lista_ready, cola_esis_bloqueados, finished_esis, pc_plan, block, un_esi,
                       esi_respuesta, respuesta_ok, fin_de_esi, abort_esi>>
        /\ UNCHANGED <<esi_plan, coord_esi, plan_esi, plan_coord, coord_plan>>
        /\ stop => stop'
    BY <1>2 DEF ConsolaExit, ConsolaPause, ConsolaResume, ConsolaBlock, ConsolaUnlock, Teclear, listas,
       banderas, semaforos, varsRed
  <2>2. UNCHANGED <<guion, pc_esi, linea, flag_blocked, pc_he, funcion, operation, pc_hs, esi_operation,
                    scheduler_response, key_is_not_blocked>>
    BY DEF PlanActua, varsEsi, varsCoord, hilosEsi, semaforosCoord
  <2>3. /\ \A e : Pide(e)' <=> Pide(e)
        /\ \A e : PorPresentarse(e)' <=> PorPresentarse(e)
        /\ \A e : SinContestar(e)' <=> SinContestar(e)
        /\ \A e : Abortando(e)' <=> Abortando(e)
        /\ \A e : Negada(e)' <=> Negada(e)
        /\ AvisoDeAborto' <=> AvisoDeAborto
    BY <2>1, <2>2 DEF Pide, LineaValida, PorPresentarse, SinContestar, Abortando, Negada, Rechazada,
       Sin, AvisoDeAborto, SinPregunta, Abortada, Posts, Uno
  <2>4. /\ \A e \in Esis : pc_esi'[e] = "inicio" => esi_plan'[e] = <<>>
        /\ \A e \in Esis : ~Sin(esi_plan'[e], {20}) => Tail(esi_plan'[e]) = <<>>
        /\ \A e \in Esis : Sin(esi_plan'[e], {24, 25}) => Sin(esi_plan[e], {24, 25})
        /\ AvisoDeAborto => Abortando(un_esi)
    BY <2>1, <2>2 DEF Lugares, Primeros, AbortoVigente, Sin
  <2>5. AvisoDeAborto' => Abortando(un_esi)'
    BY <2>1, <2>3, <2>4
  <2> HIDE DEF Lugares
  <2> QED BY <2>1, <2>2, <2>3, <2>4, <2>5, LugaresMarco
<1>3. ~ConsolaRecibeStatus /\ ~ConsolaRecibeDatos /\ \A k \in Claves : ~ConsolaStatus(k)
  BY DEF UnTurno, SinStatus, ConsolaRecibeStatus, ConsolaRecibeDatos, ConsolaStatus, Teclear
<1> QED BY <1>1, <1>2, <1>3 DEF PlanActua, PasoConsola

\* Every script begins with a GET.
GuionesPiden == \A g \in Guiones : \A e \in Esis : g[e] # <<>> /\ g[e][1].op = "GET"

LEMMA InicioLugares ==
  ASSUME GuionesPiden, Init
  PROVE  Lugares
<1>1. /\ pc_plan = "espera_inicial" /\ esi_respuesta = 0 /\ ~block /\ ~abort_esi /\ un_esi = Ninguno
      /\ lista_ready = <<>> /\ finished_esis = <<>> /\ ~fin_de_esi
  BY DEF Init, InitPlan
<1>2. /\ \A e \in Esis : pc_esi[e] = "inicio" /\ ~flag_blocked[e] /\ linea[e] = 0
      /\ \A e \in Esis : esi_plan[e] = <<>> /\ coord_esi[e] = <<>>
      /\ coord_plan = <<>> /\ guion \in Guiones
  BY CanalVacio DEF Init, InitEsi, InitRed
<1>3. \A k \in Claves : \A e \in Esis :
        ~Esta(e, cola_esis_bloqueados[k]) /\ UnaVez(e, cola_esis_bloqueados[k])
  <2>1. ASSUME NEW k \in Claves PROVE cola_esis_bloqueados[k] \in {<<>>, <<CONSOLA>>}
    BY <2>1 DEF Init, InitPlan
  <2>2. CONSOLA \notin Esis
    BY PlanificadorAssumption
  <2> QED BY <2>1, <2>2 DEF Esta, UnaVez
<1>4. \A e : /\ ~Esta(e, lista_ready) /\ UnaVez(e, lista_ready)
             /\ ~Esta(e, finished_esis) /\ UnaVez(e, finished_esis)
  BY <1>1 DEF Esta, UnaVez
<1>5. \A e \in Esis : ~Aguarda(e) /\ Ausente(e) /\ SinRepetir(e)
  BY <1>3, <1>4 DEF Aguarda, Espera, Ausente, SinRepetir
<1>6. \A e \in Esis : Pide(e)
  <2> TAKE e \in Esis
  <2>1. guion[e] # <<>> /\ guion[e][1].op = "GET"
    BY <1>2 DEF GuionesPiden
  <2>2. guion[e] \in Seq(Linea)
    BY <1>2, RedAssumption
  <2>3. 1 <= Len(guion[e])
    BY <2>1, <2>2
  <2> QED BY <1>2, <2>1, <2>3 DEF Pide, LineaValida
<1>7. Primeros
  <2>1. \A e \in Esis : Sin(esi_plan[e], {20})
    BY <1>2 DEF Sin
  <2> QED BY <1>1, <1>2, <1>5, <1>6, <2>1, PlanificadorAssumption DEF Primeros
<1>8. ~Corre /\ BlockVigente /\ Terminados
  BY <1>1, <1>2 DEF Corre, PorCorrer, BlockVigente, Encolado, Terminados, EnRonda, Contesto
<1>9. AbortoVigente
  BY <1>1, <1>2 DEF AbortoVigente, AvisoDeAborto, SinPregunta, Abortada
<1> QED BY <1>5, <1>7, <1>8, <1>9 DEF Lugares

-----------------------------------------------------------------------------
(* In one place, and recorded at the end.                                  *)

LEMMA PasoLugares ==
  ASSUME "STATUS" \notin Comandos, IInv, UnTurno, CierreAlFinal, algorithm # "SJFCD", Salida, Lugares,
         [Next]_vars
  PROVE  Lugares'
<1>1. ASSUME NEW f \in Esis, EsiActua(f) \/ CoordActua(PasoHostEsi(f)) PROVE Lugares'
  BY <1>1, EsiLugares, HostEsiLugares
<1>2. CASE CoordActua(PasoHostScheduler) \/ CoordActua(PasoHostInstance)
  BY <1>2, HostSchedulerLugares, HostInstanceLugares
<1>3. CASE PlanActua(PasoMain)
  BY <1>3, MainLugares
<1>4. CASE PlanActua(PasoHostConnections)
  BY <1>4, HostConnectionsLugares
<1>5. CASE PlanActua(PasoConsola)
  BY <1>5, ConsolaLugares
<1>6. CASE UNCHANGED vars
  <2>1. /\ UNCHANGED <<pc_plan, block, un_esi, esi_respuesta, respuesta_ok, fin_de_esi, abort_esi, stop>>
        /\ UNCHANGED <<guion, pc_esi, linea, flag_blocked, pc_he, funcion, operation, pc_hs,
                       esi_operation, scheduler_response, key_is_not_blocked>>
        /\ UNCHANGED <<plan_coord, coord_plan, coord_esi, plan_esi, esi_plan>>
        /\ UNCHANGED <<lista_ready, cola_esis_bloqueados, finished_esis>>
    BY <1>6 DEF vars, varsEsi, varsPlan, listas, banderas, semaforos, consola, varsCoord, hilosEsi,
       semaforosCoord, varsRed
  <2>2. \A e : /\ Aguarda(e)' <=> Aguarda(e)
               /\ Ausente(e)' <=> Ausente(e)
               /\ SinRepetir(e)' <=> SinRepetir(e)
               /\ Esta(e, finished_esis') <=> Esta(e, finished_esis)
    BY <2>1, MismosLugares
  <2>3. \A e : PorPresentarse(e)' <=> PorPresentarse(e)
    BY <2>1 DEF PorPresentarse, Sin
  <2>4. \A e \in Esis : /\ PorPresentarse(e)' => PorPresentarse(e) /\ Ausente(e)'
                        /\ pc_esi[e] = "inicio" => esi_plan'[e] = <<>>
                        /\ ~Sin(esi_plan'[e], {20}) => Tail(esi_plan'[e]) = <<>>
    BY <2>1, <2>2, <2>3 DEF Lugares, Primeros
  <2>5. \A e \in Esis : SinRepetir(e)
    BY DEF Lugares
  <2> HIDE DEF Lugares
  <2> QED BY <2>1, <2>2, <2>4, <2>5, ListasMarco
<1> QED BY <1>1, <1>2, <1>3, <1>4, <1>5, <1>6, Hilos

\* Where every ESI is, along every behaviour.
LEMMA LugaresSiempre ==
  ASSUME "STATUS" \notin Comandos, "SJFCD" \notin Algoritmos, GuionesPiden
  PROVE  Spec => []Lugares
<1>1. Init => Lugares
  BY InicioLugares
<1>2. IInv => algorithm # "SJFCD"
  BY DEF IInv, TypeOK, TypeOKPlan
<1>3. IInv /\ UnTurno /\ CierreAlFinal /\ (algorithm # "SJFCD" => Salida) /\ Lugares /\ [Next]_vars =>
        Lugares'
  BY <1>2, PasoLugares
<1> QED BY <1>1, <1>3, Invariante, UnSoloTurno, Duenios, Salidas, PTL DEF Spec

\* The places in the queues, counted.
LEMMA ColasDeUno ==
  ASSUME NEW e, SinRepetir(e)
  PROVE  /\ Cardinality(EnColas(e)) \in {0, 1}
         /\ Cardinality(EnColas(e)) = 0 <=> ~Espera(e)
<1>1. \A p : p \in EnColas(e) <=>
              \E k \in Claves : \E i \in DOMAIN cola_esis_bloqueados[k] :
                p = <<k, i>> /\ cola_esis_bloqueados[k][i] = e
  BY DEF EnColas
<1>2. CASE ~Espera(e)
  <2>1. EnColas(e) = {}
    BY <1>1, <1>2 DEF Espera, Esta
  <2>2. Cardinality(EnColas(e)) = 0
    BY <2>1, FS_EmptySet
  <2> QED BY <1>2, <2>2
<1>3. CASE Espera(e)
  <2>1. PICK k \in Claves : Esta(e, cola_esis_bloqueados[k])
    BY <1>3 DEF Espera
  <2>2. PICK i \in DOMAIN cola_esis_bloqueados[k] : cola_esis_bloqueados[k][i] = e
    BY <2>1 DEF Esta
  <2>3. ASSUME NEW q \in Claves, NEW j \in DOMAIN cola_esis_bloqueados[q], cola_esis_bloqueados[q][j] = e
        PROVE  q = k /\ j = i
    <3>1. q = k
      BY <2>2, <2>3 DEF SinRepetir, Esta
    <3> QED BY <2>2, <2>3, <3>1 DEF SinRepetir, UnaVez
  <2>4. EnColas(e) = {<<k, i>>}
    BY <1>1, <2>2, <2>3
  <2>5. Cardinality(EnColas(e)) = 1
    BY <2>4, FS_Singleton
  <2> QED BY <1>3, <2>5
<1> QED BY <1>2, <1>3

\* An ESI is in one place: never twice in the lists, not in them while it is
\* told to run, and recorded as finished once.
THEOREM EnUnSoloLugar ==
  ASSUME "STATUS" \notin Comandos, "SJFCD" \notin Algoritmos, GuionesPiden
  PROVE  Spec => []UnSoloLugar
<1>1. IInv /\ Lugares => UnSoloLugar
  <2> SUFFICES ASSUME IInv, Lugares, NEW e \in Esis
               PROVE  LET esperando == Veces(e, lista_ready) + Cardinality(EnColas(e)) IN
                      /\ esperando <= 1
                      /\ /\ un_esi = e
                         /\ pc_plan \in {"pausa", "ejecutar", "pregunta"} \/ (pc_plan = "ciclo" /\ ~stop)
                         => esperando = 0
                      /\ Veces(e, finished_esis) + esperando <= 1
    BY DEF UnSoloLugar
  <2>1. SinRepetir(e)
    BY DEF Lugares
  <2>2. /\ Veces(e, lista_ready) \in {0, 1} /\ Veces(e, finished_esis) \in {0, 1}
        /\ Veces(e, lista_ready) = 0 <=> ~Esta(e, lista_ready)
        /\ Veces(e, finished_esis) = 0 <=> ~Esta(e, finished_esis)
    <3>1. lista_ready \in Seq(Esis) /\ finished_esis \in Seq(Esis)
      BY DEF IInv, TypeOK, TypeOKPlan
    <3>2. UnaVez(e, lista_ready) /\ UnaVez(e, finished_esis)
      BY <2>1 DEF SinRepetir
    <3>3. /\ Veces(e, lista_ready) = 0 <=> ~Esta(e, lista_ready)
          /\ Veces(e, lista_ready) <= 1 /\ Veces(e, lista_ready) \in Nat
      BY <3>1, <3>2, VecesEsta
    <3>4. /\ Veces(e, finished_esis) = 0 <=> ~Esta(e, finished_esis)
          /\ Veces(e, finished_esis) <= 1 /\ Veces(e, finished_esis) \in Nat
      BY <3>1, <3>2, VecesEsta
    <3> QED BY <3>3, <3>4
  <2>3. /\ Cardinality(EnColas(e)) \in {0, 1}
        /\ Cardinality(EnColas(e)) = 0 <=> ~Espera(e)
    BY <2>1, ColasDeUno
  <2>4. /\ Esta(e, lista_ready) => ~Espera(e)
        /\ Esta(e, finished_esis) => ~Esta(e, lista_ready) /\ ~Espera(e)
    BY <2>1 DEF SinRepetir, Aguarda
  <2>5. /\ un_esi = e
        /\ pc_plan \in {"pausa", "ejecutar", "pregunta"} \/ (pc_plan = "ciclo" /\ ~stop)
        => ~Esta(e, lista_ready) /\ ~Espera(e)
    BY DEF Lugares, Corre, PorCorrer, Ausente, Aguarda
  <2> QED BY <2>2, <2>3, <2>4, <2>5
<1> QED BY <1>1, Invariante, LugaresSiempre, PTL

\* When main has dealt with the last answer of an ESI that ended, finish_esi
\* has recorded it: no ESI is lost because `block` or abort_esi was left set.
THEOREM TodosAlFinal ==
  ASSUME "STATUS" \notin Comandos, "SJFCD" \notin Algoritmos, GuionesPiden
  PROVE  Spec => []TerminadoEsFinalizado
<1>1. Lugares => TerminadoEsFinalizado
  <2> SUFFICES ASSUME Lugares, pc_plan = "esperar", NEW e \in Esis, pc_esi[e] = "fin"
               PROVE  e \in Range(finished_esis)
    BY DEF TerminadoEsFinalizado
  <2>1. Esta(e, finished_esis)
    BY DEF Lugares, Terminados, EnRonda, Contesto
  <2> QED BY <2>1 DEF Esta, Range
<1> QED BY <1>1, LugaresSiempre, PTL

-----------------------------------------------------------------------------
(* What an ESI owes.                                                       *)

\* The last GET of every key is followed by a STORE of it.
GuionesDevuelven ==
  \A g \in Guiones : \A e \in Esis : \A i \in DOMAIN g[e] :
    g[e][i].op = "GET" =>
      \E j \in DOMAIN g[e] : i < j /\ g[e][j].op = "STORE" /\ g[e][j].clave = g[e][i].clave

\* main has not answered the request of e.
Guardando(e) == pc_esi[e] = "espera" /\ pc_plan = "pregunta"

\* e has asked for k and not stored it since, but for a STORE under way.
Debe(e, k) ==
  \E i \in 1..linea[e] :
    /\ i \in DOMAIN guion[e] /\ guion[e][i].op = "GET" /\ guion[e][i].clave = k
    /\ \A j \in DOMAIN guion[e] :
         i < j /\ j <= linea[e] /\ guion[e][j].op = "STORE" /\ guion[e][j].clave = k =>
           j = linea[e] /\ Guardando(e)

SinClaves(e) == \A k \in Claves : <<e, k>> \notin claves_bloqueadas_por_esis
Rota(e) == pc_esi[e] = "fin" \/ (coord_esi[e] # <<>> /\ Head(coord_esi[e]).id = 24)

\* Whoever owns a key has still to give it back, unless it was aborted; and who
\* ends a script owns none, all the way to its release.
Endeudados ==
  \A e \in Esis, k \in Claves :
    <<e, k>> \in claves_bloqueadas_por_esis /\ ~Rota(e) => Debe(e, k)
TerminaSinClaves ==
  /\ \A e \in Esis : ~Sin(esi_plan[e], {24}) => pc_esi[e] = "fin" /\ SinClaves(e)
  /\ pc_plan \in EnRonda /\ esi_respuesta = 1 /\ pc_esi[un_esi] = "fin" /\ ~abort_esi =>
       SinClaves(un_esi)
  /\ pc_plan = "terminar" /\ ~block /\ ~abort_esi => SinClaves(un_esi)
  /\ pc_plan = "liberando" => SinClaves(esi_saliente)
Deudas == Endeudados /\ TerminaSinClaves

\* What e owes depends on these only; main's answer ends the exception.
LEMMA DebeMarco ==
  ASSUME NEW e, NEW k, guion' = guion, linea'[e] = linea[e], Guardando(e) => Guardando(e)', Debe(e, k)
  PROVE  Debe(e, k)'
BY DEF Debe

\* Neither main, nor the script of an ESI, nor the round changes.
LEMMA DeudasMarco ==
  ASSUME Deudas,
         UNCHANGED <<guion, linea, pc_esi, pc_plan, un_esi, esi_respuesta, abort_esi, block, esi_saliente>>,
         claves_bloqueadas_por_esis' \subseteq claves_bloqueadas_por_esis,
         \A e \in Esis : /\ Rota(e) => Rota(e)'
                         /\ ~Sin(esi_plan'[e], {24}) => ~Sin(esi_plan[e], {24})
  PROVE  Deudas'
<1>1. Endeudados'
  <2> SUFFICES ASSUME NEW e \in Esis, NEW k \in Claves, <<e, k>> \in claves_bloqueadas_por_esis', ~Rota(e)'
               PROVE  Debe(e, k)'
    BY DEF Endeudados
  <2>1. Debe(e, k)
    BY DEF Deudas, Endeudados
  <2>2. Guardando(e) => Guardando(e)'
    BY DEF Guardando
  <2> QED BY <2>1, <2>2, DebeMarco
<1>2. \A e : SinClaves(e) => SinClaves(e)'
  BY DEF SinClaves
<1>3. TerminaSinClaves'
  BY <1>2 DEF Deudas, TerminaSinClaves
<1> QED BY <1>1, <1>3 DEF Deudas

\* A line is read when the last one is over; what it stores is under way.
LEMMA LineaDeudas ==
  ASSUME IInv, UnTurno, algorithm # "SJFCD", Deudas, NEW f \in Esis, EsiActua(f), EjecutarLinea(f)
  PROVE  \A k \in Claves : <<f, k>> \in claves_bloqueadas_por_esis => Debe(f, k)'
<1>1. /\ pc_esi[f] = "listo" /\ pc_esi'[f] = "espera" /\ plan_esi[f] # <<>>
      /\ linea'[f] \in {linea[f], linea[f] + 1}
      /\ UNCHANGED <<guion, pc_plan>>
      /\ linea[f] \in Nat
  BY DEF EsiActua, varsPlan, EjecutarLinea, Llega, IInv, TypeOK, TypeOKEsi
<1>2. Antes(f) /\ Mandada(f)
  <2>1. Turno(f)
    BY <1>1, TurnoDe DEF Reposo
  <2> QED BY <1>1, <2>1 DEF Turno, Antes, Durante, EnInstancia, Despues, Leida, EnHost, Contestada,
        Informada, Reposo
<1>3. pc_plan = "pregunta" /\ coord_esi[f] = <<>>
  BY <1>2 DEF Antes, SinPregunta, Mandada, SinMensajes
<1>4. ~Guardando(f) /\ Guardando(f)' /\ ~Rota(f)
  BY <1>1, <1>3 DEF Guardando, Rota
<1> SUFFICES ASSUME NEW k \in Claves, <<f, k>> \in claves_bloqueadas_por_esis PROVE Debe(f, k)'
  OBVIOUS
<1>5. Debe(f, k)
  BY <1>4 DEF Deudas, Endeudados
<1>6. PICK i \in 1..linea[f] :
        /\ i \in DOMAIN guion[f] /\ guion[f][i].op = "GET" /\ guion[f][i].clave = k
        /\ \A j \in DOMAIN guion[f] :
             ~(i < j /\ j <= linea[f] /\ guion[f][j].op = "STORE" /\ guion[f][j].clave = k)
  BY <1>4, <1>5 DEF Debe
<1>7. guion[f] \in Seq(Linea)
  BY RedAssumption DEF IInv, TypeOK, TypeOKEsi
<1>8. i \in 1..linea'[f] /\ i \in DOMAIN guion'[f] /\ guion'[f][i].op = "GET" /\ guion'[f][i].clave = k
  BY <1>1, <1>6
<1>9. \A j \in DOMAIN guion'[f] :
        i < j /\ j <= linea'[f] /\ guion'[f][j].op = "STORE" /\ guion'[f][j].clave = k =>
          j = linea'[f] /\ Guardando(f)'
  <2> SUFFICES ASSUME NEW j \in DOMAIN guion[f], i < j, j <= linea'[f],
                      guion[f][j].op = "STORE" /\ guion[f][j].clave = k
               PROVE  j = linea'[f]
    BY <1>1, <1>4
  <2>1. j \in Nat
    BY <1>7
  <2>2. ~(j <= linea[f])
    BY <1>6
  <2> QED BY <1>1, <2>1, <2>2
<1> QED BY <1>8, <1>9 DEF Debe

\* An ESI that was not aborted reads its answer after main has given its own.
LEMMA RespondidaDespues ==
  ASSUME IInv, UnTurno, algorithm # "SJFCD", Lugares, NEW f \in Esis, pc_esi[f] = "espera",
         coord_esi[f] # <<>>, Head(coord_esi[f]).id # 24
  PROVE  ~Guardando(f) /\ ~Rota(f)
<1>1. f = un_esi /\ pc_plan \in EnRonda /\ esi_respuesta = 0 /\ Contestada(f)
  BY RondaContestada
<1>2. Turno(f)
  BY <1>1, RondaDe
<1>3. Despues(f)
  BY <1>1, <1>2 DEF Turno, Antes, Durante, EnInstancia, Mandada, Leida, EnHost, Contestada, SinMensajes
<1>4. ~Abortando(f)
  BY <1>1 DEF Abortando, Contestada, Sin, Respuestas
<1>5. ~AvisoDeAborto
  BY <1>1, <1>4 DEF Lugares, AbortoVigente
<1>6. pc_plan \in Contesto
  BY <1>3, <1>5 DEF Despues, Cerrada
<1> QED BY <1>6 DEF Guardando, Rota, Contesto

\* A script that ends has given everything back.
LEMMA UltimaLinea ==
  ASSUME GuionesDevuelven, IInv, Deudas, NEW f \in Esis, ~Rota(f), ~Guardando(f), linea[f] = Len(guion[f])
  PROVE  SinClaves(f)
<1> SUFFICES ASSUME NEW k \in Claves, <<f, k>> \in claves_bloqueadas_por_esis PROVE FALSE
  BY DEF SinClaves
<1>1. Debe(f, k)
  BY DEF Deudas, Endeudados
<1>2. guion[f] \in Seq(Linea) /\ guion \in Guiones
  BY RedAssumption DEF IInv, TypeOK, TypeOKEsi
<1>3. PICK i \in DOMAIN guion[f] :
        /\ guion[f][i].op = "GET" /\ guion[f][i].clave = k
        /\ \A j \in DOMAIN guion[f] :
             ~(i < j /\ j <= linea[f] /\ guion[f][j].op = "STORE" /\ guion[f][j].clave = k)
  BY <1>1 DEF Debe
<1>4. PICK j \in DOMAIN guion[f] : i < j /\ guion[f][j].op = "STORE" /\ guion[f][j].clave = k
  BY <1>2, <1>3 DEF GuionesDevuelven
<1>5. j <= linea[f]
  BY <1>2
<1> QED BY <1>3, <1>4, <1>5

\* An ESI connects, reads a line, or takes the Coordinador's answer.
LEMMA EsiDeudas ==
  ASSUME GuionesDevuelven, IInv, UnTurno, algorithm # "SJFCD", Lugares, Deudas, NEW f \in Esis,
         EsiActua(f)
  PROVE  Deudas'
<1>1. TypeOK
  BY DEF IInv
<1>2. /\ \A g \in Esis \ {f} : MismosCanales(g) /\ MismoPedido(g)
      /\ UNCHANGED <<varsPlan, guion>>
  BY <1>1, EsiAjeno
<1>3. UNCHANGED <<claves_bloqueadas_por_esis, pc_plan, block, un_esi, esi_respuesta, abort_esi, esi_saliente>>
  BY <1>2 DEF varsPlan, listas, banderas, semaforos, locales
<1>4. esi_plan[f] \in Canal
  BY <1>1, CanalTipo DEF TypeOK
<1>5. \A e : SinClaves(e)' <=> SinClaves(e)
  BY <1>3 DEF SinClaves
<1>6. \A g \in Esis \ {f} :
        /\ pc_esi'[g] = pc_esi[g] /\ esi_plan'[g] = esi_plan[g] /\ linea'[g] = linea[g]
        /\ Rota(g)' <=> Rota(g)
        /\ Guardando(g)' <=> Guardando(g)
  BY <1>2, <1>3 DEF MismosCanales, MismoPedido, Rota, Guardando
\* It is enough to look at f.
<1>7. ASSUME \A k \in Claves : <<f, k>> \in claves_bloqueadas_por_esis /\ ~Rota(f)' => Debe(f, k)',
             ~Sin(esi_plan'[f], {24}) => pc_esi'[f] = "fin" /\ SinClaves(f),
             pc_esi'[f] = "fin" => pc_esi[f] = "fin" \/ esi_respuesta = 0
      PROVE  Deudas'
  <2>1. ASSUME NEW e \in Esis, NEW k \in Claves, <<e, k>> \in claves_bloqueadas_por_esis', ~Rota(e)'
        PROVE  Debe(e, k)'
    <3>1. CASE e = f
      BY <1>3, <1>7, <2>1, <3>1
    <3>2. CASE e # f
      <4>1. Debe(e, k) /\ linea'[e] = linea[e] /\ (Guardando(e) => Guardando(e)')
        BY <1>3, <1>6, <2>1, <3>2 DEF Deudas, Endeudados
      <4> QED BY <1>2, <4>1, DebeMarco
    <3> QED BY <3>1, <3>2
  <2>2. \A e \in Esis : ~Sin(esi_plan'[e], {24}) => pc_esi'[e] = "fin" /\ SinClaves(e)'
    BY <1>5, <1>6, <1>7 DEF Deudas, TerminaSinClaves
  <2>3. pc_plan' \in EnRonda /\ esi_respuesta' = 1 /\ pc_esi'[un_esi] = "fin" /\ ~abort_esi' =>
          SinClaves(un_esi)
    <3>1. pc_plan \in EnRonda => un_esi \in Esis
      BY DEF IInv, LocalesDeMain, EnRonda, Contesto
    <3>2. pc_plan \in EnRonda /\ esi_respuesta = 1 /\ pc_esi'[un_esi] = "fin" => pc_esi[un_esi] = "fin"
      BY <1>6, <1>7, <3>1
    <3> QED BY <1>3, <3>2 DEF Deudas, TerminaSinClaves
  <2> QED BY <1>3, <1>5, <2>1, <2>2, <2>3 DEF Deudas, Endeudados, TerminaSinClaves
<1>8. \A id \in {20, 22, 23, 25} : Sin(Cabecera(esi_plan[f], id), {24}) <=> Sin(esi_plan[f], {24})
  BY <1>4, CanalCrece
<1>9. pc_esi[f] # "fin" => Sin(esi_plan[f], {24})
  BY DEF Deudas, TerminaSinClaves
\* Before main looks at the answer.
<1>10. ASSUME linea'[f] = linea[f], ~Guardando(f), ~Rota(f)
       PROVE  \A k \in Claves : <<f, k>> \in claves_bloqueadas_por_esis => Debe(f, k)'
  <2> SUFFICES ASSUME NEW k \in Claves, <<f, k>> \in claves_bloqueadas_por_esis PROVE Debe(f, k)'
    OBVIOUS
  <2>1. Debe(f, k)
    BY <1>10 DEF Deudas, Endeudados
  <2> QED BY <1>2, <1>10, <2>1, DebeMarco
<1>11. CASE ConectarPlanificador(f) \/ ConectarCoordinador(f)
  <2>1. /\ pc_esi[f] \in {"inicio", "conectar"} /\ pc_esi'[f] \in {"conectar", "listo"}
        /\ UNCHANGED <<linea, coord_esi>>
        /\ esi_plan'[f] \in {esi_plan[f], Cabecera(esi_plan[f], 20)}
    BY <1>1, <1>11 DEF ConectarPlanificador, ConectarCoordinador, TypeOK, TypeOKEsi, TypeOKRed
  <2>2. ~Guardando(f) /\ (~Rota(f)' => ~Rota(f))
    BY <2>1 DEF Guardando, Rota
  <2> QED BY <1>7, <1>8, <1>9, <1>10, <2>1, <2>2
<1>12. CASE EjecutarLinea(f)
  <2>1. pc_esi[f] = "listo" /\ pc_esi'[f] = "espera" /\ UNCHANGED esi_plan
    BY <1>1, <1>12 DEF EjecutarLinea, TypeOK, TypeOKEsi
  <2>2. \A k \in Claves : <<f, k>> \in claves_bloqueadas_por_esis => Debe(f, k)'
    BY <1>12, LineaDeudas
  <2> QED BY <1>7, <1>9, <2>1, <2>2
<1>13. CASE OperacionHecha(f) \/ OperacionBloqueada(f)
  <2>1. /\ pc_esi[f] = "espera" /\ coord_esi[f] # <<>> /\ Head(coord_esi[f]).id # 24
        /\ linea' = linea
        /\ \/ pc_esi'[f] = "listo" /\ \E id \in {22, 23} : esi_plan'[f] = Cabecera(esi_plan[f], id)
           \/ pc_esi'[f] = "fin" /\ linea[f] = Len(guion[f])
    BY <1>1, <1>13 DEF OperacionHecha, OperacionBloqueada, Salir, Llega, TypeOK, TypeOKEsi, TypeOKRed
  <2>2. ~Guardando(f) /\ ~Rota(f)
    BY <2>1, RespondidaDespues
  <2>3. \A k \in Claves : <<f, k>> \in claves_bloqueadas_por_esis => Debe(f, k)'
    BY <1>10, <2>1, <2>2
  <2>4. esi_respuesta = 0
    BY <2>1, RondaContestada
  <2>5. pc_esi'[f] = "fin" => SinClaves(f)
    BY <2>1, <2>2, UltimaLinea
  <2> QED BY <1>7, <1>8, <1>9, <2>1, <2>3, <2>4, <2>5
<1>14. CASE Abortar(f)
  <2>1. /\ pc_esi[f] = "espera" /\ coord_esi[f] # <<>> /\ pc_esi'[f] = "fin"
        /\ esi_plan'[f] = Cabecera(esi_plan[f], 25)
    BY <1>1, <1>14 DEF Abortar, Salir, TypeOK, TypeOKEsi, TypeOKRed
  <2>2. esi_respuesta = 0 /\ Rota(f)'
    BY <2>1, RondaContestada DEF Rota
  <2> QED BY <1>7, <1>8, <1>9, <2>1, <2>2
<1> QED BY <1>11, <1>12, <1>13, <1>14 DEF EsiActua, PasoEsi

\* host_esi only adds to what the Coordinador tells an ESI.
LEMMA HostEsiDeudas ==
  ASSUME IInv, Deudas, NEW f \in Esis, CoordActua(PasoHostEsi(f))
  PROVE  Deudas'
<1>1. TypeOK
  BY DEF IInv
<1>2. /\ UNCHANGED <<varsEsi, varsPlan, esi_plan>>
      /\ \A g \in Esis \ {f} : coord_esi'[g] = coord_esi[g]
  BY <1>1, HostEsiAjeno DEF MismosCanales
<1>3. /\ UNCHANGED <<guion, linea, pc_esi, pc_plan, un_esi, esi_respuesta, abort_esi, block, esi_saliente>>
      /\ UNCHANGED claves_bloqueadas_por_esis
  BY <1>2 DEF varsEsi, varsPlan, listas, banderas, semaforos, locales
<1>4. coord_esi'[f] = coord_esi[f] \/ \E id : coord_esi'[f] = Cabecera(coord_esi[f], id)
  BY <1>1 DEF CoordActua, PasoHostEsi, HostEsi, RecibirOperacion, PublicarOperacion,
     AbortarClaveNoPedida, AbortarLineaInvalida, OperacionRechazada, PedirInstancia, InstanciaCaida,
     ConfirmarOperacion, DesconectarEsi, varsRed, TypeOK, TypeOKRed
<1>5. Rota(f) => Rota(f)'
  <2>1. ASSUME NEW id, coord_esi[f] # <<>>
        PROVE  Cabecera(coord_esi[f], id) # <<>> /\ Head(Cabecera(coord_esi[f], id)) = Head(coord_esi[f])
    <3>1. coord_esi[f] \in Canal
      BY <1>1, CanalTipo DEF TypeOK
    <3>2. Len(coord_esi[f]) \in Nat \ {0}
      BY <2>1, <3>1 DEF Canal
    <3> QED BY <3>1, <3>2 DEF Cabecera, Con, Canal
  <2> QED BY <1>3, <1>4, <2>1 DEF Rota
<1>6. \A g \in Esis \ {f} : Rota(g) => Rota(g)'
  BY <1>2, <1>3 DEF Rota
<1> QED BY <1>2, <1>3, <1>5, <1>6, DeudasMarco DEF Sin

\* The Coordinador's other threads and the console only take keys away.
LEMMA AjenoDeudas ==
  ASSUME IInv, algorithm # "SJFCD", "STATUS" \notin Comandos, UnTurno, Deudas,
         \/ CoordActua(PasoHostScheduler) \/ CoordActua(PasoHostInstance)
         \/ PlanActua(PasoConsola) \/ UNCHANGED vars
  PROVE  Deudas'
<1>1. CASE CoordActua(PasoHostScheduler) \/ CoordActua(PasoHostInstance)
  <2>1. UNCHANGED <<varsEsi, varsPlan, coord_esi, esi_plan>>
    BY <1>1 DEF CoordActua, PasoHostScheduler, EsperarEsi, AvisarInicio, RecibirTurno,
       ConsultarPlanificador, AvisarAborto, RecibirRespuestaPlan, SimularStatus, PedirStatus,
       ResponderStatus, PasoHostInstance, HostInstance, AtenderPedido, TerminarPedido, varsRed
  <2>2. /\ UNCHANGED <<guion, linea, pc_esi, pc_plan, un_esi, esi_respuesta, abort_esi, block, esi_saliente>>
        /\ UNCHANGED claves_bloqueadas_por_esis
    BY <2>1 DEF varsEsi, varsPlan, listas, banderas, semaforos, locales
  <2> QED BY <2>1, <2>2, DeudasMarco DEF Rota, Sin
<1>2. CASE PlanActua(PasoConsola)
  <2>1. UNCHANGED <<guion, linea, pc_esi>>
    BY <1>2 DEF PlanActua, varsEsi
  <2>2. ~ConsolaRecibeStatus /\ ~ConsolaRecibeDatos /\ \A k \in Claves : ~ConsolaStatus(k)
    BY DEF UnTurno, SinStatus, ConsolaRecibeStatus, ConsolaRecibeDatos, ConsolaStatus, Teclear
  <2>3. /\ UNCHANGED <<pc_plan, un_esi, esi_respuesta, abort_esi, block, esi_saliente, esi_plan, coord_esi>>
        /\ claves_bloqueadas_por_esis' \subseteq claves_bloqueadas_por_esis
    BY <1>2, <2>2 DEF PlanActua, PasoConsola, ConsolaExit, ConsolaPause, ConsolaResume, ConsolaBlock,
       ConsolaUnlock, ConsolaDesbloqueo, EsiElegido, Desaloja, Teclear, listas, banderas, semaforos,
       locales, varsRed
  <2> QED BY <2>1, <2>3, DeudasMarco DEF Rota, Sin
<1>3. CASE UNCHANGED vars
  <2>1. /\ UNCHANGED <<guion, linea, pc_esi, pc_plan, un_esi, esi_respuesta, abort_esi, block, esi_saliente>>
        /\ UNCHANGED <<claves_bloqueadas_por_esis, esi_plan, coord_esi>>
    BY <1>3 DEF vars, varsEsi, varsPlan, varsRed, listas, banderas, semaforos, locales
  <2> QED BY <2>1, DeudasMarco DEF Rota, Sin
<1> QED BY <1>1, <1>2, <1>3

\* HostConnections hears of a new ESI, or takes an answer: 24 comes from an ESI
\* that owns nothing.
LEMMA HostConnectionsDeudas ==
  ASSUME IInv, UnTurno, algorithm # "SJFCD", Salida, Lugares, Deudas, PlanActua(PasoHostConnections)
  PROVE  Deudas'
<1>1. /\ UNCHANGED <<guion, linea, pc_esi, pc_plan, un_esi, block, esi_saliente, coord_esi>>
      /\ UNCHANGED claves_bloqueadas_por_esis
  BY DEF PlanActua, PasoHostConnections, NuevoEsi, AvisarNuevoEsi, RespuestaEsi, varsEsi, listas,
     banderas, locales, varsRed
<1>2. /\ \A e : Rota(e)' <=> Rota(e)
      /\ \A e : SinClaves(e)' <=> SinClaves(e)
      /\ \A e : Guardando(e)' <=> Guardando(e)
  BY <1>1 DEF Rota, SinClaves, Guardando
<1>3. \A e \in Esis : esi_plan[e] \in Canal
  BY CanalTipo DEF IInv, TypeOK
<1>4. \A e \in Esis : ~Sin(esi_plan'[e], {24}) => ~Sin(esi_plan[e], {24})
  <2>1. CASE esi_plan' = esi_plan
    BY <2>1
  <2>2. ASSUME NEW f \in Esis, esi_plan[f] # <<>>, esi_plan' = [esi_plan EXCEPT ![f] = Tail(@)]
        PROVE  \A e \in Esis : ~Sin(esi_plan'[e], {24}) => ~Sin(esi_plan[e], {24})
    <3>1. DOMAIN esi_plan = Esis
      BY DEF IInv, TypeOK, TypeOKRed
    <3>2. Sin(esi_plan[f], {24}) => Sin(Tail(esi_plan[f]), {24})
      BY <1>3, <2>2, CanalResto
    <3> QED BY <2>2, <3>1, <3>2
  <2> QED BY <2>1, <2>2 DEF PlanActua, PasoHostConnections, NuevoEsi, AvisarNuevoEsi, RespuestaEsi,
         Llega, varsRed
<1>5. CASE AvisarNuevoEsi \/ \E f \in Esis : NuevoEsi(f)
  <2>1. UNCHANGED <<esi_respuesta, abort_esi>>
    BY <1>5 DEF AvisarNuevoEsi, NuevoEsi, banderas, semaforos
  <2> QED BY <1>1, <1>2, <1>4, <2>1, DeudasMarco
<1>6. ASSUME NEW f \in Esis, RespuestaEsi(f) PROVE Deudas'
  <2>1. /\ esi_plan[f] # <<>> /\ Head(esi_plan[f]).id \in Respuestas
        /\ abort_esi' <=> Head(esi_plan[f]).id = 25 \/ (abort_esi /\ Head(esi_plan[f]).id # 24)
    BY <1>6 DEF RespuestaEsi, Llega, Respuestas
  <2>2. /\ f = un_esi /\ pc_plan \in EnRonda /\ ~fin_de_esi
        /\ ~Sin(esi_plan[f], {24, 25}) => Head(esi_plan[f]).id \in {24, 25}
    BY <2>1, RespuestaRecibida DEF Respuestas
  <2>3. Endeudados'
    BY <1>1, <1>2, DebeMarco DEF Deudas, Endeudados
  <2>4. pc_esi[un_esi] = "fin" /\ ~abort_esi' => SinClaves(un_esi)
    <3>1. pc_esi[un_esi] = "fin" => ~Sin(esi_plan[f], {24, 25})
      BY <2>2 DEF Lugares, Terminados
    <3>2. pc_esi[un_esi] = "fin" /\ ~abort_esi' => Head(esi_plan[f]).id = 24
      BY <2>1, <2>2, <3>1
    <3>3. Head(esi_plan[f]).id = 24 => ~Sin(esi_plan[f], {24})
      BY <1>3, <2>1, CanalResto
    <3> QED BY <2>2, <3>2, <3>3 DEF Deudas, TerminaSinClaves
  <2>5. TerminaSinClaves'
    BY <1>1, <1>2, <1>4, <2>2, <2>4 DEF Deudas, TerminaSinClaves, EnRonda, Contesto
  <2> QED BY <2>3, <2>5 DEF Deudas
<1> QED BY <1>5, <1>6 DEF PlanActua, PasoHostConnections

\* main outside wait_question: it takes keys away only, and finish_esi is for
\* an ESI that ended its script, was aborted, or was refused (`block`).
LEMMA MainFueraDeudas ==
  ASSUME IInv, UnTurno, algorithm # "SJFCD", Salida, Deudas, PlanActua(PasoMain),
         pc_plan # "pregunta"
  PROVE  Deudas'
<1>1. /\ UNCHANGED <<guion, linea, pc_esi, esi_plan, coord_esi>>
      /\ PasoMain /\ ~Preguntas
  BY MainAjeno DEF PlanActua, varsEsi, Preguntas, ConcederClave, RechazarClave, LiberarClave,
     ConsultarSet, AvisoAborto, PreguntaInvalida
<1>2. claves_bloqueadas_por_esis' \subseteq claves_bloqueadas_por_esis
  BY <1>1 DEF PasoMain, EsperaInicial, WaitStart, TomarEsi, TomarDeListaVacia, Ciclo, Pausa,
     Ejecutar, EncolarEsi, DesbloquearEspera, DesbloquearNadie, RecibirRespuesta, Terminar,
     LiberarUna, FinLiberacion, Esperar, Ordenar, listas
<1>3. /\ \A e : Rota(e)' <=> Rota(e)
      /\ \A e : SinClaves(e) => SinClaves(e)'
      /\ \A e : ~Guardando(e)
  BY <1>1, <1>2 DEF Rota, SinClaves, Guardando
<1>4. Endeudados'
  BY <1>1, <1>2, <1>3, DebeMarco DEF Deudas, Endeudados
<1>5. \A e \in Esis : ~Sin(esi_plan'[e], {24}) => pc_esi'[e] = "fin" /\ SinClaves(e)'
  BY <1>1, <1>3 DEF Deudas, TerminaSinClaves
<1>6. SUFFICES /\ pc_plan' \in EnRonda /\ esi_respuesta' = 1 /\ pc_esi'[un_esi'] = "fin" /\ ~abort_esi' =>
                    SinClaves(un_esi')
               /\ pc_plan' = "terminar" /\ ~block' /\ ~abort_esi' => SinClaves(un_esi')
               /\ pc_plan' = "liberando" => SinClaves(esi_saliente')
  BY <1>2, <1>4, <1>5 DEF Deudas, TerminaSinClaves, SinClaves
<1>7. CASE \/ EsperaInicial \/ WaitStart \/ TomarEsi \/ TomarDeListaVacia \/ Ciclo \/ Pausa
           \/ FinLiberacion \/ Esperar \/ Ordenar \/ \E k \in Claves : LiberarUna(k)
  <2>1. /\ pc_plan' \notin EnRonda \cup {"terminar"}
        /\ pc_plan' = "liberando" => pc_plan = "liberando" /\ esi_saliente' = esi_saliente
    BY <1>7 DEF EsperaInicial, WaitStart, TomarEsi, TomarDeListaVacia, Ciclo, Pausa, FinLiberacion,
       Esperar, Ordenar, LiberarUna, EnRonda, Contesto, locales
  <2> QED BY <2>1 DEF Deudas, TerminaSinClaves
<1>8. CASE Ejecutar
  <2>1. pc_plan = "ejecutar" /\ pc_plan' = "pregunta" /\ esi_respuesta' = esi_respuesta
    BY <1>8 DEF Ejecutar
  <2>2. EntreRondas
    BY <2>1 DEF UnTurno, Turno, Antes, Durante, EnInstancia, Despues, SinPregunta, Consultada,
       Respondida, Cerrada, AvisoDeAborto, Abortada, EnRonda, Contesto
  <2> QED BY <2>1, <2>2 DEF EntreRondas
<1>9. CASE EncolarEsi \/ DesbloquearEspera \/ DesbloquearNadie
  <2>1. /\ pc_plan \in EnRonda /\ pc_plan' = "respuesta"
        /\ UNCHANGED <<un_esi, esi_respuesta, abort_esi>>
    BY <1>9 DEF EncolarEsi, DesbloquearEspera, DesbloquearNadie, EsiElegido, Desaloja, EnRonda,
       Contesto, banderas, semaforos
  <2> QED BY <1>1, <2>1 DEF Deudas, TerminaSinClaves
<1>10. CASE RecibirRespuesta
  <2>1. /\ pc_plan = "respuesta" /\ pc_plan' \in {"terminar", "ciclo"} /\ esi_respuesta > 0
        /\ UNCHANGED <<un_esi, block>>
        /\ respuesta_ok => (abort_esi' <=> abort_esi) /\ (fin_de_esi' <=> fin_de_esi)
        /\ pc_plan' = "terminar" => fin_de_esi'
    BY <1>10 DEF RecibirRespuesta
  <2>2. Turno(un_esi)
    BY <2>1, RondaDe DEF EnRonda, Contesto
  <2>3. esi_respuesta = 1
    BY <2>1, <2>2 DEF Turno, Antes, Durante, EnInstancia, Despues
  <2>4. ~block => respuesta_ok
    BY <2>1, <2>3 DEF Salida, RechazoEncolado, Encolado
  <2>5. fin_de_esi => pc_esi[un_esi] = "fin"
    BY <2>1 DEF Salida, FinDeRonda, EnRonda, Contesto
  <2>6. pc_plan' = "terminar" /\ ~block' /\ ~abort_esi' => SinClaves(un_esi)
    BY <2>1, <2>3, <2>4, <2>5 DEF Deudas, TerminaSinClaves, EnRonda, Contesto
  <2> QED BY <2>1, <2>6 DEF EnRonda, Contesto
<1>11. CASE Terminar
  <2>1. /\ pc_plan = "terminar" /\ pc_plan' \in {"esperar", "liberando"}
        /\ pc_plan' = "liberando" => ~block /\ ~abort_esi /\ esi_saliente' = un_esi
    BY <1>11 DEF Terminar
  <2> QED BY <2>1 DEF Deudas, TerminaSinClaves, EnRonda, Contesto
<1> QED BY <1>1, <1>7, <1>8, <1>9, <1>10, <1>11 DEF PasoMain

\* wait_question: a GET that is granted begins a debt, a STORE ends one; and
\* who is told of its abort owes nothing any more.
LEMMA PreguntaDeudas ==
  ASSUME IInv, UnTurno, algorithm # "SJFCD", Lugares, Deudas, PlanActua(PasoMain), Preguntas
  PROVE  Deudas'
<1>1. /\ UNCHANGED <<guion, linea, pc_esi, esi_plan, coord_esi, un_esi, esi_respuesta>>
      /\ pc_plan = "pregunta" /\ coord_plan # <<>>
  BY MainAjeno DEF PlanActua, varsEsi, Preguntas, ConcederClave, RechazarClave, LiberarClave,
     ConsultarSet, AvisoAborto, PreguntaInvalida, Llega, semaforos
<1>2. un_esi \in Esis
  BY <1>1 DEF IInv, LocalesDeMain
<1> SUFFICES ASSUME NEW f \in Esis, f = un_esi, NEW L, L = linea[f], NEW k, k = Head(coord_plan).clave
             PROVE  Deudas'
  BY <1>2
<1>3. /\ \A e \in Esis \ {f} : Reposo(e)
      /\ Posts(0, 0) /\ PreguntaDe(funcion[f]) \in {31, 32, 33}
      /\ \/ /\ Durante(f) /\ Consultada(f)
            /\ Head(coord_plan).id = PreguntaDe(funcion[f])
         \/ Despues(f) /\ Abortada /\ Head(coord_plan).id = 34
  BY <1>1, TurnoDePregunta DEF IInv, Turno
<1>4. ~PreguntaInvalida
  BY <1>3 DEF PreguntaInvalida
<1>5. pc_plan' \in Contesto
  BY <1>4 DEF Preguntas, ConcederClave, RechazarClave, LiberarClave, ConsultarSet, AvisoAborto, Contesto
<1>6. /\ \A e : Rota(e)' <=> Rota(e)
      /\ \A e : ~Guardando(e)'
      /\ \A e \in Esis \ {f} : ~Guardando(e)
  BY <1>1, <1>3, <1>5 DEF Rota, Guardando, Reposo, Contesto
\* The question is about the line f is at.
<1>7. funcion[f] \in {"GET", "SET", "STORE"}
  BY <1>2 DEF IInv, TypeOK, TypeOKCoord
<1>8. Head(coord_plan).id \in {31, 32, 33} =>
        /\ Durante(f) /\ esi_respuesta = 0 /\ pc_esi[f] = "espera"
        /\ L \in DOMAIN guion[f] /\ guion[f][L].clave = k
        /\ Head(coord_plan).id = 31 <=> guion[f][L].op = "GET"
        /\ Head(coord_plan).id = 32 <=> guion[f][L].op = "STORE"
  <2>1. Durante(f) /\ Consultada(f) =>
          /\ esi_respuesta = 0 /\ pc_esi[f] = "espera" /\ L \in DOMAIN guion[f]
          /\ guion[f][L].clave = k /\ guion[f][L].op = funcion[f]
    BY DEF Durante, EnHost, EnPedido, Consultada, LineaValida
  <2> QED BY <1>3, <1>7, <2>1 DEF PreguntaDe
<1>9. guion[f] \in Seq(Linea) /\ L \in Nat
  BY <1>2, RedAssumption DEF IInv, TypeOK, TypeOKEsi
<1>10. ASSUME NEW q, Debe(f, q), ~(guion[f][L].op = "STORE" /\ guion[f][L].clave = q)
       PROVE  Debe(f, q)'
  BY <1>1, <1>10 DEF Debe
\* It is enough to look at the keys of f.
<1>11. ASSUME claves_bloqueadas_por_esis' \subseteq
                claves_bloqueadas_por_esis \cup (IF pc_esi[f] = "espera" THEN {<<f, k>>} ELSE {}),
              \A q \in Claves :
                <<f, q>> \in claves_bloqueadas_por_esis' /\ ~Rota(f) => Debe(f, q)',
              esi_respuesta = 0 \/ abort_esi'
       PROVE  Deudas'
  <2>1. ASSUME NEW e \in Esis, NEW q \in Claves, <<e, q>> \in claves_bloqueadas_por_esis', ~Rota(e)'
        PROVE  Debe(e, q)'
    <3>1. CASE e = f
      BY <1>6, <1>11, <2>1, <3>1
    <3>2. CASE e # f
      <4>1. <<e, q>> \in claves_bloqueadas_por_esis
        BY <1>11, <2>1, <3>2
      <4>2. Debe(e, q)
        BY <1>6, <2>1, <4>1 DEF Deudas, Endeudados
      <4> QED BY <1>1, <1>6, <3>2, <4>2, DebeMarco
    <3> QED BY <3>1, <3>2
  <2>2. ASSUME NEW e \in Esis, ~Sin(esi_plan'[e], {24})
        PROVE  pc_esi'[e] = "fin" /\ SinClaves(e)'
    <3>1. pc_esi[e] = "fin" /\ SinClaves(e)
      BY <1>1, <2>2 DEF Deudas, TerminaSinClaves
    <3> QED BY <1>1, <1>11, <3>1 DEF SinClaves
  <2>3. TerminaSinClaves'
    BY <1>1, <1>5, <1>11, <2>2 DEF TerminaSinClaves, Contesto
  <2> QED BY <2>1, <2>3 DEF Deudas, Endeudados
\* What f owns and owes already.
<1>12. \A q \in Claves : <<f, q>> \in claves_bloqueadas_por_esis /\ ~Rota(f) => Debe(f, q)
  BY <1>2 DEF Deudas, Endeudados
<1>13. CASE ConcederClave
  <2>1. /\ Head(coord_plan).id = 31
        /\ claves_bloqueadas_por_esis' = claves_bloqueadas_por_esis \cup {<<f, k>>}
    BY <1>13 DEF ConcederClave, Llega
  <2>2. Debe(f, k)'
    <3>1. L \in 1..linea'[f] /\ L \in DOMAIN guion'[f]
      BY <1>1, <1>8, <1>9, <2>1
    <3>2. guion'[f][L].op = "GET" /\ guion'[f][L].clave = k
      BY <1>1, <1>8, <2>1
    <3>3. \A j \in DOMAIN guion'[f] : ~(L < j /\ j <= linea'[f])
      BY <1>1, <1>9
    <3> QED BY <3>1, <3>2, <3>3 DEF Debe
  <2>3. \A q \in Claves : <<f, q>> \in claves_bloqueadas_por_esis /\ ~Rota(f) => Debe(f, q)'
    BY <1>8, <1>10, <1>12, <2>1
  <2> QED BY <1>8, <1>11, <2>1, <2>2, <2>3
<1>14. CASE RechazarClave \/ ConsultarSet
  <2>1. Head(coord_plan).id \in {31, 33} /\ UNCHANGED claves_bloqueadas_por_esis
    BY <1>14 DEF RechazarClave, ConsultarSet, Llega, listas
  <2>2. \A q \in Claves : <<f, q>> \in claves_bloqueadas_por_esis /\ ~Rota(f) => Debe(f, q)'
    BY <1>8, <1>10, <1>12, <2>1
  <2> QED BY <1>8, <1>11, <2>1, <2>2
<1>15. CASE LiberarClave
  <2>1. /\ Head(coord_plan).id = 32
        /\ claves_bloqueadas_por_esis' = claves_bloqueadas_por_esis \ {<<f, k>>}
    BY <1>15 DEF LiberarClave, Llega, EsiHasKey
  <2>2. ASSUME NEW q \in Claves, <<f, q>> \in claves_bloqueadas_por_esis', ~Rota(f)
        PROVE  Debe(f, q)'
    <3>1. q # k /\ Debe(f, q)
      BY <1>12, <2>1, <2>2
    <3> QED BY <1>8, <1>10, <2>1, <3>1
  <2> QED BY <1>8, <1>11, <2>1, <2>2
<1>16. CASE AvisoAborto
  <2>1. /\ Head(coord_plan).id \in {34, 35} /\ UNCHANGED claves_bloqueadas_por_esis
        /\ Head(coord_plan).id = 34 => abort_esi'
    BY <1>16 DEF AvisoAborto, Llega, listas
  <2>2. Despues(f) /\ Abortada /\ Head(coord_plan).id = 34
    BY <1>3, <2>1
  <2>3. Guardando(f) => Rota(f)
    <3>1. Abortando(f)
      BY <1>3, <2>2 DEF Lugares, AbortoVigente, AvisoDeAborto
    <3>2. Guardando(f) => Contestada(f) /\ esi_respuesta = 0
      BY <2>2 DEF Guardando, Despues, Informada, Reposo
    <3> QED BY <3>1, <3>2 DEF Abortando, Contestada, Rota, Sin, Respuestas
  <2>4. ASSUME NEW q \in Claves, <<f, q>> \in claves_bloqueadas_por_esis', ~Rota(f)
        PROVE  Debe(f, q)'
    <3>1. Debe(f, q) /\ ~Guardando(f)
      BY <1>12, <2>1, <2>3, <2>4
    <3> QED BY <1>1, <3>1, DebeMarco
  <2> QED BY <1>11, <2>1, <2>2, <2>4
<1> QED BY <1>4, <1>13, <1>14, <1>15, <1>16 DEF Preguntas

\* Every step keeps what the ESIs owe.
LEMMA PasoDeudas ==
  ASSUME "STATUS" \notin Comandos, GuionesDevuelven, IInv, UnTurno, algorithm # "SJFCD", Salida,
         Lugares, Deudas, [Next]_vars
  PROVE  Deudas'
<1>1. ASSUME NEW f \in Esis, EsiActua(f) \/ CoordActua(PasoHostEsi(f)) PROVE Deudas'
  BY <1>1, EsiDeudas, HostEsiDeudas
<1>2. CASE \/ CoordActua(PasoHostScheduler) \/ CoordActua(PasoHostInstance)
           \/ PlanActua(PasoConsola) \/ UNCHANGED vars
  BY <1>2, AjenoDeudas
<1>3. CASE PlanActua(PasoMain)
  <2>1. CASE pc_plan # "pregunta"
    BY <1>3, <2>1, MainFueraDeudas
  <2>2. CASE pc_plan = "pregunta"
    <3>1. Preguntas
      BY <1>3, <2>2 DEF PlanActua, PasoMain, EsperaInicial, WaitStart, TomarEsi, TomarDeListaVacia,
         Ciclo, Pausa, Ejecutar, EncolarEsi, DesbloquearEspera, DesbloquearNadie, RecibirRespuesta,
         Terminar, LiberarUna, FinLiberacion, Esperar, Ordenar
    <3> QED BY <1>3, <3>1, PreguntaDeudas
  <2> QED BY <2>1, <2>2
<1>4. CASE PlanActua(PasoHostConnections)
  BY <1>4, HostConnectionsDeudas
<1> QED BY <1>1, <1>2, <1>3, <1>4, Hilos

LEMMA InicioDeudas == Init => Deudas
<1> SUFFICES ASSUME Init PROVE Deudas
  OBVIOUS
<1>1. /\ claves_bloqueadas_por_esis = {} /\ pc_plan = "espera_inicial"
      /\ \A e \in Esis : esi_plan[e] = <<>>
  BY DEF Init, InitPlan, InitRed
<1>2. Endeudados
  BY <1>1 DEF Endeudados
<1>3. \A e \in Esis : Sin(esi_plan[e], {24})
  BY <1>1, CanalVacio
<1> QED BY <1>1, <1>2, <1>3 DEF Deudas, TerminaSinClaves, EnRonda, Contesto

\* What the ESIs owe, along every behaviour.
LEMMA DeudasSiempre ==
  ASSUME "STATUS" \notin Comandos, "SJFCD" \notin Algoritmos, GuionesPiden, GuionesDevuelven
  PROVE  Spec => []Deudas
<1>1. IInv => algorithm # "SJFCD"
  BY DEF IInv, TypeOK, TypeOKPlan
<1>2. IInv /\ UnTurno /\ (algorithm # "SJFCD" => Salida) /\ Lugares /\ Deudas /\ [Next]_vars => Deudas'
  BY <1>1, PasoDeudas
<1> QED BY <1>2, InicioDeudas, Invariante, UnSoloTurno, Salidas, LugaresSiempre, PTL DEF Spec

-----------------------------------------------------------------------------
(* When main sleeps.                                                       *)

\* Every ESI in the ready list has its unit of hay_esis, or is the one that
\* HostConnections is about to announce or main to take.
EnMarcha == pc_plan \notin {"salida", "error"} /\ (pc_plan = "ciclo" => ~stop)
PorAnunciar == IF pc_hc = "post" THEN 1 ELSE 0
FichasAlcanzan == EnMarcha => Len(lista_ready) <= hay_esis + TomaPendiente + PorAnunciar

\* HostConnections posts hay_esis for a new ESI, the console for a waiter.
LEMMA AjenoFichas ==
  ASSUME IInv, FichasAlcanzan,
         PlanActua(PasoHostConnections) \/ PlanActua(PasoConsola) \/ UNCHANGED varsPlan
  PROVE  FichasAlcanzan'
<1>1. lista_ready \in Seq(Esis) /\ hay_esis \in Nat
  BY DEF IInv, TypeOK, TypeOKPlan
<1>2. CASE UNCHANGED <<lista_ready, hay_esis, pc_plan, pc_hc>> /\ (stop => stop')
  BY <1>2 DEF FichasAlcanzan, EnMarcha, TomaPendiente, PorAnunciar
<1>3. ASSUME NEW e \in Esis, NuevoEsi(e) PROVE FichasAlcanzan'
  <2>1. /\ pc_hc = "select" /\ pc_hc' = "post" /\ lista_ready' = Append(lista_ready, e)
        /\ UNCHANGED <<hay_esis, pc_plan, stop>>
    BY <1>3 DEF NuevoEsi, semaforos, consola
  <2>2. Len(lista_ready') = Len(lista_ready) + 1
    BY <1>1, <2>1
  <2> QED BY <1>1, <2>1, <2>2 DEF FichasAlcanzan, EnMarcha, TomaPendiente, PorAnunciar
<1>4. CASE AvisarNuevoEsi
  <2>1. /\ pc_hc = "post" /\ pc_hc' = "select" /\ hay_esis' = hay_esis + 1
        /\ UNCHANGED <<lista_ready, pc_plan, stop>>
    BY <1>4 DEF AvisarNuevoEsi, listas, consola
  <2> QED BY <1>1, <2>1 DEF FichasAlcanzan, EnMarcha, TomaPendiente, PorAnunciar
<1>5. ASSUME NEW e \in Esis, RespuestaEsi(e) PROVE FichasAlcanzan'
  BY <1>2, <1>5 DEF RespuestaEsi, listas, consola
<1>6. CASE ConsolaExit
  <2>1. /\ stop' /\ hay_esis' = hay_esis + 1 /\ UNCHANGED <<lista_ready, pc_plan, pc_hc>>
    BY <1>6 DEF ConsolaExit, listas
  <2> QED BY <1>1, <2>1 DEF FichasAlcanzan, EnMarcha, TomaPendiente, PorAnunciar
<1>7. CASE \/ ConsolaPause \/ ConsolaResume \/ ConsolaBlock \/ ConsolaRecibeStatus \/ ConsolaRecibeDatos
           \/ \E k \in Claves : ConsolaUnlock(k) \/ ConsolaStatus(k)
  BY <1>2, <1>7 DEF ConsolaPause, ConsolaResume, ConsolaBlock, ConsolaRecibeStatus,
     ConsolaRecibeDatos, ConsolaUnlock, ConsolaStatus, Teclear, listas, semaforos
<1>8. CASE ConsolaDesbloqueo
  <2>1. /\ UNCHANGED <<pc_plan, pc_hc, stop>>
        /\ \/ UNCHANGED <<lista_ready, hay_esis>>
           \/ hay_esis' = hay_esis + 1 /\ \E o : lista_ready' = Append(lista_ready, o)
    BY <1>8 DEF ConsolaDesbloqueo, ReadyCon
  <2>2. \A o : Len(Append(lista_ready, o)) = Len(lista_ready) + 1
    BY <1>1
  <2> QED BY <1>1, <2>1, <2>2 DEF FichasAlcanzan, EnMarcha, TomaPendiente, PorAnunciar
<1>9. CASE UNCHANGED varsPlan
  BY <1>2, <1>9 DEF varsPlan, listas, semaforos, consola
<1> QED BY <1>3, <1>4, <1>5, <1>6, <1>7, <1>8, <1>9 DEF PlanActua, PasoHostConnections, PasoConsola

\* main posts hay_esis with every waiter it lets go: release_keys_and_unlock_esis,
\* which does not, has no key to release.
LEMMA MainFichasAlcanzan ==
  ASSUME IInv, Deudas, FichasAlcanzan, PlanActua(PasoMain)
  PROVE  FichasAlcanzan'
<1>1. lista_ready \in Seq(Esis) /\ hay_esis \in Nat
  BY DEF IInv, TypeOK, TypeOKPlan
<1>2. PasoMain /\ stop' = stop
  BY MainAjeno DEF PlanActua
<1>3. pc_hc' = pc_hc
  BY <1>2 DEF PasoMain, EsperaInicial, WaitStart, TomarEsi, TomarDeListaVacia, Ciclo, Pausa,
     Ejecutar, Preguntas, ConcederClave, RechazarClave, LiberarClave, ConsultarSet, AvisoAborto,
     PreguntaInvalida, EncolarEsi, DesbloquearEspera, DesbloquearNadie, RecibirRespuesta, Terminar,
     LiberarUna, FinLiberacion, Esperar, Ordenar
<1> DEFINE TomaEn(pc) == IF pc \in {"wait_start", "primero", "ordenar", "elegir"} THEN 1 ELSE 0
\* What main has put on the list, it has posted.
<1>4. ASSUME EnMarcha' => EnMarcha,
             EnMarcha' => Len(lista_ready') - Len(lista_ready) <=
                            hay_esis' - hay_esis + (TomaEn(pc_plan') - TomaEn(pc_plan)),
             hay_esis' \in Nat, Len(lista_ready') \in Nat
      PROVE  FichasAlcanzan'
  <2>1. TomaPendiente = TomaEn(pc_plan) /\ TomaPendiente' = TomaEn(pc_plan')
    BY DEF TomaPendiente
  <2> QED BY <1>1, <1>3, <1>4, <2>1 DEF FichasAlcanzan, PorAnunciar
<1>5. CASE TomarDeListaVacia \/ Ciclo \/ Pausa \/ Ejecutar \/ Preguntas \/ EncolarEsi \/ DesbloquearNadie
           \/ RecibirRespuesta \/ Terminar \/ FinLiberacion \/ EsperaInicial \/ WaitStart \/ Esperar
  <2>1. CASE TomarDeListaVacia
    BY <2>1 DEF TomarDeListaVacia, FichasAlcanzan, EnMarcha
  <2>2. CASE Ciclo \/ Pausa \/ Ejecutar
    <3>1. /\ UNCHANGED <<lista_ready, hay_esis>>
          /\ pc_plan \in {"ciclo", "pausa", "ejecutar"} /\ pc_plan' \in {"pausa", "ejecutar", "pregunta", "salida"}
          /\ pc_plan = "ciclo" /\ stop => pc_plan' = "salida"
      BY <2>2 DEF Ciclo, Pausa, Ejecutar, listas, semaforos
    <3> QED BY <1>1, <1>4, <3>1 DEF EnMarcha
  <2>3. CASE Preguntas \/ EncolarEsi \/ DesbloquearNadie \/ RecibirRespuesta \/ Terminar \/ FinLiberacion
    <3>1. /\ UNCHANGED <<lista_ready, hay_esis>>
          /\ pc_plan \in {"pregunta", "encolar", "desbloquear", "respuesta", "terminar", "liberando"}
          /\ pc_plan' \in {"encolar", "desbloquear", "respuesta", "terminar", "liberando", "ciclo",
                           "esperar", "error"}
      BY <2>3 DEF Preguntas, ConcederClave, RechazarClave, LiberarClave, ConsultarSet, AvisoAborto,
         PreguntaInvalida, EncolarEsi, DesbloquearNadie, RecibirRespuesta, Terminar, FinLiberacion,
         listas, semaforos
    <3> QED BY <1>1, <1>4, <3>1 DEF EnMarcha
  <2>4. CASE EsperaInicial \/ WaitStart \/ Esperar
    <3>1. /\ UNCHANGED lista_ready
          /\ \/ /\ pc_plan \in {"espera_inicial", "esperar"} /\ pc_plan' \in {"wait_start", "ordenar"}
                /\ hay_esis > 0 /\ hay_esis' = hay_esis - 1
             \/ pc_plan = "wait_start" /\ pc_plan' = "primero" /\ hay_esis' = hay_esis
      BY <2>4 DEF EsperaInicial, WaitStart, Esperar, listas, semaforos
    <3> QED BY <1>1, <1>4, <3>1 DEF EnMarcha
  <2> QED BY <1>5, <2>1, <2>2, <2>3, <2>4
<1>6. CASE TomarEsi
  <2>1. /\ pc_plan \in {"primero", "elegir"} /\ pc_plan' = "ciclo" /\ hay_esis' = hay_esis
        /\ lista_ready # <<>> /\ lista_ready' = Tail(lista_ready)
    BY <1>6 DEF TomarEsi, semaforos
  <2>2. Len(lista_ready') = Len(lista_ready) - 1 /\ Len(lista_ready') \in Nat
    BY <1>1, <2>1
  <2> QED BY <1>1, <1>4, <2>1, <2>2 DEF EnMarcha
<1>7. CASE DesbloquearEspera
  <2> DEFINE otro == Head(cola_esis_bloqueados[mensaje])
  <2>1. un_esi \in Esis /\ otro \in Esis
    BY <1>7, PrimeroLiberado DEF DesbloquearEspera, IInv, TypeOK, InvPlan
  <2>2. /\ pc_plan = "desbloquear" /\ pc_plan' = "respuesta" /\ hay_esis' = hay_esis + 1
        /\ lista_ready' \in Ordenaciones(ReadyCon(otro), Reestimar(otro))
    BY <1>7 DEF DesbloquearEspera
  <2> HIDE DEF otro
  <2>3. ReadyCon(otro) \in Seq(Esis) /\ Len(ReadyCon(otro)) = Len(lista_ready) + 1
    BY <1>1, <2>1 DEF ReadyCon
  <2>4. Len(lista_ready') = Len(lista_ready) + 1
    BY <2>2, <2>3, OrdenacionesTipo
  <2> QED BY <1>1, <1>4, <2>2, <2>4 DEF EnMarcha
<1>8. ASSUME NEW k \in Claves PROVE ~LiberarUna(k)
  BY <1>8 DEF LiberarUna, Deudas, TerminaSinClaves, SinClaves
<1>9. CASE Ordenar
  <2>1. CASE stop
    BY <1>2, <1>9, <2>1 DEF Ordenar, FichasAlcanzan, EnMarcha
  <2>2. CASE ~stop
    <3>1. /\ pc_plan = "ordenar" /\ pc_plan' = "elegir" /\ hay_esis' = hay_esis
          /\ lista_ready' \in Ordenaciones(lista_ready, estimacion)
      BY <1>9, <2>2 DEF Ordenar, semaforos
    <3>2. Len(lista_ready') = Len(lista_ready)
      BY <1>1, <3>1, OrdenacionesTipo
    <3> QED BY <1>1, <1>4, <3>1, <3>2 DEF EnMarcha
  <2> QED BY <2>1, <2>2
<1> QED BY <1>2, <1>5, <1>6, <1>7, <1>8, <1>9 DEF PasoMain

\* main goes to sleep only when no ESI is ready: while every script gives back
\* what it takes, every ESI put on the ready list comes with its post.
THEOREM NadieListoSinFicha ==
  ASSUME "STATUS" \notin Comandos, "SJFCD" \notin Algoritmos, GuionesPiden, GuionesDevuelven
  PROVE  Spec => []DuermeSinListos
<1>1. Init => FichasAlcanzan
  BY DEF Init, InitPlan, FichasAlcanzan, TomaPendiente, PorAnunciar
<1>2. ASSUME IInv, Deudas, FichasAlcanzan, [Next]_vars PROVE FichasAlcanzan'
  <2>1. \/ PlanActua(PasoMain) \/ PlanActua(PasoHostConnections) \/ PlanActua(PasoConsola)
        \/ UNCHANGED varsPlan
    BY <1>2, Hilos DEF EsiActua, CoordActua, vars
  <2> QED BY <1>2, <2>1, AjenoFichas, MainFichasAlcanzan
<1>3. IInv /\ FichasAlcanzan => DuermeSinListos
  <2> SUFFICES ASSUME IInv, FichasAlcanzan, pc_plan = "esperar", hay_esis = 0, pc_hc = "select"
               PROVE  lista_ready = <<>>
    BY DEF DuermeSinListos
  <2>1. Len(lista_ready) <= 0
    BY DEF FichasAlcanzan, EnMarcha, TomaPendiente, PorAnunciar
  <2>2. lista_ready \in Seq(Esis)
    BY DEF IInv, TypeOK, TypeOKPlan
  <2> QED BY <2>1, <2>2
<1> QED BY <1>1, <1>2, <1>3, Invariante, DeudasSiempre, PTL DEF Spec
=============================================================================
