---------------------------- MODULE TurnoProofs ----------------------------
(***************************************************************************)
(* As long as the operator does not ask for STATUS there is one turn in    *)
(* the whole system: at most one ESI has a request under way, and where    *)
(* that request is tells where main, host_scheduler, host_esi and          *)
(* host_instance are, and what every semaphore and every socket between    *)
(* them holds.  UnTurno says so, for every algorithm.  The globals that no *)
(* mutex protects, and the ownership of keys, are safe because of it.      *)
(***************************************************************************)
EXTENDS SistemaProofs

-----------------------------------------------------------------------------
(* The messages of a channel.                                              *)

\* What an ESI asks of its host_esi, and what it answers the Planificador.
Pedidos == {21, 22, 23, 25}
Respuestas == 22..25

Canal == Seq(Mensaje({}))
Ultimo(s) == s[Len(s)]

\* No message of s has one of those ids; the last one has, and no other; s is a
\* single message, and it has one of them.
Sin(s, ids) == \A i \in DOMAIN s : s[i].id \notin ids
Termina(s, ids) ==
  /\ s # <<>> /\ Ultimo(s).id \in ids
  /\ \A i \in 1..(Len(s) - 1) : s[i].id \notin ids
Uno(s, ids) == s # <<>> /\ Tail(s) = <<>> /\ Head(s).id \in ids

-----------------------------------------------------------------------------
(* Where the request of an ESI is.                                         *)

\* What e sends for the line it is at, and what host_esi keeps of it.
Pedido(e) ==
  IF LineaValida(e, linea[e])
  THEN [id |-> IdDe(guion[e][linea[e]].op), clave |-> guion[e][linea[e]].clave]
  ELSE [id |-> 25, clave |-> SinClave]
EnPedido(e) ==
  /\ LineaValida(e, linea[e])
  /\ funcion[e] = guion[e][linea[e]].op
  /\ message = guion[e][linea[e]].clave

\* host_esi of e has no operation under way; no message of the round is on the
\* sockets of e; e takes no part in the round.
Callado(e) == pc_he[e] \in {"inicio", "recv", "fin"}
SinMensajes(e) ==
  coord_esi[e] = <<>> /\ Sin(esi_coord[e], Pedidos) /\ Sin(esi_plan[e], Respuestas)
Reposo(e) == plan_esi[e] = <<>> /\ pc_esi[e] # "espera" /\ Callado(e) /\ SinMensajes(e)

\* The stages of a request: main told e to run; e sent the line; host_esi has
\* it; host_esi has answered; e has told the Planificador.
Mandada(e) == Uno(plan_esi[e], {21}) /\ pc_esi[e] # "espera" /\ Callado(e) /\ SinMensajes(e)
Leida(e) ==
  /\ plan_esi[e] = <<>> /\ pc_esi[e] = "espera" /\ Callado(e)
  /\ Termina(esi_coord[e], Pedidos) /\ Ultimo(esi_coord[e]) = Pedido(e)
  /\ coord_esi[e] = <<>> /\ Sin(esi_plan[e], Respuestas)
EnHost(e, pc) ==
  /\ plan_esi[e] = <<>> /\ pc_esi[e] = "espera" /\ pc_he[e] = pc /\ SinMensajes(e)
  /\ EnPedido(e)
  /\ pc # "preparada" => operation = funcion[e]
Contestada(e) ==
  /\ plan_esi[e] = <<>> /\ pc_esi[e] = "espera" /\ Callado(e)
  /\ Uno(coord_esi[e], {22, 23, 24})
  /\ Sin(esi_coord[e], Pedidos) /\ Sin(esi_plan[e], Respuestas)
Informada(e) ==
  /\ plan_esi[e] = <<>> /\ pc_esi[e] \in {"listo", "fin"} /\ Callado(e)
  /\ coord_esi[e] = <<>> /\ Sin(esi_coord[e], Pedidos)
  /\ Termina(esi_plan[e], Respuestas)

-----------------------------------------------------------------------------
(* Where main and host_scheduler are with it.                              *)

Contesto == {"encolar", "desbloquear", "respuesta"}
EnRonda == Contesto \cup {"pregunta"}
AntesDePrimero == {"espera_inicial", "wait_start"}

\* 99 has been sent and nothing asked; the question is with main; main has
\* answered; host_scheduler has read the answer; main is told of an abort.
SinPregunta ==
  /\ pc_plan = "pregunta" /\ coord_plan = <<>>
  /\ \/ pc_hs = "recv" /\ Uno(plan_coord, {99})
     \/ pc_hs = "operacion" /\ plan_coord = <<>>
Consultada(e) ==
  /\ pc_plan = "pregunta" /\ pc_hs = "respuesta" /\ plan_coord = <<>>
  /\ Uno(coord_plan, {PreguntaDe(funcion[e])}) /\ Head(coord_plan).clave = message
Respondida ==
  /\ pc_plan \in Contesto /\ pc_hs = "respuesta" /\ coord_plan = <<>>
  /\ Uno(plan_coord, {31, 32, 34, 35})
Cerrada == pc_plan \in Contesto /\ pc_hs = "recv" /\ coord_plan = <<>> /\ plan_coord = <<>>
Abortada == pc_plan = "pregunta" /\ pc_hs = "recv" /\ plan_coord = <<>> /\ Uno(coord_plan, {34})

\* The semaphores of the round: between host_esi and host_scheduler, and
\* between host_esi and host_instance.
Posts(op, resp) == esi_operation = op /\ scheduler_response = resp
SinInstancia == start = 0 /\ atendido = Nadie /\ result_instance = 0
UnaInstancia ==
  \/ start = 1 /\ atendido = Nadie /\ result_instance = 0
  \/ start = 0 /\ atendido = [op |-> operation, clave |-> message] /\ result_instance = 0
  \/ start = 0 /\ atendido = Nadie /\ result_instance = 1

-----------------------------------------------------------------------------
(* The round.                                                              *)

Antes(e) ==
  /\ Mandada(e) \/ Leida(e) \/ EnHost(e, "preparada")
  /\ SinPregunta /\ Posts(0, 0) /\ SinInstancia /\ esi_respuesta = 0
Durante(e) ==
  /\ EnHost(e, "planificador") /\ SinInstancia /\ esi_respuesta = 0
  /\ \/ SinPregunta /\ Posts(1, 0)
     \/ Consultada(e) /\ Posts(0, 0)
     \/ Respondida /\ Posts(0, 0)
     \/ Cerrada /\ Posts(0, 1)
EnInstancia(e) ==
  EnHost(e, "instancia") /\ UnaInstancia /\ esi_respuesta = 0 /\ Cerrada /\ Posts(0, 0)

\* An abort answers the ESI and posts esi_operation at once: e may be done
\* before host_scheduler has told main.
AvisoDeAborto ==
  \/ SinPregunta /\ Posts(1, 0) /\ operation = "ABORT"
  \/ Abortada /\ Posts(0, 0)
Despues(e) ==
  /\ \/ (Contestada(e) \/ Informada(e)) /\ esi_respuesta = 0
     \/ Reposo(e) /\ esi_respuesta = 1
  /\ SinInstancia
  /\ (Cerrada /\ Posts(0, 0)) \/ AvisoDeAborto

\* e has the turn: it was told to run and main has not taken its answer yet.
\* Under SJF-CD a waiter that is let go replaces un_esi in the middle of it.
Turno(e) ==
  /\ algorithm # "SJFCD" => un_esi = e
  /\ Antes(e) \/ Durante(e) \/ EnInstancia(e) \/ Despues(e)

\* Nobody has it.  The Planificador starts on the Coordinador's 35.
EntreRondas ==
  /\ pc_plan \notin EnRonda
  /\ plan_coord = <<>> /\ Posts(0, 0) /\ SinInstancia /\ esi_respuesta = 0
  /\ \/ pc_hs \in {"una_esi", "una_instancia"} /\ coord_plan = <<>> /\ pc_plan \in AntesDePrimero
     \/ pc_hs = "recv" /\ Uno(coord_plan, {35}) /\ pc_plan \in AntesDePrimero
     \/ pc_hs = "recv" /\ coord_plan = <<>> /\ pc_plan \notin AntesDePrimero

SinStatus == pc_con \notin {"status_nueva", "status_pedida", "status_datos"}

UnTurno ==
  /\ SinStatus
  /\ \/ EntreRondas /\ \A e \in Esis : Reposo(e)
     \/ \E e \in Esis : Turno(e) /\ \A f \in Esis \ {e} : Reposo(f)

-----------------------------------------------------------------------------
(* Lemmas about channels.                                                  *)

LEMMA CanalTipo ==
  ASSUME TypeOKRed
  PROVE  /\ \A e \in Esis : /\ esi_plan[e] \in Canal /\ plan_esi[e] \in Canal
                            /\ esi_coord[e] \in Canal /\ coord_esi[e] \in Canal
         /\ plan_coord \in Canal /\ coord_plan \in Canal
<1>1. \A S : Mensaje(S) \subseteq Mensaje({})
  BY DEF Mensaje
<1>2. \A S : Seq(Mensaje(S)) \subseteq Canal
  BY <1>1, SeqMonotonic DEF Canal
<1> QED BY <1>2 DEF TypeOKRed

LEMMA CanalVacio == \A ids : Sin(<<>>, ids)
BY DEF Sin

\* What is sent on a channel.
LEMMA CanalCon ==
  ASSUME NEW s \in Canal, NEW id \in Nat, NEW k \in Claves \cup {SinClave}, NEW ids
  PROVE  /\ Sin(s, ids) /\ id \notin ids => Sin(Con(s, id, k), ids)
         /\ Sin(s, ids) /\ id \in ids =>
              Termina(Con(s, id, k), ids) /\ Ultimo(Con(s, id, k)) = [id |-> id, clave |-> k]
         /\ s = <<>> /\ id \in ids =>
              Uno(Con(s, id, k), ids) /\ Head(Con(s, id, k)) = [id |-> id, clave |-> k]
         /\ Con(s, id, k) # <<>>
<1> DEFINE m == [id |-> id, clave |-> k]
           t == Append(s, m)
<1>1. s \in Seq(Mensaje({})) /\ m \in Mensaje({})
  BY DEF Canal, Mensaje
<1>2. m.id = id
  OBVIOUS
<1> HIDE DEF m
<1>3. /\ Len(t) = Len(s) + 1 /\ DOMAIN t = 1..Len(t) /\ t # <<>> /\ Len(s) \in Nat
      /\ DOMAIN s = 1..Len(s)
      /\ \A i \in 1..Len(s) : t[i] = s[i]
      /\ t[Len(t)] = m
      /\ s = <<>> => Tail(t) = <<>> /\ Head(t) = m
  BY <1>1
<1>4. Con(s, id, k) = t
  BY DEF Con, m
<1> HIDE DEF t
<1>5. Sin(s, ids) /\ id \notin ids => Sin(t, ids)
  BY <1>2, <1>3 DEF Sin
<1>6. Sin(s, ids) /\ id \in ids => Termina(t, ids) /\ Ultimo(t) = m
  BY <1>2, <1>3 DEF Sin, Termina, Ultimo
<1>7. s = <<>> /\ id \in ids => Uno(t, ids) /\ Head(t) = m
  BY <1>2, <1>3 DEF Uno
<1> QED BY <1>3, <1>4, <1>5, <1>6, <1>7 DEF m

LEMMA CanalCabecera ==
  ASSUME NEW s \in Canal, NEW id \in Nat, NEW ids
  PROVE  /\ Sin(s, ids) /\ id \notin ids => Sin(Cabecera(s, id), ids)
         /\ Sin(s, ids) /\ id \in ids => Termina(Cabecera(s, id), ids)
         /\ Sin(s, ids) /\ id \in ids =>
              Ultimo(Cabecera(s, id)) = [id |-> id, clave |-> SinClave]
         /\ s = <<>> /\ id \in ids => Uno(Cabecera(s, id), ids)
BY CanalCon DEF Cabecera

\* What is sent on an empty channel is what arrives.
LEMMA CanalPrimero ==
  ASSUME NEW id \in Nat
  PROVE  Cabecera(<<>>, id) # <<>> /\ Head(Cabecera(<<>>, id)).id = id
BY DEF Cabecera, Con

\* What is taken from a channel.
LEMMA CanalResto ==
  ASSUME NEW s \in Canal, NEW ids, s # <<>>
  PROVE  /\ Sin(s, ids) => Sin(Tail(s), ids) /\ Head(s).id \notin ids
         /\ Termina(s, ids) /\ Head(s).id \in ids => Sin(Tail(s), ids) /\ Head(s) = Ultimo(s)
         /\ Termina(s, ids) /\ Head(s).id \notin ids =>
              Termina(Tail(s), ids) /\ Ultimo(Tail(s)) = Ultimo(s)
<1> DEFINE t == Tail(s)
<1>1. /\ Len(s) \in Nat \ {0} /\ DOMAIN s = 1..Len(s)
      /\ Len(t) = Len(s) - 1 /\ DOMAIN t = 1..Len(t)
      /\ \A i \in 1..Len(t) : t[i] = s[i + 1]
      /\ Head(s) = s[1]
      /\ Len(t) > 0 => t # <<>>
  <2>1. s \in Seq(Mensaje({}))
    BY DEF Canal
  <2>2. t \in Seq(Mensaje({})) /\ Len(t) = Len(s) - 1 /\ \A i \in 1..Len(t) : t[i] = s[i + 1]
    BY <2>1, HeadTailProperties
  <2>3. Len(s) \in Nat \ {0} /\ DOMAIN s = 1..Len(s) /\ Head(s) = s[1]
    BY <2>1
  <2>4. DOMAIN t = 1..Len(t) /\ (Len(t) > 0 => t # <<>>)
    <3> HIDE DEF t
    <3> QED BY <2>2
  <2> QED BY <2>2, <2>3, <2>4
<1> HIDE DEF t
<1>2. Sin(s, ids) => Sin(t, ids) /\ Head(s).id \notin ids
  BY <1>1 DEF Sin
<1>3. ASSUME Termina(s, ids), Head(s).id \in ids
      PROVE  Sin(t, ids) /\ Head(s) = Ultimo(s)
  <2>1. Len(s) = 1
    BY <1>1, <1>3 DEF Termina
  <2> QED BY <1>1, <2>1 DEF Sin, Ultimo
<1>4. ASSUME Termina(s, ids), Head(s).id \notin ids
      PROVE  Termina(t, ids) /\ Ultimo(t) = Ultimo(s)
  <2>1. Len(s) # 1
    BY <1>1, <1>4 DEF Termina, Ultimo
  <2>2. Len(t) > 0 /\ t[Len(t)] = s[Len(s)]
    BY <1>1, <2>1
  <2>3. \A i \in 1..(Len(t) - 1) : t[i].id \notin ids
    <3> TAKE i \in 1..(Len(t) - 1)
    <3>1. i + 1 \in 1..(Len(s) - 1) /\ t[i] = s[i + 1]
      BY <1>1
    <3> QED BY <1>4, <3>1 DEF Termina
  <2> QED BY <1>1, <1>4, <2>2, <2>3 DEF Termina, Ultimo
<1> QED BY <1>2, <1>3, <1>4 DEF t

-----------------------------------------------------------------------------
(* What a step leaves alone.                                               *)

\* The stage of e depends on these only.
MismosCanales(e) ==
  /\ plan_esi'[e] = plan_esi[e] /\ pc_esi'[e] = pc_esi[e] /\ pc_he'[e] = pc_he[e]
  /\ esi_plan'[e] = esi_plan[e] /\ esi_coord'[e] = esi_coord[e] /\ coord_esi'[e] = coord_esi[e]
MismoPedido(e) ==
  /\ guion'[e] = guion[e] /\ linea'[e] = linea[e] /\ funcion'[e] = funcion[e]
  /\ message' = message /\ operation' = operation

LEMMA MismoReposo ==
  ASSUME NEW e, MismosCanales(e), Reposo(e)
  PROVE  Reposo(e)'
BY DEF MismosCanales, Reposo, Callado, SinMensajes, Sin

LEMMA MismaEtapa ==
  ASSUME NEW e, MismosCanales(e), MismoPedido(e)
  PROVE  /\ Mandada(e) => Mandada(e)'
         /\ Leida(e) => Leida(e)'
         /\ \A pc : EnHost(e, pc) => EnHost(e, pc)'
         /\ Contestada(e) => Contestada(e)'
         /\ Informada(e) => Informada(e)'
BY DEF MismosCanales, MismoPedido, Mandada, Leida, EnHost, Contestada, Informada, Callado,
       SinMensajes, Sin, Termina, Ultimo, Uno, Pedido, EnPedido, LineaValida

\* The stage of e in its request is not lost, nor its request.
MismaSituacion(e) ==
  /\ funcion'[e] = funcion[e]
  /\ Reposo(e) => Reposo(e)'
  /\ Mandada(e) => Mandada(e)'
  /\ Leida(e) => Leida(e)'
  /\ EnHost(e, "preparada") => EnHost(e, "preparada")'
  /\ EnHost(e, "planificador") => EnHost(e, "planificador")'
  /\ EnHost(e, "instancia") => EnHost(e, "instancia")'
  /\ Contestada(e) => Contestada(e)'
  /\ Informada(e) => Informada(e)'

LEMMA MismaSituacionSi ==
  ASSUME NEW e, MismosCanales(e), MismoPedido(e)
  PROVE  MismaSituacion(e)
<1>1. funcion'[e] = funcion[e]
  BY DEF MismoPedido
<1> QED BY <1>1, MismoReposo, MismaEtapa DEF MismaSituacion

\* The rest of what UnTurno is about.
MismaRonda ==
  /\ UNCHANGED <<pc_plan, pc_hs, plan_coord, coord_plan, esi_operation, scheduler_response,
                 start, atendido, result_instance, esi_respuesta, message, operation,
                 algorithm>>
  /\ algorithm # "SJFCD" => un_esi' = un_esi
  /\ SinStatus'

LEMMA TurnoMarco ==
  ASSUME UnTurno, MismaRonda, \A e \in Esis : MismaSituacion(e)
  PROVE  UnTurno'
<1>1. CASE EntreRondas /\ \A e \in Esis : Reposo(e)
  <2>1. EntreRondas'
    BY <1>1 DEF EntreRondas, MismaRonda, Posts, SinInstancia, Uno
  <2>2. \A e \in Esis : Reposo(e)'
    BY <1>1 DEF MismaSituacion
  <2> QED BY <2>1, <2>2 DEF UnTurno, MismaRonda
<1>2. ASSUME NEW e \in Esis, Turno(e), \A f \in Esis \ {e} : Reposo(f)
      PROVE  UnTurno'
  <2>1. MismaSituacion(e)
    OBVIOUS
  <2>2. /\ SinPregunta => SinPregunta'
        /\ Consultada(e) => Consultada(e)'
        /\ Respondida => Respondida'
        /\ Cerrada => Cerrada'
        /\ Abortada => Abortada'
        /\ UnaInstancia => UnaInstancia'
        /\ SinInstancia => SinInstancia'
        /\ \A a, b : Posts(a, b) => Posts(a, b)'
    BY <2>1 DEF MismaSituacion, MismaRonda, SinPregunta, Consultada, Respondida, Cerrada,
                Abortada, UnaInstancia, SinInstancia, Posts, Uno
  <2>3. esi_respuesta' = esi_respuesta /\ operation' = operation
    BY DEF MismaRonda
  <2>4. /\ Antes(e) => Antes(e)'
        /\ Durante(e) => Durante(e)'
        /\ EnInstancia(e) => EnInstancia(e)'
        /\ Despues(e) => Despues(e)'
    BY <2>1, <2>2, <2>3 DEF MismaSituacion, Antes, Durante, EnInstancia, Despues, AvisoDeAborto
  <2>5. Turno(e)'
    BY <1>2, <2>4 DEF Turno, MismaRonda
  <2>6. \A f \in Esis \ {e} : Reposo(f)'
    BY <1>2 DEF MismaSituacion
  <2> QED BY <2>5, <2>6 DEF UnTurno, MismaRonda
<1> QED BY <1>1, <1>2 DEF UnTurno

\* Who is not at rest has the turn.
LEMMA TurnoDe ==
  ASSUME UnTurno, NEW f \in Esis, ~Reposo(f)
  PROVE  Turno(f) /\ (\A g \in Esis \ {f} : Reposo(g)) /\ SinStatus
BY DEF UnTurno

\* What host_esi of f has under way is the turn of f.
LEMMA TurnoDeHost ==
  ASSUME UnTurno, NEW f \in Esis, pc_he[f] \in {"preparada", "planificador", "instancia"}
  PROVE  /\ Turno(f) /\ (\A g \in Esis \ {f} : Reposo(g))
         /\ EnHost(f, pc_he[f])
         /\ pc_he[f] = "preparada" => Antes(f)
         /\ pc_he[f] = "planificador" => Durante(f)
         /\ pc_he[f] = "instancia" => EnInstancia(f)
<1>1. Turno(f) /\ \A g \in Esis \ {f} : Reposo(g)
  BY TurnoDe DEF Reposo, Callado
<1>2. /\ pc_he[f] = "preparada" => Antes(f) /\ EnHost(f, "preparada")
      /\ pc_he[f] = "planificador" => Durante(f)
      /\ pc_he[f] = "instancia" => EnInstancia(f)
  BY <1>1 DEF Turno, Antes, Durante, EnInstancia, Despues, Mandada, Leida, EnHost, Contestada,
     Informada, Reposo, Callado
<1> QED BY <1>1, <1>2 DEF Durante, EnInstancia

\* An Instance is asked, or has answered, only for the ESI that has the turn.
LEMMA TurnoDeInstancia ==
  ASSUME UnTurno, start > 0 \/ atendido # Nadie
  PROVE  \E e \in Esis : Turno(e) /\ (\A f \in Esis \ {e} : Reposo(f)) /\ EnInstancia(e)
BY DEF UnTurno, EntreRondas, Turno, Antes, Durante, Despues, SinInstancia

\* Nobody asks host_scheduler for STATUS.
LEMMA NadiePideStatus ==
  ASSUME UnTurno
  PROVE  ~SimularStatus /\ ~PedirStatus /\ ~ResponderStatus
<1>1. pc_hs = "recv" /\ plan_coord # <<>> => Head(plan_coord).id # 33
  BY DEF UnTurno, EntreRondas, Turno, Antes, Durante, EnInstancia, Despues, SinPregunta, Consultada,
     Respondida, Cerrada, AvisoDeAborto, Abortada, Uno
<1>2. pc_hs # "status"
  BY DEF UnTurno, EntreRondas, Turno, Antes, Durante, EnInstancia, Despues, SinPregunta, Consultada,
     Respondida, Cerrada, AvisoDeAborto, Abortada
<1> QED BY <1>1, <1>2 DEF SimularStatus, PedirStatus, ResponderStatus, Llega

\* e goes on with its turn and nobody else moves.
LEMMA TurnoSigue ==
  ASSUME UnTurno, NEW e \in Esis, Turno(e), \A g \in Esis \ {e} : Reposo(g),
         \A g \in Esis \ {e} : MismosCanales(g),
         algorithm' = algorithm, algorithm # "SJFCD" => un_esi' = un_esi, pc_con' = pc_con,
         (Antes(e) \/ Durante(e) \/ EnInstancia(e) \/ Despues(e))'
  PROVE  UnTurno'
<1>1. \A g \in Esis \ {e} : Reposo(g)'
  BY MismoReposo
<1>2. Turno(e)'
  BY DEF Turno
<1> QED BY <1>1, <1>2 DEF UnTurno, SinStatus

-----------------------------------------------------------------------------
(* The steps of an ESI.                                                    *)

\* A valid line of a script names an operation and a key.
LEMMA LineaDeGuion ==
  ASSUME TypeOKEsi, NEW e \in Esis, NEW n, n \in DOMAIN guion[e], guion[e][n].op # "INVALIDA"
  PROVE  guion[e][n].op \in {"GET", "SET", "STORE"} /\ guion[e][n].clave \in Claves
<1>1. guion[e] \in Seq(Linea)
  BY RedAssumption DEF TypeOKEsi
<1>2. guion[e][n] \in Linea
  BY <1>1
<1> QED BY <1>2 DEF Linea, Operaciones

\* What a step of f leaves alone.
LEMMA EsiAjeno ==
  ASSUME TypeOK, NEW f \in Esis, EsiActua(f)
  PROVE  /\ \A g \in Esis \ {f} : MismosCanales(g) /\ MismoPedido(g)
         /\ MismaRonda <=> SinStatus
         /\ UNCHANGED <<varsPlan, varsCoord>> /\ plan_coord' = plan_coord
         /\ coord_plan' = coord_plan /\ guion' = guion
<1>1. UNCHANGED <<varsPlan, varsCoord>> /\ PasoEsi(f)
  BY DEF EsiActua
<1>2. plan_coord' = plan_coord /\ coord_plan' = coord_plan /\ guion' = guion
  BY <1>1 DEF PasoEsi, ConectarPlanificador, ConectarCoordinador, EjecutarLinea, OperacionHecha,
              OperacionBloqueada, Abortar
<1>3. \A g \in Esis \ {f} :
        /\ plan_esi'[g] = plan_esi[g] /\ pc_esi'[g] = pc_esi[g] /\ esi_plan'[g] = esi_plan[g]
        /\ esi_coord'[g] = esi_coord[g] /\ coord_esi'[g] = coord_esi[g] /\ linea'[g] = linea[g]
  BY <1>1 DEF PasoEsi, ConectarPlanificador, ConectarCoordinador, EjecutarLinea, OperacionHecha,
              OperacionBloqueada, Abortar, Salir, TypeOK, TypeOKRed, TypeOKEsi
<1>4. UNCHANGED <<pc_he, funcion, message, operation>>
  BY <1>1 DEF varsCoord, hilosEsi
<1>5. MismaRonda <=> SinStatus
  BY <1>1, <1>2 DEF MismaRonda, SinStatus, varsPlan, varsCoord, semaforos, consola, semaforosCoord
<1> QED BY <1>1, <1>2, <1>3, <1>4, <1>5 DEF MismosCanales, MismoPedido

LEMMA EsiTurno ==
  ASSUME TypeOK, UnTurno, NEW f \in Esis, EsiActua(f)
  PROVE  UnTurno'
<1>1. /\ \A g \in Esis \ {f} : MismosCanales(g) /\ MismoPedido(g)
      /\ UNCHANGED <<varsPlan, varsCoord>> /\ plan_coord' = plan_coord
      /\ coord_plan' = coord_plan /\ guion' = guion
  BY EsiAjeno
<1>2. MismaRonda
  BY EsiAjeno DEF UnTurno
<1>3. \A g \in Esis \ {f} : MismaSituacion(g)
  BY <1>1, MismaSituacionSi
<1>4. PasoEsi(f)
  BY DEF EsiActua
<1>5. /\ esi_plan[f] \in Canal /\ plan_esi[f] \in Canal
      /\ esi_coord[f] \in Canal /\ coord_esi[f] \in Canal
  BY CanalTipo DEF TypeOK
<1>6. /\ DOMAIN esi_plan = Esis /\ DOMAIN plan_esi = Esis /\ DOMAIN esi_coord = Esis
      /\ DOMAIN coord_esi = Esis /\ DOMAIN pc_esi = Esis /\ DOMAIN linea = Esis
  BY DEF TypeOK, TypeOKRed, TypeOKEsi
<1>7. UNCHANGED <<pc_he, funcion, message, operation, esi_respuesta, algorithm, un_esi, pc_con>>
  BY <1>1 DEF varsCoord, hilosEsi, varsPlan, semaforos, consola
\* The rest of the round is where it was.
<1>8. /\ SinPregunta => SinPregunta'
      /\ Cerrada => Cerrada'
      /\ AvisoDeAborto => AvisoDeAborto'
      /\ SinInstancia => SinInstancia'
      /\ \A a, b : Posts(a, b) => Posts(a, b)'
  BY <1>2 DEF MismaRonda, SinPregunta, Cerrada, AvisoDeAborto, Abortada, SinInstancia, Posts, Uno
<1>9. CASE ConectarPlanificador(f)
  <2>1. /\ pc_esi[f] = "inicio" /\ pc_esi'[f] = "conectar"
        /\ esi_plan'[f] = Cabecera(esi_plan[f], 20)
        /\ UNCHANGED <<plan_esi, esi_coord, coord_esi, linea>>
    BY <1>6, <1>9 DEF ConectarPlanificador
  <2>2. Sin(esi_plan[f], Respuestas) => Sin(esi_plan'[f], Respuestas)
    BY <1>5, <2>1, CanalCabecera DEF Respuestas
  <2>3. MismaSituacion(f)
    BY <1>1, <1>7, <2>1, <2>2 DEF MismaSituacion, Reposo, Mandada, Leida, EnHost, Contestada,
       Informada, Callado, SinMensajes
  <2> QED BY <1>2, <1>3, <2>3, TurnoMarco
<1>10. CASE ConectarCoordinador(f)
  <2>1. /\ pc_esi[f] = "conectar" /\ pc_esi'[f] = "listo"
        /\ esi_coord'[f] = Cabecera(esi_coord[f], 20)
        /\ UNCHANGED <<plan_esi, esi_plan, coord_esi, linea>>
    BY <1>6, <1>10 DEF ConectarCoordinador
  <2>2. Sin(esi_coord[f], Pedidos) => Sin(esi_coord'[f], Pedidos)
    BY <1>5, <2>1, CanalCabecera DEF Pedidos
  <2>3. MismaSituacion(f)
    BY <1>1, <1>7, <2>1, <2>2 DEF MismaSituacion, Reposo, Mandada, Leida, EnHost, Contestada,
       Informada, Callado, SinMensajes
  <2> QED BY <1>2, <1>3, <2>3, TurnoMarco
<1>11. CASE EjecutarLinea(f)
  <2>1. /\ pc_esi[f] = "listo" /\ pc_esi'[f] = "espera"
        /\ plan_esi[f] # <<>> /\ plan_esi'[f] = Tail(plan_esi[f])
        /\ UNCHANGED <<esi_plan, coord_esi>>
        /\ esi_coord'[f] = IF LineaValida(f, linea'[f])
                           THEN Con(esi_coord[f], IdDe(guion[f][linea'[f]].op), guion[f][linea'[f]].clave)
                           ELSE Cabecera(esi_coord[f], 25)
    BY <1>6, <1>11 DEF EjecutarLinea, Llega
  <2>2. Turno(f) /\ \A g \in Esis \ {f} : Reposo(g)
    BY <2>1, TurnoDe DEF Reposo
  <2>3. Antes(f) /\ Mandada(f)
    BY <2>1, <2>2 DEF Turno, Antes, Durante, EnInstancia, Despues, Leida, EnHost, Contestada,
       Informada, Reposo
  <2>4. Termina(esi_coord'[f], Pedidos) /\ Ultimo(esi_coord'[f]) = Pedido(f)'
    <3>1. Sin(esi_coord[f], Pedidos)
      BY <2>3 DEF Mandada, SinMensajes
    <3>2. CASE LineaValida(f, linea'[f])
      <4>1. IdDe(guion[f][linea'[f]].op) \in {21, 22, 23} /\ guion[f][linea'[f]].clave \in Claves
        BY <3>2, LineaDeGuion, IdDeTipo DEF TypeOK, LineaValida
      <4>2. Pedido(f)' = [id |-> IdDe(guion[f][linea'[f]].op), clave |-> guion[f][linea'[f]].clave]
        BY <1>1, <3>2 DEF Pedido, LineaValida
      <4>3. esi_coord'[f] =
              Con(esi_coord[f], IdDe(guion[f][linea'[f]].op), guion[f][linea'[f]].clave)
        BY <2>1, <3>2
      <4>4. IdDe(guion[f][linea'[f]].op) \in Nat /\ IdDe(guion[f][linea'[f]].op) \in Pedidos
        BY <4>1 DEF Pedidos
      <4> QED BY <1>5, <3>1, <4>1, <4>2, <4>3, <4>4, CanalCon
    <3>3. CASE ~LineaValida(f, linea'[f])
      <4>1. Pedido(f)' = [id |-> 25, clave |-> SinClave]
        BY <1>1, <3>3 DEF Pedido, LineaValida
      <4> QED BY <1>5, <2>1, <3>1, <3>3, <4>1, CanalCabecera DEF Pedidos
    <3> QED BY <3>2, <3>3
  <2>5. Leida(f)'
    BY <1>7, <2>1, <2>3, <2>4 DEF Mandada, Leida, Uno, Callado, SinMensajes
  <2>6. Antes(f)'
    BY <1>7, <1>8, <2>3, <2>5 DEF Antes
  <2> QED BY <1>1, <1>7, <2>2, <2>6, TurnoSigue
\* The three that take the answer of host_esi.
<1>12. ASSUME pc_esi[f] = "espera", coord_esi[f] # <<>>, coord_esi'[f] = Tail(coord_esi[f]),
              pc_esi'[f] \in {"listo", "fin"}, plan_esi' = plan_esi,
              NEW id \in Respuestas, esi_plan'[f] = Cabecera(esi_plan[f], id),
              esi_coord'[f] \in {esi_coord[f], Cabecera(esi_coord[f], Cierre)}
       PROVE  UnTurno'
  <2>1. Turno(f) /\ \A g \in Esis \ {f} : Reposo(g)
    BY <1>12, TurnoDe DEF Reposo
  <2>2. Despues(f) /\ Contestada(f)
    BY <1>12, <2>1 DEF Turno, Antes, Durante, EnInstancia, Despues, Mandada, Leida, EnHost,
       Informada, Reposo, SinMensajes
  <2>3. Sin(esi_coord[f], Pedidos) /\ Sin(esi_plan[f], Respuestas) /\ coord_esi'[f] = <<>>
    BY <1>12, <2>2 DEF Contestada, Uno
  <2>4. Sin(esi_coord'[f], Pedidos)
    BY <1>5, <1>12, <2>3, CanalCabecera DEF Pedidos, Cierre
  <2>5. Termina(esi_plan'[f], Respuestas)
    BY <1>5, <1>12, <2>3, CanalCabecera DEF Respuestas
  <2>6. Informada(f)'
    BY <1>7, <1>12, <2>2, <2>3, <2>4, <2>5 DEF Contestada, Informada, Callado
  <2>7. esi_respuesta = 0
    BY <1>12, <2>2 DEF Despues, Reposo
  <2>8. Despues(f)'
    BY <1>7, <1>8, <2>2, <2>6, <2>7 DEF Despues
  <2> QED BY <1>1, <1>7, <2>1, <2>8, TurnoSigue
<1>13. CASE OperacionHecha(f)
  BY <1>6, <1>12, <1>13 DEF OperacionHecha, Salir, Llega, Respuestas
<1>14. CASE OperacionBloqueada(f)
  BY <1>6, <1>12, <1>14 DEF OperacionBloqueada, Llega, Respuestas
<1>15. CASE Abortar(f)
  BY <1>6, <1>12, <1>15 DEF Abortar, Salir, Respuestas
<1> QED BY <1>4, <1>9, <1>10, <1>11, <1>13, <1>14, <1>15 DEF PasoEsi

-----------------------------------------------------------------------------
(* The steps of host_esi.                                                  *)

LEMMA FuncionDeLinea ==
  /\ \A op \in {"GET", "SET", "STORE"} : FuncionDe(IdDe(op)) = op
  /\ \A op \in {"GET", "SET", "STORE"} : PreguntaDe(op) \in {31, 32, 33}
BY DEF FuncionDe, IdDe, PreguntaDe

LEMMA HostEsiAjeno ==
  ASSUME TypeOK, NEW f \in Esis, CoordActua(PasoHostEsi(f))
  PROVE  /\ \A g \in Esis \ {f} : MismosCanales(g) /\ funcion'[g] = funcion[g]
         /\ UNCHANGED <<varsEsi, varsPlan>>
         /\ UNCHANGED <<plan_esi, esi_plan, plan_coord, coord_plan, pc_hs, atendido>>
<1>1. UNCHANGED <<varsEsi, varsPlan>> /\ PasoHostEsi(f)
  BY DEF CoordActua
<1>2. /\ UNCHANGED <<plan_esi, esi_plan, plan_coord, coord_plan, pc_hs, atendido>>
      /\ \A g \in Esis \ {f} :
           /\ esi_coord'[g] = esi_coord[g] /\ coord_esi'[g] = coord_esi[g]
           /\ pc_he'[g] = pc_he[g] /\ funcion'[g] = funcion[g]
  <2>1. \/ esi_coord' = [esi_coord EXCEPT ![f] = Tail(@)]
        \/ UNCHANGED esi_coord
    BY <1>1 DEF PasoHostEsi, HostEsi, RecibirOperacion, PublicarOperacion, AbortarClaveNoPedida,
                AbortarLineaInvalida, OperacionRechazada, PedirInstancia, InstanciaCaida,
                ConfirmarOperacion, DesconectarEsi, varsRed
  <2>2. \/ \E id : coord_esi' = [coord_esi EXCEPT ![f] = Cabecera(@, id)]
        \/ UNCHANGED coord_esi
    BY <1>1 DEF PasoHostEsi, HostEsi, RecibirOperacion, PublicarOperacion, AbortarClaveNoPedida,
                AbortarLineaInvalida, OperacionRechazada, PedirInstancia, InstanciaCaida,
                ConfirmarOperacion, DesconectarEsi, varsRed
  <2>3. \/ \E pc : pc_he' = [pc_he EXCEPT ![f] = pc]
        \/ UNCHANGED pc_he
    BY <1>1 DEF PasoHostEsi, HostEsi, RecibirOperacion, PublicarOperacion, AbortarClaveNoPedida,
                AbortarLineaInvalida, OperacionRechazada, PedirInstancia, InstanciaCaida,
                ConfirmarOperacion, DesconectarEsi, hilosEsi
  <2>4. \/ \E op : funcion' = [funcion EXCEPT ![f] = op]
        \/ UNCHANGED funcion
    BY <1>1 DEF PasoHostEsi, HostEsi, RecibirOperacion, PublicarOperacion, AbortarClaveNoPedida,
                AbortarLineaInvalida, OperacionRechazada, PedirInstancia, InstanciaCaida,
                ConfirmarOperacion, DesconectarEsi, hilosEsi
  <2>5. UNCHANGED <<plan_esi, esi_plan, plan_coord, coord_plan, pc_hs, atendido>>
    BY <1>1 DEF PasoHostEsi, HostEsi, RecibirOperacion, PublicarOperacion, AbortarClaveNoPedida,
                AbortarLineaInvalida, OperacionRechazada, PedirInstancia, InstanciaCaida,
                ConfirmarOperacion, DesconectarEsi, varsRed
  <2> QED BY <2>1, <2>2, <2>3, <2>4, <2>5 DEF TypeOK, TypeOKRed, TypeOKCoord
<1>3. UNCHANGED pc_esi
  BY <1>1 DEF varsEsi
<1> QED BY <1>1, <1>2, <1>3 DEF MismosCanales

LEMMA HostEsiTurno ==
  ASSUME TypeOK, UnTurno, NEW f \in Esis, CoordActua(PasoHostEsi(f))
  PROVE  UnTurno'
<1>1. /\ \A g \in Esis \ {f} : MismosCanales(g) /\ funcion'[g] = funcion[g]
      /\ UNCHANGED <<varsEsi, varsPlan>>
      /\ UNCHANGED <<plan_esi, esi_plan, plan_coord, coord_plan, pc_hs, atendido>>
  BY HostEsiAjeno
<1>2. UNCHANGED <<guion, pc_esi, linea, algorithm, un_esi, pc_plan, pc_con, esi_respuesta>>
  BY <1>1 DEF varsEsi, varsPlan, semaforos, consola
<1>3. PasoHostEsi(f)
  BY DEF CoordActua
<1>4. esi_coord[f] \in Canal /\ coord_esi[f] \in Canal
  BY CanalTipo DEF TypeOK
<1>5. /\ DOMAIN esi_coord = Esis /\ DOMAIN coord_esi = Esis /\ DOMAIN pc_he = Esis
      /\ DOMAIN funcion = Esis /\ funcion[f] \in {"GET", "SET", "STORE"}
  BY DEF TypeOK, TypeOKRed, TypeOKCoord
\* A message that is no request leaves the channel.
<1>6. ASSUME esi_coord[f] # <<>>, Head(esi_coord[f]).id \notin Pedidos,
             esi_coord'[f] = Tail(esi_coord[f]), coord_esi' = coord_esi,
             pc_he[f] \in {"inicio", "recv"}, pc_he'[f] \in {"recv", "fin"},
             UNCHANGED <<funcion, message, operation, esi_operation, scheduler_response,
                         result_instance, start>>
      PROVE  UnTurno'
  <2>1. /\ Sin(esi_coord[f], Pedidos) => Sin(esi_coord'[f], Pedidos)
        /\ Termina(esi_coord[f], Pedidos) =>
             Termina(esi_coord'[f], Pedidos) /\ Ultimo(esi_coord'[f]) = Ultimo(esi_coord[f])
    BY <1>4, <1>6, CanalResto
  <2>2. Pedido(f)' = Pedido(f)
    BY <1>2 DEF Pedido, LineaValida
  <2>3. MismaSituacion(f)
    BY <1>1, <1>2, <1>6, <2>1, <2>2 DEF MismaSituacion, Reposo, Mandada, Leida, EnHost, Contestada,
       Informada, Callado, SinMensajes
  <2>4. \A g \in Esis \ {f} : MismaSituacion(g)
    BY <1>1, <1>2, <1>6, MismaSituacionSi DEF MismoPedido
  <2>5. MismaRonda
    BY <1>1, <1>2, <1>6 DEF MismaRonda, UnTurno, SinStatus
  <2> QED BY <2>3, <2>4, <2>5, TurnoMarco
<1>7. CASE HostEsi(f)
  BY <1>5, <1>6, <1>7 DEF HostEsi, Llega, Pedidos, hilosEsi
<1>8. CASE DesconectarEsi(f)
  BY <1>5, <1>6, <1>8 DEF DesconectarEsi, Llega, Pedidos, Cierre, semaforosCoord
\* A request is taken from the channel.
<1>9. ASSUME pc_he[f] = "recv", esi_coord[f] # <<>>, Head(esi_coord[f]).id \in Pedidos,
             esi_coord'[f] = Tail(esi_coord[f])
      PROVE  /\ Turno(f) /\ (\A g \in Esis \ {f} : Reposo(g)) /\ Antes(f) /\ Leida(f)
             /\ Sin(esi_coord'[f], Pedidos) /\ Head(esi_coord[f]) = Pedido(f)
  <2>1. ~Sin(esi_coord[f], Pedidos)
    BY <1>4, <1>9, CanalResto
  <2>2. Turno(f) /\ \A g \in Esis \ {f} : Reposo(g)
    BY <2>1, TurnoDe DEF Reposo, SinMensajes
  <2>3. Antes(f) /\ Leida(f)
    BY <1>9, <2>1, <2>2 DEF Turno, Antes, Durante, EnInstancia, Despues, Mandada, EnHost, Contestada,
       Informada, Reposo, SinMensajes
  <2>4. Termina(esi_coord[f], Pedidos) /\ Ultimo(esi_coord[f]) = Pedido(f)
    BY <2>3 DEF Leida
  <2> QED BY <1>4, <1>9, <2>2, <2>3, <2>4, CanalResto
\* The operation that f has under way.
<1>10. ASSUME pc_he[f] \in {"preparada", "planificador", "instancia"}
       PROVE  /\ Turno(f) /\ (\A g \in Esis \ {f} : Reposo(g))
              /\ EnHost(f, pc_he[f])
              /\ pc_he[f] = "preparada" => Antes(f)
              /\ pc_he[f] = "planificador" => Durante(f)
              /\ pc_he[f] = "instancia" => EnInstancia(f)
  BY <1>10, TurnoDeHost
<1>11. CASE RecibirOperacion(f)
  <2>1. /\ pc_he[f] = "recv" /\ esi_coord[f] # <<>> /\ Head(esi_coord[f]).id \in {21, 22, 23}
        /\ esi_coord'[f] = Tail(esi_coord[f]) /\ coord_esi' = coord_esi
        /\ message' = Head(esi_coord[f]).clave /\ funcion'[f] = FuncionDe(Head(esi_coord[f]).id)
        /\ pc_he'[f] = "preparada"
        /\ UNCHANGED <<esi_operation, scheduler_response, result_instance, start>>
    BY <1>5, <1>11 DEF RecibirOperacion, Llega, semaforosCoord
  <2>2. /\ Turno(f) /\ (\A g \in Esis \ {f} : Reposo(g)) /\ Antes(f) /\ Leida(f)
        /\ Sin(esi_coord'[f], Pedidos) /\ Head(esi_coord[f]) = Pedido(f)
    BY <1>9, <2>1 DEF Pedidos
  <2>3. LineaValida(f, linea[f])
    BY <2>1, <2>2 DEF Pedido
  <2>4. guion[f][linea[f]].op \in {"GET", "SET", "STORE"}
    BY <2>3, LineaDeGuion DEF TypeOK, LineaValida
  <2>5. funcion'[f] = guion[f][linea[f]].op /\ message' = guion[f][linea[f]].clave
    BY <2>1, <2>2, <2>3, <2>4, FuncionDeLinea DEF Pedido
  <2>6. EnHost(f, "preparada")'
    BY <1>1, <1>2, <2>1, <2>2, <2>3, <2>5 DEF Leida, EnHost, EnPedido, LineaValida, SinMensajes
  <2>7. Antes(f)'
    BY <1>1, <1>2, <2>1, <2>2, <2>6 DEF Antes, SinPregunta, Posts, SinInstancia, Uno
  <2> QED BY <1>1, <1>2, <2>2, <2>7, TurnoSigue
<1>12. CASE PublicarOperacion(f)
  <2>1. /\ pc_he[f] = "preparada" /\ pc_he'[f] = "planificador" /\ operation' = funcion[f]
        /\ esi_operation' = esi_operation + 1
        /\ UNCHANGED <<message, scheduler_response, result_instance, start, funcion, esi_coord, coord_esi>>
    BY <1>5, <1>12 DEF PublicarOperacion, varsRed
  <2>2. Turno(f) /\ (\A g \in Esis \ {f} : Reposo(g)) /\ EnHost(f, "preparada") /\ Antes(f)
    BY <1>10, <2>1
  <2>3. EnHost(f, "planificador")'
    BY <1>1, <1>2, <2>1, <2>2 DEF EnHost, EnPedido, LineaValida, SinMensajes, Sin
  <2>4. Durante(f)'
    BY <1>1, <1>2, <2>1, <2>2, <2>3 DEF Antes, Durante, SinPregunta, Posts, SinInstancia, Uno
  <2> QED BY <1>1, <1>2, <2>2, <2>4, TurnoSigue
\* f is answered, and an abort is published.
<1>13. ASSUME Turno(f), \A g \in Esis \ {f} : Reposo(g), Antes(f),
              plan_esi[f] = <<>>, pc_esi[f] = "espera", coord_esi[f] = <<>>,
              Sin(esi_coord'[f], Pedidos), Sin(esi_plan[f], Respuestas),
              coord_esi'[f] = Cabecera(coord_esi[f], 24), pc_he'[f] = "recv",
              operation' = "ABORT", esi_operation' = esi_operation + 1,
              UNCHANGED <<scheduler_response, result_instance, start>>
       PROVE  UnTurno'
  <2>1. Uno(coord_esi'[f], {22, 23, 24})
    BY <1>4, <1>13, CanalCabecera
  <2>2. Contestada(f)'
    BY <1>1, <1>2, <1>13, <2>1 DEF Contestada, Callado, Sin
  <2>3. Despues(f)'
    BY <1>1, <1>2, <1>13, <2>2 DEF Antes, Despues, AvisoDeAborto, SinPregunta, Posts, SinInstancia, Uno
  <2> QED BY <1>1, <1>2, <1>13, <2>3, TurnoSigue
<1>14. CASE AbortarClaveNoPedida(f)
  <2>1. /\ pc_he[f] = "preparada" /\ pc_he'[f] = "recv" /\ operation' = "ABORT"
        /\ esi_operation' = esi_operation + 1 /\ coord_esi'[f] = Cabecera(coord_esi[f], 24)
        /\ UNCHANGED <<scheduler_response, result_instance, start, esi_coord>>
    BY <1>5, <1>14 DEF AbortarClaveNoPedida
  <2>2. Turno(f) /\ (\A g \in Esis \ {f} : Reposo(g)) /\ EnHost(f, "preparada") /\ Antes(f)
    BY <1>10, <2>1
  <2> QED BY <1>13, <2>1, <2>2 DEF EnHost, SinMensajes, Sin
<1>15. CASE AbortarLineaInvalida(f)
  <2>1. /\ pc_he[f] = "recv" /\ esi_coord[f] # <<>> /\ Head(esi_coord[f]).id \in {25}
        /\ esi_coord'[f] = Tail(esi_coord[f]) /\ coord_esi'[f] = Cabecera(coord_esi[f], 24)
        /\ pc_he' = pc_he /\ operation' = "ABORT" /\ esi_operation' = esi_operation + 1
        /\ UNCHANGED <<scheduler_response, result_instance, start>>
    BY <1>5, <1>15 DEF AbortarLineaInvalida, Llega, hilosEsi
  <2>2. /\ Turno(f) /\ (\A g \in Esis \ {f} : Reposo(g)) /\ Antes(f) /\ Leida(f)
        /\ Sin(esi_coord'[f], Pedidos)
    BY <1>9, <2>1 DEF Pedidos
  <2> QED BY <1>13, <2>1, <2>2 DEF Leida
\* The Planificador has answered.
<1>16. ASSUME pc_he[f] = "planificador", scheduler_response > 0
       PROVE  /\ Turno(f) /\ (\A g \in Esis \ {f} : Reposo(g)) /\ EnHost(f, "planificador")
              /\ Durante(f) /\ Cerrada /\ Posts(0, 1)
  <2>1. Turno(f) /\ (\A g \in Esis \ {f} : Reposo(g)) /\ EnHost(f, "planificador") /\ Durante(f)
    BY <1>10, <1>16
  <2> QED BY <1>16, <2>1 DEF Durante, Posts
\* f is answered after that, or after its Instance has.
<1>17. ASSUME Turno(f), \A g \in Esis \ {f} : Reposo(g), NEW pc, EnHost(f, pc), Cerrada,
              esi_respuesta = 0, Posts(0, 0)', SinInstancia',
              NEW id \in {22, 23, 24}, coord_esi'[f] = Cabecera(coord_esi[f], id),
              pc_he'[f] = "recv", UNCHANGED <<esi_coord>>
       PROVE  UnTurno'
  <2>1. Uno(coord_esi'[f], {22, 23, 24})
    BY <1>4, <1>17, CanalCabecera DEF EnHost, SinMensajes
  <2>2. Contestada(f)'
    BY <1>1, <1>2, <1>17, <2>1 DEF EnHost, SinMensajes, Contestada, Callado, Sin
  <2>3. Cerrada'
    BY <1>1, <1>2, <1>17 DEF Cerrada
  <2>4. Despues(f)'
    BY <1>2, <1>17, <2>2, <2>3 DEF Despues
  <2> QED BY <1>1, <1>2, <1>17, <2>4, TurnoSigue
<1>18. CASE OperacionRechazada(f) \/ InstanciaCaida(f)
  <2>1. /\ pc_he[f] = "planificador" /\ scheduler_response > 0 /\ pc_he'[f] = "recv"
        /\ scheduler_response' = scheduler_response - 1
        /\ \E id \in {22, 23, 24} : coord_esi'[f] = Cabecera(coord_esi[f], id)
        /\ UNCHANGED <<esi_operation, result_instance, start, esi_coord>>
    BY <1>5, <1>18 DEF OperacionRechazada, InstanciaCaida
  <2>2. /\ Turno(f) /\ (\A g \in Esis \ {f} : Reposo(g)) /\ EnHost(f, "planificador")
        /\ Durante(f) /\ Cerrada /\ Posts(0, 1)
    BY <1>16, <2>1
  <2>3. esi_respuesta = 0 /\ Posts(0, 0)' /\ SinInstancia'
    BY <1>1, <2>1, <2>2 DEF Durante, Posts, SinInstancia
  <2> QED BY <1>17, <2>1, <2>2, <2>3
<1>19. CASE PedirInstancia(f)
  <2>1. /\ pc_he[f] = "planificador" /\ scheduler_response > 0 /\ pc_he'[f] = "instancia"
        /\ scheduler_response' = scheduler_response - 1 /\ start' = start + 1
        /\ UNCHANGED <<message, operation, funcion, esi_operation, result_instance, esi_coord, coord_esi>>
    BY <1>5, <1>19 DEF PedirInstancia, varsRed
  <2>2. /\ Turno(f) /\ (\A g \in Esis \ {f} : Reposo(g)) /\ EnHost(f, "planificador")
        /\ Durante(f) /\ Cerrada /\ Posts(0, 1)
    BY <1>16, <2>1
  <2>3. EnHost(f, "instancia")'
    BY <1>1, <1>2, <2>1, <2>2 DEF EnHost, EnPedido, LineaValida, SinMensajes, Sin
  <2>4. EnInstancia(f)'
    BY <1>1, <1>2, <2>1, <2>2, <2>3 DEF Durante, EnInstancia, Cerrada, Posts, SinInstancia, UnaInstancia
  <2> QED BY <1>1, <1>2, <2>2, <2>4, TurnoSigue
<1>20. CASE ConfirmarOperacion(f)
  <2>1. /\ pc_he[f] = "instancia" /\ result_instance > 0 /\ pc_he'[f] = "recv"
        /\ result_instance' = result_instance - 1 /\ coord_esi'[f] = Cabecera(coord_esi[f], 23)
        /\ UNCHANGED <<esi_operation, scheduler_response, start, esi_coord>>
    BY <1>5, <1>20 DEF ConfirmarOperacion
  <2>2. Turno(f) /\ (\A g \in Esis \ {f} : Reposo(g)) /\ EnInstancia(f)
    BY <1>10, <2>1
  <2>3. /\ EnHost(f, "instancia") /\ Cerrada /\ esi_respuesta = 0 /\ Posts(0, 0)'
        /\ SinInstancia'
    BY <1>1, <2>1, <2>2 DEF EnInstancia, UnaInstancia, SinInstancia, Posts
  <2> QED BY <1>17, <2>1, <2>2, <2>3
<1> QED BY <1>3, <1>7, <1>8, <1>11, <1>12, <1>14, <1>15, <1>18, <1>19, <1>20 DEF PasoHostEsi

-----------------------------------------------------------------------------
(* The steps of host_scheduler and host_instance.                          *)

LEMMA MismoSi ==
  ASSUME UNCHANGED <<varsEsi, plan_esi, esi_plan, esi_coord, coord_esi, pc_he, funcion, message,
                     operation>>
  PROVE  \A g \in Esis : MismosCanales(g) /\ MismoPedido(g) /\ MismaSituacion(g)
<1>1. \A g \in Esis : MismosCanales(g) /\ MismoPedido(g)
  BY DEF MismosCanales, MismoPedido, varsEsi
<1> QED BY <1>1, MismaSituacionSi

LEMMA HostSchedulerTurno ==
  ASSUME TypeOK, UnTurno, CoordActua(PasoHostScheduler)
  PROVE  UnTurno'
<1>1. UNCHANGED <<varsEsi, varsPlan>> /\ PasoHostScheduler
  BY DEF CoordActua
<1>2. UNCHANGED <<algorithm, un_esi, pc_plan, pc_con, esi_respuesta>>
  BY <1>1 DEF varsPlan, semaforos, consola
<1>3. plan_coord \in Canal /\ coord_plan \in Canal
  BY CanalTipo DEF TypeOK
\* Without STATUS neither the globals nor the ESIs' sockets change.
<1>4. ASSUME UNCHANGED <<plan_esi, esi_plan, esi_coord, coord_esi, hilosEsi, message, operation,
                         start, result_instance, atendido>>
      PROVE  /\ \A g \in Esis : MismosCanales(g) /\ MismaSituacion(g)
             /\ UNCHANGED <<plan_esi, esi_plan, esi_coord, coord_esi, funcion, message, operation,
                            start, result_instance, atendido>>
             /\ SinInstancia => SinInstancia'
  BY <1>1, <1>4, MismoSi DEF hilosEsi, SinInstancia
\* The start-up: 35 is sent once.
<1>5. CASE EsperarEsi \/ AvisarInicio
  <2>1. /\ pc_hs \in {"una_esi", "una_instancia"}
        /\ \/ pc_hs' = "una_instancia" /\ coord_plan' = coord_plan
           \/ pc_hs' = "recv" /\ coord_plan' = Cabecera(coord_plan, 35)
        /\ UNCHANGED <<plan_esi, esi_plan, esi_coord, coord_esi, plan_coord, hilosEsi, message,
                       operation, start, result_instance, atendido, esi_operation,
                       scheduler_response>>
    BY <1>5 DEF EsperarEsi, AvisarInicio, varsRed, semaforosCoord
  <2>2. EntreRondas /\ \A e \in Esis : Reposo(e)
    BY <2>1 DEF UnTurno, Turno, Antes, Durante, EnInstancia, Despues, SinPregunta, Consultada,
       Respondida, Cerrada, AvisoDeAborto, Abortada
  <2>3. coord_plan = <<>> /\ pc_plan \in AntesDePrimero
    BY <2>1, <2>2 DEF EntreRondas
  <2>5. EntreRondas'
    <3>1. \/ pc_hs' = "una_instancia" /\ coord_plan' = <<>>
          \/ pc_hs' = "recv" /\ Uno(coord_plan', {35})
      BY <1>3, <2>1, <2>3, CanalCabecera
    <3>2. SinInstancia' /\ Posts(0, 0)' /\ plan_coord' = <<>>
      BY <2>1, <2>2 DEF EntreRondas, SinInstancia, Posts
    <3> QED BY <1>2, <2>2, <2>3, <3>1, <3>2 DEF EntreRondas, AntesDePrimero, EnRonda, Contesto
  <2>6. \A e \in Esis : Reposo(e)'
    BY <1>4, <2>1, <2>2 DEF MismaSituacion
  <2> QED BY <1>2, <2>5, <2>6 DEF UnTurno, SinStatus
<1>6. CASE RecibirTurno
  <2>1. /\ pc_hs = "recv" /\ plan_coord # <<>> /\ plan_coord' = Tail(plan_coord)
        /\ pc_hs' = "operacion"
        /\ UNCHANGED <<plan_esi, esi_plan, esi_coord, coord_esi, coord_plan, hilosEsi, message,
                       operation, start, result_instance, atendido, esi_operation,
                       scheduler_response>>
    BY <1>6 DEF RecibirTurno, semaforosCoord
  <2>2. PICK e \in Esis : Turno(e) /\ \A f \in Esis \ {e} : Reposo(f)
    BY <2>1 DEF UnTurno, EntreRondas
  <2>3. /\ SinPregunta
        /\ \/ Antes(e)
           \/ Durante(e) /\ Posts(1, 0)
           \/ Despues(e) /\ Posts(1, 0) /\ operation = "ABORT"
    BY <2>1, <2>2 DEF Turno, Antes, Durante, EnInstancia, Despues, Consultada, Respondida, Cerrada,
       AvisoDeAborto, Abortada
  <2>4. SinPregunta'
    BY <1>2, <2>1, <2>3 DEF SinPregunta, Uno
  <2>5. (Antes(e) \/ Durante(e) \/ Despues(e))'
    BY <1>2, <1>4, <2>1, <2>3, <2>4 DEF Antes, Durante, Despues, AvisoDeAborto, Posts, MismaSituacion
  <2> QED BY <1>2, <1>4, <2>1, <2>2, <2>5, TurnoSigue
\* The operation of the ESI that has the turn was published.
<1>7. ASSUME pc_hs = "operacion", esi_operation > 0
      PROVE  \E e \in Esis :
               /\ Turno(e) /\ (\A f \in Esis \ {e} : Reposo(f)) /\ Posts(1, 0) /\ SinPregunta
               /\ \/ Durante(e) /\ EnHost(e, "planificador") /\ operation = funcion[e]
                  \/ Despues(e) /\ operation = "ABORT"
  <2>1. PICK e \in Esis : Turno(e) /\ \A f \in Esis \ {e} : Reposo(f)
    BY <1>7 DEF UnTurno, EntreRondas
  <2>2. Posts(1, 0) /\ SinPregunta /\ (Durante(e) \/ (Despues(e) /\ operation = "ABORT"))
    BY <1>7, <2>1 DEF Turno, Antes, Durante, EnInstancia, Despues, Consultada, Respondida, Cerrada,
       AvisoDeAborto, Abortada, Posts
  <2> QED BY <2>1, <2>2 DEF Durante, EnHost
<1>8. CASE ConsultarPlanificador
  <2>1. /\ pc_hs = "operacion" /\ esi_operation > 0 /\ operation \in {"GET", "SET", "STORE"}
        /\ esi_operation' = esi_operation - 1 /\ pc_hs' = "respuesta"
        /\ coord_plan' = Con(coord_plan, PreguntaDe(operation), message)
        /\ UNCHANGED <<plan_esi, esi_plan, esi_coord, coord_esi, plan_coord, hilosEsi, message,
                       operation, start, result_instance, atendido, scheduler_response>>
    BY <1>8 DEF ConsultarPlanificador, semaforosCoord
  <2>2. PICK e \in Esis :
          /\ Turno(e) /\ (\A f \in Esis \ {e} : Reposo(f)) /\ Posts(1, 0) /\ SinPregunta
          /\ Durante(e) /\ EnHost(e, "planificador") /\ operation = funcion[e]
    BY <1>7, <2>1
  <2>3. PreguntaDe(operation) \in Nat /\ message \in Claves \cup {SinClave}
    BY <2>1, FuncionDeLinea DEF TypeOK, TypeOKCoord
  <2>4. coord_plan = <<>> /\ plan_coord = <<>> /\ pc_plan = "pregunta"
    BY <2>1, <2>2 DEF SinPregunta
  <2>5. Uno(coord_plan', {PreguntaDe(operation)}) /\ Head(coord_plan').clave = message
    BY <1>3, <2>1, <2>3, <2>4, CanalCon
  <2>6. funcion' = funcion
    BY <2>1 DEF hilosEsi
  <2>7. Consultada(e)'
    BY <1>2, <2>1, <2>2, <2>4, <2>5, <2>6 DEF Consultada
  <2>8. Durante(e)'
    BY <1>2, <1>4, <2>1, <2>2, <2>7 DEF Durante, Posts, MismaSituacion
  <2> QED BY <1>2, <1>4, <2>1, <2>2, <2>8, TurnoSigue
<1>9. CASE AvisarAborto
  <2>1. /\ pc_hs = "operacion" /\ esi_operation > 0 /\ operation = "ABORT"
        /\ esi_operation' = esi_operation - 1 /\ pc_hs' = "recv"
        /\ coord_plan' = Cabecera(coord_plan, 34)
        /\ UNCHANGED <<plan_esi, esi_plan, esi_coord, coord_esi, plan_coord, hilosEsi, message,
                       operation, start, result_instance, atendido, scheduler_response>>
    BY <1>9 DEF AvisarAborto, semaforosCoord
  <2>2. \A e \in Esis : funcion[e] # "ABORT"
    BY DEF TypeOK, TypeOKCoord
  <2>3. PICK e \in Esis :
          /\ Turno(e) /\ (\A f \in Esis \ {e} : Reposo(f)) /\ Posts(1, 0) /\ SinPregunta
          /\ Despues(e)
    BY <1>7, <2>1, <2>2
  <2>4. coord_plan = <<>> /\ plan_coord = <<>> /\ pc_plan = "pregunta"
    BY <2>1, <2>3 DEF SinPregunta
  <2>5. Uno(coord_plan', {34})
    BY <1>3, <2>1, <2>4, CanalCabecera
  <2>6. Abortada' /\ Posts(0, 0)'
    BY <1>2, <2>1, <2>3, <2>4, <2>5 DEF Abortada, Posts
  <2>7. Despues(e)'
    BY <1>2, <1>4, <2>1, <2>3, <2>6 DEF Despues, AvisoDeAborto, MismaSituacion
  <2> QED BY <1>2, <1>4, <2>1, <2>3, <2>7, TurnoSigue
<1>10. CASE RecibirRespuestaPlan
  <2>1. /\ pc_hs = "respuesta" /\ plan_coord # <<>> /\ plan_coord' = Tail(plan_coord)
        /\ scheduler_response' = scheduler_response + 1 /\ pc_hs' = "recv"
        /\ UNCHANGED <<plan_esi, esi_plan, esi_coord, coord_esi, coord_plan, hilosEsi, message,
                       operation, start, result_instance, atendido, esi_operation>>
    BY <1>10 DEF RecibirRespuestaPlan, semaforosCoord
  <2>2. PICK e \in Esis : Turno(e) /\ \A f \in Esis \ {e} : Reposo(f)
    BY <2>1 DEF UnTurno, EntreRondas
  <2>3. Durante(e) /\ Respondida /\ Posts(0, 0)
    BY <2>1, <2>2 DEF Turno, Antes, Durante, EnInstancia, Despues, SinPregunta, Consultada, Cerrada,
       AvisoDeAborto, Abortada
  <2>4. Cerrada' /\ Posts(0, 1)'
    BY <1>2, <2>1, <2>3 DEF Respondida, Cerrada, Uno, Posts
  <2>5. Durante(e)'
    BY <1>2, <1>4, <2>1, <2>3, <2>4 DEF Durante, MismaSituacion
  <2> QED BY <1>2, <1>4, <2>1, <2>2, <2>5, TurnoSigue
<1> QED BY <1>1, <1>5, <1>6, <1>8, <1>9, <1>10, NadiePideStatus DEF PasoHostScheduler

LEMMA HostInstanceTurno ==
  ASSUME TypeOK, UnTurno, CoordActua(PasoHostInstance)
  PROVE  UnTurno'
<1>1. UNCHANGED <<varsEsi, varsPlan>> /\ PasoHostInstance
  BY DEF CoordActua
<1>2. UNCHANGED <<algorithm, un_esi, pc_plan, pc_con, esi_respuesta>>
  BY <1>1 DEF varsPlan, semaforos, consola
<1>3. /\ UNCHANGED <<esi_plan, plan_esi, esi_coord, coord_esi, plan_coord, coord_plan, pc_hs,
                     pc_he, funcion, operation, esi_operation, scheduler_response>>
  BY <1>1 DEF PasoHostInstance, HostInstance, AtenderPedido, TerminarPedido, varsRed, hilosEsi
<1>4. ASSUME start > 0 \/ atendido # Nadie, message' = message, UnaInstancia'
      PROVE  UnTurno'
  <2>1. PICK e \in Esis : Turno(e) /\ (\A f \in Esis \ {e} : Reposo(f)) /\ EnInstancia(e)
    BY <1>4, TurnoDeInstancia
  <2>2. \A g \in Esis : MismosCanales(g) /\ MismaSituacion(g)
    BY <1>1, <1>3, <1>4, MismoSi
  <2>3. EnInstancia(e)'
    BY <1>2, <1>3, <1>4, <2>1, <2>2 DEF EnInstancia, MismaSituacion, Cerrada, Posts
  <2> QED BY <1>2, <2>1, <2>2, <2>3, TurnoSigue
<1>5. CASE HostInstance
  <2>1. \A g \in Esis : MismaSituacion(g)
    BY <1>1, <1>3, <1>5, MismoSi DEF HostInstance
  <2>2. MismaRonda
    BY <1>2, <1>3, <1>5 DEF MismaRonda, HostInstance, UnTurno, SinStatus
  <2> QED BY <2>1, <2>2, TurnoMarco
<1>6. CASE AtenderPedido
  <2>1. PICK e \in Esis : EnInstancia(e)
    BY <1>6, TurnoDeInstancia DEF AtenderPedido
  <2>2. start = 1 /\ result_instance = 0
    BY <1>6, <2>1 DEF AtenderPedido, EnInstancia, UnaInstancia
  <2> QED BY <1>4, <1>6, <2>2 DEF AtenderPedido, UnaInstancia
<1>7. CASE TerminarPedido
  <2>1. PICK e \in Esis : EnInstancia(e)
    BY <1>7, TurnoDeInstancia DEF TerminarPedido
  <2>2. start = 0 /\ atendido.op = funcion[e] /\ result_instance = 0
    BY <1>7, <2>1 DEF TerminarPedido, EnInstancia, UnaInstancia, EnHost
  <2>3. funcion[e] # "STATUS"
    BY DEF TypeOK, TypeOKCoord
  <2> QED BY <1>4, <1>7, <2>2, <2>3 DEF TerminarPedido, UnaInstancia
<1> QED BY <1>1, <1>5, <1>6, <1>7 DEF PasoHostInstance

-----------------------------------------------------------------------------
(* The steps of main.                                                      *)

\* main has a question: of whom, and which.
LEMMA TurnoDePregunta ==
  ASSUME TypeOK, UnTurno, pc_plan = "pregunta", coord_plan # <<>>
  PROVE  \E e \in Esis :
           /\ Turno(e) /\ (\A f \in Esis \ {e} : Reposo(f)) /\ Posts(0, 0)
           /\ \/ /\ Durante(e) /\ Consultada(e)
                 /\ Head(coord_plan).id = PreguntaDe(funcion[e])
              \/ Despues(e) /\ Abortada /\ Head(coord_plan).id = 34
           /\ PreguntaDe(funcion[e]) \in {31, 32, 33}
<1>1. PICK e \in Esis : Turno(e) /\ \A f \in Esis \ {e} : Reposo(f)
  BY DEF UnTurno, EntreRondas, EnRonda
<1>2. \/ Durante(e) /\ Consultada(e) /\ Posts(0, 0)
      \/ Despues(e) /\ Abortada /\ Posts(0, 0)
  BY <1>1 DEF Turno, Antes, Durante, EnInstancia, Despues, SinPregunta, Respondida, Cerrada,
     AvisoDeAborto, Contesto
<1>3. PreguntaDe(funcion[e]) \in {31, 32, 33}
  BY FuncionDeLinea DEF TypeOK, TypeOKCoord
<1> QED BY <1>1, <1>2, <1>3 DEF Consultada, Abortada, Uno

LEMMA MainTurno ==
  ASSUME IInv, UnTurno, PlanActua(PasoMain)
  PROVE  UnTurno'
<1>1. UNCHANGED <<varsEsi, varsCoord>> /\ PasoMain
  BY DEF PlanActua
<1>2. UNCHANGED <<pc_he, funcion, message, operation, pc_hs, atendido, esi_operation,
                  scheduler_response, result_instance, start>>
  BY <1>1 DEF varsCoord, hilosEsi, semaforosCoord
<1>3. UNCHANGED <<algorithm, pc_con, esi_plan, esi_coord, coord_esi>>
  BY <1>1 DEF PasoMain, EsperaInicial, WaitStart, TomarEsi, TomarDeListaVacia, Ciclo, Pausa, Ejecutar,
     Preguntas, ConcederClave, RechazarClave, LiberarClave, ConsultarSet, AvisoAborto,
     PreguntaInvalida, EncolarEsi, DesbloquearEspera, DesbloquearNadie, RecibirRespuesta, Terminar,
     LiberarUna, FinLiberacion, Esperar, Ordenar, consola, varsRed
<1>4. /\ \A e \in Esis : /\ esi_plan[e] \in Canal /\ plan_esi[e] \in Canal
                         /\ esi_coord[e] \in Canal /\ coord_esi[e] \in Canal
      /\ plan_coord \in Canal /\ coord_plan \in Canal
  BY CanalTipo DEF IInv, TypeOK
<1>5. plan_esi' = plan_esi => \A g \in Esis : MismosCanales(g) /\ MismaSituacion(g)
  BY <1>1, <1>2, <1>3, MismoSi
\* main takes the next ESI, or waits for one.
<1>6. ASSUME pc_plan \notin EnRonda \cup AntesDePrimero, pc_plan' \notin EnRonda \cup AntesDePrimero,
             UNCHANGED <<plan_esi, plan_coord, coord_plan, esi_respuesta>>
      PROVE  UnTurno'
  <2>1. EntreRondas /\ \A e \in Esis : Reposo(e)
    BY <1>6 DEF UnTurno, Turno, Antes, Durante, EnInstancia, Despues, SinPregunta, Consultada,
       Respondida, Cerrada, AvisoDeAborto, Abortada, EnRonda
  <2>2. EntreRondas'
    BY <1>2, <1>6, <2>1 DEF EntreRondas, Posts, SinInstancia
  <2>3. \A e \in Esis : Reposo(e)'
    BY <1>5, <1>6, <2>1 DEF MismaSituacion
  <2> QED BY <1>3, <2>2, <2>3 DEF UnTurno, SinStatus
<1>7. CASE \/ TomarEsi \/ TomarDeListaVacia \/ Ciclo \/ Pausa \/ Terminar \/ FinLiberacion
           \/ Esperar \/ Ordenar \/ \E k \in Claves : LiberarUna(k)
  BY <1>6, <1>7 DEF TomarEsi, TomarDeListaVacia, Ciclo, Pausa, Terminar, FinLiberacion, Esperar,
     Ordenar, LiberarUna, varsRed, semaforos, EnRonda, Contesto, AntesDePrimero
\* The start-up.
<1>8. CASE EsperaInicial \/ WaitStart
  <2>1. /\ pc_plan \in AntesDePrimero /\ UNCHANGED <<plan_esi, plan_coord, esi_respuesta>>
        /\ \/ pc_plan' = "wait_start" /\ coord_plan' = coord_plan
           \/ /\ pc_plan' = "primero" /\ coord_plan # <<>> /\ coord_plan' = Tail(coord_plan)
    BY <1>8 DEF EsperaInicial, WaitStart, varsRed, semaforos, AntesDePrimero
  <2>2. EntreRondas /\ \A e \in Esis : Reposo(e)
    BY <2>1 DEF UnTurno, Turno, Antes, Durante, EnInstancia, Despues, SinPregunta, Consultada,
       Respondida, Cerrada, AvisoDeAborto, Abortada, EnRonda, Contesto, AntesDePrimero
  <2>3. /\ plan_coord' = <<>> /\ Posts(0, 0)' /\ SinInstancia' /\ esi_respuesta' = 0
        /\ pc_plan' \notin EnRonda
    BY <1>2, <2>1, <2>2 DEF EntreRondas, Posts, SinInstancia, EnRonda, Contesto
  <2>4. CASE pc_plan' = "wait_start" /\ coord_plan' = coord_plan
    <3>1. EntreRondas'
      BY <1>2, <2>1, <2>2, <2>3, <2>4 DEF EntreRondas, AntesDePrimero, Uno
    <3> QED BY <1>3, <1>5, <2>1, <2>2, <3>1 DEF MismaSituacion, UnTurno, SinStatus
  <2>5. CASE pc_plan' = "primero" /\ coord_plan # <<>> /\ coord_plan' = Tail(coord_plan)
    <3>1. pc_hs = "recv" /\ coord_plan' = <<>>
      BY <2>1, <2>2, <2>5 DEF EntreRondas, Uno
    <3>2. EntreRondas'
      BY <1>2, <2>3, <2>5, <3>1 DEF EntreRondas, AntesDePrimero
    <3> QED BY <1>3, <1>5, <2>1, <2>2, <3>2 DEF MismaSituacion, UnTurno, SinStatus
  <2> QED BY <2>1, <2>4, <2>5
\* un_esi is given the turn.
<1>9. CASE Ejecutar
  <2>1. /\ pc_plan = "ejecutar" /\ pc_plan' = "pregunta" /\ un_esi' = un_esi
        /\ plan_coord' = Cabecera(plan_coord, 99)
        /\ plan_esi' = [plan_esi EXCEPT ![un_esi] = Cabecera(@, 21)]
        /\ UNCHANGED <<coord_plan, esi_respuesta>>
    BY <1>9 DEF Ejecutar
  <2>2. EntreRondas /\ \A e \in Esis : Reposo(e)
    BY <2>1 DEF UnTurno, Turno, Antes, Durante, EnInstancia, Despues, SinPregunta, Consultada,
       Respondida, Cerrada, AvisoDeAborto, Abortada, EnRonda, Contesto
  <2>3. un_esi \in Esis
    BY <2>1 DEF IInv, LocalesDeMain
  <2>4. /\ plan_esi'[un_esi] = Cabecera(plan_esi[un_esi], 21)
        /\ \A g \in Esis \ {un_esi} : plan_esi'[g] = plan_esi[g]
    BY <2>1, <2>3 DEF IInv, TypeOK, TypeOKRed
  <2>5. \A g \in Esis \ {un_esi} : MismosCanales(g)
    BY <1>1, <1>2, <1>3, <2>4 DEF MismosCanales, varsEsi
  <2>6. plan_esi[un_esi] = <<>> /\ plan_coord = <<>> /\ pc_hs = "recv" /\ coord_plan = <<>>
    BY <2>1, <2>2, <2>3 DEF EntreRondas, Reposo, AntesDePrimero
  <2>7. Uno(plan_esi'[un_esi], {21}) /\ Uno(plan_coord', {99})
    BY <1>4, <2>1, <2>3, <2>4, <2>6, CanalCabecera
  <2>8. Mandada(un_esi)'
    BY <1>1, <1>2, <1>3, <2>1, <2>2, <2>3, <2>7
       DEF Reposo, Mandada, Callado, SinMensajes, Sin, varsEsi
  <2>9. Antes(un_esi)'
    BY <1>2, <2>1, <2>2, <2>6, <2>7, <2>8 DEF EntreRondas, Antes, SinPregunta, Posts, SinInstancia
  <2>10. Turno(un_esi)' /\ \A g \in Esis \ {un_esi} : Reposo(g)'
    BY <2>1, <2>2, <2>5, <2>9, MismoReposo DEF Turno
  <2> QED BY <1>3, <2>1, <2>3, <2>10 DEF UnTurno, SinStatus
\* It answers the question of an operation.
<1>10. ASSUME pc_plan = "pregunta", coord_plan # <<>>, Head(coord_plan).id \in {31, 32, 33},
              coord_plan' = Tail(coord_plan), pc_plan' \in Contesto,
              NEW id \in {31, 32, 34, 35}, plan_coord' = Cabecera(plan_coord, id),
              UNCHANGED <<plan_esi, esi_respuesta, un_esi>>
       PROVE  UnTurno'
  <2>1. PICK e \in Esis :
          /\ Turno(e) /\ (\A f \in Esis \ {e} : Reposo(f)) /\ Posts(0, 0)
          /\ Durante(e) /\ Consultada(e)
    BY <1>10, TurnoDePregunta DEF IInv
  <2>2. plan_coord = <<>> /\ coord_plan' = <<>> /\ pc_hs = "respuesta"
    BY <1>10, <2>1 DEF Consultada, Uno
  <2>3. Uno(plan_coord', {31, 32, 34, 35})
    BY <1>4, <1>10, <2>2, CanalCabecera
  <2>4. Respondida'
    BY <1>2, <1>10, <2>2, <2>3 DEF Respondida, Contesto
  <2>5. Durante(e)'
    BY <1>2, <1>5, <1>10, <2>1, <2>4 DEF Durante, MismaSituacion, Posts, SinInstancia
  <2> QED BY <1>3, <1>5, <1>10, <2>1, <2>5, TurnoSigue
<1>11. CASE ConcederClave \/ RechazarClave \/ LiberarClave \/ ConsultarSet
  BY <1>10, <1>11 DEF ConcederClave, RechazarClave, LiberarClave, ConsultarSet, Llega, Contesto,
     semaforos
<1>12. CASE AvisoAborto
  <2>1. /\ pc_plan = "pregunta" /\ coord_plan # <<>> /\ Head(coord_plan).id \in {34, 35}
        /\ coord_plan' = Tail(coord_plan) /\ pc_plan' = "respuesta"
        /\ UNCHANGED <<plan_esi, plan_coord, esi_respuesta, un_esi>>
    BY <1>12 DEF AvisoAborto, Llega, semaforos
  <2>2. PICK e \in Esis :
          /\ Turno(e) /\ (\A f \in Esis \ {e} : Reposo(f)) /\ Posts(0, 0) /\ Despues(e) /\ Abortada
    BY <2>1, TurnoDePregunta DEF IInv
  <2>3. Cerrada'
    BY <1>2, <2>1, <2>2 DEF Abortada, Cerrada, Contesto, Uno
  <2>4. Despues(e)'
    BY <1>2, <1>5, <2>1, <2>2, <2>3 DEF Despues, MismaSituacion, Posts, SinInstancia
  <2> QED BY <1>3, <1>5, <2>1, <2>2, <2>4, TurnoSigue
<1>13. CASE PreguntaInvalida
  <2>1. pc_plan = "pregunta" /\ coord_plan # <<>> /\ Head(coord_plan).id \notin 31..35
    BY <1>13 DEF PreguntaInvalida
  <2> QED BY <2>1, TurnoDePregunta DEF IInv
\* ... and goes on with its lists.
<1>14. CASE EncolarEsi \/ DesbloquearEspera \/ DesbloquearNadie
  <2>1. /\ pc_plan \in Contesto /\ pc_plan' = "respuesta"
        /\ algorithm # "SJFCD" => un_esi' = un_esi
        /\ UNCHANGED <<plan_esi, plan_coord, coord_plan, esi_respuesta>>
    BY <1>14 DEF EncolarEsi, DesbloquearEspera, DesbloquearNadie, EsiElegido, Desaloja, Contesto,
       varsRed, semaforos
  <2>2. PICK e \in Esis : Turno(e) /\ \A f \in Esis \ {e} : Reposo(f)
    BY <2>1 DEF UnTurno, EntreRondas, EnRonda
  <2>3. /\ Respondida => Respondida'
        /\ Cerrada => Cerrada'
        /\ ~SinPregunta /\ ~Consultada(e) /\ ~Abortada
    BY <1>2, <2>1 DEF Respondida, Cerrada, SinPregunta, Consultada, Abortada, Contesto, Uno
  <2>4. (Durante(e) \/ EnInstancia(e) \/ Despues(e))'
    BY <1>2, <1>5, <2>1, <2>2, <2>3 DEF Turno, Antes, Durante, EnInstancia, Despues, AvisoDeAborto,
       MismaSituacion, Posts, SinInstancia, UnaInstancia
  <2> QED BY <1>3, <1>5, <2>1, <2>2, <2>4, TurnoSigue
\* main takes the answer of the ESI: the turn is over.
<1>15. CASE RecibirRespuesta
  <2>1. /\ pc_plan = "respuesta" /\ esi_respuesta > 0 /\ esi_respuesta' = esi_respuesta - 1
        /\ pc_plan' \in {"terminar", "ciclo"}
        /\ UNCHANGED <<plan_esi, plan_coord, coord_plan>>
    BY <1>15 DEF RecibirRespuesta, varsRed
  <2>2. PICK e \in Esis : Turno(e) /\ \A f \in Esis \ {e} : Reposo(f)
    BY <2>1 DEF UnTurno, EntreRondas, EnRonda, Contesto
  <2>3. Reposo(e) /\ esi_respuesta = 1 /\ SinInstancia /\ Cerrada /\ Posts(0, 0)
    BY <2>1, <2>2 DEF Turno, Antes, Durante, EnInstancia, Despues, AvisoDeAborto, SinPregunta, Abortada
  <2>4. EntreRondas'
    BY <1>2, <2>1, <2>3 DEF Cerrada, EntreRondas, EnRonda, Contesto, AntesDePrimero, Posts, SinInstancia
  <2>5. \A f \in Esis : Reposo(f)'
    BY <1>5, <2>1, <2>2, <2>3 DEF MismaSituacion
  <2> QED BY <1>3, <2>4, <2>5 DEF UnTurno, SinStatus
<1> QED BY <1>1, <1>7, <1>8, <1>9, <1>11, <1>12, <1>13, <1>14, <1>15 DEF PasoMain, Preguntas

-----------------------------------------------------------------------------
(* The steps of HostConnections and Console.                               *)

LEMMA HostConnectionsTurno ==
  ASSUME TypeOK, UnTurno, PlanActua(PasoHostConnections)
  PROVE  UnTurno'
<1>1. UNCHANGED <<varsEsi, varsCoord>> /\ PasoHostConnections
  BY DEF PlanActua
<1>2. UNCHANGED <<pc_he, funcion, message, operation, pc_hs, atendido, esi_operation,
                  scheduler_response, result_instance, start, guion, pc_esi, linea>>
  BY <1>1 DEF varsCoord, varsEsi, hilosEsi, semaforosCoord
<1>3. UNCHANGED <<algorithm, un_esi, pc_plan, pc_con, plan_esi, esi_coord, coord_esi, plan_coord,
                  coord_plan>>
  BY <1>1 DEF PasoHostConnections, NuevoEsi, RespuestaEsi, AvisarNuevoEsi, consola, varsRed
<1>4. CASE AvisarNuevoEsi
  <2>1. UNCHANGED <<esi_plan, esi_respuesta>>
    BY <1>4 DEF AvisarNuevoEsi, varsRed
  <2>2. MismaRonda /\ \A g \in Esis : MismaSituacion(g)
    BY <1>1, <1>2, <1>3, <2>1, MismoSi DEF MismaRonda, UnTurno, SinStatus
  <2> QED BY <2>2, TurnoMarco
<1>5. ASSUME NEW f \in Esis, NuevoEsi(f)
      PROVE  UnTurno'
  <2>1. /\ esi_plan[f] # <<>> /\ Head(esi_plan[f]).id \notin Respuestas
        /\ esi_plan' = [esi_plan EXCEPT ![f] = Tail(@)] /\ esi_respuesta' = esi_respuesta
    BY <1>5 DEF NuevoEsi, Llega, Respuestas, semaforos
  <2>2. /\ esi_plan'[f] = Tail(esi_plan[f]) /\ esi_plan[f] \in Canal
        /\ \A g \in Esis \ {f} : esi_plan'[g] = esi_plan[g]
    BY <2>1, CanalTipo DEF TypeOK, TypeOKRed
  <2>3. /\ Sin(esi_plan[f], Respuestas) => Sin(esi_plan'[f], Respuestas)
        /\ Termina(esi_plan[f], Respuestas) => Termina(esi_plan'[f], Respuestas)
    BY <2>1, <2>2, CanalResto
  <2>4. Pedido(f)' = Pedido(f)
    BY <1>2 DEF Pedido, LineaValida
  <2>5. MismaSituacion(f)
    BY <1>2, <1>3, <2>3, <2>4 DEF MismaSituacion, Reposo, Mandada, Leida, EnHost, EnPedido, Contestada,
       Informada, Callado, SinMensajes, LineaValida
  <2>6. \A g \in Esis \ {f} : MismaSituacion(g)
    BY <1>2, <1>3, <2>2, MismaSituacionSi DEF MismosCanales, MismoPedido
  <2>7. MismaRonda
    BY <1>2, <1>3, <2>1 DEF MismaRonda, UnTurno, SinStatus
  <2> QED BY <2>5, <2>6, <2>7, TurnoMarco
<1>6. ASSUME NEW f \in Esis, RespuestaEsi(f)
      PROVE  UnTurno'
  <2>1. /\ esi_plan[f] # <<>> /\ Head(esi_plan[f]).id \in Respuestas
        /\ esi_plan' = [esi_plan EXCEPT ![f] = Tail(@)] /\ esi_respuesta' = esi_respuesta + 1
    BY <1>6 DEF RespuestaEsi, Llega, Respuestas
  <2>2. /\ esi_plan'[f] = Tail(esi_plan[f]) /\ esi_plan[f] \in Canal
        /\ \A g \in Esis \ {f} : esi_plan'[g] = esi_plan[g]
    BY <2>1, CanalTipo DEF TypeOK, TypeOKRed
  <2>3. ~Sin(esi_plan[f], Respuestas)
    BY <2>1, <2>2, CanalResto
  <2>4. Turno(f) /\ \A g \in Esis \ {f} : Reposo(g)
    BY <2>3, TurnoDe DEF Reposo, SinMensajes
  <2>5. Despues(f) /\ Informada(f) /\ esi_respuesta = 0
    BY <2>3, <2>4 DEF Turno, Antes, Durante, EnInstancia, Despues, Mandada, Leida, EnHost, Contestada,
       Reposo, SinMensajes
  <2>6. Sin(esi_plan'[f], Respuestas)
    BY <2>1, <2>2, <2>5, CanalResto DEF Informada
  <2>7. Reposo(f)'
    BY <1>2, <1>3, <2>5, <2>6 DEF Informada, Reposo, Callado, SinMensajes, Sin
  <2>8. Despues(f)'
    BY <1>2, <1>3, <2>1, <2>5, <2>7 DEF Despues, AvisoDeAborto, Abortada, Cerrada, SinPregunta, Posts,
       SinInstancia, Uno
  <2>9. \A g \in Esis \ {f} : MismosCanales(g)
    BY <1>2, <1>3, <2>2 DEF MismosCanales
  <2> QED BY <1>3, <2>4, <2>8, <2>9, TurnoSigue
<1> QED BY <1>1, <1>4, <1>5, <1>6 DEF PasoHostConnections

LEMMA ConsolaTurno ==
  ASSUME "STATUS" \notin Comandos, UnTurno, PlanActua(PasoConsola)
  PROVE  UnTurno'
<1>1. UNCHANGED <<varsEsi, varsCoord>> /\ PasoConsola
  BY DEF PlanActua
<1>2. UNCHANGED <<pc_he, funcion, message, operation, pc_hs, atendido, esi_operation,
                  scheduler_response, result_instance, start>>
  BY <1>1 DEF varsCoord, hilosEsi, semaforosCoord
\* The console never waits for the Coordinador.
<1>3. \/ ConsolaExit \/ ConsolaPause \/ ConsolaResume \/ ConsolaBlock \/ ConsolaDesbloqueo
      \/ \E k \in Claves : ConsolaUnlock(k)
  BY <1>1 DEF PasoConsola, ConsolaStatus, Teclear, ConsolaRecibeStatus, ConsolaRecibeDatos, UnTurno,
     SinStatus
<1>4. UNCHANGED <<algorithm, pc_plan, varsRed, esi_respuesta>> /\ SinStatus'
  BY <1>3 DEF ConsolaExit, ConsolaPause, ConsolaResume, ConsolaBlock, ConsolaDesbloqueo, ConsolaUnlock,
     UnTurno, SinStatus, semaforos
<1>5. algorithm # "SJFCD" => un_esi' = un_esi
  BY <1>3 DEF ConsolaExit, ConsolaPause, ConsolaResume, ConsolaBlock, ConsolaDesbloqueo, ConsolaUnlock,
     EsiElegido, Desaloja
<1>6. \A g \in Esis : MismaSituacion(g)
  BY <1>1, <1>2, <1>4, MismoSi DEF varsRed
<1>7. MismaRonda
  BY <1>2, <1>4, <1>5 DEF MismaRonda, varsRed
<1> QED BY <1>6, <1>7, TurnoMarco

-----------------------------------------------------------------------------
(* The theorems.                                                           *)

LEMMA InicioTurno == Init => UnTurno
<1> SUFFICES ASSUME Init PROVE UnTurno
  OBVIOUS
<1>1. EntreRondas
  BY DEF Init, InitRed, InitPlan, InitCoord, EntreRondas, EnRonda, Contesto, AntesDePrimero, Posts,
     SinInstancia
<1>2. \A e \in Esis : Reposo(e)
  BY CanalVacio DEF Init, InitRed, InitEsi, InitCoord, Reposo, Callado, SinMensajes
<1>3. SinStatus
  BY DEF Init, InitPlan, SinStatus
<1> QED BY <1>1, <1>2, <1>3 DEF UnTurno

LEMMA PasoTurno ==
  ASSUME "STATUS" \notin Comandos, IInv, UnTurno, [Next]_vars
  PROVE  UnTurno'
<1>1. TypeOK
  BY DEF IInv
<1>2. ASSUME NEW e \in Esis, EsiActua(e) PROVE UnTurno'
  BY <1>1, <1>2, EsiTurno
<1>3. CASE PlanActua(PasoPlan)
  <2>1. PlanActua(PasoMain) \/ PlanActua(PasoHostConnections) \/ PlanActua(PasoConsola)
    BY <1>3 DEF PlanActua, PasoPlan
  <2> QED BY <1>1, <2>1, MainTurno, HostConnectionsTurno, ConsolaTurno
<1>4. CASE CoordActua(PasoCoord)
  <2>1. \/ \E e \in Esis : CoordActua(PasoHostEsi(e))
        \/ CoordActua(PasoHostScheduler) \/ CoordActua(PasoHostInstance)
    BY <1>4 DEF CoordActua, PasoCoord
  <2> QED BY <1>1, <2>1, HostEsiTurno, HostSchedulerTurno, HostInstanceTurno
<1>5. CASE UNCHANGED vars
  <2>1. UNCHANGED <<varsRed, varsEsi, varsPlan, varsCoord>>
    BY <1>5 DEF vars
  <2>2. \A g \in Esis : MismaSituacion(g)
    BY <2>1, MismoSi DEF varsRed, varsCoord, hilosEsi
  <2>3. MismaRonda
    BY <2>1 DEF MismaRonda, UnTurno, SinStatus, varsRed, varsPlan, varsCoord, semaforos, consola,
       semaforosCoord
  <2> QED BY <2>2, <2>3, TurnoMarco
<1> QED BY <1>2, <1>3, <1>4, <1>5 DEF Next

\* There is one turn in the system at any time, as long as STATUS is not typed.
THEOREM UnSoloTurno ==
  ASSUME "STATUS" \notin Comandos
  PROVE  Spec => []UnTurno
<1>1. Init => UnTurno
  BY InicioTurno
<1>2. IInv /\ UnTurno /\ [Next]_vars => UnTurno'
  BY PasoTurno
<1> QED BY <1>1, <1>2, Invariante, PTL DEF Spec

\* The globals that no mutex protects hold the request of an ESI for as long as
\* its host_esi waits for the Planificador or for an Instance.
THEOREM Globales ==
  ASSUME "STATUS" \notin Comandos
  PROVE  Spec => []GlobalesIntactas
<1>1. UnTurno => GlobalesIntactas
  <2> SUFFICES ASSUME UnTurno, NEW e \in Esis, pc_he[e] \in {"planificador", "instancia"}
               PROVE  operation = guion[e][linea[e]].op /\ message = guion[e][linea[e]].clave
    BY DEF GlobalesIntactas
  <2>1. EnHost(e, pc_he[e])
    BY TurnoDeHost
  <2> QED BY <2>1 DEF EnHost, EnPedido
<1> QED BY <1>1, UnSoloTurno, PTL

\* An Instance serves the request that was posted to it, and not what another
\* thread may have left in the globals.
THEOREM Pedidas ==
  ASSUME "STATUS" \notin Comandos
  PROVE  Spec => []PedidoCorrecto
<1>1. UnTurno => PedidoCorrecto
  <2> SUFFICES ASSUME UnTurno, atendido # Nadie
               PROVE  \E e \in Esis : /\ pc_he[e] = "instancia"
                                      /\ atendido.op = guion[e][linea[e]].op
                                      /\ atendido.clave = guion[e][linea[e]].clave
    BY DEF PedidoCorrecto
  <2>1. PICK e \in Esis : EnInstancia(e)
    BY TurnoDeInstancia
  <2>2. /\ atendido = [op |-> operation, clave |-> message]
        /\ pc_he[e] = "instancia" /\ operation = guion[e][linea[e]].op
        /\ message = guion[e][linea[e]].clave
    BY <2>1 DEF EnInstancia, UnaInstancia, EnHost, EnPedido
  <2> QED BY <2>2
<1> QED BY <1>1, UnSoloTurno, PTL

\* un_esi is the ESI that runs, unless a waiter that is let go may preempt it
\* in the middle of its turn (SJF-CD).
THEOREM ElQueEjecuta ==
  ASSUME "STATUS" \notin Comandos
  PROVE  Spec => [](algorithm # "SJFCD" => UnEsiEsElQueEjecuta)
<1>1. IInv /\ UnTurno => (algorithm # "SJFCD" => UnEsiEsElQueEjecuta)
  <2> SUFFICES ASSUME IInv, UnTurno, algorithm # "SJFCD", NEW e \in Esis, ConTurno(e)
               PROVE  un_esi = e
    BY DEF UnEsiEsElQueEjecuta
  <2>1. esi_plan[e] \in Canal
    BY CanalTipo DEF IInv, TypeOK
  <2>2. ~Reposo(e)
    BY <2>1, CanalResto DEF ConTurno, Reposo, SinMensajes, Llega, Respuestas
  <2> QED BY <2>2, TurnoDe DEF Turno
<1> QED BY <1>1, Invariante, UnSoloTurno, PTL
=============================================================================
