------------------------------ MODULE Sistema ------------------------------
(***************************************************************************)
(* The Planificador, the ESIs and the Coordinador, joined by their         *)
(* sockets, and what must be true of them together.                        *)
(***************************************************************************)
EXTENDS ESI, Planificador, Coordinador

vars == <<varsRed, varsEsi, varsPlan, varsCoord>>

Init == InitRed /\ InitEsi /\ InitPlan /\ InitCoord

EsiActua(e) == PasoEsi(e) /\ UNCHANGED <<varsPlan, varsCoord>>
PlanActua(paso) == paso /\ UNCHANGED <<varsEsi, varsCoord>>
CoordActua(paso) == paso /\ UNCHANGED <<varsEsi, varsPlan>>

Next ==
  \/ \E e \in Esis : EsiActua(e)
  \/ PlanActua(PasoPlan)
  \/ CoordActua(PasoCoord)

Spec == Init /\ [][Next]_vars

\* Every thread is scheduled by the operating system; the operator need not
\* type anything, but a command that was typed is carried out.
Justicia ==
  /\ \A e \in Esis : WF_vars(EsiActua(e)) /\ WF_vars(CoordActua(PasoHostEsi(e)))
  /\ WF_vars(PlanActua(PasoMain))
  /\ WF_vars(PlanActua(PasoHostConnections))
  /\ WF_vars(PlanActua(ConsolaDesbloqueo \/ ConsolaRecibeStatus \/ ConsolaRecibeDatos))
  /\ WF_vars(CoordActua(PasoHostScheduler))
  /\ WF_vars(CoordActua(PasoHostInstance))

SpecJusta == Spec /\ Justicia

TypeOK == TypeOKRed /\ TypeOKEsi /\ TypeOKPlan /\ TypeOKCoord

-----------------------------------------------------------------------------
(* Keys.                                                                   *)

\* No key is ever owned by two ESIs: check_key only adds an owner when
\* is_key_blocked finds none (Planificador.c:574-597), whatever the console
\* unlocks in between.
ClaveDeUnSoloEsi ==
  \A p, q \in claves_bloqueadas_por_esis : p[2] = q[2] => p = q

\* The CONSOLA mark is only ever the head of a queue, and its key has no
\* owner: so releasing a key never hands the processor to the mark ("por ciclo
\* normal nunca vas a liberar la clave que tiene la consola").
ConsolaSoloEnCabeza ==
  \A k \in Claves : \A i \in DOMAIN cola_esis_bloqueados[k] :
     cola_esis_bloqueados[k][i] = CONSOLA =>
       /\ i = 1
       /\ \A e \in Esis : <<e, k>> \notin claves_bloqueadas_por_esis

\* While an Instance writes or stores a key for an ESI, no other ESI owns it,
\* although unlock_key gives the key up before the Instance has stored it.
EscrituraExclusiva ==
  \A e \in Esis :
     atendido # Nadie /\ pc_he[e] = "instancia" /\ funcion[e] \in {"SET", "STORE"} =>
       \A f \in Esis : <<f, atendido.clave>> \in claves_bloqueadas_por_esis => f = e

\* An ESI at rest only owns, for the Planificador, keys that the Coordinador's
\* thread for it remembers it asked for: else its SET would be aborted.
TablasCoinciden ==
  \A e \in Esis :
     pc_esi[e] = "listo" /\ plan_esi[e] = <<>> /\ esi_plan[e] = <<>> /\ esi_respuesta = 0 =>
       \A k \in Claves : <<e, k>> \in claves_bloqueadas_por_esis => k \in blocked_keys[e]

-----------------------------------------------------------------------------
(* One operation at a time.                                                *)

\* The Coordinador's globals, which no mutex protects, still hold an ESI's
\* request while its thread waits for the Planificador or for an Instance:
\* the Planificador's turns and status_mutex keep every other writer away.
GlobalesIntactas ==
  \A e \in Esis :
     pc_he[e] \in {"planificador", "instancia"} =>
       /\ operation = guion[e][linea[e]].op
       /\ message = guion[e][linea[e]].clave

\* An Instance serves what was asked of it, not what the globals hold later.
PedidoCorrecto ==
  atendido # Nadie /\ atendido.op # "STATUS" =>
    \E e \in Esis : /\ pc_he[e] = "instancia"
                    /\ atendido.op = guion[e][linea[e]].op
                    /\ atendido.clave = guion[e][linea[e]].clave

\* The ESI that was told to run, is running, or has just answered.
ConTurno(e) ==
  \/ plan_esi[e] # <<>>
  \/ pc_esi[e] = "espera"
  \/ Llega(esi_plan[e], 22..25)

\* "un_esi siempre es el ESI que se esta ejecutando" (Planificador.c:700).
UnEsiEsElQueEjecuta == \A e \in Esis : ConTurno(e) => un_esi = e

-----------------------------------------------------------------------------
(* Queues.                                                                 *)

TomaPendiente ==
  IF pc_plan \in {"wait_start", "primero", "ordenar", "elegir"} THEN 1 ELSE 0

\* Every unit of hay_esis is backed by an ESI in the ready list (one more after
\* EXIT), so main never removes from an empty list but when EXIT wakes it
\* before the first ESI.
FichasRespaldadas ==
  /\ hay_esis + TomaPendiente <= Len(lista_ready) + (IF stop THEN 1 ELSE 0)
  /\ pc_plan = "elegir" => lista_ready # <<>>

\* The places e has in the queues.
EnColas(e) ==
  UNION {{k} \X {i \in DOMAIN cola_esis_bloqueados[k] : cola_esis_bloqueados[k][i] = e} :
           k \in Claves}

\* An ESI is in one place: at most once in the ready list or one queue, not
\* there while it is being told to run, and finished once and for all.  (After
\* EXIT main only passes by the top of its loop, with the last un_esi.)
UnSoloLugar ==
  \A e \in Esis :
     LET esperando == Veces(e, lista_ready) + Cardinality(EnColas(e)) IN
     /\ esperando <= 1
     /\ /\ un_esi = e
        /\ pc_plan \in {"pausa", "ejecutar", "pregunta"} \/ (pc_plan = "ciclo" /\ ~stop)
        => esperando = 0
     /\ Veces(e, finished_esis) + esperando <= 1

\* main goes to sleep ("Waiting for new ESI") only when no ESI is ready.  It
\* holds while every ESI gives back the keys it took: unlock_esi, which lets the
\* waiters of a leaving owner go, forgets the post (README.md, section 5).
DuermeSinListos ==
  pc_plan = "esperar" /\ hay_esis = 0 /\ pc_hc = "select" => lista_ready = <<>>

\* "agregar a cola finalizados": once main has dealt with the last answer of an
\* ESI that ended, the ESI is in the finished queue, whoever was blocked before
\* it.  It holds while no ESI is aborted before its first GET, for only
\* check_key clears `block` (README.md, section 5).
TerminadoEsFinalizado ==
  pc_plan = "esperar" =>
    \A e \in Esis : pc_esi[e] = "fin" /\ esi_plan[e] = <<>> => e \in Range(finished_esis)

-----------------------------------------------------------------------------
(* The inductive invariant behind TypeOK, ClaveDeUnSoloEsi,                *)
(* ConsolaSoloEnCabeza and FichasRespaldadas.                              *)

\* Where main is tells which of its variables are set.
LocalesDeMain ==
  /\ pc_plan \notin {"espera_inicial", "wait_start", "primero", "error"} => un_esi \in Esis
  /\ pc_plan \in {"encolar", "desbloquear"} => mensaje \in Claves
  /\ pc_con = "desbloqueo" => clave_con \in Claves

\* Nobody waits in a queue before the first selection.
NadieEsperaAlInicio ==
  un_esi = Ninguno =>
    \A k \in Claves : \A i \in DOMAIN cola_esis_bloqueados[k] :
      cola_esis_bloqueados[k][i] = CONSOLA

\* The key that unlock_key has just released was not the console's.
LiberadaSinConsola ==
  pc_plan = "desbloquear" =>
    \A i \in DOMAIN cola_esis_bloqueados[mensaje] :
      cola_esis_bloqueados[mensaje][i] # CONSOLA

\* Only keys with an entry in lista_bloqueados have an owner or a queue.
SoloConocidas ==
  /\ \A p \in claves_bloqueadas_por_esis : p[2] \in claves_conocidas
  /\ \A k \in Claves : cola_esis_bloqueados[k] # <<>> => k \in claves_conocidas
  /\ pc_plan = "encolar" => mensaje \in claves_conocidas

\* The Coordinador publishes no operation before it has a key for it.
MensajeAntesDeOperar ==
  message = SinClave =>
    /\ \A e \in Esis : pc_he[e] \in {"inicio", "recv", "fin"}
    /\ operation = "ABORT" \/ esi_operation = 0

\* hay_esis counts ready ESIs, the one HostConnections is about to announce
\* and the one main is about to take included.
FichasContadas ==
  /\ hay_esis + TomaPendiente + (IF pc_hc = "post" THEN 1 ELSE 0)
       <= Len(lista_ready) + (IF stop THEN 1 ELSE 0)
  /\ pc_plan = "elegir" => lista_ready # <<>>
  /\ stop => pc_con = "fin"

IInv ==
  /\ TypeOK
  /\ LocalesDeMain
  /\ NadieEsperaAlInicio
  /\ LiberadaSinConsola
  /\ ConsolaSoloEnCabeza
  /\ SoloConocidas
  /\ ClaveDeUnSoloEsi
  /\ MensajeAntesDeOperar
  /\ FichasContadas

-----------------------------------------------------------------------------
(* What a step may not do, and what must happen.                           *)

\* An owner loses a key only by its own STORE, when it has left, or because
\* the operator unlocked the key.
PerderClave ==
  \A e \in Esis, k \in Claves :
     <<e, k>> \in claves_bloqueadas_por_esis /\ <<e, k>> \notin claves_bloqueadas_por_esis' =>
       \/ pc_he[e] = "planificador" /\ funcion[e] = "STORE" /\ message = k
       \/ pc_esi[e] = "fin"
       \/ clave_con' = k
ClavesNoSePierden == [][PerderClave]_vars

BloqueadaPorConsola(k) ==
  cola_esis_bloqueados[k] # <<>> /\ Head(cola_esis_bloqueados[k]) = CONSOLA

\* Once the operator has unlocked the keys of Config.cfg, every ESI ends: the
\* ESI that stores a key wakes the next one.  Not so if UNLOCK overlaps the
\* check_key of the same key (EsperaConDuenio), nor if two ESIs wait for one key.
UnlockSinCarrera ==
  ~(pc_plan = "encolar" /\ pc_con = "desbloqueo" /\ mensaje = clave_con)
TodosTerminan ==
  /\ []UnlockSinCarrera
  /\ \A k \in ClavesBloqueadas : <>~BloqueadaPorConsola(k)
  => \A e \in Esis : <>(pc_esi[e] = "fin")

\* EXIT ends the process wherever main sleeps ("para que se pueda cerrar el
\* programa correctamente").
ExitTermina == stop ~> ~Vivo

-----------------------------------------------------------------------------
(* What the code's comments say and the code does not do: TLC refutes each *)
(* of these (README.md, section 5); no run checks them.                    *)

\* A waiter waits for somebody: when nothing is left to run, a key with a
\* queue has an owner or is blocked by the console.
EsperaConDuenio ==
  pc_plan = "esperar" /\ lista_ready = <<>> =>
    \A k \in Claves :
       cola_esis_bloqueados[k] # <<>> /\ Head(cola_esis_bloqueados[k]) # CONSOLA =>
         IsKeyBlocked(k)

\* main starts on the Coordinador's 35 ("espera que le manden un id 35"), and
\* from then on every header it reads is one it understands.
SinDesfase == pc_plan = "error" => stop

\* An ESI that was let go and asks for its key again is only refused when
\* somebody has the key or the console blocks it, not because others wait for
\* it too ("si hay esis esperando, se bloquea <-- MAL").
ReintentoConMotivo ==
  [][pc_plan = "pregunta" /\ pc_plan' = "encolar" /\ flag_blocked[un_esi] =>
       IsKeyBlocked(mensaje') \/ BloqueadaPorConsola(mensaje')]_vars
=============================================================================
