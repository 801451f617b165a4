--------------------------- MODULE SistemaProofs ---------------------------
(***************************************************************************)
(* IInv is an inductive invariant of Sistema for every set of ESIs, keys,  *)
(* scripts, commands and algorithms; TypeOK, ClaveDeUnSoloEsi,             *)
(* ConsolaSoloEnCabeza and FichasRespaldadas follow.                       *)
(***************************************************************************)
EXTENDS Sistema, FiniteSetTheorems, SequenceTheorems, TLAPS

-----------------------------------------------------------------------------
(* The operators of the model.                                             *)

\* What is sent on a typed channel keeps its type.
LEMMA ConTipo ==
  ASSUME NEW conClave, NEW canal \in Seq(Mensaje(conClave)), NEW id \in Nat,
         NEW clave \in Claves \cup {SinClave}, id \in conClave => clave \in Claves
  PROVE  Con(canal, id, clave) \in Seq(Mensaje(conClave))
<1>1. [id |-> id, clave |-> clave] \in Mensaje(conClave)
  BY DEF Mensaje
<1> QED BY <1>1 DEF Con

LEMMA CabeceraTipo ==
  ASSUME NEW conClave, NEW canal \in Seq(Mensaje(conClave)), NEW id \in Nat,
         id \notin conClave
  PROVE  Cabecera(canal, id) \in Seq(Mensaje(conClave))
BY ConTipo DEF Cabecera

\* The two lemmas above for each kind of channel.
LEMMA EnvioTipo ==
  /\ \A c \in Seq(Mensaje({})), id \in Nat : Cabecera(c, id) \in Seq(Mensaje({}))
  /\ \A c \in Seq(Mensaje(21..23)), id \in Nat :
       /\ \A k \in Claves : Con(c, id, k) \in Seq(Mensaje(21..23))
       /\ id \notin 21..23 => Cabecera(c, id) \in Seq(Mensaje(21..23))
  /\ \A c \in Seq(Mensaje({33})), id \in Nat :
       /\ \A k \in Claves : Con(c, id, k) \in Seq(Mensaje({33}))
       /\ id \notin {33} => Cabecera(c, id) \in Seq(Mensaje({33}))
  /\ \A c \in Seq(Mensaje(31..33)), id \in Nat :
       /\ \A k \in Claves : Con(c, id, k) \in Seq(Mensaje(31..33))
       /\ id \notin 31..33 => Cabecera(c, id) \in Seq(Mensaje(31..33))
<1>1. ASSUME NEW c \in Seq(Mensaje({})), NEW id \in Nat
      PROVE  Cabecera(c, id) \in Seq(Mensaje({}))
  BY CabeceraTipo
<1>2. ASSUME NEW S, NEW c \in Seq(Mensaje(S)), NEW id \in Nat
      PROVE  /\ \A k \in Claves : Con(c, id, k) \in Seq(Mensaje(S))
             /\ id \notin S => Cabecera(c, id) \in Seq(Mensaje(S))
  BY ConTipo, CabeceraTipo
<1> QED BY <1>1, <1>2

\* What arrives is a message, and the rest of the channel keeps its type.
LEMMA LlegaTipo ==
  ASSUME NEW S, NEW canal \in Seq(S), canal # <<>>
  PROVE  Head(canal) \in S /\ Tail(canal) \in Seq(S)
OBVIOUS

LEMMA VecesTipo ==
  ASSUME NEW S, NEW s \in Seq(S), NEW e
  PROVE  Veces(e, s) \in Nat
<1>1. IsFiniteSet(1..Len(s))
  BY FS_Interval
<1>2. {i \in DOMAIN s : s[i] = e} \in SUBSET (1..Len(s))
  OBVIOUS
<1>3. IsFiniteSet({i \in DOMAIN s : s[i] = e})
  BY <1>1, <1>2, FS_Subset
<1> QED BY <1>3, FS_CardinalityType DEF Veces

\* Sorting keeps the length of the list and takes its members from it.
LEMMA OrdenacionesTipo ==
  ASSUME NEW S, NEW lista \in Seq(S), NEW est, NEW s \in Ordenaciones(lista, est)
  PROVE  s \in Seq(S) /\ Len(s) = Len(lista)
<1>1. s \in [1..Len(lista) -> Range(lista)]
  BY DEF Ordenaciones
<1>2. Range(lista) \subseteq S
  BY DEF Range
<1> QED BY <1>1, <1>2

LEMMA ProductoTipo == \A a, b \in Int : a * b \in Int
BY SMT

LEMMA TruncarTipo == \A a \in Int : Truncar(a) \in Int
BY DEF Truncar

LEMMA CalculateEstimationTipo ==
  ASSUME TypeOKPlan, NEW e \in Esis
  PROVE  CalculateEstimation(e) \in [Esis -> Estimacion]
<1>1. estimacion[e] \in Estimacion
  BY DEF TypeOKPlan
<1>2. Truncar(estimacion[e].previa) \in Int
  BY <1>1, TruncarTipo DEF Estimacion
<1>3. Alfa \in Int /\ (100 - Alfa) \in Int
  BY PlanificadorAssumption
<1>4. Alfa * estimacion[e].contador + (100 - Alfa) * Truncar(estimacion[e].previa) \in Int
  <2>1. Alfa * estimacion[e].contador \in Int
    BY <1>1, <1>3, ProductoTipo DEF Estimacion
  <2>2. (100 - Alfa) * Truncar(estimacion[e].previa) \in Int
    BY <1>2, <1>3, ProductoTipo
  <2> QED BY <2>1, <2>2
<1>5. [estimacion[e] EXCEPT
         !.previa = estimacion[e].estimada,
         !.estimada = Alfa * estimacion[e].contador
                        + (100 - Alfa) * Truncar(estimacion[e].previa)] \in Estimacion
  BY <1>1, <1>4 DEF Estimacion
<1> QED BY <1>5 DEF CalculateEstimation, TypeOKPlan

LEMMA ReestimarTipo ==
  ASSUME TypeOKPlan, NEW e \in Esis
  PROVE  Reestimar(e) \in [Esis -> Estimacion]
<1>1. CalculateEstimation(e) \in [Esis -> Estimacion]
  BY CalculateEstimationTipo
<1> QED BY <1>1 DEF Reestimar, Estimacion

LEMMA UpdateValuesTipo ==
  ASSUME TypeOKPlan, un_esi \in Esis
  PROVE  UpdateValues \in [Esis -> Estimacion]
<1> DEFINE contada == [estimacion EXCEPT ![un_esi].contador = @ + 1]
<1>1. contada \in [Esis -> Estimacion]
  <2>1. estimacion \in [Esis -> Estimacion]
    BY DEF TypeOKPlan
  <2>2. [estimacion[un_esi] EXCEPT !.contador = @ + 1] \in Estimacion
    BY <2>1 DEF Estimacion
  <2> QED BY <2>1, <2>2
<1>2. \A e \in Esis : Veces(e, lista_ready) \in Nat
  BY VecesTipo DEF TypeOKPlan
<1>3. \A e \in Esis : [contada[e] EXCEPT !.espera = @ + Veces(e, lista_ready)] \in Estimacion
  <2> TAKE e \in Esis
  <2>1. contada[e] \in Estimacion /\ Veces(e, lista_ready) \in Nat
    BY <1>1, <1>2
  <2> HIDE DEF contada
  <2> QED BY <2>1 DEF Estimacion
<1>4. [contada EXCEPT ![un_esi].estimada = @ - 100] \in [Esis -> Estimacion]
  <2> HIDE DEF contada
  <2> QED BY <1>1 DEF Estimacion
<1> QED BY <1>3, <1>4 DEF UpdateValues

\* Where a waiter goes when it is let go.
LEMMA ElegidoTipo ==
  ASSUME TypeOKPlan, un_esi \in Esis, NEW otro \in Esis
  PROVE  /\ EsiElegido(otro) \in Esis
         /\ ReadyCon(otro) \in Seq(Esis)
         /\ Len(ReadyCon(otro)) = Len(lista_ready) + 1
BY DEF EsiElegido, ReadyCon, TypeOKPlan

-----------------------------------------------------------------------------
(* The parts of IInv and what each process can disturb.                    *)

InvPlan ==
  /\ LocalesDeMain
  /\ NadieEsperaAlInicio
  /\ LiberadaSinConsola
  /\ ConsolaSoloEnCabeza
  /\ SoloConocidas
  /\ ClaveDeUnSoloEsi
  /\ FichasContadas

USE DEF listas, banderas, semaforos, locales, consola, semaforosCoord, hilosEsi

\* Steps of the ESIs and of the Coordinador leave the Planificador's part alone.
LEMMA PlanInalterado ==
  ASSUME TypeOKPlan, InvPlan, UNCHANGED varsPlan
  PROVE  TypeOKPlan' /\ InvPlan'
<1>1. TypeOKPlan'
  BY DEF varsPlan, TypeOKPlan
<1>2. LocalesDeMain' /\ NadieEsperaAlInicio' /\ LiberadaSinConsola'
  BY DEF varsPlan, InvPlan, LocalesDeMain, NadieEsperaAlInicio, LiberadaSinConsola
<1>3. ConsolaSoloEnCabeza' /\ SoloConocidas' /\ ClaveDeUnSoloEsi'
  BY DEF varsPlan, InvPlan, ConsolaSoloEnCabeza, SoloConocidas, ClaveDeUnSoloEsi
<1>4. FichasContadas'
  BY DEF varsPlan, InvPlan, FichasContadas, TomaPendiente
<1> QED BY <1>1, <1>2, <1>3, <1>4 DEF InvPlan

\* Steps of the Planificador leave the ESIs' and the Coordinador's part alone.
LEMMA RestoInalterado ==
  ASSUME TypeOKEsi, TypeOKCoord, MensajeAntesDeOperar, UNCHANGED <<varsEsi, varsCoord>>
  PROVE  TypeOKEsi' /\ TypeOKCoord' /\ MensajeAntesDeOperar'
<1>1. TypeOKEsi'
  BY DEF varsEsi, TypeOKEsi
<1>2. TypeOKCoord'
  BY DEF varsCoord, TypeOKCoord
<1>3. MensajeAntesDeOperar'
  BY DEF varsCoord, MensajeAntesDeOperar
<1> QED BY <1>1, <1>2, <1>3

LEMMA InicioIInv == Init => IInv
<1> SUFFICES ASSUME Init PROVE IInv
  OBVIOUS
<1> USE DEF Init
<1>1. TypeOKRed
  BY DEF InitRed, TypeOKRed
<1>2. TypeOKEsi
  BY DEF InitEsi, TypeOKEsi, PcEsi
<1>3. TypeOKPlan
  <2>1. cola_esis_bloqueados \in [Claves -> Seq(Esis \cup {CONSOLA})]
    <3>1. \A k \in Claves : cola_esis_bloqueados[k] \in {<<>>, <<CONSOLA>>}
      BY DEF InitPlan
    <3>2. {<<>>, <<CONSOLA>>} \subseteq Seq(Esis \cup {CONSOLA})
      OBVIOUS
    <3> QED BY <3>1, <3>2 DEF InitPlan
  <2>2. estimacion \in [Esis -> Estimacion]
    BY DEF InitPlan, Estimacion
  <2>3. claves_conocidas \subseteq Claves /\ algorithm \in Algoritmos
        /\ claves_bloqueadas_por_esis \subseteq Esis \X Claves
    BY PlanificadorAssumption DEF InitPlan
  <2>4. lista_ready \in Seq(Esis) /\ finished_esis \in Seq(Esis)
    BY DEF InitPlan
  <2>5. pc_plan \in PcPlan /\ pc_hc \in {"select", "post"} /\ pc_con \in PcCon
    BY DEF InitPlan, PcPlan, PcCon
  <2> QED
    BY <2>1, <2>2, <2>3, <2>4, <2>5 DEF InitPlan, TypeOKPlan
<1>4. TypeOKCoord
  BY DEF InitCoord, TypeOKCoord, PcHe, PcHs, Operation
<1>5. LocalesDeMain /\ NadieEsperaAlInicio /\ LiberadaSinConsola
  BY DEF InitPlan, LocalesDeMain, NadieEsperaAlInicio, LiberadaSinConsola
<1>6. ConsolaSoloEnCabeza /\ SoloConocidas /\ ClaveDeUnSoloEsi
  BY DEF InitPlan, ConsolaSoloEnCabeza, SoloConocidas, ClaveDeUnSoloEsi
<1>7. MensajeAntesDeOperar
  BY DEF InitCoord, MensajeAntesDeOperar
<1>8. FichasContadas
  BY DEF InitPlan, FichasContadas, TomaPendiente
<1> QED
  BY <1>1, <1>2, <1>3, <1>4, <1>5, <1>6, <1>7, <1>8 DEF IInv, TypeOK

-----------------------------------------------------------------------------
(* ESI.                                                                    *)

LEMMA IdDeTipo == \A op \in {"GET", "SET", "STORE"} : IdDe(op) \in 21..23
BY DEF IdDe

LEMMA EsiIInv ==
  ASSUME IInv, NEW e \in Esis, EsiActua(e)
  PROVE  IInv'
<1>1. TypeOKRed /\ TypeOKEsi /\ TypeOKPlan /\ TypeOKCoord /\ InvPlan
      /\ MensajeAntesDeOperar
  BY DEF IInv, TypeOK, InvPlan
<1>2. PasoEsi(e) /\ UNCHANGED varsPlan /\ UNCHANGED varsCoord
  BY DEF EsiActua
<1>3. TypeOKPlan' /\ InvPlan'
  BY <1>1, <1>2, PlanInalterado
<1>4. TypeOKCoord' /\ MensajeAntesDeOperar'
  BY <1>1, <1>2 DEF varsCoord, TypeOKCoord, MensajeAntesDeOperar
<1> HIDE DEF semaforosCoord, hilosEsi
<1>5. /\ esi_plan[e] \in Seq(Mensaje({})) /\ plan_esi[e] \in Seq(Mensaje({}))
      /\ esi_coord[e] \in Seq(Mensaje(21..23)) /\ coord_esi[e] \in Seq(Mensaje({}))
      /\ \A n \in {20, 22, 23, 24, 25} : Cabecera(esi_plan[e], n) \in Seq(Mensaje({}))
      /\ \A n \in {0, 20, 25} : Cabecera(esi_coord[e], n) \in Seq(Mensaje(21..23))
  <2>1. /\ esi_plan[e] \in Seq(Mensaje({})) /\ plan_esi[e] \in Seq(Mensaje({}))
        /\ esi_coord[e] \in Seq(Mensaje(21..23)) /\ coord_esi[e] \in Seq(Mensaje({}))
    BY <1>1 DEF TypeOKRed
  <2>2. ASSUME NEW n \in {20, 22, 23, 24, 25}
        PROVE  Cabecera(esi_plan[e], n) \in Seq(Mensaje({}))
    BY <2>1, CabeceraTipo
  <2>3. ASSUME NEW n \in {0, 20, 25}
        PROVE  Cabecera(esi_coord[e], n) \in Seq(Mensaje(21..23))
    <3>1. n \in Nat /\ n \notin 21..23
      BY <2>3
    <3> QED BY <2>1, <3>1, CabeceraTipo
  <2> QED BY <2>1, <2>2, <2>3
<1>6. /\ coord_esi[e] # <<>> => Tail(coord_esi[e]) \in Seq(Mensaje({}))
      /\ plan_esi[e] # <<>> => Tail(plan_esi[e]) \in Seq(Mensaje({}))
  BY <1>5, LlegaTipo
<1>7. TypeOKRed'
  <2>1. CASE ConectarPlanificador(e)
    BY <1>1, <1>5, <2>1 DEF ConectarPlanificador, TypeOKRed
  <2>2. CASE ConectarCoordinador(e)
    BY <1>1, <1>5, <2>2 DEF ConectarCoordinador, TypeOKRed
  <2>3. CASE EjecutarLinea(e)
    <3> DEFINE leidas == IF flag_blocked[e] THEN linea[e] ELSE linea[e] + 1
               enviado == IF LineaValida(e, leidas)
                          THEN Con(esi_coord[e], IdDe(guion[e][leidas].op),
                                   guion[e][leidas].clave)
                          ELSE Cabecera(esi_coord[e], 25)
    <3>1. enviado \in Seq(Mensaje(21..23))
      <4> HIDE DEF leidas
      <4>1. ASSUME LineaValida(e, leidas)
            PROVE  /\ guion[e][leidas].clave \in Claves
                   /\ IdDe(guion[e][leidas].op) \in Nat
        <5>1. guion[e] \in Seq(Linea)
          BY <1>1, RedAssumption DEF TypeOKEsi
        <5>2. guion[e][leidas] \in Linea /\ guion[e][leidas].op # "INVALIDA"
          BY <5>1, <4>1 DEF LineaValida
        <5>3. guion[e][leidas].op \in {"GET", "SET", "STORE"}
          BY <5>2 DEF Linea, Operaciones
        <5> QED BY <5>2, <5>3, IdDeTipo DEF Linea
      <4> QED BY <4>1, <1>5, EnvioTipo
    <3> HIDE DEF enviado
    <3>2. esi_coord' = [esi_coord EXCEPT ![e] = enviado]
      BY <2>3 DEF EjecutarLinea, enviado
    <3>3. plan_esi' = [plan_esi EXCEPT ![e] = Tail(@)] /\ plan_esi[e] # <<>>
      BY <2>3 DEF EjecutarLinea, Llega
    <3>4. UNCHANGED <<esi_plan, coord_esi, plan_coord, coord_plan>>
      BY <2>3 DEF EjecutarLinea
    <3> QED BY <1>1, <1>6, <3>1, <3>2, <3>3, <3>4 DEF TypeOKRed
  <2>4. CASE OperacionHecha(e)
    <3>1. coord_esi' = [coord_esi EXCEPT ![e] = Tail(@)] /\ coord_esi[e] # <<>>
          /\ UNCHANGED <<plan_esi, plan_coord, coord_plan>>
      BY <2>4 DEF OperacionHecha, Llega
    <3>2. \E n \in {22, 24} : esi_plan' = [esi_plan EXCEPT ![e] = Cabecera(@, n)]
      BY <2>4 DEF OperacionHecha
    <3>3. esi_coord' = esi_coord \/ esi_coord' = [esi_coord EXCEPT ![e] = Cabecera(@, 0)]
      BY <2>4 DEF OperacionHecha, Salir, Cierre
    <3>4. esi_plan' \in [Esis -> Seq(Mensaje({}))]
      <4>1. PICK n \in {22, 24} : esi_plan' = [esi_plan EXCEPT ![e] = Cabecera(@, n)]
        BY <3>2
      <4>2. Cabecera(esi_plan[e], n) \in Seq(Mensaje({}))
        BY <1>5
      <4> QED BY <1>1, <4>1, <4>2 DEF TypeOKRed
    <3>5. esi_coord' \in [Esis -> Seq(Mensaje(21..23))]
      BY <1>1, <1>5, <3>3 DEF TypeOKRed
    <3> QED BY <1>1, <1>6, <3>1, <3>4, <3>5 DEF TypeOKRed
  <2>5. CASE OperacionBloqueada(e)
    BY <1>1, <1>5, <1>6, <2>5 DEF OperacionBloqueada, Llega, TypeOKRed
  <2>6. CASE Abortar(e)
    BY <1>1, <1>5, <1>6, <2>6 DEF Abortar, Salir, Cierre, TypeOKRed
  <2> QED BY <1>2, <2>1, <2>2, <2>3, <2>4, <2>5, <2>6 DEF PasoEsi
<1>8. TypeOKEsi'
  <2>1. CASE EjecutarLinea(e)
    BY <1>1, <2>1 DEF EjecutarLinea, TypeOKEsi, PcEsi
  <2>2. CASE OperacionHecha(e)
    BY <1>1, <2>2 DEF OperacionHecha, Salir, TypeOKEsi, PcEsi
  <2>3. CASE ConectarPlanificador(e) \/ ConectarCoordinador(e)
             \/ OperacionBloqueada(e) \/ Abortar(e)
    BY <1>1, <2>3
    DEF ConectarPlanificador, ConectarCoordinador, OperacionBloqueada, Abortar, Salir,
        TypeOKEsi, PcEsi
  <2> QED BY <1>2, <2>1, <2>2, <2>3 DEF PasoEsi
<1> QED BY <1>3, <1>4, <1>7, <1>8 DEF IInv, TypeOK, InvPlan

-----------------------------------------------------------------------------
(* Coordinador.                                                            *)

LEMMA FuncionDeTipo ==
  \A id \in {21, 22, 23} : FuncionDe(id) \in {"GET", "SET", "STORE"}
BY DEF FuncionDe

LEMMA PreguntaDeTipo ==
  \A op \in {"GET", "SET", "STORE"} : PreguntaDe(op) \in {31, 32, 33}
BY DEF PreguntaDe

\* A thread host_esi keeps the types and publishes only operations with a key.
LEMMA HostEsiIInv ==
  ASSUME TypeOKRed, TypeOKCoord, MensajeAntesDeOperar, NEW e \in Esis, PasoHostEsi(e)
  PROVE  TypeOKRed' /\ TypeOKCoord' /\ MensajeAntesDeOperar'
<1>1. /\ \A n \in {22, 23, 24} : Cabecera(coord_esi[e], n) \in Seq(Mensaje({}))
      /\ esi_coord[e] # <<>> =>
           /\ Tail(esi_coord[e]) \in Seq(Mensaje(21..23))
           /\ Head(esi_coord[e]) \in Mensaje(21..23)
  <2>1. coord_esi[e] \in Seq(Mensaje({})) /\ esi_coord[e] \in Seq(Mensaje(21..23))
    BY DEF TypeOKRed
  <2> QED BY <2>1, CabeceraTipo, LlegaTipo
<1>2. TypeOKRed'
  <2>1. CASE HostEsi(e) \/ RecibirOperacion(e) \/ DesconectarEsi(e)
    BY <1>1, <2>1 DEF HostEsi, RecibirOperacion, DesconectarEsi, Llega, TypeOKRed
  <2>2. CASE PublicarOperacion(e) \/ PedirInstancia(e)
    BY <2>2 DEF PublicarOperacion, PedirInstancia, varsRed, TypeOKRed
  <2>3. CASE AbortarClaveNoPedida(e) \/ InstanciaCaida(e) \/ ConfirmarOperacion(e)
    <3>1. /\ \E n \in {23, 24} : coord_esi' = [coord_esi EXCEPT ![e] = Cabecera(@, n)]
          /\ UNCHANGED <<esi_plan, plan_esi, esi_coord, plan_coord, coord_plan>>
      BY <2>3 DEF AbortarClaveNoPedida, InstanciaCaida, ConfirmarOperacion
    <3> QED BY <1>1, <3>1 DEF TypeOKRed
  <2>4. CASE AbortarLineaInvalida(e)
    BY <1>1, <2>4 DEF AbortarLineaInvalida, Llega, TypeOKRed
  <2>5. CASE OperacionRechazada(e)
    BY <1>1, <2>5 DEF OperacionRechazada, TypeOKRed
  <2> QED BY <2>1, <2>2, <2>3, <2>4, <2>5 DEF PasoHostEsi
<1>3. TypeOKCoord' /\ MensajeAntesDeOperar'
  <2> USE DEF TypeOKCoord, MensajeAntesDeOperar, PcHe
  <2>1. CASE HostEsi(e)
    BY <2>1 DEF HostEsi
  <2>2. CASE RecibirOperacion(e)
    <3> DEFINE m == Head(esi_coord[e])
    <3>1. m.id \in {21, 22, 23} /\ m.clave \in Claves
      BY <1>1, <2>2 DEF RecibirOperacion, Llega, Mensaje
    <3>2. FuncionDe(m.id) \in {"GET", "SET", "STORE"}
      BY <3>1, FuncionDeTipo
    <3>3. message' = m.clave /\ funcion' = [funcion EXCEPT ![e] = FuncionDe(m.id)]
          /\ pc_he' = [pc_he EXCEPT ![e] = "preparada"]
          /\ UNCHANGED <<operation, key_is_not_blocked, semaforosCoord, blocked_keys,
                         pc_hs, atendido, asignadas>>
      BY <2>2 DEF RecibirOperacion
    <3> HIDE DEF m
    <3> QED BY <3>1, <3>2, <3>3, RedAssumption
  <2>3. CASE PublicarOperacion(e)
    BY <2>3 DEF PublicarOperacion, Operation
  <2>4. CASE AbortarClaveNoPedida(e) \/ AbortarLineaInvalida(e)
    BY <2>4 DEF AbortarClaveNoPedida, AbortarLineaInvalida, Operation
  <2>5. CASE OperacionRechazada(e) \/ InstanciaCaida(e)
    BY <2>5 DEF OperacionRechazada, InstanciaCaida
  <2>6. CASE PedirInstancia(e)
    BY <2>6 DEF PedirInstancia
  <2>7. CASE ConfirmarOperacion(e)
    BY <2>7 DEF ConfirmarOperacion
  <2>8. CASE DesconectarEsi(e)
    BY <2>8 DEF DesconectarEsi
  <2> QED
    BY <2>1, <2>2, <2>3, <2>4, <2>5, <2>6, <2>7, <2>8 DEF PasoHostEsi
<1> QED BY <1>2, <1>3

\* host_scheduler only passes on questions about a key.
LEMMA HostSchedulerIInv ==
  ASSUME TypeOKRed, TypeOKCoord, MensajeAntesDeOperar, PasoHostScheduler
  PROVE  TypeOKRed' /\ TypeOKCoord' /\ MensajeAntesDeOperar'
<1>1. /\ plan_coord # <<>> =>
           Tail(plan_coord) \in Seq(Mensaje({33})) /\ Head(plan_coord) \in Mensaje({33})
      /\ \A n \in {34, 35, 36, 37, 38} :
           /\ Cabecera(coord_plan, n) \in Seq(Mensaje(31..33))
           /\ Cabecera(Cabecera(coord_plan, n), Datos) \in Seq(Mensaje(31..33))
      /\ \A n \in {31, 32, 33}, k \in Claves : Con(coord_plan, n, k) \in Seq(Mensaje(31..33))
  <2>1. plan_coord \in Seq(Mensaje({33})) /\ coord_plan \in Seq(Mensaje(31..33))
    BY DEF TypeOKRed
  <2>2. ASSUME NEW n \in {34, 35, 36, 37, 38}
        PROVE  /\ Cabecera(coord_plan, n) \in Seq(Mensaje(31..33))
               /\ Cabecera(Cabecera(coord_plan, n), Datos) \in Seq(Mensaje(31..33))
    <3>1. n \in Nat /\ n \notin 31..33 /\ Datos \in Nat /\ Datos \notin 31..33
      BY DEF Datos
    <3>2. Cabecera(coord_plan, n) \in Seq(Mensaje(31..33))
      BY <2>1, <3>1, CabeceraTipo
    <3> QED BY <3>1, <3>2, CabeceraTipo
  <2>3. ASSUME NEW n \in {31, 32, 33}, NEW k \in Claves
        PROVE  Con(coord_plan, n, k) \in Seq(Mensaje(31..33))
    BY <2>1, ConTipo
  <2>4. plan_coord # <<>> =>
          Tail(plan_coord) \in Seq(Mensaje({33})) /\ Head(plan_coord) \in Mensaje({33})
    BY <2>1, LlegaTipo
  <2> QED BY <2>2, <2>3, <2>4
<1> USE DEF PcHs
<1>2. CASE EsperarEsi \/ AvisarInicio \/ AvisarAborto
  <2>1. TypeOKRed'
    BY <1>1, <1>2 DEF EsperarEsi, AvisarInicio, AvisarAborto, varsRed, TypeOKRed
  <2>2. TypeOKCoord' /\ MensajeAntesDeOperar'
    BY <1>2 DEF EsperarEsi, AvisarInicio, AvisarAborto, TypeOKCoord, MensajeAntesDeOperar
  <2> QED BY <2>1, <2>2
<1>3. CASE RecibirTurno \/ RecibirRespuestaPlan
  <2>1. TypeOKRed'
    <3>1. /\ plan_coord' = Tail(plan_coord) /\ plan_coord # <<>>
          /\ UNCHANGED <<esi_plan, plan_esi, esi_coord, coord_esi, coord_plan>>
      BY <1>3 DEF RecibirTurno, RecibirRespuestaPlan
    <3> QED BY <1>1, <3>1 DEF TypeOKRed
  <2>2. key_is_not_blocked' \in BOOLEAN
    BY <1>3 DEF RecibirTurno, RecibirRespuestaPlan, TypeOKCoord
  <2>3. TypeOKCoord' /\ MensajeAntesDeOperar'
    <3>1. CASE RecibirTurno
      BY <3>1 DEF RecibirTurno, TypeOKCoord, MensajeAntesDeOperar
    <3>2. CASE RecibirRespuestaPlan
      BY <3>2, <2>2 DEF RecibirRespuestaPlan, TypeOKCoord, MensajeAntesDeOperar
    <3> QED BY <1>3, <3>1, <3>2
  <2> QED BY <2>1, <2>3
<1>4. CASE ConsultarPlanificador
  <2>1. message \in Claves /\ PreguntaDe(operation) \in {31, 32, 33}
    BY <1>4, PreguntaDeTipo
    DEF ConsultarPlanificador, MensajeAntesDeOperar, TypeOKCoord
  <2>2. TypeOKRed'
    BY <1>1, <1>4, <2>1 DEF ConsultarPlanificador, TypeOKRed
  <2>3. TypeOKCoord' /\ MensajeAntesDeOperar'
    BY <1>4, <2>1, RedAssumption
    DEF ConsultarPlanificador, TypeOKCoord, MensajeAntesDeOperar
  <2> QED BY <2>2, <2>3
<1>5. CASE SimularStatus \/ PedirStatus
  <2>1. message' \in Claves
    BY <1>1, <1>5 DEF SimularStatus, PedirStatus, Llega, Mensaje
  <2>2. TypeOKRed'
    BY <1>1, <1>5 DEF SimularStatus, PedirStatus, Llega, TypeOKRed
  <2>3. TypeOKCoord' /\ MensajeAntesDeOperar'
    BY <1>5, <2>1, RedAssumption
    DEF SimularStatus, PedirStatus, TypeOKCoord, MensajeAntesDeOperar, Operation
  <2> QED BY <2>2, <2>3
<1>6. CASE ResponderStatus
  <2>1. TypeOKRed'
    BY <1>1, <1>6 DEF ResponderStatus, TypeOKRed
  <2>2. TypeOKCoord' /\ MensajeAntesDeOperar'
    BY <1>6 DEF ResponderStatus, TypeOKCoord, MensajeAntesDeOperar
  <2> QED BY <2>1, <2>2
<1> QED
  BY <1>2, <1>3, <1>4, <1>5, <1>6 DEF PasoHostScheduler

LEMMA HostInstanceIInv ==
  ASSUME TypeOKRed, TypeOKCoord, MensajeAntesDeOperar, PasoHostInstance
  PROVE  TypeOKRed' /\ TypeOKCoord' /\ MensajeAntesDeOperar'
<1>1. TypeOKRed'
  BY DEF PasoHostInstance, HostInstance, AtenderPedido, TerminarPedido, varsRed, TypeOKRed
<1>2. message' = message \/ message' = ClaveVacia
  BY DEF PasoHostInstance, HostInstance, AtenderPedido, TerminarPedido
<1>3. ClaveVacia \in Claves /\ ClaveVacia # SinClave
  BY RedAssumption
<1>4. TypeOKCoord'
  BY <1>2, <1>3
  DEF PasoHostInstance, HostInstance, AtenderPedido, TerminarPedido, TypeOKCoord
<1>5. MensajeAntesDeOperar'
  BY <1>2, <1>3
  DEF PasoHostInstance, HostInstance, AtenderPedido, TerminarPedido,
      MensajeAntesDeOperar
<1> QED BY <1>1, <1>4, <1>5

LEMMA CoordIInv ==
  ASSUME IInv, CoordActua(PasoCoord)
  PROVE  IInv'
<1>1. TypeOKRed /\ TypeOKEsi /\ TypeOKPlan /\ TypeOKCoord /\ InvPlan
      /\ MensajeAntesDeOperar
  BY DEF IInv, TypeOK, InvPlan
<1>2. PasoCoord /\ UNCHANGED varsPlan /\ UNCHANGED varsEsi
  BY DEF CoordActua
<1>3. TypeOKPlan' /\ InvPlan'
  BY <1>1, <1>2, PlanInalterado
<1>4. TypeOKEsi'
  BY <1>1, <1>2 DEF varsEsi, TypeOKEsi
<1>5. TypeOKRed' /\ TypeOKCoord' /\ MensajeAntesDeOperar'
  BY <1>1, <1>2, HostEsiIInv, HostSchedulerIInv, HostInstanceIInv DEF PasoCoord
<1> QED BY <1>3, <1>4, <1>5 DEF IInv, TypeOK, InvPlan

-----------------------------------------------------------------------------
(* Planificador: types.                                                    *)

\* What main sends and receives.
LEMMA CanalesDeMain ==
  ASSUME TypeOKRed
  PROVE  /\ coord_plan # <<>> =>
              Tail(coord_plan) \in Seq(Mensaje(31..33)) /\ Head(coord_plan) \in Mensaje(31..33)
         /\ Llega(coord_plan, 31..33) => Head(coord_plan).clave \in Claves
         /\ \A n \in {31, 32, 34, 35, 99} : Cabecera(plan_coord, n) \in Seq(Mensaje({33}))
         /\ \A e \in Esis : Cabecera(plan_esi[e], 21) \in Seq(Mensaje({}))
<1>1. /\ plan_coord \in Seq(Mensaje({33})) /\ coord_plan \in Seq(Mensaje(31..33))
      /\ \A e \in Esis : plan_esi[e] \in Seq(Mensaje({}))
  BY DEF TypeOKRed
<1>2. coord_plan # <<>> =>
        Tail(coord_plan) \in Seq(Mensaje(31..33)) /\ Head(coord_plan) \in Mensaje(31..33)
  BY <1>1, LlegaTipo
<1>3. Llega(coord_plan, 31..33) => Head(coord_plan).clave \in Claves
  BY <1>2 DEF Llega, Mensaje
<1>4. ASSUME NEW n \in {31, 32, 34, 35, 99}
      PROVE  Cabecera(plan_coord, n) \in Seq(Mensaje({33}))
  <2>1. n \in Nat /\ n \notin {33}
    BY <1>4
  <2> QED BY <1>1, <2>1, CabeceraTipo
<1>5. ASSUME NEW e \in Esis
      PROVE  Cabecera(plan_esi[e], 21) \in Seq(Mensaje({}))
  BY <1>1, CabeceraTipo
<1> QED BY <1>2, <1>3, <1>4, <1>5

LEMMA MainTipoRed ==
  ASSUME TypeOKRed, LocalesDeMain, PasoMain
  PROVE  TypeOKRed'
<1>1. CASE Ejecutar
  <2>1. un_esi \in Esis
    BY <1>1 DEF Ejecutar, LocalesDeMain
  <2> QED BY <1>1, <2>1, CanalesDeMain DEF Ejecutar, TypeOKRed
<1>2. CASE Preguntas
  <2>1. /\ coord_plan' = Tail(coord_plan) /\ coord_plan # <<>>
        /\ \/ plan_coord' = plan_coord
           \/ \E n \in {31, 32, 34, 35} : plan_coord' = Cabecera(plan_coord, n)
        /\ UNCHANGED <<esi_plan, plan_esi, esi_coord, coord_esi>>
    BY <1>2
    DEF Preguntas, ConcederClave, RechazarClave, LiberarClave, ConsultarSet, AvisoAborto,
        PreguntaInvalida, Llega
  <2>2. coord_plan' \in Seq(Mensaje(31..33))
    BY <2>1, CanalesDeMain
  <2>3. plan_coord' \in Seq(Mensaje({33}))
    <3>1. plan_coord \in Seq(Mensaje({33}))
      BY DEF TypeOKRed
    <3> QED BY <2>1, <3>1, CanalesDeMain
  <2> QED BY <2>1, <2>2, <2>3 DEF TypeOKRed
<1>3. CASE WaitStart
  BY <1>3, CanalesDeMain DEF WaitStart, TypeOKRed
<1>4. CASE UNCHANGED varsRed
  BY <1>4 DEF varsRed, TypeOKRed
<1> QED
  BY <1>1, <1>2, <1>3, <1>4
  DEF PasoMain, EsperaInicial, TomarEsi, TomarDeListaVacia, Ciclo, Pausa, EncolarEsi,
      DesbloquearEspera, DesbloquearNadie, RecibirRespuesta, Terminar, LiberarUna,
      FinLiberacion, Esperar, Ordenar

\* Letting the first waiter of a queue go.
LEMMA PrimeroTipo ==
  ASSUME TypeOKPlan, NEW k \in Claves, cola_esis_bloqueados[k] # <<>>
  PROVE  /\ Head(cola_esis_bloqueados[k]) \in Esis \cup {CONSOLA}
         /\ Head(cola_esis_bloqueados[k]) = cola_esis_bloqueados[k][1]
         /\ Tail(cola_esis_bloqueados[k]) \in Seq(Esis \cup {CONSOLA})
<1>1. cola_esis_bloqueados[k] \in Seq(Esis \cup {CONSOLA})
  BY DEF TypeOKPlan
<1> QED BY <1>1

LEMMA MainTipoPlan ==
  ASSUME TypeOKRed, TypeOKPlan, InvPlan, PasoMain
  PROVE  TypeOKPlan'
<1>1. LocalesDeMain /\ LiberadaSinConsola /\ ConsolaSoloEnCabeza
  BY DEF InvPlan
<1> USE DEF PcPlan, PcCon
<1>2. CASE EsperaInicial \/ WaitStart \/ TomarDeListaVacia \/ Ciclo \/ Pausa
  <2>1. CASE EsperaInicial
    BY <2>1 DEF EsperaInicial, TypeOKPlan
  <2>2. CASE WaitStart
    BY <2>2 DEF WaitStart, TypeOKPlan
  <2>3. CASE TomarDeListaVacia
    BY <2>3 DEF TomarDeListaVacia, TypeOKPlan
  <2>4. CASE Ciclo
    BY <2>4 DEF Ciclo, TypeOKPlan
  <2>5. CASE Pausa
    BY <2>5 DEF Pausa, TypeOKPlan
  <2> QED BY <1>2, <2>1, <2>2, <2>3, <2>4, <2>5
<1>3. CASE TomarEsi
  <2>1. un_esi' \in Esis /\ lista_ready' \in Seq(Esis)
    BY <1>3 DEF TomarEsi, TypeOKPlan
  <2>2. CASE pc_plan = "primero"
    BY <1>3, <2>1, <2>2 DEF TomarEsi, TypeOKPlan
  <2>3. CASE pc_plan = "elegir"
    <3>1. fin_de_esi' \in BOOLEAN
      BY <1>3, <2>3 DEF TomarEsi
    <3> QED BY <1>3, <2>1, <2>3, <3>1 DEF TomarEsi, TypeOKPlan
  <2> QED BY <1>3, <2>2, <2>3 DEF TomarEsi
<1>4. CASE Ejecutar \/ ConsultarSet \/ AvisoAborto \/ PreguntaInvalida
  <2>1. CASE Ejecutar
    BY <2>1 DEF Ejecutar, TypeOKPlan
  <2>2. CASE ConsultarSet
    BY <2>2 DEF ConsultarSet, TypeOKPlan
  <2>3. CASE AvisoAborto
    <3>1. abort_esi' \in BOOLEAN
      BY <2>3 DEF AvisoAborto
    <3> QED BY <2>3, <3>1 DEF AvisoAborto, TypeOKPlan
  <2>4. CASE PreguntaInvalida
    BY <2>4 DEF PreguntaInvalida, TypeOKPlan
  <2> QED BY <1>4, <2>1, <2>2, <2>3, <2>4
<1>5. CASE ConcederClave
  <2>1. un_esi \in Esis /\ Head(coord_plan).clave \in Claves
    BY <1>1, <1>5, CanalesDeMain DEF ConcederClave, LocalesDeMain, Llega
  <2>2. /\ claves_conocidas' \subseteq Claves
        /\ claves_bloqueadas_por_esis' \subseteq Esis \X Claves
        /\ mensaje' \in Claves
    BY <1>5, <2>1 DEF ConcederClave, TypeOKPlan
  <2>3. block' \in BOOLEAN
    BY <1>5 DEF ConcederClave
  <2> QED BY <1>5, <2>2, <2>3 DEF ConcederClave, TypeOKPlan
<1>6. CASE RechazarClave
  <2>1. Head(coord_plan).clave \in Claves
    BY <1>6, CanalesDeMain DEF RechazarClave, Llega
  <2>2. mensaje' \in Claves
    BY <1>6, <2>1 DEF RechazarClave
  <2>3. block' \in BOOLEAN
    BY <1>6 DEF RechazarClave
  <2> QED BY <1>6, <2>2, <2>3 DEF RechazarClave, TypeOKPlan
<1>7. CASE LiberarClave
  <2>1. Head(coord_plan).clave \in Claves
    BY <1>7, CanalesDeMain DEF LiberarClave, Llega
  <2> QED BY <1>7, <2>1 DEF LiberarClave, TypeOKPlan
<1>8. CASE EncolarEsi
  <2>1. mensaje \in Claves /\ un_esi \in Esis
    BY <1>1, <1>8 DEF EncolarEsi, LocalesDeMain
  <2>2. Append(cola_esis_bloqueados[mensaje], un_esi) \in Seq(Esis \cup {CONSOLA})
    BY <2>1 DEF TypeOKPlan
  <2> QED BY <1>8, <2>1, <2>2 DEF EncolarEsi, TypeOKPlan
<1>9. CASE DesbloquearEspera
  <2> DEFINE otro == Head(cola_esis_bloqueados[mensaje])
  <2>1. mensaje \in Claves /\ un_esi \in Esis
    BY <1>1, <1>9 DEF DesbloquearEspera, LocalesDeMain
  <2>2. cola_esis_bloqueados[mensaje] # <<>>
    BY <1>9 DEF DesbloquearEspera
  <2>3. otro \in Esis
    <3>1. 1 \in DOMAIN cola_esis_bloqueados[mensaje]
      BY <2>1, <2>2 DEF TypeOKPlan
    <3> QED
      BY <1>1, <1>9, <2>1, <2>2, <3>1, PrimeroTipo DEF LiberadaSinConsola, DesbloquearEspera
  <2>4. Tail(cola_esis_bloqueados[mensaje]) \in Seq(Esis \cup {CONSOLA})
    BY <2>1, <2>2, PrimeroTipo
  <2> HIDE DEF otro
  <2>5. Reestimar(otro) \in [Esis -> Estimacion] /\ EsiElegido(otro) \in Esis
    BY <2>1, <2>3, ReestimarTipo, ElegidoTipo
  <2>6. lista_ready' \in Seq(Esis)
    <3>1. ReadyCon(otro) \in Seq(Esis)
      BY <2>1, <2>3, ElegidoTipo
    <3>2. lista_ready' \in Ordenaciones(ReadyCon(otro), Reestimar(otro))
      BY <1>9 DEF DesbloquearEspera, otro
    <3> QED BY <3>1, <3>2, OrdenacionesTipo
  <2>7. estimacion' = Reestimar(otro) /\ un_esi' = EsiElegido(otro)
    BY <1>9 DEF DesbloquearEspera, otro
  <2> QED BY <1>9, <2>1, <2>4, <2>5, <2>6, <2>7 DEF DesbloquearEspera, TypeOKPlan
<1>10. CASE DesbloquearNadie
  BY <1>10 DEF DesbloquearNadie, TypeOKPlan
<1>11. CASE RecibirRespuesta
  <2>1. UpdateValues \in [Esis -> Estimacion]
    BY <1>1, <1>11, UpdateValuesTipo DEF RecibirRespuesta, LocalesDeMain
  <2>2. un_esi \in Esis
    BY <1>1, <1>11 DEF RecibirRespuesta, LocalesDeMain
  <2>3. fin_de_esi' \in BOOLEAN /\ abort_esi' \in BOOLEAN /\ status_mutex' \in BOOLEAN
    BY <1>11 DEF RecibirRespuesta
  <2>4. finished_esis' \in Seq(Esis) /\ esi_respuesta' \in Nat /\ pc_plan' \in PcPlan
    BY <1>11, <2>2 DEF RecibirRespuesta, TypeOKPlan
  <2> QED BY <1>11, <2>1, <2>3, <2>4 DEF RecibirRespuesta, TypeOKPlan
<1>12. CASE Terminar
  <2>1. un_esi \in Esis
    BY <1>1, <1>12 DEF Terminar, LocalesDeMain
  <2>2. CASE block
    BY <1>12, <2>2 DEF Terminar, TypeOKPlan
  <2>3. CASE ~block
    <3>1. finished_esis' \in Seq(Esis) /\ esi_saliente' \in Esis
      <4>1. finished_esis' = Append(finished_esis, un_esi) /\ esi_saliente' = un_esi
        BY <1>12, <2>3 DEF Terminar
      <4> QED BY <2>1, <4>1 DEF TypeOKPlan
    <3>2. abort_esi' \in BOOLEAN /\ pc_plan' \in PcPlan
      BY <1>12, <2>3 DEF Terminar
    <3> QED BY <1>12, <2>3, <3>1, <3>2 DEF Terminar, TypeOKPlan
  <2> QED BY <2>2, <2>3
<1>13. ASSUME NEW k \in Claves, LiberarUna(k) PROVE TypeOKPlan'
  <2> DEFINE otro == Head(cola_esis_bloqueados[k])
  <2>1. claves_bloqueadas_por_esis' \subseteq Esis \X Claves
    BY <1>13 DEF LiberarUna, TypeOKPlan
  <2>2. CASE cola_esis_bloqueados[k] = <<>>
    BY <1>13, <2>1, <2>2 DEF LiberarUna, TypeOKPlan
  <2>3. CASE cola_esis_bloqueados[k] # <<>>
    <3>1. otro \in Esis
      <4>1. \E e \in Esis : <<e, k>> \in claves_bloqueadas_por_esis
        BY <1>13 DEF LiberarUna, TypeOKPlan
      <4>2. 1 \in DOMAIN cola_esis_bloqueados[k]
        BY <2>3 DEF TypeOKPlan
      <4> QED BY <1>1, <2>3, <4>1, <4>2, PrimeroTipo DEF ConsolaSoloEnCabeza
    <3>2. Tail(cola_esis_bloqueados[k]) \in Seq(Esis \cup {CONSOLA})
      BY <2>3, PrimeroTipo
    <3> HIDE DEF otro
    <3>3. Reestimar(otro) \in [Esis -> Estimacion]
      BY <3>1, ReestimarTipo
    <3>4. /\ estimacion' = Reestimar(otro) /\ lista_ready' = Append(lista_ready, otro)
          /\ cola_esis_bloqueados' =
               [cola_esis_bloqueados EXCEPT ![k] = Tail(cola_esis_bloqueados[k])]
      BY <1>13, <2>3 DEF LiberarUna, otro
    <3>5. UNCHANGED <<algorithm, claves_conocidas, finished_esis, un_esi, banderas,
                      semaforos, locales, pc_plan, pc_hc, consola>>
      BY <1>13 DEF LiberarUna
    <3>6. cola_esis_bloqueados' \in [Claves -> Seq(Esis \cup {CONSOLA})]
      BY <3>2, <3>4 DEF TypeOKPlan
    <3>7. lista_ready' \in Seq(Esis)
      BY <3>1, <3>4 DEF TypeOKPlan
    <3> QED BY <2>1, <3>3, <3>4, <3>5, <3>6, <3>7 DEF TypeOKPlan
  <2> QED BY <2>2, <2>3
<1>14. CASE FinLiberacion \/ Esperar
  <2>1. CASE FinLiberacion
    <3>1. abort_esi' \in BOOLEAN
      BY <2>1 DEF FinLiberacion
    <3> QED BY <2>1, <3>1 DEF FinLiberacion, TypeOKPlan
  <2>2. CASE Esperar
    BY <2>2 DEF Esperar, TypeOKPlan
  <2> QED BY <1>14, <2>1, <2>2
<1>15. CASE Ordenar
  <2>1. lista_ready' \in Seq(Esis)
    BY <1>15, OrdenacionesTipo DEF Ordenar, TypeOKPlan
  <2> QED BY <1>15, <2>1 DEF Ordenar, TypeOKPlan
<1> QED
  BY <1>2, <1>3, <1>4, <1>5, <1>6, <1>7, <1>8, <1>9, <1>10, <1>11, <1>12, <1>13, <1>14,
     <1>15 DEF PasoMain, Preguntas

-----------------------------------------------------------------------------
(* Planificador: main keeps InvPlan.                                       *)

\* Steps that touch neither a queue nor an owner.
LEMMA ColasInalteradas ==
  ASSUME InvPlan, pc_plan' \notin {"encolar", "desbloquear"},
         UNCHANGED <<claves_conocidas, cola_esis_bloqueados, claves_bloqueadas_por_esis>>,
         un_esi' = un_esi \/ un_esi' \in Esis
  PROVE  /\ NadieEsperaAlInicio' /\ LiberadaSinConsola' /\ ConsolaSoloEnCabeza'
         /\ SoloConocidas' /\ ClaveDeUnSoloEsi'
<1>1. NadieEsperaAlInicio' /\ LiberadaSinConsola'
  BY PlanificadorAssumption DEF InvPlan, NadieEsperaAlInicio, LiberadaSinConsola
<1>2. ConsolaSoloEnCabeza'
  BY DEF InvPlan, ConsolaSoloEnCabeza
<1>3. SoloConocidas' /\ ClaveDeUnSoloEsi'
  BY DEF InvPlan, SoloConocidas, ClaveDeUnSoloEsi
<1> QED BY <1>1, <1>2, <1>3

\* The first waiter of the key that unlock_key released is an ESI.
LEMMA PrimeroLiberado ==
  ASSUME TypeOKPlan, InvPlan, pc_plan = "desbloquear",
         cola_esis_bloqueados[mensaje] # <<>>
  PROVE  /\ mensaje \in Claves /\ un_esi \in Esis
         /\ Head(cola_esis_bloqueados[mensaje]) \in Esis
<1>1. mensaje \in Claves /\ un_esi \in Esis
  BY DEF InvPlan, LocalesDeMain
<1>2. 1 \in DOMAIN cola_esis_bloqueados[mensaje]
  BY <1>1 DEF TypeOKPlan
<1>3. cola_esis_bloqueados[mensaje][1] # CONSOLA
  BY <1>2 DEF InvPlan, LiberadaSinConsola
<1> QED BY <1>1, <1>3, PrimeroTipo

\* So is the first waiter of a key that has an owner.
LEMMA PrimeroDeConDuenio ==
  ASSUME TypeOKPlan, InvPlan, NEW k \in Claves, cola_esis_bloqueados[k] # <<>>,
         NEW e \in Esis, <<e, k>> \in claves_bloqueadas_por_esis
  PROVE  Head(cola_esis_bloqueados[k]) \in Esis
<1>1. 1 \in DOMAIN cola_esis_bloqueados[k]
  BY DEF TypeOKPlan
<1>2. cola_esis_bloqueados[k][1] # CONSOLA
  BY <1>1 DEF InvPlan, ConsolaSoloEnCabeza
<1> QED BY <1>2, PrimeroTipo

\* Taking the head of a queue away brings no mark to another place.
LEMMA ColaSinPrimero ==
  ASSUME NEW S, NEW cola \in Seq(S), cola # <<>>
  PROVE  \A i \in DOMAIN Tail(cola) : i + 1 \in DOMAIN cola /\ Tail(cola)[i] = cola[i + 1]
OBVIOUS

\* The counts of FichasContadas for each step of main.
LEMMA MainFichas ==
  ASSUME TypeOKPlan, InvPlan, PasoMain
  PROVE  FichasContadas'
<1>1. FichasContadas /\ lista_ready \in Seq(Esis) /\ hay_esis \in Nat
  BY DEF InvPlan, TypeOKPlan
<1> USE DEF FichasContadas, TomaPendiente
<1>11. UNCHANGED <<stop, pc_con, pc_hc>>
  BY DEF PasoMain, EsperaInicial, WaitStart, TomarEsi, TomarDeListaVacia, Ciclo, Pausa,
         Ejecutar, Preguntas, ConcederClave, RechazarClave, LiberarClave, ConsultarSet,
         AvisoAborto, PreguntaInvalida, EncolarEsi, DesbloquearEspera, DesbloquearNadie,
         RecibirRespuesta, Terminar, LiberarUna, FinLiberacion, Esperar, Ordenar
<1>2. CASE EsperaInicial \/ WaitStart
  BY <1>1, <1>11, <1>2 DEF EsperaInicial, WaitStart
<1>3. CASE TomarEsi
  BY <1>1, <1>11, <1>3 DEF TomarEsi
<1>4. CASE TomarDeListaVacia \/ Ciclo \/ Pausa \/ Ejecutar
  BY <1>1, <1>11, <1>4 DEF TomarDeListaVacia, Ciclo, Pausa, Ejecutar
<1>5. CASE Preguntas
  BY <1>1, <1>11, <1>5
  DEF Preguntas, ConcederClave, RechazarClave, LiberarClave, ConsultarSet, AvisoAborto,
      PreguntaInvalida
<1>6. CASE EncolarEsi \/ DesbloquearNadie
  BY <1>1, <1>11, <1>6 DEF EncolarEsi, DesbloquearNadie
<1>7. CASE DesbloquearEspera
  <2> DEFINE otro == Head(cola_esis_bloqueados[mensaje])
  <2>1. Len(lista_ready') = Len(lista_ready) + 1
    <3>1. un_esi \in Esis /\ otro \in Esis
      BY <1>7, PrimeroLiberado DEF DesbloquearEspera
    <3>2. ReadyCon(otro) \in Seq(Esis) /\ Len(ReadyCon(otro)) = Len(lista_ready) + 1
      BY <3>1, ElegidoTipo
    <3>3. lista_ready' \in Ordenaciones(ReadyCon(otro), Reestimar(otro))
      BY <1>7 DEF DesbloquearEspera
    <3> HIDE DEF otro
    <3> QED BY <3>2, <3>3, OrdenacionesTipo
  <2>2. hay_esis' = hay_esis + 1 /\ pc_plan = "desbloquear" /\ pc_plan' = "respuesta"
        /\ UNCHANGED <<pc_hc, stop>>
    BY <1>7 DEF DesbloquearEspera
  <2> QED BY <1>1, <1>11, <2>1, <2>2
<1>8. CASE RecibirRespuesta \/ Terminar \/ FinLiberacion \/ Esperar
  BY <1>1, <1>11, <1>8 DEF RecibirRespuesta, Terminar, FinLiberacion, Esperar
<1>9. ASSUME NEW k \in Claves, LiberarUna(k) PROVE FichasContadas'
  <2>1. lista_ready' = lista_ready \/ \E o : lista_ready' = Append(lista_ready, o)
    BY <1>9 DEF LiberarUna
  <2>2. pc_plan = "liberando" /\ UNCHANGED <<pc_plan, hay_esis, pc_hc, stop>>
    BY <1>9 DEF LiberarUna
  <2>3. Len(lista_ready') \in {Len(lista_ready), Len(lista_ready) + 1}
    BY <1>1, <1>11, <2>1
  <2> QED BY <1>1, <1>11, <2>2, <2>3
<1>10. CASE Ordenar
  <2>1. CASE stop
    BY <1>1, <1>11, <1>10, <2>1 DEF Ordenar
  <2>2. CASE ~stop
    <3>1. lista_ready' \in Seq(Esis) /\ Len(lista_ready') = Len(lista_ready)
      BY <1>1, <1>11, <1>10, <2>2, OrdenacionesTipo DEF Ordenar
    <3>2. pc_plan = "ordenar" /\ pc_plan' = "elegir" /\ UNCHANGED <<hay_esis, pc_hc, stop>>
      BY <1>10, <2>2 DEF Ordenar
    <3> QED BY <1>1, <1>11, <2>2, <3>1, <3>2
  <2> QED BY <2>1, <2>2
<1> QED
  BY <1>2, <1>3, <1>4, <1>5, <1>6, <1>7, <1>8, <1>9, <1>10 DEF PasoMain

LEMMA MainColas ==
  ASSUME TypeOKRed, TypeOKPlan, InvPlan, PasoMain
  PROVE  /\ LocalesDeMain' /\ NadieEsperaAlInicio' /\ LiberadaSinConsola'
         /\ ConsolaSoloEnCabeza' /\ SoloConocidas' /\ ClaveDeUnSoloEsi'
<1>1. LocalesDeMain /\ NadieEsperaAlInicio /\ LiberadaSinConsola /\ ConsolaSoloEnCabeza
      /\ SoloConocidas /\ ClaveDeUnSoloEsi
  BY DEF InvPlan
<1>2. CASE EsperaInicial \/ WaitStart \/ TomarDeListaVacia \/ Ciclo \/ Pausa \/ Ejecutar
  <2>1. LocalesDeMain'
    BY <1>1, <1>2
    DEF EsperaInicial, WaitStart, TomarDeListaVacia, Ciclo, Pausa, Ejecutar, LocalesDeMain
  <2> QED
    BY <1>2, <2>1, ColasInalteradas
    DEF EsperaInicial, WaitStart, TomarDeListaVacia, Ciclo, Pausa, Ejecutar
<1>3. CASE TomarEsi
  <2>1. un_esi' \in Esis
    BY <1>3 DEF TomarEsi, TypeOKPlan
  <2>2. LocalesDeMain'
    BY <1>1, <1>3, <2>1 DEF TomarEsi, LocalesDeMain
  <2> QED BY <1>3, <2>1, <2>2, ColasInalteradas DEF TomarEsi
<1>4. CASE ConsultarSet \/ AvisoAborto \/ PreguntaInvalida
  <2>1. LocalesDeMain'
    BY <1>1, <1>4 DEF ConsultarSet, AvisoAborto, PreguntaInvalida, LocalesDeMain
  <2> QED
    BY <1>4, <2>1, ColasInalteradas DEF ConsultarSet, AvisoAborto, PreguntaInvalida
<1>5. CASE ConcederClave
  <2> DEFINE k == Head(coord_plan).clave
  <2>1. k \in Claves /\ un_esi \in Esis
    BY <1>1, <1>5, CanalesDeMain DEF ConcederClave, LocalesDeMain, Llega
  <2>2. cola_esis_bloqueados[k] = <<>>
        /\ \A p \in claves_bloqueadas_por_esis : p[2] # k
    <3>1. PuedeTomar(k)
      BY <1>5 DEF ConcederClave
    <3>2. \A p \in claves_bloqueadas_por_esis : p \in Esis \X Claves
      BY DEF TypeOKPlan
    <3> HIDE DEF k
    <3>3. CASE k \notin claves_conocidas
      BY <1>1, <2>1, <3>3 DEF SoloConocidas
    <3>4. CASE cola_esis_bloqueados[k] = <<>> /\ ~IsKeyBlocked(k)
      BY <3>2, <3>4 DEF IsKeyBlocked
    <3> QED BY <3>1, <3>3, <3>4 DEF PuedeTomar
  <2>3. /\ claves_conocidas' = claves_conocidas \cup {k}
        /\ claves_bloqueadas_por_esis' = claves_bloqueadas_por_esis \cup {<<un_esi, k>>}
        /\ pc_plan' = "respuesta"
        /\ UNCHANGED <<cola_esis_bloqueados, un_esi, pc_con, clave_con>>
    BY <1>5 DEF ConcederClave
  <2> HIDE DEF k
  <2>4. LocalesDeMain' /\ NadieEsperaAlInicio' /\ LiberadaSinConsola'
    BY <1>1, <2>1, <2>3 DEF LocalesDeMain, NadieEsperaAlInicio, LiberadaSinConsola
  <2>5. ConsolaSoloEnCabeza'
    BY <1>1, <2>2, <2>3 DEF ConsolaSoloEnCabeza
  <2>6. SoloConocidas'
    BY <1>1, <2>3 DEF SoloConocidas
  <2>7. ClaveDeUnSoloEsi'
    BY <1>1, <2>2, <2>3 DEF ClaveDeUnSoloEsi
  <2> QED BY <2>4, <2>5, <2>6, <2>7
<1>6. CASE RechazarClave
  <2> DEFINE k == Head(coord_plan).clave
  <2>1. k \in Claves /\ un_esi \in Esis
    BY <1>1, <1>6, CanalesDeMain DEF RechazarClave, LocalesDeMain, Llega
  <2>2. k \in claves_conocidas
    BY <1>6 DEF RechazarClave, PuedeTomar
  <2>3. /\ mensaje' = k /\ pc_plan' = "encolar"
        /\ UNCHANGED <<claves_conocidas, cola_esis_bloqueados, claves_bloqueadas_por_esis,
                       un_esi, pc_con, clave_con>>
    BY <1>6 DEF RechazarClave
  <2> HIDE DEF k
  <2>4. LocalesDeMain' /\ NadieEsperaAlInicio' /\ LiberadaSinConsola'
    BY <1>1, <2>1, <2>3 DEF LocalesDeMain, NadieEsperaAlInicio, LiberadaSinConsola
  <2>5. ConsolaSoloEnCabeza' /\ ClaveDeUnSoloEsi'
    BY <1>1, <2>3 DEF ConsolaSoloEnCabeza, ClaveDeUnSoloEsi
  <2>6. SoloConocidas'
    BY <1>1, <2>2, <2>3 DEF SoloConocidas
  <2> QED BY <2>4, <2>5, <2>6
<1>7. CASE LiberarClave
  <2> DEFINE k == Head(coord_plan).clave
  <2>1. k \in Claves /\ un_esi \in Esis
    BY <1>1, <1>7, CanalesDeMain DEF LiberarClave, LocalesDeMain, Llega
  <2>2. CASE ~EsiHasKey(k)
    <3>1. LocalesDeMain'
      BY <1>1, <1>7, <2>1, <2>2 DEF LiberarClave, LocalesDeMain
    <3> QED BY <1>7, <2>2, <3>1, ColasInalteradas DEF LiberarClave
  <2>3. CASE EsiHasKey(k)
    <3>1. /\ claves_bloqueadas_por_esis' \subseteq claves_bloqueadas_por_esis
          /\ mensaje' = k /\ pc_plan' = "desbloquear"
          /\ UNCHANGED <<claves_conocidas, cola_esis_bloqueados, un_esi, pc_con, clave_con>>
      BY <1>7, <2>3 DEF LiberarClave
    <3>2. \A i \in DOMAIN cola_esis_bloqueados[k] : cola_esis_bloqueados[k][i] # CONSOLA
      BY <1>1, <2>1, <2>3 DEF ConsolaSoloEnCabeza, EsiHasKey
    <3> HIDE DEF k
    <3>3. LocalesDeMain' /\ NadieEsperaAlInicio' /\ LiberadaSinConsola'
      BY <1>1, <2>1, <3>1, <3>2 DEF LocalesDeMain, NadieEsperaAlInicio, LiberadaSinConsola
    <3>4. ConsolaSoloEnCabeza'
      BY <1>1, <3>1 DEF ConsolaSoloEnCabeza
    <3>5. SoloConocidas' /\ ClaveDeUnSoloEsi'
      BY <1>1, <3>1 DEF SoloConocidas, ClaveDeUnSoloEsi
    <3> QED BY <3>3, <3>4, <3>5
  <2> QED BY <2>2, <2>3
<1>8. CASE EncolarEsi
  <2>1. /\ mensaje \in Claves /\ un_esi \in Esis /\ mensaje \in claves_conocidas
        /\ cola_esis_bloqueados[mensaje] \in Seq(Esis \cup {CONSOLA})
    BY <1>1, <1>8 DEF EncolarEsi, LocalesDeMain, SoloConocidas, TypeOKPlan
  <2>2. /\ cola_esis_bloqueados' =
             [cola_esis_bloqueados EXCEPT ![mensaje] = Append(@, un_esi)]
        /\ pc_plan' = "respuesta"
        /\ UNCHANGED <<claves_conocidas, claves_bloqueadas_por_esis, un_esi, pc_con,
                       clave_con>>
    BY <1>8 DEF EncolarEsi
  <2>3. LocalesDeMain' /\ NadieEsperaAlInicio' /\ LiberadaSinConsola'
    BY <1>1, <2>1, <2>2, PlanificadorAssumption
    DEF LocalesDeMain, NadieEsperaAlInicio, LiberadaSinConsola
  <2>4. ASSUME NEW k \in Claves, NEW i \in DOMAIN cola_esis_bloqueados'[k],
               cola_esis_bloqueados'[k][i] = CONSOLA
        PROVE  i \in DOMAIN cola_esis_bloqueados[k] /\ cola_esis_bloqueados[k][i] = CONSOLA
    <3>1. CASE k = mensaje
      <4>1. cola_esis_bloqueados'[k] = Append(cola_esis_bloqueados[mensaje], un_esi)
        BY <2>1, <2>2, <3>1 DEF TypeOKPlan
      <4>2. un_esi # CONSOLA
        BY <2>1, PlanificadorAssumption
      <4> QED BY <2>1, <2>4, <3>1, <4>1, <4>2
    <3>2. CASE k # mensaje
      BY <2>2, <2>4, <3>2 DEF TypeOKPlan
    <3> QED BY <3>1, <3>2
  <2>5. ConsolaSoloEnCabeza'
    BY <1>1, <2>2, <2>4 DEF ConsolaSoloEnCabeza
  <2>6. SoloConocidas' /\ ClaveDeUnSoloEsi'
    BY <1>1, <2>1, <2>2 DEF SoloConocidas, ClaveDeUnSoloEsi, TypeOKPlan
  <2> QED BY <2>3, <2>5, <2>6
<1>9. CASE DesbloquearEspera
  <2> DEFINE otro == Head(cola_esis_bloqueados[mensaje])
  <2>1. /\ mensaje \in Claves /\ un_esi \in Esis /\ otro \in Esis
        /\ pc_plan = "desbloquear" /\ cola_esis_bloqueados[mensaje] # <<>>
        /\ cola_esis_bloqueados[mensaje] \in Seq(Esis \cup {CONSOLA})
    BY <1>9, PrimeroLiberado DEF DesbloquearEspera, TypeOKPlan
  <2>2. un_esi' \in Esis
    <3>1. EsiElegido(otro) \in Esis
      BY <2>1, ElegidoTipo
    <3> QED BY <1>9, <3>1 DEF DesbloquearEspera
  <2>3. /\ cola_esis_bloqueados' =
             [cola_esis_bloqueados EXCEPT ![mensaje] = Tail(@)]
        /\ pc_plan' = "respuesta"
        /\ UNCHANGED <<claves_conocidas, claves_bloqueadas_por_esis, pc_con, clave_con>>
    BY <1>9 DEF DesbloquearEspera
  <2> HIDE DEF otro
  <2>4. LocalesDeMain' /\ NadieEsperaAlInicio' /\ LiberadaSinConsola'
    BY <1>1, <2>2, <2>3, PlanificadorAssumption
    DEF LocalesDeMain, NadieEsperaAlInicio, LiberadaSinConsola
  <2>5. ConsolaSoloEnCabeza'
    BY <1>1, <2>1, <2>3, ColaSinPrimero
    DEF ConsolaSoloEnCabeza, LiberadaSinConsola, TypeOKPlan
  <2>6. SoloConocidas' /\ ClaveDeUnSoloEsi'
    BY <1>1, <2>1, <2>3 DEF SoloConocidas, ClaveDeUnSoloEsi, TypeOKPlan
  <2> QED BY <2>4, <2>5, <2>6
<1>10. CASE DesbloquearNadie
  <2>1. LocalesDeMain'
    BY <1>1, <1>10 DEF DesbloquearNadie, LocalesDeMain
  <2> QED BY <1>10, <2>1, ColasInalteradas DEF DesbloquearNadie
<1>11. CASE RecibirRespuesta \/ Terminar
  <2>1. LocalesDeMain'
    BY <1>1, <1>11 DEF RecibirRespuesta, Terminar, LocalesDeMain
  <2> QED BY <1>11, <2>1, ColasInalteradas DEF RecibirRespuesta, Terminar
<1>12. ASSUME NEW k \in Claves, LiberarUna(k)
       PROVE  /\ LocalesDeMain' /\ NadieEsperaAlInicio' /\ LiberadaSinConsola'
              /\ ConsolaSoloEnCabeza' /\ SoloConocidas' /\ ClaveDeUnSoloEsi'
  <2>1. PICK e \in Esis : <<e, k>> \in claves_bloqueadas_por_esis
    BY <1>12 DEF LiberarUna, TypeOKPlan
  <2>2. /\ claves_bloqueadas_por_esis' \subseteq claves_bloqueadas_por_esis
        /\ \/ cola_esis_bloqueados' = cola_esis_bloqueados
           \/ /\ cola_esis_bloqueados[k] # <<>>
              /\ cola_esis_bloqueados' =
                   [cola_esis_bloqueados EXCEPT ![k] = Tail(@)]
        /\ pc_plan = "liberando"
        /\ UNCHANGED <<claves_conocidas, un_esi, pc_plan, mensaje, pc_con, clave_con>>
    BY <1>12 DEF LiberarUna
  <2>3. cola_esis_bloqueados[k] \in Seq(Esis \cup {CONSOLA})
    BY DEF TypeOKPlan
  <2>4. LocalesDeMain' /\ NadieEsperaAlInicio' /\ LiberadaSinConsola'
    BY <1>1, <2>2, PlanificadorAssumption
    DEF LocalesDeMain, NadieEsperaAlInicio, LiberadaSinConsola
  <2>5. ConsolaSoloEnCabeza'
    <3>1. CASE cola_esis_bloqueados' = cola_esis_bloqueados
      BY <1>1, <2>2, <3>1 DEF ConsolaSoloEnCabeza
    <3>2. CASE /\ cola_esis_bloqueados[k] # <<>>
               /\ cola_esis_bloqueados' = [cola_esis_bloqueados EXCEPT ![k] = Tail(@)]
      <4>1. \A i \in DOMAIN Tail(cola_esis_bloqueados[k]) :
              Tail(cola_esis_bloqueados[k])[i] # CONSOLA
        BY <1>1, <2>1, <2>3, <3>2, ColaSinPrimero DEF ConsolaSoloEnCabeza
      <4> QED BY <1>1, <2>2, <3>2, <4>1 DEF ConsolaSoloEnCabeza, TypeOKPlan
    <3> QED BY <2>2, <3>1, <3>2
  <2>6. SoloConocidas' /\ ClaveDeUnSoloEsi'
    BY <1>1, <2>2 DEF SoloConocidas, ClaveDeUnSoloEsi, TypeOKPlan
  <2> QED BY <2>4, <2>5, <2>6
<1>13. CASE FinLiberacion \/ Esperar \/ Ordenar
  <2>1. LocalesDeMain'
    BY <1>1, <1>13 DEF FinLiberacion, Esperar, Ordenar, LocalesDeMain
  <2> QED BY <1>13, <2>1, ColasInalteradas DEF FinLiberacion, Esperar, Ordenar
<1> QED
  BY <1>2, <1>3, <1>4, <1>5, <1>6, <1>7, <1>8, <1>9, <1>10, <1>11, <1>12, <1>13
  DEF PasoMain, Preguntas

-----------------------------------------------------------------------------
(* Planificador: HostConnections.                                          *)

LEMMA HostConnectionsIInv ==
  ASSUME TypeOKRed, TypeOKPlan, InvPlan, PasoHostConnections
  PROVE  TypeOKRed' /\ TypeOKPlan' /\ InvPlan'
<1>1. LocalesDeMain /\ NadieEsperaAlInicio /\ LiberadaSinConsola /\ ConsolaSoloEnCabeza
      /\ SoloConocidas /\ ClaveDeUnSoloEsi /\ FichasContadas
  BY DEF InvPlan
<1>2. UNCHANGED <<cola_esis_bloqueados, claves_conocidas, claves_bloqueadas_por_esis,
                  un_esi, pc_plan, mensaje, pc_con, clave_con, stop>>
  BY DEF PasoHostConnections, NuevoEsi, RespuestaEsi, AvisarNuevoEsi
<1>3. LocalesDeMain' /\ NadieEsperaAlInicio' /\ LiberadaSinConsola'
  BY <1>1, <1>2 DEF LocalesDeMain, NadieEsperaAlInicio, LiberadaSinConsola
<1>4. ConsolaSoloEnCabeza' /\ SoloConocidas' /\ ClaveDeUnSoloEsi'
  BY <1>1, <1>2 DEF ConsolaSoloEnCabeza, SoloConocidas, ClaveDeUnSoloEsi
<1>5. ASSUME NEW e \in Esis, esi_plan[e] # <<>>
      PROVE  Tail(esi_plan[e]) \in Seq(Mensaje({}))
  BY <1>5, LlegaTipo DEF TypeOKRed
<1>6. ASSUME NEW e \in Esis, NuevoEsi(e)
      PROVE  TypeOKRed' /\ TypeOKPlan' /\ FichasContadas'
  <2>1. TypeOKRed'
    BY <1>5, <1>6 DEF NuevoEsi, Llega, TypeOKRed
  <2>2. estimacion' \in [Esis -> Estimacion]
    <3>1. [contador |-> 0, espera |-> 0, estimada |-> 100 * EstimacionInicial,
           previa |-> 100 * EstimacionInicial] \in Estimacion
      BY PlanificadorAssumption DEF Estimacion
    <3> QED BY <1>6, <3>1 DEF NuevoEsi, TypeOKPlan
  <2>3. lista_ready' \in Seq(Esis) /\ Len(lista_ready') = Len(lista_ready) + 1
    BY <1>6 DEF NuevoEsi, TypeOKPlan
  <2>4. TypeOKPlan'
    BY <1>6, <2>2, <2>3 DEF NuevoEsi, TypeOKPlan
  <2>5. FichasContadas'
    <3>1. /\ pc_hc = "select" /\ pc_hc' = "post"
          /\ UNCHANGED <<hay_esis, pc_plan, stop, pc_con>>
      BY <1>6 DEF NuevoEsi
    <3>2. Len(lista_ready) \in Nat /\ hay_esis \in Nat
      BY DEF TypeOKPlan
    <3>3. lista_ready' # <<>>
      BY <2>3, <3>2
    <3> QED BY <1>1, <2>3, <3>1, <3>2, <3>3 DEF FichasContadas, TomaPendiente
  <2> QED BY <2>1, <2>4, <2>5
<1>7. ASSUME AvisarNuevoEsi
      PROVE  TypeOKRed' /\ TypeOKPlan' /\ FichasContadas'
  <2>1. TypeOKRed'
    BY <1>7 DEF AvisarNuevoEsi, varsRed, TypeOKRed
  <2>2. TypeOKPlan'
    BY <1>7 DEF AvisarNuevoEsi, TypeOKPlan
  <2>3. FichasContadas'
    BY <1>1, <1>7 DEF AvisarNuevoEsi, FichasContadas, TomaPendiente, TypeOKPlan
  <2> QED BY <2>1, <2>2, <2>3
<1>8. ASSUME NEW e \in Esis, RespuestaEsi(e)
      PROVE  TypeOKRed' /\ TypeOKPlan' /\ FichasContadas'
  <2>1. TypeOKRed'
    BY <1>5, <1>8 DEF RespuestaEsi, Llega, TypeOKRed
  <2>2. respuesta_ok' \in BOOLEAN /\ fin_de_esi' \in BOOLEAN /\ abort_esi' \in BOOLEAN
    BY <1>8 DEF RespuestaEsi
  <2>3. esi_respuesta' \in Nat
        /\ UNCHANGED <<algorithm, listas, un_esi, estimacion, block, hay_esis, status_mutex,
                       pause_mutex, locales, pc_plan, pc_hc, consola>>
    BY <1>8 DEF RespuestaEsi, TypeOKPlan
  <2>4. TypeOKPlan'
    BY <2>2, <2>3 DEF TypeOKPlan
  <2>5. FichasContadas'
    BY <1>1, <2>3 DEF FichasContadas, TomaPendiente
  <2> QED BY <2>1, <2>4, <2>5
<1>9. TypeOKRed' /\ TypeOKPlan' /\ FichasContadas'
  <2>1. CASE \E e \in Esis : NuevoEsi(e) \/ RespuestaEsi(e)
    BY <2>1, <1>6, <1>8
  <2> QED BY <1>7, <2>1 DEF PasoHostConnections
<1> QED BY <1>3, <1>4, <1>9 DEF InvPlan

-----------------------------------------------------------------------------
(* Planificador: Console.                                                  *)

LEMMA ConsolaTipoRed ==
  ASSUME TypeOKRed, PasoConsola
  PROVE  TypeOKRed'
<1>1. coord_plan # <<>> => Tail(coord_plan) \in Seq(Mensaje(31..33))
  BY CanalesDeMain
<1>2. ASSUME NEW k \in Claves, ConsolaStatus(k) PROVE TypeOKRed'
  <2>1. Con(plan_coord, 33, k) \in Seq(Mensaje({33}))
    BY ConTipo DEF TypeOKRed
  <2> QED BY <1>2, <2>1 DEF ConsolaStatus, TypeOKRed
<1>3. CASE ConsolaRecibeStatus \/ ConsolaRecibeDatos
  BY <1>1, <1>3 DEF ConsolaRecibeStatus, ConsolaRecibeDatos, TypeOKRed
<1>4. CASE UNCHANGED varsRed
  BY <1>4 DEF varsRed, TypeOKRed
<1> QED
  BY <1>2, <1>3, <1>4
  DEF PasoConsola, ConsolaExit, ConsolaPause, ConsolaResume, ConsolaBlock, ConsolaUnlock,
      ConsolaDesbloqueo

LEMMA FuncionEsSeq ==
  ASSUME NEW S, NEW n \in Nat, NEW s \in [1..n -> S]
  PROVE  s \in Seq(S)
BY SeqDef

\* Without its mark a queue only holds ESIs.
LEMMA SinMarcaTipo ==
  ASSUME NEW cola \in Seq(Esis \cup {CONSOLA}),
         \A i \in DOMAIN cola : cola[i] = CONSOLA => i = 1
  PROVE  /\ SinMarca(cola) \in Seq(Esis)
         /\ SinMarca(cola) # <<>> => \E i \in DOMAIN cola : cola[i] # CONSOLA
<1>1. CASE cola # <<>> /\ Head(cola) = CONSOLA
  <2>1. SinMarca(cola) = Tail(cola)
    BY <1>1 DEF SinMarca
  <2>2. Tail(cola) \in Seq(Esis \cup {CONSOLA})
    BY <1>1
  <2>3. ASSUME NEW i \in 1..Len(Tail(cola))
        PROVE  i + 1 \in DOMAIN cola /\ cola[i + 1] # CONSOLA /\ Tail(cola)[i] \in Esis
    <3>1. i + 1 \in DOMAIN cola /\ Tail(cola)[i] = cola[i + 1] /\ i + 1 # 1
      BY <1>1
    <3>2. Tail(cola)[i] \in Esis \cup {CONSOLA}
      BY <2>2, ElementOfSeq
    <3> QED BY <3>1, <3>2
  <2>4. Tail(cola) \in [1..Len(Tail(cola)) -> Esis]
    BY <2>2, <2>3, LenProperties
  <2>5. Tail(cola) \in Seq(Esis)
    <3>1. Len(Tail(cola)) \in Nat
      BY <2>2
    <3> QED BY <2>4, <3>1, FuncionEsSeq
  <2>6. Tail(cola) # <<>> => 1 \in 1..Len(Tail(cola))
    BY <2>2
  <2> QED BY <2>1, <2>3, <2>5, <2>6
<1>2. CASE cola = <<>>
  BY <1>2 DEF SinMarca
<1>3. CASE cola # <<>> /\ Head(cola) # CONSOLA
  <2>1. SinMarca(cola) = cola
    BY <1>3 DEF SinMarca
  <2>2. cola[1] # CONSOLA /\ 1 \in 1..Len(cola)
    BY <1>3
  <2>3. \A i \in 1..Len(cola) : cola[i] \in Esis
    BY <2>2, ElementOfSeq, LenProperties
  <2>4. cola \in [1..Len(cola) -> Esis]
    BY <2>3, LenProperties
  <2>5. cola \in Seq(Esis)
    BY <2>4, LenProperties
  <2> QED BY <2>1, <2>2, <2>5, LenProperties
<1> QED BY <1>1, <1>2, <1>3

\* When UNLOCK lets a waiter go, it is an ESI, and main has chosen one before.
LEMMA EsperaDeConsola ==
  ASSUME TypeOKPlan, InvPlan, pc_con = "desbloqueo"
  PROVE  LET espera == SinMarca(cola_esis_bloqueados[clave_con]) IN
         /\ clave_con \in Claves
         /\ espera \in Seq(Esis)
         /\ espera # <<>> => un_esi \in Esis /\ cola_esis_bloqueados[clave_con] # <<>>
<1> DEFINE cola == cola_esis_bloqueados[clave_con]
<1>1. clave_con \in Claves
  BY DEF InvPlan, LocalesDeMain
<1>2. cola \in Seq(Esis \cup {CONSOLA})
  BY <1>1 DEF TypeOKPlan
<1>3. \A i \in DOMAIN cola : cola[i] = CONSOLA => i = 1
  BY <1>1 DEF InvPlan, ConsolaSoloEnCabeza
<1>4. un_esi = Ninguno => \A i \in DOMAIN cola : cola[i] = CONSOLA
  BY <1>1 DEF InvPlan, NadieEsperaAlInicio
<1>5. un_esi \in Esis \cup {Ninguno}
  BY DEF TypeOKPlan
<1> HIDE DEF cola
<1>6. /\ SinMarca(cola) \in Seq(Esis)
      /\ SinMarca(cola) # <<>> => \E i \in DOMAIN cola : cola[i] # CONSOLA
  BY <1>2, <1>3, SinMarcaTipo
<1>7. SinMarca(cola) # <<>> => un_esi \in Esis
  BY <1>4, <1>5, <1>6
<1>8. SinMarca(cola) # <<>> => cola # <<>>
  BY DEF SinMarca
<1> QED BY <1>1, <1>6, <1>7, <1>8 DEF cola

LEMMA ConsolaIInv ==
  ASSUME TypeOKPlan, InvPlan, PasoConsola
  PROVE  TypeOKPlan' /\ InvPlan'
<1>1. LocalesDeMain /\ NadieEsperaAlInicio /\ LiberadaSinConsola /\ ConsolaSoloEnCabeza
      /\ SoloConocidas /\ ClaveDeUnSoloEsi /\ FichasContadas
  BY DEF InvPlan
<1>2. hay_esis \in Nat /\ Len(lista_ready) \in Nat
  BY DEF TypeOKPlan
<1>3. CASE ConsolaExit
  <2>1. /\ pc_con = "lista" /\ stop' = TRUE /\ pc_con' = "fin" /\ hay_esis' = hay_esis + 1
        /\ pause_mutex' = FALSE /\ tecleados' = tecleados + 1
        /\ UNCHANGED <<algorithm, listas, un_esi, estimacion, banderas, esi_respuesta,
                       status_mutex, locales, pc_plan, pc_hc, clave_con>>
    BY <1>3 DEF ConsolaExit, Teclear
  <2>2. stop' \in BOOLEAN /\ pause_mutex' \in BOOLEAN
    BY <2>1
  <2>3. TypeOKPlan'
    BY <2>1, <2>2 DEF TypeOKPlan, PcCon
  <2>4. FichasContadas'
    BY <1>1, <1>2, <2>1 DEF FichasContadas, TomaPendiente
  <2>5. LocalesDeMain' /\ NadieEsperaAlInicio' /\ LiberadaSinConsola'
    BY <1>1, <2>1 DEF LocalesDeMain, NadieEsperaAlInicio, LiberadaSinConsola
  <2>6. ConsolaSoloEnCabeza' /\ SoloConocidas' /\ ClaveDeUnSoloEsi'
    BY <1>1, <2>1 DEF ConsolaSoloEnCabeza, SoloConocidas, ClaveDeUnSoloEsi
  <2> QED BY <2>3, <2>4, <2>5, <2>6 DEF InvPlan
<1>4. CASE \/ ConsolaPause \/ ConsolaResume \/ ConsolaBlock
           \/ \E k \in Claves : ConsolaStatus(k)
           \/ ConsolaRecibeStatus \/ ConsolaRecibeDatos
  <2>1. /\ pc_con' \in PcCon \ {"desbloqueo"} /\ tecleados' \in Nat
        /\ pc_con # "fin"
        /\ UNCHANGED <<algorithm, listas, un_esi, estimacion, banderas, hay_esis,
                       esi_respuesta, locales, pc_plan, pc_hc, stop, clave_con>>
    BY <1>4
    DEF ConsolaPause, ConsolaResume, ConsolaBlock, ConsolaStatus, ConsolaRecibeStatus,
        ConsolaRecibeDatos, Teclear, PcCon, TypeOKPlan
  <2>2. status_mutex' \in BOOLEAN /\ pause_mutex' \in BOOLEAN
    <3>1. CASE ConsolaPause \/ ConsolaResume
      BY <3>1 DEF ConsolaPause, ConsolaResume, TypeOKPlan
    <3>2. CASE ConsolaBlock \/ \E k \in Claves : ConsolaStatus(k)
      BY <3>2 DEF ConsolaBlock, ConsolaStatus, TypeOKPlan
    <3>3. CASE ConsolaRecibeStatus
      BY <3>3 DEF ConsolaRecibeStatus, RespuestaEsperada, TypeOKPlan
    <3>4. CASE ConsolaRecibeDatos
      BY <3>4 DEF ConsolaRecibeDatos, TypeOKPlan
    <3> QED BY <1>4, <3>1, <3>2, <3>3, <3>4
  <2>3. TypeOKPlan'
    BY <2>1, <2>2 DEF TypeOKPlan
  <2>4. FichasContadas'
    BY <1>1, <2>1 DEF FichasContadas, TomaPendiente
  <2>5. LocalesDeMain' /\ NadieEsperaAlInicio' /\ LiberadaSinConsola'
    BY <1>1, <2>1 DEF LocalesDeMain, NadieEsperaAlInicio, LiberadaSinConsola
  <2>6. ConsolaSoloEnCabeza' /\ SoloConocidas' /\ ClaveDeUnSoloEsi'
    BY <1>1, <2>1 DEF ConsolaSoloEnCabeza, SoloConocidas, ClaveDeUnSoloEsi
  <2> QED BY <2>3, <2>4, <2>5, <2>6 DEF InvPlan
<1>5. ASSUME NEW k \in Claves, ConsolaUnlock(k) PROVE TypeOKPlan' /\ InvPlan'
  <2>1. /\ pc_con = "lista" /\ clave_con' = k /\ pc_con' = "desbloqueo"
        /\ tecleados' = tecleados + 1
        /\ UNCHANGED <<algorithm, lista_ready, claves_conocidas, cola_esis_bloqueados,
                       finished_esis, un_esi, estimacion, banderas, semaforos, locales,
                       pc_plan, pc_hc, stop>>
    BY <1>5 DEF ConsolaUnlock, Teclear
  <2>2. claves_bloqueadas_por_esis' \subseteq claves_bloqueadas_por_esis
    BY <1>5 DEF ConsolaUnlock
  <2>3. TypeOKPlan'
    BY <2>1, <2>2 DEF TypeOKPlan, PcCon
  <2>4. FichasContadas'
    BY <1>1, <2>1 DEF FichasContadas, TomaPendiente
  <2>5. LocalesDeMain' /\ NadieEsperaAlInicio' /\ LiberadaSinConsola'
    BY <1>1, <2>1 DEF LocalesDeMain, NadieEsperaAlInicio, LiberadaSinConsola
  <2>6. ConsolaSoloEnCabeza' /\ SoloConocidas' /\ ClaveDeUnSoloEsi'
    BY <1>1, <2>1, <2>2 DEF ConsolaSoloEnCabeza, SoloConocidas, ClaveDeUnSoloEsi
  <2> QED BY <2>3, <2>4, <2>5, <2>6 DEF InvPlan
<1>6. CASE ConsolaDesbloqueo
  <2> DEFINE espera == SinMarca(cola_esis_bloqueados[clave_con])
             otro == Head(espera)
  <2>1. /\ pc_con = "desbloqueo" /\ pc_con' = "lista" /\ clave_con' = SinClave
        /\ UNCHANGED <<algorithm, claves_conocidas, claves_bloqueadas_por_esis,
                       finished_esis, banderas, esi_respuesta, status_mutex, pause_mutex,
                       locales, pc_plan, pc_hc, stop, tecleados>>
    BY <1>6 DEF ConsolaDesbloqueo
  <2>2. /\ clave_con \in Claves
        /\ espera \in Seq(Esis)
        /\ espera # <<>> => un_esi \in Esis /\ cola_esis_bloqueados[clave_con] # <<>>
    BY <2>1, EsperaDeConsola
  <2>3. PICK resto \in Seq(Esis) :
          /\ cola_esis_bloqueados' = [cola_esis_bloqueados EXCEPT ![clave_con] = resto]
          /\ resto # <<>> => espera # <<>>
    <3>1. CASE espera = <<>>
      <4>1. cola_esis_bloqueados' = [cola_esis_bloqueados EXCEPT ![clave_con] = <<>>]
        BY <1>6, <3>1 DEF ConsolaDesbloqueo
      <4>2. <<>> \in Seq(Esis)
        OBVIOUS
      <4> QED BY <4>1, <4>2
    <3>2. CASE espera # <<>>
      <4>1. Tail(espera) \in Seq(Esis)
        BY <2>2, <3>2, LlegaTipo
      <4>2. cola_esis_bloqueados' =
              [cola_esis_bloqueados EXCEPT ![clave_con] = Tail(espera)]
        BY <1>6, <3>2 DEF ConsolaDesbloqueo
      <4> QED BY <3>2, <4>1, <4>2
    <3> QED BY <3>1, <3>2
  <2>4. /\ estimacion' \in [Esis -> Estimacion] /\ lista_ready' \in Seq(Esis)
        /\ un_esi' = un_esi \/ un_esi' \in Esis
        /\ \/ UNCHANGED <<lista_ready, hay_esis>>
           \/ hay_esis' = hay_esis + 1 /\ Len(lista_ready') = Len(lista_ready) + 1
    <3>1. CASE espera = <<>>
      BY <1>6, <3>1 DEF ConsolaDesbloqueo, TypeOKPlan
    <3>2. CASE espera # <<>>
      <4>1. /\ estimacion' = Reestimar(otro) /\ un_esi' = EsiElegido(otro)
            /\ lista_ready' = ReadyCon(otro) /\ hay_esis' = hay_esis + 1
        BY <1>6, <3>2 DEF ConsolaDesbloqueo
      <4>2. otro \in Esis /\ un_esi \in Esis
        BY <2>2, <3>2, LlegaTipo
      <4> HIDE DEF otro
      <4> QED BY <4>1, <4>2, ReestimarTipo, ElegidoTipo
    <3> QED BY <3>1, <3>2
  <2> HIDE DEF espera
  <2>5. TypeOKPlan'
    <3>1. cola_esis_bloqueados' \in [Claves -> Seq(Esis \cup {CONSOLA})]
      BY <2>2, <2>3, SeqMonotonic DEF TypeOKPlan
    <3>2. hay_esis' \in Nat /\ un_esi' \in Esis \cup {Ninguno}
      BY <1>2, <2>4 DEF TypeOKPlan
    <3> QED BY <2>1, <2>4, <3>1, <3>2 DEF TypeOKPlan, PcCon
  <2>6. FichasContadas'
    <3>1. pc_plan = "elegir" => lista_ready' # <<>>
      BY <1>1, <1>2, <2>4 DEF FichasContadas
    <3> QED BY <1>1, <1>2, <2>1, <2>4, <3>1 DEF FichasContadas, TomaPendiente
  <2>7. \A i \in DOMAIN resto : resto[i] # CONSOLA
    BY <2>3, ElementOfSeq, LenProperties, PlanificadorAssumption
  <2>8. \A k \in Claves : cola_esis_bloqueados'[k] =
          IF k = clave_con THEN resto ELSE cola_esis_bloqueados[k]
    BY <2>2, <2>3 DEF TypeOKPlan
  <2>9. LocalesDeMain'
    BY <1>1, <2>1, <2>4 DEF LocalesDeMain
  <2>10. NadieEsperaAlInicio'
    <3>1. CASE un_esi' = Ninguno
      <4>1. un_esi = Ninguno
        BY <2>4, <3>1, PlanificadorAssumption
      <4>2. resto = <<>>
        BY <2>2, <2>3, <4>1, PlanificadorAssumption
      <4> QED BY <1>1, <2>8, <4>1, <4>2 DEF NadieEsperaAlInicio
    <3>2. CASE un_esi' # Ninguno
      BY <3>2 DEF NadieEsperaAlInicio
    <3> QED BY <3>1, <3>2
  <2>11. LiberadaSinConsola'
    BY <1>1, <2>1, <2>7, <2>8 DEF LiberadaSinConsola, LocalesDeMain
  <2>12. ConsolaSoloEnCabeza'
    BY <1>1, <2>1, <2>7, <2>8 DEF ConsolaSoloEnCabeza
  <2>13. SoloConocidas' /\ ClaveDeUnSoloEsi'
    BY <1>1, <2>1, <2>2, <2>3, <2>8 DEF SoloConocidas, ClaveDeUnSoloEsi
  <2> QED BY <2>5, <2>6, <2>9, <2>10, <2>11, <2>12, <2>13 DEF InvPlan
<1> QED BY <1>3, <1>4, <1>5, <1>6 DEF PasoConsola

LEMMA PlanIInv ==
  ASSUME IInv, PlanActua(PasoPlan)
  PROVE  IInv'
<1>1. TypeOKRed /\ TypeOKEsi /\ TypeOKPlan /\ TypeOKCoord /\ InvPlan
      /\ MensajeAntesDeOperar
  BY DEF IInv, TypeOK, InvPlan
<1>2. PasoPlan /\ UNCHANGED <<varsEsi, varsCoord>>
  BY DEF PlanActua
<1>3. TypeOKEsi' /\ TypeOKCoord' /\ MensajeAntesDeOperar'
  BY <1>1, <1>2, RestoInalterado
<1>4. TypeOKRed' /\ TypeOKPlan' /\ InvPlan'
  <2>1. CASE PasoMain
    <3>1. TypeOKRed' /\ TypeOKPlan' /\ FichasContadas'
      BY <1>1, <2>1, MainTipoRed, MainTipoPlan, MainFichas DEF InvPlan
    <3>2. /\ LocalesDeMain' /\ NadieEsperaAlInicio' /\ LiberadaSinConsola'
          /\ ConsolaSoloEnCabeza' /\ SoloConocidas' /\ ClaveDeUnSoloEsi'
      BY <1>1, <2>1, MainColas
    <3> QED BY <3>1, <3>2 DEF InvPlan
  <2>2. CASE PasoHostConnections
    BY <1>1, <2>2, HostConnectionsIInv
  <2>3. CASE PasoConsola
    BY <1>1, <2>3, ConsolaTipoRed, ConsolaIInv
  <2> QED BY <1>2, <2>1, <2>2, <2>3 DEF PasoPlan
<1> QED BY <1>1, <1>3, <1>4 DEF IInv, TypeOK, InvPlan

-----------------------------------------------------------------------------
(* The theorems.                                                           *)

\* IInv holds of every reachable state: of every interleaving of main,
\* HostConnections, Console, the ESIs and the Coordinador's threads.
THEOREM Invariante == Spec => []IInv
<1>1. Init => IInv
  BY InicioIInv
<1>2. IInv /\ [Next]_vars => IInv'
  <2> SUFFICES ASSUME IInv, [Next]_vars PROVE IInv'
    OBVIOUS
  <2>1. ASSUME NEW e \in Esis, EsiActua(e) PROVE IInv'
    BY <2>1, EsiIInv
  <2>2. CASE PlanActua(PasoPlan)
    BY <2>2, PlanIInv
  <2>3. CASE CoordActua(PasoCoord)
    BY <2>3, CoordIInv
  <2>4. CASE UNCHANGED vars
    <3>1. UNCHANGED <<varsRed, varsEsi, varsPlan, varsCoord>>
      BY <2>4 DEF vars
    <3>2. TypeOKPlan' /\ InvPlan'
      BY <3>1, PlanInalterado DEF IInv, TypeOK, InvPlan
    <3>3. TypeOKEsi' /\ TypeOKCoord' /\ MensajeAntesDeOperar'
      BY <3>1, RestoInalterado DEF IInv, TypeOK
    <3>4. TypeOKRed'
      BY <3>1 DEF IInv, TypeOK, varsRed, TypeOKRed
    <3> QED BY <3>2, <3>3, <3>4 DEF IInv, TypeOK, InvPlan
  <2> QED BY <2>1, <2>2, <2>3, <2>4 DEF Next
<1> QED BY <1>1, <1>2, PTL DEF Spec

\* Every variable and every channel keeps its type.
THEOREM Tipos == Spec => []TypeOK
<1>1. IInv => TypeOK
  BY DEF IInv
<1> QED BY <1>1, Invariante, PTL

\* Exclusion: check_key never gives a key a second owner, whatever the
\* operator unlocks while it runs.
THEOREM Exclusion == Spec => []ClaveDeUnSoloEsi
<1>1. IInv => ClaveDeUnSoloEsi
  BY DEF IInv
<1> QED BY <1>1, Invariante, PTL

\* The mark of a key blocked by the operator stays at the head of its queue and
\* its key has no owner: unlock_key and release_key never schedule the mark.
THEOREM MarcaDeConsola == Spec => []ConsolaSoloEnCabeza
<1>1. IInv => ConsolaSoloEnCabeza
  BY DEF IInv
<1> QED BY <1>1, Invariante, PTL

\* The semaphore hay_esis never counts an ESI that is not in the ready list.
THEOREM Fichas == Spec => []FichasRespaldadas
<1>1. IInv => FichasRespaldadas
  <2> SUFFICES ASSUME IInv PROVE FichasRespaldadas
    OBVIOUS
  <2>1. hay_esis \in Nat /\ Len(lista_ready) \in Nat
    BY DEF IInv, TypeOK, TypeOKPlan
  <2> QED BY <2>1 DEF IInv, FichasContadas, FichasRespaldadas, TomaPendiente
<1> QED BY <1>1, Invariante, PTL
=============================================================================
