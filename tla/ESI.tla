-------------------------------- MODULE ESI --------------------------------
(***************************************************************************)
(* An ESI process: it runs its script one line at a time, only when the    *)
(* Planificador tells it to (header 21), asking the Coordinador for each   *)
(* operation and reporting the outcome to the Planificador.                *)
(***************************************************************************)
EXTENDS Red

VARIABLES
  guion,         \* guion[e]: the script file given to e
  pc_esi,        \* pc_esi[e]: where e is in main()
  linea,         \* linea[e]: lines of the script read so far
  flag_blocked   \* flag_blocked[e]: the last line was refused, run it again

varsEsi == <<guion, pc_esi, linea, flag_blocked>>

PcEsi == {"inicio", "conectar", "listo", "espera", "fin"}

InitEsi ==
  /\ guion \in Guiones
  /\ pc_esi = [e \in Esis |-> "inicio"]
  /\ linea = [e \in Esis |-> 0]
  /\ flag_blocked = [e \in Esis |-> FALSE]

TypeOKEsi ==
  /\ guion \in Guiones
  /\ pc_esi \in [Esis -> PcEsi]
  /\ linea \in [Esis -> Nat]
  /\ flag_blocked \in [Esis -> BOOLEAN]

\* The line to run after `leidas` lines were read; reading past the end of the
\* script is handled by parse_line() exactly as a line that does not parse.
LineaValida(e, leidas) ==
  leidas \in DOMAIN guion[e] /\ guion[e][leidas].op # "INVALIDA"

IdDe(op) == CASE op = "GET" -> 21 [] op = "SET" -> 22 [] op = "STORE" -> 23

\* exit(): both sockets are closed; only the Coordinador keeps state for them.
Salir(e) ==
  /\ pc_esi' = [pc_esi EXCEPT ![e] = "fin"]
  /\ esi_coord' = [esi_coord EXCEPT ![e] = Cabecera(@, Cierre)]

ConectarPlanificador(e) ==
  /\ pc_esi[e] = "inicio"
  /\ pc_esi' = [pc_esi EXCEPT ![e] = "conectar"]
  /\ esi_plan' = [esi_plan EXCEPT ![e] = Cabecera(@, 20)]
  /\ UNCHANGED <<guion, linea, flag_blocked, plan_esi, esi_coord, coord_esi,
                 plan_coord, coord_plan>>

ConectarCoordinador(e) ==
  /\ pc_esi[e] = "conectar"
  /\ pc_esi' = [pc_esi EXCEPT ![e] = "listo"]
  /\ esi_coord' = [esi_coord EXCEPT ![e] = Cabecera(@, 20)]
  /\ UNCHANGED <<guion, linea, flag_blocked, esi_plan, plan_esi, coord_esi,
                 plan_coord, coord_plan>>

\* Header 21: read the next line, unless the last one is still pending, and
\* send it (25 when it is not a valid line).
EjecutarLinea(e) ==
  LET leidas == IF flag_blocked[e] THEN linea[e] ELSE linea[e] + 1 IN
  /\ pc_esi[e] = "listo"
  /\ Llega(plan_esi[e], {21})
  /\ plan_esi' = [plan_esi EXCEPT ![e] = Tail(@)]
  /\ linea' = [linea EXCEPT ![e] = leidas]
  /\ esi_coord' = [esi_coord EXCEPT ![e] =
       IF LineaValida(e, leidas)
       THEN Con(@, IdDe(guion[e][leidas].op), guion[e][leidas].clave)
       ELSE Cabecera(@, 25)]
  /\ pc_esi' = [pc_esi EXCEPT ![e] = "espera"]
  /\ UNCHANGED <<guion, flag_blocked, esi_plan, coord_esi, plan_coord, coord_plan>>

\* The Coordinador did the operation: 24 and exit after the last line, else 22.
OperacionHecha(e) ==
  /\ pc_esi[e] = "espera"
  /\ LineaValida(e, linea[e])
  /\ Llega(coord_esi[e], {23})
  /\ coord_esi' = [coord_esi EXCEPT ![e] = Tail(@)]
  /\ \/ /\ linea[e] = Len(guion[e])
        /\ esi_plan' = [esi_plan EXCEPT ![e] = Cabecera(@, 24)]
        /\ Salir(e)
        /\ UNCHANGED flag_blocked
     \/ /\ linea[e] # Len(guion[e])
        /\ esi_plan' = [esi_plan EXCEPT ![e] = Cabecera(@, 22)]
        /\ flag_blocked' = [flag_blocked EXCEPT ![e] = FALSE]
        /\ pc_esi' = [pc_esi EXCEPT ![e] = "listo"]
        /\ UNCHANGED esi_coord
  /\ UNCHANGED <<guion, linea, plan_esi, plan_coord, coord_plan>>

OperacionBloqueada(e) ==
  /\ pc_esi[e] = "espera"
  /\ LineaValida(e, linea[e])
  /\ Llega(coord_esi[e], {22})
  /\ coord_esi' = [coord_esi EXCEPT ![e] = Tail(@)]
  /\ flag_blocked' = [flag_blocked EXCEPT ![e] = TRUE]
  /\ esi_plan' = [esi_plan EXCEPT ![e] = Cabecera(@, 23)]
  /\ pc_esi' = [pc_esi EXCEPT ![e] = "listo"]
  /\ UNCHANGED <<guion, linea, plan_esi, esi_coord, plan_coord, coord_plan>>

\* 24 from the Coordinador, or any answer to an invalid line: report 25, exit.
Abortar(e) ==
  /\ pc_esi[e] = "espera"
  /\ coord_esi[e] # <<>>
  /\ LineaValida(e, linea[e]) => Head(coord_esi[e]).id \notin {22, 23}
  /\ coord_esi' = [coord_esi EXCEPT ![e] = Tail(@)]
  /\ esi_plan' = [esi_plan EXCEPT ![e] = Cabecera(@, 25)]
  /\ Salir(e)
  /\ UNCHANGED <<guion, linea, flag_blocked, plan_esi, plan_coord, coord_plan>>

PasoEsi(e) ==
  \/ ConectarPlanificador(e)
  \/ ConectarCoordinador(e)
  \/ EjecutarLinea(e)
  \/ OperacionHecha(e)
  \/ OperacionBloqueada(e)
  \/ Abortar(e)
=============================================================================
