-------------------------------- MODULE Red --------------------------------
(***************************************************************************)
(* The sockets between the processes of ReDistinto: a TCP stream is a FIFO *)
(* sequence of messages.  A message is the content_header the C code sends *)
(* (its id) together with the key that follows it.  Two items are not      *)
(* headers: Datos, a payload whose reader is chosen by the header before   *)
(* it (the answer to STATUS), and Cierre, what recv() reports as 0 once    *)
(* the peer has gone.                                                      *)
(***************************************************************************)
EXTENDS Integers, Sequences, Functions

CONSTANTS
  Esis,        \* the ESI processes
  Claves,      \* the keys
  ClaveVacia,  \* the empty string, a key no script and no command names
  SinClave,    \* the key field of a message without payload
  Guiones      \* the assignments of scripts to ESIs to explore

Operaciones == {"GET", "SET", "STORE", "INVALIDA"}
Linea == [op : Operaciones, clave : Claves \ {ClaveVacia}]

ASSUME RedAssumption ==
  /\ SinClave \notin Claves
  /\ ClaveVacia \in Claves
  /\ Guiones \subseteq [Esis -> Seq(Linea)]

Datos == 1
Cierre == 0

\* A message whose header is one of conClave carries a key.
Mensaje(conClave) ==
  {m \in [id : Nat, clave : Claves \cup {SinClave}] : m.id \in conClave => m.clave \in Claves}

VARIABLES
  esi_plan,    \* esi_plan[e]: from ESI e to the Planificador
  plan_esi,    \* plan_esi[e]: from the Planificador to ESI e
  esi_coord,   \* esi_coord[e]: from ESI e to the Coordinador
  coord_esi,   \* coord_esi[e]: from the Coordinador to ESI e
  plan_coord,  \* from the Planificador to the Coordinador
  coord_plan   \* from the Coordinador to the Planificador

varsRed == <<esi_plan, plan_esi, esi_coord, coord_esi, plan_coord, coord_plan>>

Con(canal, id, clave) == Append(canal, [id |-> id, clave |-> clave])
Cabecera(canal, id) == Con(canal, id, SinClave)
Llega(canal, ids) == canal # <<>> /\ Head(canal).id \in ids

InitRed ==
  /\ esi_plan = [e \in Esis |-> <<>>]
  /\ plan_esi = [e \in Esis |-> <<>>]
  /\ esi_coord = [e \in Esis |-> <<>>]
  /\ coord_esi = [e \in Esis |-> <<>>]
  /\ plan_coord = <<>>
  /\ coord_plan = <<>>

TypeOKRed ==
  /\ esi_plan \in [Esis -> Seq(Mensaje({}))]
  /\ plan_esi \in [Esis -> Seq(Mensaje({}))]
  /\ esi_coord \in [Esis -> Seq(Mensaje(21..23))]
  /\ coord_esi \in [Esis -> Seq(Mensaje({}))]
  /\ plan_coord \in Seq(Mensaje({33}))
  /\ coord_plan \in Seq(Mensaje(31..33))
=============================================================================
