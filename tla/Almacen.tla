------------------------------ MODULE Almacen ------------------------------
(***************************************************************************)
(* What an Instancia promises to the Coordinador: a map from keys to       *)
(* values of bounded size.  A key that is there is changed in place and    *)
(* nothing else changes with it.  A key that is not there is asked for     *)
(* first; while it waits other keys may be replaced, then it is stored.    *)
(* A process that dies loses everything.  No step invents a value, mixes   *)
(* two values, or changes the value of a key nobody asked for.             *)
(***************************************************************************)
CONSTANTS Claves, Valores, Ausente

VARIABLES
  valores,  \* valores[k]: the value the store would answer for k, or Ausente
  pedido    \* the key and value being stored, or Ausente

vars == <<valores, pedido>>

Presentes == {k \in Claves : valores[k] # Ausente}
Sin(R) == [k \in Claves |-> IF k \in R THEN Ausente ELSE valores[k]]

Init == valores = [k \in Claves |-> Ausente] /\ pedido = Ausente

Cambiar(k, v) ==
  /\ pedido = Ausente /\ valores[k] # Ausente
  /\ UNCHANGED pedido
  /\ valores' = [valores EXCEPT ![k] = v]

Pedir(k, v) ==
  /\ pedido = Ausente /\ valores[k] = Ausente
  /\ pedido' = [clave |-> k, valor |-> v]
  /\ UNCHANGED valores

Reemplazar ==
  /\ pedido # Ausente
  /\ UNCHANGED pedido
  /\ \E R \in SUBSET Presentes : valores' = Sin(R)

Guardar ==
  /\ pedido # Ausente
  /\ pedido' = Ausente
  /\ \E R \in SUBSET (Presentes \ {pedido.clave}) :
       valores' = [Sin(R) EXCEPT ![pedido.clave] = pedido.valor]

Perder ==
  /\ pedido' = Ausente
  /\ valores' = [k \in Claves |-> Ausente]

Next ==
  \/ \E k \in Claves, v \in Valores : Cambiar(k, v) \/ Pedir(k, v)
  \/ Reemplazar \/ Guardar \/ Perder

Spec == Init /\ [][Next]_vars
=============================================================================
