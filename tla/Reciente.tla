------------------------------ MODULE Reciente ------------------------------
(***************************************************************************)
(* What "LRU" promises when every value fits in one entry: the keys stand  *)
(* in the order of their last SET, the newest first; a new key pushes out  *)
(* the oldest one, and only when the table is full.                        *)
(***************************************************************************)
EXTENDS Naturals, Sequences

CONSTANTS Claves, Capacidad

VARIABLE orden  \* the keys in the table, the one set last first

Sin(k) == SelectSeq(orden, LAMBDA c : c # k)
Contiene(k) == \E i \in DOMAIN orden : orden[i] = k

Init == orden = <<>>

Usar(k) == Contiene(k) /\ orden' = <<k>> \o Sin(k)

Agregar(k) == ~Contiene(k) /\ Len(orden) < Capacidad /\ orden' = <<k>> \o orden

Desalojar == Len(orden) = Capacidad /\ orden' = SubSeq(orden, 1, Capacidad - 1)

Perder == orden' = <<>>

Next == (\E k \in Claves : Usar(k) \/ Agregar(k)) \/ Desalojar \/ Perder

Spec == Init /\ [][Next]_orden
=============================================================================
