---------------------------- MODULE MCInstancia ----------------------------
(***************************************************************************)
(* Keys, values and bounds to model-check Instancia with TLC.              *)
(***************************************************************************)
EXTENDS Instancia

CONSTANTS cx, cy, cz, CX, la, lb

CasoIgual == [k \in Claves \cup {vacio} |-> k]
CasoDistinto == [k \in Claves \cup {vacio} |-> IF k = CX THEN cx ELSE k]

Simetria == Permutations(Claves) \cup Permutations(Letras)
=============================================================================
