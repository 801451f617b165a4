--------------------------- MODULE MCDistribucion ---------------------------
(***************************************************************************)
(* Instances, keys and bounds to model-check Distribucion with TLC.        *)
(***************************************************************************)
EXTENDS Distribucion

CONSTANTS InstI, InstJ, InstK, cx, cy, vv, vw

\* 'C' and 'R' fall to different Instances, with two and with three of them.
LetrasXY == [k \in Claves |-> IF k = cx THEN 67 ELSE 82]
=============================================================================
