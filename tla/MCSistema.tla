----------------------------- MODULE MCSistema -----------------------------
(***************************************************************************)
(* Scripts and bounds to model-check Sistema with TLC.                     *)
(***************************************************************************)
EXTENDS Sistema

CONSTANTS A, B, C, x, y, vacia

GetL(k) == [op |-> "GET", clave |-> k]
SetL(k) == [op |-> "SET", clave |-> k]
StoreL(k) == [op |-> "STORE", clave |-> k]
MalL(k) == [op |-> "INVALIDA", clave |-> k]

EscribeX == <<GetL(x), SetL(x), StoreL(x)>>
EscribeY == <<GetL(y), SetL(y), StoreL(y)>>
TomaAmbas == <<GetL(x), GetL(y), SetL(x)>>
CruzaXY == <<GetL(x), GetL(y), StoreL(y), StoreL(x)>>
TomaYDeja == <<GetL(x), StoreL(x)>>
SinPedir == <<SetL(x)>>
Corrupto == <<GetL(x), MalL(x)>>

DosEsis == {A, B}
TresEsis == {A, B, C}
DosClaves == {x, y, vacia}

Pares(S) == {[e \in DosEsis |-> IF e = A THEN p[1] ELSE p[2]] : p \in S}
Trios(S) == {[e \in TresEsis |-> CASE e = A -> t[1] [] e = B -> t[2] [] e = C -> t[3]] :
               t \in S}

\* Well behaved and faulty programs side by side.
GuionesMixtos ==
  Pares({<<EscribeX, TomaAmbas>>, <<Corrupto, EscribeX>>, <<SinPedir, EscribeY>>,
         <<TomaAmbas, <<>> >>})

\* Programs that store every key they take, no two of which wait for the same
\* key; A waits for the operator's y, in the first pair while it holds x.
GuionesVivos == Pares({<<CruzaXY, EscribeX>>, <<EscribeY, EscribeX>>})

\* A waits for y while it holds x, for which B and C wait.
GuionesTres == Trios({<<CruzaXY, TomaYDeja, <<GetL(x), SetL(x)>> >>})

GuionesCortos == Pares({<<TomaYDeja, <<GetL(x)>> >>})
=============================================================================
