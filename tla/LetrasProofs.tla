---------------------------- MODULE LetrasProofs ----------------------------
(***************************************************************************)
(* The ranges of assign_letters cover the alphabet, whatever the number of *)
(* active Instances, and only letters.                                     *)
(***************************************************************************)
EXTENDS Letras, TLAPS

\* What integer division by a positive number says.
LEMMA Division ==
  ASSUME NEW a \in Nat, NEW b \in Nat \ {0}
  PROVE  /\ a \div b \in Nat
         /\ b * (a \div b) <= a
         /\ a < b * (a \div b) + b
OBVIOUS

\* A share has between 1 and 26 letters, and n shares are at least 26.
LEMMA Reparto ==
  ASSUME NEW n \in Nat \ {0}
  PROVE  /\ letters_to_instances(n) \in 1..CantLetras
         /\ CantLetras <= n * letters_to_instances(n)
<1> DEFINE L == letters_to_instances(n)
<1>1. CantLetras + n - 1 \in Nat
  BY DEF CantLetras
<1>2. L \in Nat /\ n * L <= CantLetras + n - 1 /\ CantLetras + n - 1 < n * L + n
  BY <1>1, Division DEF letters_to_instances
<1>3. CantLetras <= n * L
  BY <1>2 DEF CantLetras
<1>4. L # 0
  BY <1>3 DEF CantLetras
<1>5. L <= CantLetras
  <2>1. SUFFICES ASSUME L >= CantLetras + 1
                 PROVE  FALSE
    BY <1>2 DEF CantLetras
  <2>2. n * L >= n * (CantLetras + 1)
    BY <2>1, <1>2 DEF CantLetras
  <2>3. n * (CantLetras + 1) = CantLetras * n + n
    BY DEF CantLetras
  <2> QED BY <2>2, <2>3, <1>2 DEF CantLetras
<1> QED BY <1>2, <1>3, <1>4, <1>5 DEF CantLetras

\* A product orders like its factors.
LEMMA Factores ==
  ASSUME NEW a \in Nat, NEW b \in Nat, NEW c \in Nat \ {0}, a * c < b * c
  PROVE  a < b
<1>1. SUFFICES ASSUME a >= b PROVE FALSE
  OBVIOUS
<1>2. a * c >= b * c
  BY <1>1
<1> QED BY <1>2

\* Every letter has an Instance: assign_letters leaves no key of KE that begins
\* with a letter without one, however many Instances are active.  The first
\* ones have a full share each; what is left, if anything, is somebody's too.
THEOREM CubreLetras ==
  ASSUME NEW n \in Nat \ {0}, NEW letra \in Primera..(Primera + CantLetras - 1)
  PROVE  \E j \in 0..(n - 1) : Tiene(j, n, letra)
<1> DEFINE L == letters_to_instances(n)
           E == Enteras(n)
           d == letra - Primera
           q == d \div L
<1>1. d \in 0..(CantLetras - 1)
  BY DEF Primera, CantLetras
<1>2. L \in 1..CantLetras /\ CantLetras <= n * L
  BY Reparto
<1>3. E \in Nat /\ E * L \in Nat
  BY <1>2, Division DEF Enteras, CantLetras
<1>4. q \in Nat /\ q * L \in Nat /\ q * L <= d /\ d < q * L + L
  <2>1. d \in Nat /\ L \in Nat \ {0}
    BY <1>1, <1>2 DEF CantLetras
  <2> HIDE DEF d, L
  <2>2. q \in Nat /\ L * q <= d /\ d < L * q + L
    BY <2>1, Division
  <2> HIDE DEF q
  <2>3. L * q = q * L /\ q * L \in Nat
    BY <2>1, <2>2
  <2> QED BY <2>2, <2>3
<1> HIDE DEF q
<1>5. CASE d < E * L
  <2>1. q < E
    <3>1. q * L < E * L
      BY <1>1, <1>3, <1>4, <1>5
    <3> QED BY <3>1, <1>2, <1>3, <1>4, Factores
  <2>2. q < n
    <3>1. q * L < n * L
      BY <1>1, <1>2, <1>4 DEF CantLetras
    <3> QED BY <3>1, <1>2, <1>4, Factores
  <2>3. Tiene(q, n, letra)
    BY <2>1, <1>1, <1>2, <1>4 DEF Tiene, letter_min, letter_max, Primera
  <2> QED BY <2>2, <2>3, <1>4
<1>6. CASE E * L <= d
  <2>1. E < n
    <3>1. E * L < n * L
      BY <1>1, <1>2, <1>3, <1>6 DEF CantLetras
    <3> QED BY <3>1, <1>2, <1>3, Factores
  <2>2. Tiene(E, n, letra)
    BY <1>1, <1>2, <1>3, <1>6 DEF Tiene, letter_min, letter_max, Primera, CantLetras
  <2> QED BY <2>1, <2>2, <1>3
<1>7. d < E * L \/ E * L <= d
  BY <1>1, <1>2, <1>3 DEF CantLetras
<1> QED BY <1>5, <1>6, <1>7

\* Instances with a full share have no letter in common with any other, so
\* find_by_letter, which takes the first that fits, is the only answer there.
THEOREM SinCompartir ==
  ASSUME NEW n \in Nat \ {0}, NEW j \in Nat, NEW k \in Nat, NEW letra \in Nat,
         j < Enteras(n), j # k, Tiene(j, n, letra)
  PROVE  ~Tiene(k, n, letra)
<1> DEFINE L == letters_to_instances(n)
           E == Enteras(n)
<1>1. L \in Nat \ {0}
  BY Reparto DEF CantLetras
<1>2. E \in Nat
  BY <1>1, Division DEF Enteras, CantLetras
<1>3. Primera + j * L <= letra /\ letra < Primera + j * L + L
  BY <1>1, <1>2 DEF Tiene, letter_min, letter_max, Primera
<1>4. CASE k < j
  <2>1. letter_max(k, n) = Primera + k * L + L - 1
    BY <1>1, <1>2, <1>4 DEF letter_min, letter_max, Primera
  <2>2. k * L + L <= j * L
    <3>1. (k + 1) * L <= j * L
      BY <1>1, <1>4
    <3>2. (k + 1) * L = k * L + L
      BY <1>1
    <3> QED BY <3>1, <3>2
  <2> QED BY <2>1, <2>2, <1>1, <1>3 DEF Tiene, Primera
<1>5. CASE j < k
  <2> DEFINE m == IF k < E THEN k ELSE E
  <2>1. m \in Nat /\ j + 1 <= m
    BY <1>2, <1>5
  <2>2. j * L + L <= m * L
    <3>1. (j + 1) * L <= m * L
      BY <1>1, <2>1
    <3>2. (j + 1) * L = j * L + L
      BY <1>1
    <3> QED BY <3>1, <3>2
  <2>3. letter_min(k, n) = Primera + m * L
    BY DEF letter_min
  <2>4. m * L \in Nat /\ j * L \in Nat
    BY <1>1, <2>1
  <2> QED BY <2>2, <2>3, <2>4, <1>1, <1>3 DEF Tiene, Primera
<1> QED BY <1>4, <1>5
=============================================================================
