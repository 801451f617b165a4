------------------------------- MODULE Letras -------------------------------
(***************************************************************************)
(* assign_letters (Key Explicit): the 26 letters are shared out among the  *)
(* active Instances in the order of the list.  The loop's running totals   *)
(* are written out: the j-th active Instance, from 0, of n of them.        *)
(***************************************************************************)
EXTENDS Integers

Primera == 65        \* 'A'
CantLetras == 26

letters_to_instances(n) == (CantLetras + n - 1) \div n

\* How many Instances get a full share.
Enteras(n) == CantLetras \div letters_to_instances(n)

letter_min(j, n) ==
  Primera + (IF j < Enteras(n) THEN j ELSE Enteras(n)) * letters_to_instances(n)

\* An Instance after the full shares gets what is left, and so does every
\* other one behind it.
letter_max(j, n) ==
  IF j < Enteras(n) THEN letter_min(j, n) + letters_to_instances(n) - 1
  ELSE Primera + CantLetras - 1

\* find_by_letter over the ranges of n active Instances.
Tiene(j, n, letra) == letter_min(j, n) <= letra /\ letra <= letter_max(j, n)
=============================================================================
