------------------------- MODULE DistribucionProofs -------------------------
(***************************************************************************)
(* What holds of Distribucion for any number of Instances, keys, sockets   *)
(* and requests, whatever falls and comes back.                            *)
(***************************************************************************)
EXTENDS Distribucion, LetrasProofs, Extremos

-----------------------------------------------------------------------------
(* Types.                                                                  *)

\* The key of a turn is one of the keys; whoever takes an Instance off knows
\* where it goes on.
ClaveDelTurno == cliente.pc # "libre" => cliente.clave \in Claves
Regreso ==
  /\ cliente.pc = "descontar" => cliente.sigue # ""
  /\ \A i \in Instancias : hilo[i].pc = "descontar" => hilo[i].sigue # ""

\* A host_instance thread has a descriptor.
HiloConSocket == \A i \in Instancias : hilo[i].pc # "no" => hilo[i].socket \in Sockets

\* No Instance holds more keys than fit.
Ocupadas(i) == {k \in Claves : memoria[i][k] # Nada}
Caben == \A i \in Instancias : IsFiniteSet(Ocupadas(i)) /\ Cardinality(Ocupadas(i)) <= Capacidad

\* EL: list_get(instance_pointer) stays inside the list.
PunteroEnLista == algorithm = "EL" => instance_pointer = 0 \/ instance_pointer < Len(instances)

TInv == TypeOK /\ ClaveDelTurno /\ Regreso /\ HiloConSocket /\ Caben /\ PunteroEnLista

-----------------------------------------------------------------------------
(* The list.                                                               *)

LEMMA Cambiada ==
  ASSUME NEW R, NEW l \in Seq(R), NEW n, NEW r, n \in DOMAIN l => r \in R
  PROVE  /\ [l EXCEPT ![n] = r] \in Seq(R)
         /\ DOMAIN [l EXCEPT ![n] = r] = DOMAIN l
         /\ Len([l EXCEPT ![n] = r]) = Len(l)
<1>1. DOMAIN l = 1..Len(l) /\ Len(l) \in Nat
  OBVIOUS
<1> DEFINE g == [l EXCEPT ![n] = r]
<1>2. l \in [1..Len(l) -> R]
  BY <1>1
<1>3. g \in [1..Len(l) -> R]
  BY <1>1, <1>2
<1> HIDE DEF g
<1>4. g \in Seq(R) /\ DOMAIN g = 1..Len(l) /\ Len(g) = Len(l)
  BY <1>1, <1>3
<1> QED BY <1>1, <1>4 DEF g

LEMMA PrimeroEsta ==
  ASSUME NEW S \in SUBSET (Nat \ {0})
  PROVE  /\ Primero(S) = 0 <=> S = {}
         /\ Primero(S) # 0 => Primero(S) \in S /\ \A n \in S : Primero(S) <= n
BY MinEsta DEF Primero

\* The active ones are finitely many; each has its place among them.
LEMMA ActivosFinitos ==
  ASSUME NEW R, NEW l \in Seq(R)
  PROVE  /\ Activos(l) \in SUBSET (1..Len(l)) /\ Activos(l) \in SUBSET Nat
         /\ IsFiniteSet(Activos(l)) /\ Cardinality(Activos(l)) \in Nat
         /\ Activos(l) # {} => Cardinality(Activos(l)) \in Nat \ {0}
         /\ \A p : Orden(Activos(l), p) \in Nat
<1>1. Activos(l) \in SUBSET (1..Len(l)) /\ Activos(l) \in SUBSET Nat
  BY DEF Activos
<1>2. IsFiniteSet(Activos(l))
  BY <1>1, FS_Interval, FS_Subset
<1>3. Cardinality(Activos(l)) \in Nat /\ (Cardinality(Activos(l)) = 0 <=> Activos(l) = {})
  BY <1>2, FS_CardinalityType, FS_EmptySet
<1>4. ASSUME NEW p PROVE Orden(Activos(l), p) \in Nat
  <2>1. {m \in Activos(l) : m < p} \in SUBSET Activos(l)
    OBVIOUS
  <2> QED BY <2>1, <1>2, FS_Subset, FS_CardinalityType DEF Orden
<1> QED BY <1>1, <1>2, <1>3, <1>4

LEMMA LetrasSonNaturales ==
  ASSUME NEW j \in Nat, NEW n \in Nat \ {0}
  PROVE  letter_min(j, n) \in Nat /\ letter_max(j, n) \in Nat
<1> DEFINE L == letters_to_instances(n)
           E == Enteras(n)
           m == IF j < E THEN j ELSE E
<1>1. L \in Nat \ {0}
  BY Reparto DEF CantLetras
<1>2. E \in Nat
  BY <1>1, Division DEF Enteras, CantLetras
<1>3. m * L \in Nat
  BY <1>1, <1>2
<1>4. letter_min(j, n) = Primera + m * L
  BY DEF letter_min
<1> QED BY <1>1, <1>2, <1>3, <1>4 DEF letter_max, Primera, CantLetras

\* assign_letters changes the letters only.
LEMMA ListaConLetras ==
  ASSUME NEW l \in Seq(instance_t)
  PROVE  /\ assign_letters(l) \in Seq(instance_t)
         /\ Len(assign_letters(l)) = Len(l) /\ DOMAIN assign_letters(l) = DOMAIN l
         /\ \A n \in DOMAIN l :
              /\ assign_letters(l)[n].name = l[n].name /\ assign_letters(l)[n].socket = l[n].socket
              /\ assign_letters(l)[n].is_active = l[n].is_active
              /\ assign_letters(l)[n].keys = l[n].keys /\ assign_letters(l)[n].start = l[n].start
              /\ assign_letters(l)[n].free_space = l[n].free_space
<1> DEFINE c == Cardinality(Activos(l))
           j(p) == Orden(Activos(l), p)
           r(p) == IF l[p].is_active
                   THEN [l[p] EXCEPT !.letter_min = letter_min(j(p), c), !.letter_max = letter_max(j(p), c)]
                   ELSE l[p]
<1>1. ASSUME NEW p \in DOMAIN l
      PROVE  /\ r(p) \in instance_t
             /\ r(p).name = l[p].name /\ r(p).socket = l[p].socket /\ r(p).is_active = l[p].is_active
             /\ r(p).keys = l[p].keys /\ r(p).start = l[p].start /\ r(p).free_space = l[p].free_space
  <2>1. l[p] \in instance_t
    OBVIOUS
  <2>2. CASE l[p].is_active
    <3>1. c \in Nat \ {0} /\ j(p) \in Nat
      BY <2>2, ActivosFinitos DEF Activos
    <3> HIDE DEF c, j
    <3>2. letter_min(j(p), c) \in Nat /\ letter_max(j(p), c) \in Nat
      BY <3>1, LetrasSonNaturales
    <3> QED BY <2>1, <2>2, <3>2 DEF instance_t
  <2> QED BY <2>1, <2>2
<1>2. DOMAIN l = 1..Len(l) /\ Len(l) \in Nat
  OBVIOUS
<1>3. CASE algorithm = "KE"
  <2>1. assign_letters(l) = [p \in DOMAIN l |-> r(p)]
    BY <1>3 DEF assign_letters
  <2> HIDE DEF r
  <2> QED BY <1>1, <1>2, <2>1
<1>4. CASE algorithm # "KE"
  BY <1>4, <1>2 DEF assign_letters
<1> QED BY <1>3, <1>4
-----------------------------------------------------------------------------
(* Choosing.                                                               *)

\* find_by_key and the others return a place of the list, or NULL.
LEMMA Encontrada ==
  ASSUME instances \in Seq(instance_t)
  PROVE  /\ \A k : find_by_key(k) \in Lugares \cup {0}
         /\ \A k : find_by_key_and_active(k) \in Lugares \cup {0}
         /\ \A l : find_by_letter(l) \in Lugares \cup {0}
         /\ \A s : socket_is_equal(s) \in Lugares \cup {0}
         /\ \A i : name_is_equal(i) \in Lugares \cup {0}
         /\ 0 \notin Lugares /\ Lugares = 1..Len(instances) /\ Len(instances) \in Nat
<1>1. 0 \notin Lugares /\ Lugares = 1..Len(instances) /\ Len(instances) \in Nat
  BY DEF Lugares
<1>2. ASSUME NEW S \in SUBSET Lugares
      PROVE  Primero(S) \in Lugares \cup {0}
  <2>1. S \in SUBSET (Nat \ {0})
    BY <1>1
  <2> QED BY <2>1, PrimeroEsta
<1> HIDE DEF Lugares
<1>3. /\ \A k : {n \in Lugares : k \in instances[n].keys} \in SUBSET Lugares
      /\ \A k : {n \in Lugares : k \in instances[n].keys /\ instances[n].is_active} \in SUBSET Lugares
      /\ \A l : {n \in Lugares : instances[n].letter_min <= l /\ l <= instances[n].letter_max}
                  \in SUBSET Lugares
      /\ \A s : {n \in Lugares : instances[n].socket = s} \in SUBSET Lugares
      /\ \A i : {n \in Lugares : instances[n].name = i} \in SUBSET Lugares
  OBVIOUS
<1> QED BY <1>1, <1>2, <1>3
       DEF find_by_key, find_by_key_and_active, find_by_letter, socket_is_equal, name_is_equal

LEMMA HallaSocket ==
  ASSUME instances \in Seq(instance_t), NEW s
  PROVE  /\ socket_is_equal(s) # 0 =>
              socket_is_equal(s) \in Lugares /\ instances[socket_is_equal(s)].socket = s
         /\ \A n \in Lugares : instances[n].socket = s => socket_is_equal(s) # 0
<1>1. {n \in Lugares : instances[n].socket = s} \in SUBSET (Nat \ {0})
  BY DEF Lugares
<1> QED BY <1>1, PrimeroEsta DEF socket_is_equal

\* LSU takes one of the active ones with the most room.
LEMMA LsuEnLista ==
  ASSUME instances \in Seq(instance_t), instance_pointer \in Nat, NEW sim \in BOOLEAN
  PROVE  /\ choose_by_space(sim).elegida \in Activos(instances) \cup {0}
         /\ choose_by_space(sim).puntero \in Nat
         /\ \A n \in Activos(instances) :
              instances[n].free_space <= instances[choose_by_space(sim).elegida].free_space
<1> DEFINE A == Activos(instances)
           T == {instances[n].free_space : n \in A}
           espacio == Max(T)
           iguales == {n \in A : instances[n].free_space = espacio}
           p == IF instance_pointer >= Cardinality(iguales) THEN 0 ELSE instance_pointer
<1>1. A \in SUBSET Nat /\ IsFiniteSet(A) /\ A \subseteq DOMAIN instances
  BY ActivosFinitos DEF Activos
<1>2. CASE A = {}
  BY <1>2 DEF choose_by_space
<1>3. CASE A # {}
  <2>1. T \in SUBSET Int /\ T # {}
    <3>1. \A n \in A : instances[n].free_space \in Int
      <4>1. \A n \in DOMAIN instances : instances[n] \in instance_t
        OBVIOUS
      <4> QED BY <4>1, <1>1 DEF instance_t
    <3> QED BY <3>1, <1>3
  <2>2. IsFiniteSet(T)
    <3> DEFINE f == [n \in A |-> instances[n].free_space]
    <3>1. f \in Surjection(A, T)
      BY DEF Surjection
    <3> QED BY <3>1, <1>1, FS_Surjection
  <2>3. espacio \in T /\ \A e \in T : e <= espacio
    <3> HIDE DEF T
    <3> QED BY <2>1, <2>2, MaxFinito
  <2>4. iguales # {} /\ iguales \in SUBSET Nat /\ IsFiniteSet(iguales)
    <3>1. iguales \in SUBSET A
      OBVIOUS
    <3>2. iguales # {}
      <4> HIDE DEF espacio
      <4> QED BY <2>3
    <3> QED BY <3>1, <3>2, <1>1, FS_Subset
  <2> HIDE DEF iguales
  <2>5. Cardinality(iguales) \in Nat /\ Cardinality(iguales) # 0
    BY <2>4, FS_CardinalityType, FS_EmptySet
  <2>6. p \in Nat /\ p < Cardinality(iguales)
    BY <2>5
  <2> HIDE DEF p
  <2>7. \E n \in iguales : Orden(iguales, n) = p
    BY <2>4, <2>6, HayEnesimo DEF Menores, Orden
  <2>8. Enesimo(iguales, p) \in iguales
    BY <2>7 DEF Enesimo
  <2>9. choose_by_space(sim) = [elegida |-> Enesimo(iguales, p), puntero |-> IF sim THEN p ELSE p + 1]
    BY <1>3 DEF choose_by_space, p, iguales
  <2>10. Enesimo(iguales, p) \in A /\ instances[Enesimo(iguales, p)].free_space = espacio
    BY <2>8 DEF iguales
  <2>11. \A n \in A : instances[n].free_space <= espacio
    BY <2>3
  <2> HIDE DEF espacio, T
  <2> QED BY <2>6, <2>9, <2>10, <2>11
<1> QED BY <1>2, <1>3

\* EL stays inside the list, and so does its pointer.
LEMMA ElEnLista ==
  ASSUME instances \in Seq(instance_t), instance_pointer \in Nat,
         instance_pointer = 0 \/ instance_pointer < Len(instances), NEW sim \in BOOLEAN
  PROVE  LET e == choose_by_counter(sim)
         IN  /\ e.elegida \in Lugares \cup {0} /\ e.puntero \in Nat
             /\ e.elegida # 0 => e.puntero = 0 \/ e.puntero < Len(instances)
<1> DEFINE a == instance_pointer + 1
           desde == IF sim THEN a ELSE a + 1
           siguientes == {n \in Lugares : n >= desde /\ instances[n].is_active}
           ultimo == Len(instances)
           elegida == CASE instances[a].is_active -> a
                        [] ~instances[a].is_active /\ siguientes # {} -> Min(siguientes)
                        [] OTHER -> IF desde <= ultimo THEN ultimo ELSE a
           puntero == CASE instances[a].is_active -> desde - 1
                        [] ~instances[a].is_active /\ siguientes # {} -> Min(siguientes)
                        [] OTHER -> ultimo
<1>1. ultimo \in Nat /\ Lugares = 1..ultimo /\ a \in Nat /\ desde \in Nat /\ desde - 1 \in Nat
  BY DEF Lugares
<1>2. siguientes # {} => Min(siguientes) \in Lugares
  <2>1. siguientes \in SUBSET Nat /\ siguientes \subseteq Lugares
    BY <1>1
  <2> HIDE DEF siguientes
  <2> QED BY <2>1, MinEsta
<1>3. CASE instances = <<>>
  <2>1. choose_by_counter(sim) = [elegida |-> 0, puntero |-> a]
    BY <1>3 DEF choose_by_counter
  <2> QED BY <2>1, <1>1
<1>4. CASE instances # <<>>
  <2>1. a \in Lugares /\ ultimo \in Lugares
    BY <1>1, <1>4
  <2>2. choose_by_counter(sim) = [elegida |-> elegida, puntero |-> IF puntero >= ultimo THEN 0 ELSE puntero]
    BY <1>4 DEF choose_by_counter
  <2>3. elegida \in Lugares
    <3> HIDE DEF siguientes, desde, a, ultimo
    <3> QED BY <2>1, <1>2
  <2>4. puntero \in Nat
    <3> HIDE DEF siguientes, desde, a, ultimo
    <3>1. \A n \in Lugares : n \in Nat
      BY <1>1
    <3> QED BY <1>1, <1>2, <3>1
  <2> HIDE DEF elegida, puntero
  <2> QED BY <2>2, <2>3, <2>4, <1>1
<1> QED BY <1>3, <1>4

LEMMA ElegidaEnLista ==
  ASSUME TypeOK, PunteroEnLista, NEW sim \in BOOLEAN
  PROVE  LET e == choose_instance(sim)
         IN  /\ e.elegida \in Lugares \cup {0} /\ e.puntero \in Nat
             /\ e.elegida # 0 /\ algorithm = "EL" => e.puntero = 0 \/ e.puntero < Len(instances)
<1>1. instances \in Seq(instance_t) /\ instance_pointer \in Nat /\ algorithm \in {"EL", "LSU", "KE"}
  BY DistribucionAssumption DEF TypeOK
<1>2. CASE algorithm = "EL"
  <2>1. choose_instance(sim) = choose_by_counter(sim)
    BY <1>2 DEF choose_instance
  <2> QED BY <1>1, <1>2, <2>1, ElEnLista DEF PunteroEnLista
<1>3. CASE algorithm = "LSU"
  <2>1. choose_instance(sim) = choose_by_space(sim)
    BY <1>3 DEF choose_instance
  <2>2. Activos(instances) \subseteq Lugares
    BY DEF Activos, Lugares
  <2> QED BY <1>1, <1>3, <2>1, <2>2, LsuEnLista
<1>4. CASE algorithm = "KE"
  <2>1. choose_instance(sim) = [elegida |-> find_by_letter(Letra[message.key]), puntero |-> instance_pointer]
    BY <1>4 DEF choose_instance
  <2> QED BY <1>1, <1>4, <2>1, Encontrada
<1> QED BY <1>1, <1>2, <1>3, <1>4
-----------------------------------------------------------------------------
(* What the actions are made of.                                           *)

MismaLista == instances' \in Seq(instance_t) /\ Len(instances') = Len(instances)

LEMMA Publicada ==
  ASSUME instances \in Seq(instance_t), NEW n, Publicar(n)
  PROVE  MismaLista
<1> DEFINE r == [instances[n] EXCEPT !.start = @ + 1]
<1>1. ASSUME n \in DOMAIN instances PROVE r \in instance_t
  <2>1. instances[n] \in instance_t
    BY <1>1
  <2>2. instances[n].start + 1 \in Nat
    BY <2>1 DEF instance_t
  <2> QED BY <2>1, <2>2 DEF instance_t
<1>2. instances' = [instances EXCEPT ![n] = r]
  BY DEF Publicar
<1> HIDE DEF r
<1> QED BY <1>1, <1>2, Cambiada DEF MismaLista

LEMMA Desconectada ==
  ASSUME instances \in Seq(instance_t), fds \in [Sockets -> {Libre} \cup Enlace], NEW s, Desconectar(s)
  PROVE  MismaLista /\ fds' \in [Sockets -> {Libre} \cup Enlace]
<1> DEFINE n == socket_is_equal(s)
           r == [instances[n] EXCEPT !.is_active = FALSE, !.letter_min = 0, !.letter_max = 0]
<1>1. ASSUME n \in DOMAIN instances PROVE r \in instance_t
  <2>1. instances[n] \in instance_t
    BY <1>1
  <2> QED BY <2>1 DEF instance_t
<1>2. CASE n = 0
  BY <1>2 DEF Desconectar, MismaLista
<1>3. CASE n # 0
  <2>1. instances' = [instances EXCEPT ![n] = r]
    BY <1>3, Encontrada DEF Desconectar, Lugares
  <2> HIDE DEF r
  <2>2. MismaLista
    BY <1>1, <2>1, Cambiada DEF MismaLista
  <2>3. fds' = [fds EXCEPT ![s] = Libre]
    BY DEF Desconectar
  <2> QED BY <2>2, <2>3
<1> QED BY <1>2, <1>3 DEF Desconectar

LEMMA Descontada ==
  ASSUME instances \in Seq(instance_t), one_instance \in Nat, Descontar
  PROVE  MismaLista /\ one_instance' \in Nat /\ vivo' \in BOOLEAN
<1>1. MismaLista
  BY ListaConLetras DEF Descontar, MismaLista
<1> QED BY <1>1 DEF Descontar, SinDivisor

-----------------------------------------------------------------------------
(* The types are kept by every step.                                       *)

\* The types of the variables a step of the Coordinador reads, taken out of the
\* invariant once.
LEMMA Tipadas ==
  ASSUME TInv
  PROVE  /\ instances \in Seq(instance_t) /\ instance_pointer \in Nat
         /\ one_instance \in Nat /\ result_instance \in Nat /\ compact \in Nat
         /\ operation \in {"GET", "SET", "STORE", "STATUS", "COMPACT"}
         /\ message \in [key : Claves \cup {Nada}, value : Valores \cup {Nada}]
         /\ has_value \in BOOLEAN /\ vivo \in BOOLEAN
         /\ cliente \in Cliente /\ tomadas \subseteq Claves
         /\ \A i \in Instancias : hilo[i] \in Hilo
         /\ fds \in [Sockets -> {Libre} \cup Enlace]
<1>1. TypeOK
  BY DEF TInv
<1>2. hilo \in [Instancias -> Hilo]
  BY <1>1 DEF TypeOK
<1> QED BY <1>1, <1>2, SMTT(30) DEF TypeOK

LEMMA PideTInv ==
  ASSUME TInv, NEW op \in Operaciones, NEW k \in Claves, NEW v \in Valores, Pide(op, k, v)
  PROVE  TInv'
<1>1. op \in {"GET", "SET", "STORE", "STATUS"}
  BY DistribucionAssumption
<1>2. cliente' \in Cliente /\ cliente'.pc = op /\ cliente'.clave = k
  BY <1>1, ZenonT(40) DEF Pide, TInv, TypeOK, Cliente
<1>3. message' \in [key : Claves \cup {Nada}, value : Valores \cup {Nada}]
  BY DEF Pide, TInv, TypeOK
<1>4. operation' \in {"GET", "SET", "STORE", "STATUS", "COMPACT"}
  BY <1>1 DEF Pide, TInv, TypeOK
<1>5. UNCHANGED <<listas, semaforos, has_value, tomadas, hilo, fds, memoria, vivo, algorithm>>
  BY DEF Pide
<1>6. TypeOK'
  BY <1>2, <1>3, <1>4, <1>5 DEF TInv, TypeOK, listas, semaforos
<1> QED BY <1>1, <1>2, <1>5, <1>6 DEF TInv, ClaveDelTurno, Regreso, HiloConSocket, Caben, Ocupadas,
           PunteroEnLista, listas

\* The client's own variables; the rest of TInv is the list, the semaphores and
\* the descriptors.
LEMMA ClienteMarco ==
  ASSUME TInv, MismaLista, UNCHANGED <<hilo, memoria, algorithm>>,
         fds' \in [Sockets -> {Libre} \cup Enlace],
         one_instance' \in Nat, result_instance' \in Nat, compact' \in Nat,
         operation' \in {"GET", "SET", "STORE", "STATUS", "COMPACT"},
         UNCHANGED <<message, has_value>>, tomadas' \subseteq Claves, vivo' \in BOOLEAN,
         cliente' \in Cliente, ClaveDelTurno', cliente'.pc = "descontar" => cliente'.sigue # "",
         instance_pointer' \in Nat, PunteroEnLista'
  PROVE  TInv'
<1>1. TypeOK'
  BY DEF TInv, TypeOK, MismaLista
<1> QED BY <1>1 DEF TInv, Regreso, HiloConSocket, Caben, Ocupadas
\* Where it goes on with an Instance, or after losing it.
LEMMA MandarOPerder ==
  ASSUME TInv, cliente.pc # "libre", NEW n \in Lugares, NEW sigue \in {"tomar", "elegir", "simular", "abortar"},
         \/ Mandar(n) /\ UNCHANGED fds
         \/ Perdida(n, sigue)
  PROVE  /\ MismaLista /\ fds' \in [Sockets -> {Libre} \cup Enlace]
         /\ cliente' \in Cliente /\ ClaveDelTurno' /\ (cliente'.pc = "descontar" => cliente'.sigue # "")
<1>1. instances \in Seq(instance_t) /\ fds \in [Sockets -> {Libre} \cup Enlace] /\ cliente \in Cliente
      /\ cliente.clave \in Claves
  BY DEF TInv, TypeOK, ClaveDelTurno
<1>2. instances[n].name \in Instancias
  <2>1. instances[n] \in instance_t
    BY <1>1 DEF Lugares
  <2> QED BY <2>1 DEF instance_t
<1>3. CASE Mandar(n) /\ UNCHANGED fds
  <2>1. cliente' = [cliente EXCEPT !.pc = "espera", !.elegida = instances[n].name] /\ MismaLista
    BY <1>1, <1>3, Publicada DEF Mandar
  <2>2. cliente' \in Cliente /\ cliente'.clave = cliente.clave /\ cliente'.pc = "espera"
    BY <1>1, <1>2, <2>1 DEF Cliente
  <2> QED BY <1>1, <1>3, <2>1, <2>2 DEF ClaveDelTurno
<1>4. CASE Perdida(n, sigue)
  <2>1. cliente' = [cliente EXCEPT !.pc = "descontar", !.sigue = sigue] /\ MismaLista
        /\ fds' \in [Sockets -> {Libre} \cup Enlace]
    BY <1>1, <1>4, Desconectada DEF Perdida
  <2>2. cliente' \in Cliente /\ cliente'.clave = cliente.clave /\ cliente'.sigue = sigue
    BY <1>1, <2>1 DEF Cliente
  <2> QED BY <1>1, <2>1, <2>2 DEF ClaveDelTurno
<1> QED BY <1>3, <1>4

\* The step of a thread moves on to another place and changes nothing else.
LEMMA Avanza ==
  ASSUME cliente \in Cliente, NEW pc \in {"tomar", "elegir", "simular", "abortar"}, Va(pc), cliente.clave \in Claves
  PROVE  cliente' \in Cliente /\ cliente'.pc = pc /\ cliente'.clave \in Claves
BY DEF Va, Cliente

LEMMA OciosoEsCliente == Ocioso \in Cliente /\ Ocioso.pc = "libre"
BY DEF Ocioso, Cliente

LEMMA ClienteTInv ==
  ASSUME TInv, PasoCliente
  PROVE  TInv'
<1>1. /\ instances \in Seq(instance_t) /\ fds \in [Sockets -> {Libre} \cup Enlace] /\ cliente \in Cliente
      /\ one_instance \in Nat /\ result_instance \in Nat /\ compact \in Nat /\ instance_pointer \in Nat
      /\ operation \in {"GET", "SET", "STORE", "STATUS", "COMPACT"} /\ tomadas \subseteq Claves
      /\ vivo \in BOOLEAN
  BY Tipadas
<1>2. cliente.pc # "libre" => cliente.clave \in Claves
  BY DEF TInv, ClaveDelTurno
<1>3. MismaLista \/ UNCHANGED instances => Len(instances') = Len(instances) /\ MismaLista
  BY <1>1 DEF MismaLista
<1>4. UNCHANGED <<instance_pointer, algorithm>> /\ Len(instances') = Len(instances) => PunteroEnLista'
  BY DEF TInv, PunteroEnLista
<1>5. Ocioso \in Cliente /\ Ocioso.pc = "libre"
  BY OciosoEsCliente
<1>6. CASE AsignarConocida
  <2> DEFINE n == find_by_key(message.key)
  <2>1. n \in Lugares
    BY <1>1, <1>6, Encontrada DEF AsignarConocida
  <2>2. cliente.pc # "libre"
    BY <1>6 DEF AsignarConocida, En
  <2>3. (Mandar(n) /\ UNCHANGED fds) \/ Perdida(n, "tomar")
    BY <1>6 DEF AsignarConocida
  <2>4. /\ MismaLista /\ fds' \in [Sockets -> {Libre} \cup Enlace]
        /\ cliente' \in Cliente /\ ClaveDelTurno' /\ (cliente'.pc = "descontar" => cliente'.sigue # "")
    BY <2>1, <2>2, <2>3, MandarOPerder
  <2>5. UNCHANGED <<instance_pointer, semaforos, globales, tomadas, hilo, memoria, vivo, cuentas>>
    BY <1>6 DEF AsignarConocida
  <2> QED BY <1>1, <1>3, <1>4, <2>4, <2>5, ClienteMarco DEF semaforos, globales, cuentas
<1>7. CASE TomarInstancia
  <2>1. Va("elegir") /\ cliente.pc # "libre" /\ one_instance' \in Nat
    BY <1>1, <1>7 DEF TomarInstancia, En
  <2>2. UNCHANGED <<listas, result_instance, compact, globales, tomadas, hilo, fds, memoria, vivo, cuentas>>
    BY <1>7 DEF TomarInstancia
  <2>3. cliente' \in Cliente /\ cliente'.pc = "elegir" /\ cliente'.clave \in Claves
    BY <1>1, <1>2, <2>1, Avanza
  <2> QED BY <1>1, <1>3, <1>4, <2>1, <2>2, <2>3, ClienteMarco DEF globales, cuentas, listas, ClaveDelTurno
<1>8. CASE Elegir
  <2> DEFINE e == choose_instance(FALSE)
             n == e.elegida
  <2>1. /\ n \in Lugares /\ e.puntero \in Nat
        /\ algorithm = "EL" => e.puntero = 0 \/ e.puntero < Len(instances)
    <3>1. TypeOK /\ PunteroEnLista
      BY DEF TInv
    <3>2. /\ e.elegida \in Lugares \cup {0} /\ e.puntero \in Nat
          /\ e.elegida # 0 /\ algorithm = "EL" => e.puntero = 0 \/ e.puntero < Len(instances)
      BY <3>1, ElegidaEnLista
    <3>3. e.elegida # 0
      BY <1>8 DEF Elegir
    <3> QED BY <3>2, <3>3
  <2>2. instance_pointer' = e.puntero
    BY <1>8 DEF Elegir
  <2>3. UNCHANGED <<result_instance, compact, globales, tomadas, hilo, memoria, vivo, cuentas>>
    BY <1>8 DEF Elegir
  <2>4. cliente.pc # "libre"
    BY <1>8 DEF Elegir, En
  <2>5. /\ MismaLista /\ fds' \in [Sockets -> {Libre} \cup Enlace] /\ one_instance' \in Nat
        /\ cliente' \in Cliente /\ ClaveDelTurno' /\ (cliente'.pc = "descontar" => cliente'.sigue # "")
    <3>1. CASE /\ instances' = [instances EXCEPT ![n].keys = @ \cup {message.key}, ![n].start = @ + 1]
               /\ cliente' = [cliente EXCEPT !.pc = "espera", !.elegida = instances[n].name]
               /\ one_instance' = one_instance + 1
               /\ UNCHANGED fds
      <4>1. instances[n] \in instance_t
        <5> HIDE DEF n, e
        <5> QED BY <1>1, <2>1 DEF Lugares
      <4>2. message.key \in Claves \cup {Nada}
        BY DEF TInv, TypeOK
      <4> DEFINE r == [instances[n] EXCEPT !.keys = @ \cup {message.key}, !.start = @ + 1]
      <4>3. r \in instance_t
        <5>1. instances[n].start + 1 \in Nat /\ instances[n].keys \cup {message.key} \in SUBSET (Claves \cup {Nada})
          <6> HIDE DEF n
          <6> QED BY <4>1, <4>2 DEF instance_t
        <5> HIDE DEF n
        <5> QED BY <4>1, <5>1 DEF instance_t
      <4>4. instances' = [instances EXCEPT ![n] = r]
        BY <1>1, <2>1, <3>1 DEF Lugares
      <4> HIDE DEF r, n
      <4>5. MismaLista
        BY <1>1, <4>3, <4>4, Cambiada DEF MismaLista
      <4>6. cliente' \in Cliente /\ cliente'.pc = "espera" /\ cliente'.clave = cliente.clave
        BY <1>1, <3>1, <4>1 DEF Cliente, instance_t
      <4> QED BY <1>1, <1>2, <2>4, <3>1, <4>5, <4>6 DEF ClaveDelTurno
    <3>2. CASE Perdida(n, "elegir") /\ UNCHANGED one_instance
      <4> HIDE DEF n
      <4> QED BY <1>1, <2>1, <2>4, <3>2, MandarOPerder
    <3> QED BY <1>8, <3>1, <3>2 DEF Elegir
  <2> HIDE DEF e, n
  <2>6. PunteroEnLista'
    BY <2>1, <2>2, <2>3, <2>5 DEF PunteroEnLista, MismaLista, cuentas
  <2> QED BY <1>1, <2>1, <2>2, <2>3, <2>5, <2>6, ClienteMarco DEF globales, cuentas
<1>9. CASE GuardarEnInstancia
  <2> DEFINE n == Destino
  <2>1. n \in Lugares
    BY <1>1, <1>9, Encontrada DEF GuardarEnInstancia, Destino
  <2>2. cliente.pc # "libre"
    BY <1>9 DEF GuardarEnInstancia, En
  <2>3. (Mandar(n) /\ UNCHANGED fds) \/ Perdida(n, "abortar")
    BY <1>9 DEF GuardarEnInstancia
  <2> HIDE DEF n
  <2>4. /\ MismaLista /\ fds' \in [Sockets -> {Libre} \cup Enlace]
        /\ cliente' \in Cliente /\ ClaveDelTurno' /\ (cliente'.pc = "descontar" => cliente'.sigue # "")
    BY <2>1, <2>2, <2>3, MandarOPerder
  <2>5. UNCHANGED <<instance_pointer, semaforos, globales, tomadas, hilo, memoria, vivo, cuentas>>
    BY <1>9 DEF GuardarEnInstancia
  <2> QED BY <1>1, <1>3, <1>4, <2>4, <2>5, ClienteMarco DEF semaforos, globales, cuentas
<1>10. CASE Abortar
  <2>1. /\ UNCHANGED <<listas, semaforos, globales, hilo, fds, memoria, vivo, cuentas>>
        /\ cliente' = Ocioso /\ tomadas' = tomadas \ {cliente.clave}
    BY <1>10 DEF Abortar
  <2> QED BY <1>1, <1>3, <1>4, <1>5, <2>1, ClienteMarco DEF semaforos, globales, cuentas, listas, ClaveDelTurno
<1>11. CASE ConsultarEstado
  <2> DEFINE n == find_by_key(message.key)
  <2>1. n \in Lugares
    BY <1>1, <1>11, Encontrada DEF ConsultarEstado
  <2>2. cliente.pc # "libre"
    BY <1>11 DEF ConsultarEstado, En
  <2>3. (Mandar(n) /\ UNCHANGED fds) \/ Perdida(n, "simular")
    BY <1>11 DEF ConsultarEstado
  <2>4. /\ MismaLista /\ fds' \in [Sockets -> {Libre} \cup Enlace]
        /\ cliente' \in Cliente /\ ClaveDelTurno' /\ (cliente'.pc = "descontar" => cliente'.sigue # "")
    BY <2>1, <2>2, <2>3, MandarOPerder
  <2>5. /\ UNCHANGED <<instance_pointer, semaforos, message, has_value, tomadas, hilo, memoria, vivo, cuentas>>
        /\ operation' \in {operation, "STATUS"}
    BY <1>11 DEF ConsultarEstado
  <2> QED BY <1>1, <1>3, <1>4, <2>4, <2>5, ClienteMarco DEF semaforos, cuentas
<1>12. CASE SimularAsignacion
  <2> DEFINE e == choose_instance(TRUE)
  <2>1. /\ e.puntero \in Nat
        /\ algorithm = "EL" => e.puntero = 0 \/ e.puntero < Len(instances)
    <3>1. TypeOK /\ PunteroEnLista /\ e.elegida # 0
      BY <1>12 DEF TInv, SimularAsignacion
    <3> QED BY <3>1, ElegidaEnLista
  <2>2. /\ instance_pointer' = e.puntero /\ cliente' = Ocioso
        /\ UNCHANGED <<instances, semaforos, globales, tomadas, hilo, fds, memoria, vivo, cuentas>>
    BY <1>12 DEF SimularAsignacion
  <2> HIDE DEF e
  <2>3. PunteroEnLista'
    BY <2>1, <2>2 DEF PunteroEnLista, cuentas
  <2> QED BY <1>1, <1>3, <1>5, <2>1, <2>2, <2>3, ClienteMarco DEF semaforos, globales, cuentas, ClaveDelTurno
<1>13. CASE SinElegida
  <2>1. /\ UNCHANGED <<listas, semaforos, globales, cliente, tomadas, hilo, fds, memoria, cuentas>>
        /\ vivo' = FALSE
    BY <1>13 DEF SinElegida
  <2>2. ClaveDelTurno' /\ (cliente'.pc = "descontar" => cliente'.sigue # "")
    BY <2>1 DEF TInv, ClaveDelTurno, Regreso
  <2> QED BY <1>1, <1>3, <1>4, <2>1, <2>2, ClienteMarco DEF semaforos, globales, cuentas, listas
<1>14. CASE DescontarCliente
  <2>1. MismaLista /\ one_instance' \in Nat /\ vivo' \in BOOLEAN
    BY <1>1, <1>14, Descontada DEF DescontarCliente
  <2>2. cliente.pc = "descontar" /\ cliente.sigue \in {"tomar", "elegir", "simular", "abortar"}
    BY <1>1, <1>14 DEF DescontarCliente, En, TInv, Regreso, Cliente
  <2>3. cliente' \in Cliente /\ cliente'.pc = cliente.sigue /\ cliente'.clave \in Claves
    BY <1>1, <1>2, <1>14, <2>2, Avanza DEF DescontarCliente
  <2>4. UNCHANGED <<instance_pointer, result_instance, compact, globales, tomadas, hilo, fds, memoria, cuentas>>
    BY <1>14 DEF DescontarCliente
  <2>5. ClaveDelTurno' /\ (cliente'.pc = "descontar" => cliente'.sigue # "")
    BY <2>2, <2>3 DEF ClaveDelTurno
  <2> QED BY <1>1, <1>3, <1>4, <2>1, <2>3, <2>4, <2>5, ClienteMarco DEF globales, cuentas
<1>15. CASE Confirmar
  <2>1. /\ UNCHANGED <<listas, one_instance, compact, globales, hilo, fds, memoria, vivo, cuentas>>
        /\ cliente' = Ocioso /\ result_instance' \in Nat
    BY <1>1, <1>15 DEF Confirmar
  <2>2. tomadas' \subseteq Claves
    BY <1>1, <1>2, <1>15 DEF Confirmar, En
  <2> QED BY <1>1, <1>3, <1>4, <1>5, <2>1, <2>2, ClienteMarco DEF globales, cuentas, listas, ClaveDelTurno
<1> QED BY <1>6, <1>7, <1>8, <1>9, <1>10, <1>11, <1>12, <1>13, <1>14, <1>15 DEF PasoCliente
\* What a host_instance thread may change.
LEMMA HiloMarco ==
  ASSUME TInv, MismaLista, UNCHANGED <<cliente, tomadas, memoria, algorithm, instance_pointer>>,
         fds' \in [Sockets -> {Libre} \cup Enlace],
         one_instance' \in Nat, result_instance' \in Nat, compact' \in Nat,
         operation' \in {"GET", "SET", "STORE", "STATUS", "COMPACT"},
         message' \in [key : Claves \cup {Nada}, value : Valores \cup {Nada}],
         has_value' \in BOOLEAN, vivo' \in BOOLEAN,
         NEW i \in Instancias, hilo[i].pc # "no", NEW r \in Hilo, hilo' = [hilo EXCEPT ![i] = r],
         r.socket = hilo[i].socket, r.pc = "descontar" => r.sigue # ""
  PROVE  TInv'
<1>1. hilo' \in [Instancias -> Hilo] /\ hilo'[i] = r /\ \A k \in Instancias \ {i} : hilo'[k] = hilo[k]
  BY DEF TInv, TypeOK
<1>2. TypeOK'
  BY <1>1 DEF TInv, TypeOK, MismaLista
<1>3. Regreso' /\ HiloConSocket'
  BY <1>1 DEF TInv, Regreso, HiloConSocket
<1>4. PunteroEnLista'
  BY DEF TInv, PunteroEnLista, MismaLista
<1> QED BY <1>2, <1>3, <1>4 DEF TInv, ClaveDelTurno, Caben, Ocupadas

LEMMA Mandada ==
  ASSUME fds \in [Sockets -> {Libre} \cup Enlace], vivo \in BOOLEAN, NEW s, NEW m \in Peticion, Manda(s, m),
         s \in Sockets
  PROVE  fds' \in [Sockets -> {Libre} \cup Enlace] /\ vivo' \in BOOLEAN
<1>1. CASE /\ Escucha(s)
           /\ fds' = [fds EXCEPT ![s].hacia = Append(@, m)]
           /\ UNCHANGED vivo
  <2> DEFINE c == [fds[s] EXCEPT !.hacia = Append(@, m)]
  <2>1. fds[s] \in Enlace
    BY <1>1 DEF Escucha
  <2>2. c \in Enlace
    <3>1. Append(fds[s].hacia, m) \in Seq(Peticion)
      BY <2>1 DEF Enlace
    <3> QED BY <2>1, <3>1 DEF Enlace
  <2>3. fds' = [fds EXCEPT ![s] = c]
    BY <1>1
  <2> HIDE DEF c
  <2> QED BY <1>1, <2>2, <2>3
<1>2. CASE UNCHANGED fds
  BY <1>2 DEF Manda
<1> QED BY <1>1, <1>2 DEF Manda

LEMMA DespertarTInv ==
  ASSUME TInv, NEW i \in Instancias, Despertar(i)
  PROVE  TInv'
<1> DEFINE n == Propia(i)
           q == [instances[n] EXCEPT !.start = @ - 1]
           m == [op |-> operation, clave |-> message.key, valor |-> message.value]
           r == [hilo[i] EXCEPT !.pc = "respuesta", !.op = operation, !.header = Enviada(operation, @)]
<1>1. /\ instances \in Seq(instance_t) /\ fds \in [Sockets -> {Libre} \cup Enlace] /\ hilo[i] \in Hilo
      /\ operation \in {"GET", "SET", "STORE", "STATUS", "COMPACT"} /\ vivo \in BOOLEAN
      /\ message \in [key : Claves \cup {Nada}, value : Valores \cup {Nada}]
  BY Tipadas
<1>2. hilo[i].pc = "start" /\ hilo[i].socket \in Sockets /\ instances[n].start > 0
  BY DEF Despertar, HiloEn, TInv, HiloConSocket
<1>3. MismaLista
  <2>1. ASSUME n \in DOMAIN instances PROVE q \in instance_t
    <3> HIDE DEF n
    <3>1. instances[n] \in instance_t
      BY <1>1, <2>1
    <3>2. instances[n].start - 1 \in Nat
      BY <3>1, <1>2 DEF instance_t
    <3> QED BY <3>1, <3>2 DEF instance_t
  <2>2. instances' = [instances EXCEPT ![n] = q]
    BY DEF Despertar
  <2>3. instances \in Seq(instance_t)
    BY <1>1
  <2> HIDE DEF n, q
  <2> QED BY <2>1, <2>2, <2>3, Cambiada DEF MismaLista
<1>4. fds' \in [Sockets -> {Libre} \cup Enlace] /\ vivo' \in BOOLEAN
  <2>1. m \in Peticion
    BY <1>1 DEF Peticion
  <2>2. Manda(hilo[i].socket, m)
    BY DEF Despertar
  <2> QED BY <1>1, <1>2, <2>1, <2>2, Mandada
<1>5. r \in Hilo /\ r.socket = hilo[i].socket /\ r.pc = "respuesta"
  <2>1. Enviada(operation, hilo[i].header) \in Encabezado
    <3>1. LargoClave - 1 \in Nat /\ LargoClave \in Nat
      BY DistribucionAssumption
    <3>2. hilo[i].header \in Encabezado
      BY <1>1 DEF Hilo
    <3>3. \A id, len \in Nat : Cabecera(id, len) \in Encabezado
      BY DEF Cabecera, Encabezado
    <3>4. /\ Cabecera(13, LargoClave - 1) \in Encabezado /\ Cabecera(12, LargoClave) \in Encabezado
          /\ Cabecera(14, LargoClave - 1) \in Encabezado
      BY <3>1, <3>3
    <3> QED BY <3>2, <3>4 DEF Enviada
  <2> QED BY <1>1, <2>1 DEF Hilo
<1>6. hilo' = [hilo EXCEPT ![i] = r]
  BY <1>1 DEF Despertar, TInv, TypeOK
<1>7. UNCHANGED <<instance_pointer, semaforos, globales, cliente, tomadas, memoria, cuentas>>
  BY DEF Despertar
<1>8. one_instance \in Nat /\ result_instance \in Nat /\ compact \in Nat /\ has_value \in BOOLEAN
  BY Tipadas
<1> HIDE DEF r, n, q, m
<1> QED BY <1>1, <1>2, <1>3, <1>4, <1>5, <1>6, <1>7, <1>8, HiloMarco DEF semaforos, globales, cuentas

\* The header a thread goes on with.
LEMMA Leido ==
  ASSUME TInv, NEW i \in Instancias, Espera(i), Contesta(i)
  PROVE  fds' \in [Sockets -> {Libre} \cup Enlace] /\ Cabezal(i) \in Encabezado
<1> DEFINE s == hilo[i].socket
<1>1. fds \in [Sockets -> {Libre} \cup Enlace] /\ hilo[i] \in Hilo /\ s \in Sockets
  BY DEF TInv, TypeOK, HiloConSocket, Espera, HiloEn
<1>2. ASSUME Leida(i)
      PROVE  fds[s] \in Enlace /\ Head(fds[s].desde) \in Contestacion /\ Tail(fds[s].desde) \in Seq(Contestacion)
  <2>1. fds[s] \in Enlace /\ fds[s].desde # <<>>
    BY <1>1, <1>2 DEF Leida
  <2>2. fds[s].desde \in Seq(Contestacion)
    BY <2>1 DEF Enlace
  <2> QED BY <2>1, <2>2
<1>3. Cabezal(i) \in Encabezado
  BY <1>1, <1>2 DEF Cabezal, Contestacion, Hilo
<1>4. CASE Leida(i) /\ fds' = [fds EXCEPT ![s].desde = Tail(@)]
  <2> DEFINE c == [fds[s] EXCEPT !.desde = Tail(@)]
  <2>1. c \in Enlace
    BY <1>2, <1>4 DEF Enlace
  <2>2. fds' = [fds EXCEPT ![s] = c]
    BY <1>4
  <2> HIDE DEF c, s
  <2> QED BY <1>1, <1>3, <2>1, <2>2
<1>5. CASE UNCHANGED fds
  BY <1>1, <1>3, <1>5
<1> QED BY <1>4, <1>5 DEF Contesta
LEMMA RecibirRespuestaTInv ==
  ASSUME TInv, NEW i \in Instancias, RecibirRespuesta(i)
  PROVE  TInv'
<1> DEFINE n == Propia(i)
           h == Cabezal(i)
           q == [instances[n] EXCEPT !.free_space = h.len]
           r == [hilo[i] EXCEPT !.pc = "start", !.header = h]
<1>1. /\ instances \in Seq(instance_t) /\ hilo[i] \in Hilo
      /\ message \in [key : Claves \cup {Nada}, value : Valores \cup {Nada}]
      /\ one_instance \in Nat /\ result_instance \in Nat /\ compact \in Nat /\ has_value \in BOOLEAN
      /\ operation \in {"GET", "SET", "STORE", "STATUS", "COMPACT"} /\ vivo \in BOOLEAN
  BY Tipadas
<1>2. fds' \in [Sockets -> {Libre} \cup Enlace] /\ h \in Encabezado
  BY Leido DEF RecibirRespuesta
<1>3. hilo[i].pc # "no"
  BY DEF RecibirRespuesta, Espera, HiloEn
<1> HIDE DEF h
<1>4. MismaLista
  <2>1. ASSUME n \in DOMAIN instances PROVE q \in instance_t
    <3> HIDE DEF n
    <3>1. instances[n] \in instance_t /\ h.len \in Nat
      BY <1>1, <1>2, <2>1 DEF Encabezado
    <3> QED BY <3>1 DEF instance_t
  <2>2. instances' = instances \/ instances' = [instances EXCEPT ![n] = q]
    BY DEF RecibirRespuesta, Terminar, h
  <2>3. instances \in Seq(instance_t)
    BY <1>1
  <2> HIDE DEF n, q
  <2> QED BY <2>1, <2>2, <2>3, Cambiada DEF MismaLista
<1>5. /\ message' \in [key : Claves \cup {Nada}, value : Valores \cup {Nada}]
      /\ has_value' \in BOOLEAN /\ result_instance' \in Nat
  <2>1. message' = message \/ message' = [message EXCEPT !.key = Nada]
    BY DEF RecibirRespuesta, Terminar
  <2>2. has_value' = has_value \/ has_value' = (Cabezal(i).id = 13)
    BY DEF RecibirRespuesta, Terminar
  <2>3. result_instance' = result_instance + 1
    BY DEF RecibirRespuesta, Terminar
  <2>4. has_value' \in BOOLEAN
    BY <1>1, <2>2
  <2> QED BY <1>1, <2>1, <2>3, <2>4
<1>6. r \in Hilo /\ r.socket = hilo[i].socket /\ r.pc = "start"
  BY <1>1, <1>2 DEF Hilo
<1>7. hilo' = [hilo EXCEPT ![i] = r]
  BY <1>1 DEF RecibirRespuesta, Tras, TInv, TypeOK, h
<1>8. UNCHANGED <<instance_pointer, one_instance, compact, operation, cliente, tomadas, memoria, vivo, cuentas>>
  BY DEF RecibirRespuesta
<1> HIDE DEF r, n, q
<1> QED BY <1>1, <1>2, <1>3, <1>4, <1>5, <1>6, <1>7, <1>8, HiloMarco DEF cuentas

LEMMA CompactarTInv ==
  ASSUME TInv, NEW i \in Instancias,
         RecibirCompactado(i) \/ RecibirCompactar(i) \/ EsperarCompactado(i)
  PROVE  TInv'
<1>1. /\ instances \in Seq(instance_t) /\ hilo[i] \in Hilo /\ fds \in [Sockets -> {Libre} \cup Enlace]
      /\ message \in [key : Claves \cup {Nada}, value : Valores \cup {Nada}]
      /\ one_instance \in Nat /\ result_instance \in Nat /\ compact \in Nat /\ has_value \in BOOLEAN
      /\ operation \in {"GET", "SET", "STORE", "STATUS", "COMPACT"} /\ vivo \in BOOLEAN
  BY Tipadas
<1>2. UNCHANGED instances => MismaLista
  BY <1>1 DEF MismaLista
<1>3. CASE RecibirCompactado(i)
  <2> DEFINE r == [hilo[i] EXCEPT !.pc = "start", !.header = Cabezal(i)]
  <2>1. fds' \in [Sockets -> {Libre} \cup Enlace] /\ Cabezal(i) \in Encabezado
    BY <1>3, Leido DEF RecibirCompactado
  <2>2. r \in Hilo /\ r.socket = hilo[i].socket /\ r.pc = "start"
    BY <1>1, <2>1 DEF Hilo
  <2>3. hilo' = [hilo EXCEPT ![i] = r]
    BY <1>1, <1>3 DEF RecibirCompactado, Tras, TInv, TypeOK
  <2>4. /\ UNCHANGED <<listas, one_instance, result_instance, globales, cliente, tomadas, memoria, vivo, cuentas>>
        /\ compact' \in Nat /\ hilo[i].pc # "no"
    BY <1>1, <1>3 DEF RecibirCompactado, Espera, HiloEn
  <2> HIDE DEF r
  <2> QED BY <1>1, <1>2, <2>1, <2>2, <2>3, <2>4, HiloMarco DEF listas, globales, cuentas
<1>4. CASE RecibirCompactar(i)
  <2> DEFINE r == [hilo[i] EXCEPT !.pc = "filtrar", !.header = Cabezal(i), !.j = 1, !.lista = {}]
  <2>1. fds' \in [Sockets -> {Libre} \cup Enlace] /\ Cabezal(i) \in Encabezado
    BY <1>4, Leido DEF RecibirCompactar
  <2>2. r \in Hilo /\ r.socket = hilo[i].socket /\ r.pc = "filtrar"
    <3>1. 1 \in Nat \ {0} /\ {} \in SUBSET Nat
      OBVIOUS
    <3> QED BY <1>1, <2>1, <3>1 DEF Hilo
  <2>3. hilo' = [hilo EXCEPT ![i] = r]
    BY <1>1, <1>4 DEF RecibirCompactar, TInv, TypeOK
  <2>4. /\ UNCHANGED <<listas, semaforos, globales, cliente, tomadas, memoria, vivo, cuentas>>
        /\ hilo[i].pc # "no"
    BY <1>4 DEF RecibirCompactar, Espera, HiloEn
  <2> HIDE DEF r
  <2> QED BY <1>1, <1>2, <2>1, <2>2, <2>3, <2>4, HiloMarco DEF listas, semaforos, globales, cuentas
<1>5. CASE EsperarCompactado(i)
  <2> DEFINE r == [hilo[i] EXCEPT !.pc = "respuesta"]
  <2>1. r \in Hilo /\ r.socket = hilo[i].socket /\ r.pc = "respuesta"
    BY <1>1 DEF Hilo
  <2>2. hilo' = [hilo EXCEPT ![i] = r]
    BY <1>1, <1>5 DEF EsperarCompactado, TInv, TypeOK
  <2>3. /\ UNCHANGED <<listas, one_instance, result_instance, globales, cliente, tomadas, fds, memoria,
                       vivo, cuentas>>
        /\ compact' \in Nat /\ hilo[i].pc # "no"
    BY <1>1, <1>5 DEF EsperarCompactado, HiloEn
  <2> HIDE DEF r
  <2> QED BY <1>1, <1>2, <2>1, <2>2, <2>3, HiloMarco DEF listas, globales, cuentas
<1> QED BY <1>3, <1>4, <1>5

LEMMA FinTInv ==
  ASSUME TInv, NEW i \in Instancias, RecibirFin(i) \/ DescontarHilo(i)
  PROVE  TInv'
<1>1. /\ instances \in Seq(instance_t) /\ hilo[i] \in Hilo /\ fds \in [Sockets -> {Libre} \cup Enlace]
      /\ message \in [key : Claves \cup {Nada}, value : Valores \cup {Nada}]
      /\ one_instance \in Nat /\ result_instance \in Nat /\ compact \in Nat /\ has_value \in BOOLEAN
      /\ operation \in {"GET", "SET", "STORE", "STATUS", "COMPACT"} /\ vivo \in BOOLEAN
  BY Tipadas
<1>2. CASE RecibirFin(i)
  <2> DEFINE r == [hilo[i] EXCEPT !.pc = IF socket_is_equal(hilo[i].socket) = 0 THEN "fin" ELSE "descontar",
                                  !.sigue = "fin"]
  <2>1. MismaLista /\ fds' \in [Sockets -> {Libre} \cup Enlace]
    BY <1>1, <1>2, Desconectada DEF RecibirFin
  <2>2. r \in Hilo /\ r.socket = hilo[i].socket /\ r.sigue # ""
    BY <1>1 DEF Hilo
  <2>3. hilo' = [hilo EXCEPT ![i] = r]
    BY <1>1, <1>2 DEF RecibirFin, TInv, TypeOK
  <2>4. /\ UNCHANGED <<instance_pointer, semaforos, globales, cliente, tomadas, memoria, vivo, cuentas>>
        /\ hilo[i].pc # "no"
    BY <1>2 DEF RecibirFin, HiloEn
  <2> HIDE DEF r
  <2> QED BY <1>1, <2>1, <2>2, <2>3, <2>4, HiloMarco DEF semaforos, globales, cuentas
<1>3. CASE DescontarHilo(i)
  <2> DEFINE r == [hilo[i] EXCEPT !.pc = hilo[i].sigue]
  <2>1. hilo[i].pc = "descontar" /\ hilo[i].sigue \in {"fin", "filtrar"}
    BY <1>1, <1>3 DEF DescontarHilo, HiloEn, TInv, Regreso, Hilo
  <2>2. r \in Hilo /\ r.socket = hilo[i].socket /\ r.pc # "descontar"
    BY <1>1, <2>1 DEF Hilo
  <2>3. hilo' = [hilo EXCEPT ![i] = r]
    BY <1>1, <1>3 DEF DescontarHilo, TInv, TypeOK
  <2>4. MismaLista /\ one_instance' \in Nat /\ vivo' \in BOOLEAN
    BY <1>1, <1>3, Descontada DEF DescontarHilo
  <2>5. UNCHANGED <<instance_pointer, result_instance, compact, globales, cliente, tomadas, fds, memoria, cuentas>>
    BY <1>3 DEF DescontarHilo
  <2> HIDE DEF r
  <2> QED BY <1>1, <2>1, <2>2, <2>3, <2>4, <2>5, HiloMarco DEF globales, cuentas
<1> QED BY <1>2, <1>3

LEMMA HiloCampos == \A h \in Hilo : h.j \in Nat \ {0} /\ h.j + 1 \in Nat \ {0} /\ h.lista \in SUBSET Nat
<1> SUFFICES ASSUME NEW h \in Hilo PROVE h.j \in Nat \ {0} /\ h.j + 1 \in Nat \ {0} /\ h.lista \in SUBSET Nat
  OBVIOUS
<1>1. h.j \in Nat \ {0}
  BY DEF Hilo
<1>2. h.lista \in SUBSET Nat
  BY DEF Hilo
<1> QED BY <1>1, <1>2

LEMMA FiltrarTInv ==
  ASSUME TInv, NEW i \in Instancias, Filtrar(i)
  PROVE  TInv'
<1> DEFINE s == instances[hilo[i].j].socket
<1>1. /\ instances \in Seq(instance_t) /\ hilo[i] \in Hilo /\ fds \in [Sockets -> {Libre} \cup Enlace]
      /\ message \in [key : Claves \cup {Nada}, value : Valores \cup {Nada}]
      /\ one_instance \in Nat /\ result_instance \in Nat /\ compact \in Nat /\ has_value \in BOOLEAN
      /\ operation \in {"GET", "SET", "STORE", "STATUS", "COMPACT"} /\ vivo \in BOOLEAN
  BY Tipadas
<1>2. PICK r \in Hilo :
        /\ r.socket = hilo[i].socket /\ (r.pc = "descontar" => r.sigue # "")
        /\ hilo' = [hilo EXCEPT ![i] = r]
        /\ \/ UNCHANGED <<fds, instances>>
           \/ Desconectar(s)
  <2>1. CASE \E incluye \in BOOLEAN :
               /\ hilo' = [hilo EXCEPT ![i].j = hilo[i].j + 1,
                                       ![i].lista = IF incluye THEN @ \cup {hilo[i].j} ELSE @]
               /\ UNCHANGED <<fds, instances>>
    <3>1. PICK incluye \in BOOLEAN :
               /\ hilo' = [hilo EXCEPT ![i].j = hilo[i].j + 1,
                                       ![i].lista = IF incluye THEN @ \cup {hilo[i].j} ELSE @]
               /\ UNCHANGED <<fds, instances>>
      BY <2>1
    <3> DEFINE r == [hilo[i] EXCEPT !.j = @ + 1, !.lista = IF incluye THEN @ \cup {hilo[i].j} ELSE @]
    <3>2. hilo' = [hilo EXCEPT ![i] = r]
      BY <1>1, <3>1 DEF TInv, TypeOK
    <3>3. r \in Hilo /\ r.socket = hilo[i].socket
      <4>1. hilo[i].j \in Nat /\ hilo[i].j + 1 \in Nat \ {0} /\ hilo[i].lista \in SUBSET Nat
        BY <1>1, HiloCampos
      <4>2. (IF incluye THEN hilo[i].lista \cup {hilo[i].j} ELSE hilo[i].lista) \in SUBSET Nat
        BY <4>1
      <4> QED BY <1>1, <4>1, <4>2 DEF Hilo
    <3>4. r.pc # "descontar"
      BY <1>1 DEF Filtrar, HiloEn, Hilo
    <3> HIDE DEF r
    <3> QED BY <3>1, <3>2, <3>3, <3>4
  <2>2. CASE /\ Desconectar(s)
             /\ hilo' = [hilo EXCEPT ![i].j = hilo[i].j + 1, ![i].pc = "descontar", ![i].sigue = "filtrar"]
    <3> DEFINE r == [hilo[i] EXCEPT !.j = @ + 1, !.pc = "descontar", !.sigue = "filtrar"]
    <3>1. hilo' = [hilo EXCEPT ![i] = r]
      BY <1>1, <2>2 DEF TInv, TypeOK
    <3>2. r \in Hilo /\ r.socket = hilo[i].socket /\ r.sigue # ""
      <4>1. hilo[i].j + 1 \in Nat \ {0}
        BY <1>1, HiloCampos
      <4> QED BY <1>1, <4>1 DEF Hilo
    <3> HIDE DEF r
    <3> QED BY <2>2, <3>1, <3>2
  <2> QED BY <2>1, <2>2 DEF Filtrar
<1>3. MismaLista /\ fds' \in [Sockets -> {Libre} \cup Enlace]
  <2> HIDE DEF s
  <2>1. CASE UNCHANGED <<fds, instances>>
    BY <1>1, <2>1 DEF MismaLista
  <2>2. CASE Desconectar(s)
    BY <1>1, <2>2, Desconectada
  <2> QED BY <1>2, <2>1, <2>2
<1>4. /\ UNCHANGED <<instance_pointer, semaforos, globales, cliente, tomadas, memoria, vivo, cuentas>>
      /\ hilo[i].pc # "no"
  BY DEF Filtrar, HiloEn
<1> QED BY <1>1, <1>2, <1>3, <1>4, HiloMarco DEF semaforos, globales, cuentas

LEMMA PedirCompactarTInv ==
  ASSUME TInv, NEW i \in Instancias, PedirCompactar(i)
  PROVE  TInv'
<1> DEFINE d(n) == IF n \in hilo[i].lista THEN [instances[n] EXCEPT !.start = @ + 1] ELSE instances[n]
<1>1. /\ instances \in Seq(instance_t) /\ hilo[i] \in Hilo /\ fds \in [Sockets -> {Libre} \cup Enlace]
      /\ message \in [key : Claves \cup {Nada}, value : Valores \cup {Nada}]
      /\ one_instance \in Nat /\ result_instance \in Nat /\ compact \in Nat /\ has_value \in BOOLEAN
      /\ operation \in {"GET", "SET", "STORE", "STATUS", "COMPACT"} /\ vivo \in BOOLEAN
  BY Tipadas
<1>2. PICK p \in {"respuesta", "compactando"} : hilo' = [hilo EXCEPT ![i].pc = p]
  BY DEF PedirCompactar
<1> DEFINE r == [hilo[i] EXCEPT !.pc = p]
<1>3. hilo' = [hilo EXCEPT ![i] = r] /\ r \in Hilo /\ r.socket = hilo[i].socket /\ r.pc # "descontar"
  BY <1>1, <1>2 DEF Hilo, TInv, TypeOK
<1>4. MismaLista
  <2>1. Lugares = 1..Len(instances) /\ Len(instances) \in Nat
    BY <1>1 DEF Lugares
  <2>2. ASSUME NEW n \in Lugares PROVE d(n) \in instance_t
    <3>1. instances[n] \in instance_t
      BY <1>1, <2>1
    <3>2. instances[n].start + 1 \in Nat
      BY <3>1 DEF instance_t
    <3> QED BY <3>1, <3>2 DEF instance_t
  <2>3. instances' = instances \/ instances' = [n \in Lugares |-> d(n)]
    BY DEF PedirCompactar
  <2> HIDE DEF d
  <2>4. CASE instances' = [n \in Lugares |-> d(n)]
    BY <1>1, <2>1, <2>2, <2>4 DEF MismaLista
  <2> QED BY <1>1, <2>3, <2>4 DEF MismaLista
<1>5. /\ UNCHANGED <<instance_pointer, semaforos, message, has_value, cliente, tomadas, fds, memoria, vivo, cuentas>>
      /\ operation' \in {operation, "COMPACT"} /\ hilo[i].pc # "no"
  BY DEF PedirCompactar, HiloEn
<1> HIDE DEF r
<1> QED BY <1>1, <1>3, <1>4, <1>5, HiloMarco DEF semaforos, cuentas

LEMMA HiloTInv ==
  ASSUME TInv, NEW i \in Instancias, PasoHilo(i)
  PROVE  TInv'
BY DespertarTInv, RecibirRespuestaTInv, CompactarTInv, FinTInv, FiltrarTInv, PedirCompactarTInv DEF PasoHilo
LEMMA SinHiloEsHilo == SinHilo \in Hilo /\ SinHilo.pc = "no"
<1>1. 1 \in Nat \ {0} /\ {} \in SUBSET Nat
  OBVIOUS
<1> QED BY <1>1 DEF SinHilo, Hilo, Encabezado

\* The descriptor accept gives.
LEMMA Aceptada ==
  ASSUME Cerrados # {}
  PROVE  Min(Cerrados) \in Sockets /\ fds[Min(Cerrados)] = Libre
<1>1. Cerrados \in SUBSET Nat /\ Cerrados \subseteq Sockets
  BY DEF Cerrados, Sockets
<1>2. Min(Cerrados) \in Cerrados
  BY <1>1, MinEsta
<1> QED BY <1>1, <1>2 DEF Cerrados

LEMMA ConexionEsEnlace ==
  ASSUME NEW i \in Instancias \cup {Otro}
  PROVE  Conexion(i) \in Enlace
BY DEF Conexion, Enlace

LEMMA AgregarTInv ==
  ASSUME TInv, NEW i \in Instancias, AgregarInstancia(i)
  PROVE  TInv'
<1> DEFINE s == Min(Cerrados)
           l == Append(instances, Nueva(i, s))
           r == [SinHilo EXCEPT !.pc = "start", !.socket = s]
<1>1. s \in Sockets /\ s \in Nat
  BY Aceptada DEF AgregarInstancia, Sockets
<1>2. instances \in Seq(instance_t) /\ fds \in [Sockets -> {Libre} \cup Enlace]
      /\ hilo \in [Instancias -> Hilo] /\ one_instance \in Nat /\ Len(instances) \in Nat
      /\ instance_pointer \in Nat
  BY DEF TInv, TypeOK
<1>3. /\ fds' = [fds EXCEPT ![s] = Conexion(i)] /\ instances' = assign_letters(l)
      /\ hilo' = [hilo EXCEPT ![i] = r] /\ one_instance' = one_instance + 1
      /\ UNCHANGED <<instance_pointer, result_instance, compact, globales, cliente, tomadas, memoria, vivo,
                     cuentas>>
  BY DEF AgregarInstancia
<1> HIDE DEF s
<1>4. l \in Seq(instance_t) /\ Len(l) = Len(instances) + 1
  <2>1. Nueva(i, s) \in instance_t
    BY <1>1 DEF Nueva, instance_t
  <2> QED BY <1>2, <2>1
<1>5. instances' \in Seq(instance_t) /\ Len(instances') = Len(instances) + 1
  <2> HIDE DEF l
  <2> QED BY <1>3, <1>4, ListaConLetras
<1>6. r \in Hilo /\ r.socket = s /\ r.pc = "start"
  <2>1. SinHilo \in Hilo
    BY SinHiloEsHilo
  <2> QED BY <1>1, <2>1 DEF Hilo
<1>7. fds' \in [Sockets -> {Libre} \cup Enlace]
  BY <1>1, <1>2, <1>3, ConexionEsEnlace
<1> HIDE DEF r
<1>8. TypeOK'
  BY <1>2, <1>3, <1>5, <1>6, <1>7 DEF TInv, TypeOK, globales, cuentas
<1>9. Regreso' /\ HiloConSocket'
  BY <1>1, <1>2, <1>3, <1>6 DEF TInv, Regreso, HiloConSocket
<1>10. PunteroEnLista'
  BY <1>2, <1>3, <1>5 DEF TInv, PunteroEnLista, cuentas
<1> QED BY <1>3, <1>8, <1>9, <1>10 DEF TInv, ClaveDelTurno, Caben, Ocupadas

LEMMA VuelveTInv ==
  ASSUME TInv, NEW i \in Instancias, VuelveInstancia(i)
  PROVE  TInv'
<1> DEFINE s == Min(Cerrados)
           n == Propia(i)
           q == [instances[n] EXCEPT !.socket = s, !.is_active = TRUE]
           l == [instances EXCEPT ![n] = q]
<1>1. s \in Sockets
  BY Aceptada DEF VuelveInstancia
<1>2. instances \in Seq(instance_t) /\ fds \in [Sockets -> {Libre} \cup Enlace] /\ one_instance \in Nat
  BY DEF TInv, TypeOK
<1>3. /\ fds' = [fds EXCEPT ![s] = Conexion(i)] /\ instances' = assign_letters(l)
      /\ one_instance' = one_instance + 1
      /\ UNCHANGED <<instance_pointer, result_instance, compact, globales, cliente, tomadas, hilo, memoria,
                     vivo, algorithm>>
  BY DEF VuelveInstancia
<1> HIDE DEF s
<1>4. l \in Seq(instance_t) /\ Len(l) = Len(instances)
  <2>1. ASSUME n \in DOMAIN instances PROVE q \in instance_t
    <3> HIDE DEF n
    <3>1. instances[n] \in instance_t
      BY <1>2, <2>1
    <3> QED BY <1>1, <3>1 DEF instance_t
  <2> HIDE DEF n, q
  <2> QED BY <1>2, <2>1, Cambiada
<1>5. MismaLista
  <2> HIDE DEF l
  <2> QED BY <1>3, <1>4, ListaConLetras DEF MismaLista
<1>6. fds' \in [Sockets -> {Libre} \cup Enlace]
  BY <1>1, <1>2, <1>3, ConexionEsEnlace
<1>7. TypeOK'
  BY <1>2, <1>3, <1>5, <1>6 DEF TInv, TypeOK, globales, MismaLista
<1>8. PunteroEnLista'
  BY <1>3, <1>5 DEF TInv, PunteroEnLista, MismaLista
<1> QED BY <1>3, <1>7, <1>8 DEF TInv, ClaveDelTurno, Regreso, HiloConSocket, Caben, Ocupadas

LEMMA ConectaOtroTInv ==
  ASSUME TInv, ConectaOtro
  PROVE  TInv'
<1> DEFINE s == Min(Cerrados)
<1>1. s \in Sockets
  BY Aceptada DEF ConectaOtro
<1>2. /\ fds' = [fds EXCEPT ![s] = Conexion(Otro)]
      /\ UNCHANGED <<listas, semaforos, globales, cliente, tomadas, hilo, memoria, vivo, algorithm>>
  BY DEF ConectaOtro
<1> HIDE DEF s
<1>3. fds' \in [Sockets -> {Libre} \cup Enlace]
  BY <1>1, <1>2, ConexionEsEnlace DEF TInv, TypeOK
<1>4. TypeOK'
  BY <1>2, <1>3 DEF TInv, TypeOK, listas, semaforos, globales
<1> QED BY <1>2, <1>4 DEF TInv, ClaveDelTurno, Regreso, HiloConSocket, Caben, Ocupadas, PunteroEnLista, listas

\* What is left of TInv when only the peers act.
LEMMA ParesMarco ==
  ASSUME TInv, fds' \in [Sockets -> {Libre} \cup Enlace],
         memoria' \in [Instancias -> [Claves -> Valores \cup {Nada}]], Caben',
         UNCHANGED <<listas, semaforos, globales, cliente, tomadas, hilo, vivo, algorithm>>
  PROVE  TInv'
<1>1. TypeOK'
  BY DEF TInv, TypeOK, listas, semaforos, globales
<1> QED BY <1>1 DEF TInv, ClaveDelTurno, Regreso, HiloConSocket, PunteroEnLista, listas

LEMMA CaeTInv ==
  ASSUME TInv, NEW i \in Instancias, Cae(i)
  PROVE  TInv'
<1>1. PICK s \in Sockets : fds[s] # Libre /\ fds' = [fds EXCEPT ![s].abierta = FALSE, ![s].hacia = <<>>]
  BY DEF Cae, Conectada
<1> DEFINE c == [fds[s] EXCEPT !.abierta = FALSE, !.hacia = <<>>]
<1>2. fds' = [fds EXCEPT ![s] = c] /\ c \in Enlace
  <2>1. fds[s] \in Enlace /\ <<>> \in Seq(Peticion)
    BY <1>1 DEF TInv, TypeOK
  <2>2. c \in Enlace
    BY <2>1 DEF Enlace
  <2> QED BY <1>1, <2>2
<1> HIDE DEF c
<1>3. fds' \in [Sockets -> {Libre} \cup Enlace]
  BY <1>2 DEF TInv, TypeOK
<1>4. /\ memoria' = [memoria EXCEPT ![i] = SinMemoria]
      /\ UNCHANGED <<listas, semaforos, globales, cliente, tomadas, hilo, vivo, algorithm>>
  BY DEF Cae
<1>5. memoria \in [Instancias -> [Claves -> Valores \cup {Nada}]]
  BY DEF TInv, TypeOK
<1>6. memoria' \in [Instancias -> [Claves -> Valores \cup {Nada}]]
  BY <1>4, <1>5 DEF SinMemoria
<1>7. Caben'
  <2>1. ASSUME NEW k \in Instancias PROVE (IsFiniteSet(Ocupadas(k)) /\ Cardinality(Ocupadas(k)) <= Capacidad)'
    <3>1. CASE k = i
      <4>1. memoria'[k] = SinMemoria
        BY <1>4, <1>5, <3>1
      <4>2. {q \in Claves : memoria'[k][q] # Nada} = {}
        BY <4>1 DEF SinMemoria
      <4> QED BY <4>2, FS_EmptySet, DistribucionAssumption DEF Ocupadas
    <3>2. CASE k # i
      <4>1. memoria'[k] = memoria[k]
        BY <1>4, <1>5, <3>2
      <4> QED BY <4>1 DEF Ocupadas, TInv, Caben
    <3> QED BY <3>1, <3>2
  <2> QED BY <2>1 DEF Caben
<1> QED BY <1>3, <1>4, <1>6, <1>7, ParesMarco

\* A SET leaves no more keys than fit, and there is room left to report.
LEMMA GuardaCabe ==
  ASSUME TInv, NEW i \in Instancias, NEW m \in Peticion, NEW R \in SUBSET Ocupadas(i), m.clave \notin R,
         LET tiene == m.clave \in Claves /\ memoria[i][m.clave] # Nada
         IN  IF Cardinality(Ocupadas(i)) = Capacidad /\ ~tiene THEN Cardinality(R) = 1 ELSE R = {}
  PROVE  LET Quedan == (Ocupadas(i) \ R) \cup {m.clave}
         IN  /\ Capacidad - Cardinality(Quedan) \in Nat
             /\ \A S \in SUBSET Quedan : IsFiniteSet(S) /\ Cardinality(S) <= Capacidad
<1> DEFINE O == Ocupadas(i)
           Q == (O \ R) \cup {m.clave}
<1>1. IsFiniteSet(O) /\ Cardinality(O) <= Capacidad /\ Cardinality(O) \in Nat /\ Capacidad \in Nat
  BY FS_CardinalityType, DistribucionAssumption DEF TInv, Caben
<1>2. m.clave \in O <=> m.clave \in Claves /\ memoria[i][m.clave] # Nada
  BY DEF Ocupadas
<1> HIDE DEF O
<1>3. IsFiniteSet(R) /\ IsFiniteSet(O \ R) /\ Cardinality(O \ R) \in Nat /\ Cardinality(R) \in Nat
      /\ O \cap R = R /\ Cardinality(O \ R) = Cardinality(O) - Cardinality(R)
  <2>1. R \in SUBSET O /\ O \cap R = R
    BY DEF O
  <2> QED BY <1>1, <2>1, FS_Subset, FS_Difference, FS_CardinalityType, ZenonT(40)
<1>4. IsFiniteSet(Q) /\ Cardinality(Q) \in Nat
      /\ Cardinality(Q) = IF m.clave \in O \ R THEN Cardinality(O \ R) ELSE Cardinality(O \ R) + 1
  BY <1>3, FS_AddElement, FS_CardinalityType
<1>5. Cardinality(Q) <= Capacidad
  <2>1. CASE m.clave \in O
    BY <1>1, <1>3, <1>4, <2>1
  <2>2. CASE m.clave \notin O /\ Cardinality(O) = Capacidad
    <3>1. Cardinality(R) = 1
      BY <1>2, <2>2 DEF O
    <3> QED BY <1>1, <1>3, <1>4, <2>2, <3>1
  <2>3. CASE m.clave \notin O /\ Cardinality(O) # Capacidad
    <3>1. Cardinality(O \ R) <= Cardinality(O)
      BY <1>1, <1>3
    <3> QED BY <1>1, <1>3, <1>4, <2>3, <3>1
  <2> QED BY <2>1, <2>2, <2>3
<1> HIDE DEF Q
<1>6. ASSUME NEW S \in SUBSET Q
      PROVE  IsFiniteSet(S) /\ Cardinality(S) <= Capacidad
  <2>1. IsFiniteSet(S) /\ Cardinality(S) <= Cardinality(Q)
    BY <1>4, FS_Subset
  <2>2. Cardinality(S) \in Nat
    BY <2>1, FS_CardinalityType
  <2> QED BY <1>1, <1>4, <1>5, <2>1, <2>2
<1> QED BY <1>1, <1>4, <1>5, <1>6 DEF Q, O

\* What an Instance answers: to a SET it keeps, and to the others.
Pedida(s) == Head(fds[s].hacia)
Dice(s, rs) == fds' = [fds EXCEPT ![s].hacia = Tail(@), ![s].desde = @ \o rs]
DiceSet(i, s, R, avisa) ==
  /\ Pedida(s).clave \notin R
  /\ LET tiene == Pedida(s).clave \in Claves /\ memoria[i][Pedida(s).clave] # Nada
     IN  IF Cardinality(Ocupadas(i)) = Capacidad /\ ~tiene THEN Cardinality(R) = 1 ELSE R = {}
  /\ memoria' = [memoria EXCEPT ![i] = Guarda(i, Pedida(s), R)]
  /\ Dice(s, (IF avisa THEN <<Respuesta(11, 0, Pedida(s))>> ELSE <<>>) \o
             <<Respuesta(12, Capacidad - Cardinality((Ocupadas(i) \ R) \cup {Pedida(s).clave}), Pedida(s))>>)
DiceOtra(s) ==
  /\ UNCHANGED memoria
  /\ \/ Dice(s, <<Respuesta(12, 0, Pedida(s))>>)
     \/ Dice(s, <<Respuesta(15, 0, Pedida(s)), Respuesta(12, 0, Pedida(s))>>)
     \/ Dice(s, <<Respuesta(13, 0, Pedida(s)), Respuesta(0, 0, Pedida(s))>>)
     \/ Dice(s, <<Respuesta(19, 0, Pedida(s))>>)

LEMMA SirveDice ==
  ASSUME NEW i \in Instancias, Sirve(i)
  PROVE  \E s \in Conectada(i) :
           /\ fds[s].hacia # <<>>
           /\ \/ \E R \in SUBSET Ocupadas(i), avisa \in BOOLEAN : DiceSet(i, s, R, avisa)
              \/ DiceOtra(s)
<1> DEFINE tiene(s) == Pedida(s).clave \in Claves /\ memoria[i][Pedida(s).clave] # Nada
<1>1. PICK s \in Conectada(i) :
        /\ fds[s].hacia # <<>>
        /\ \/ \E R \in SUBSET Ocupadas(i), avisa \in {FALSE, Compactan /\ ~tiene(s)} : DiceSet(i, s, R, avisa)
           \/ DiceOtra(s)
  BY ZenonT(60) DEF Sirve, Ocupadas, Pedida, Dice, DiceSet, DiceOtra
<1>2. FALSE \in BOOLEAN /\ (Compactan /\ ~tiene(s)) \in BOOLEAN
  OBVIOUS
<1> HIDE DEF tiene
<1> QED BY <1>1, <1>2

LEMMA SirveMarco ==
  ASSUME NEW i \in Instancias, Sirve(i)
  PROVE  UNCHANGED <<listas, semaforos, globales, cliente, tomadas, hilo, vivo, cuentas>>
BY ZenonT(60) DEF Sirve

LEMMA SirveTInv ==
  ASSUME TInv, NEW i \in Instancias, Sirve(i)
  PROVE  TInv'
<1>1. /\ fds \in [Sockets -> {Libre} \cup Enlace]
      /\ memoria \in [Instancias -> [Claves -> Valores \cup {Nada}]]
  BY DEF TInv, TypeOK
<1>2. PICK s \in Sockets :
        /\ fds[s] # Libre /\ fds[s].hacia # <<>>
        /\ \/ \E R \in SUBSET Ocupadas(i), avisa \in BOOLEAN : DiceSet(i, s, R, avisa)
           \/ DiceOtra(s)
  BY SirveDice DEF Conectada
<1>3. UNCHANGED <<listas, semaforos, globales, cliente, tomadas, hilo, vivo, algorithm>>
  BY SirveMarco DEF cuentas
<1>4. fds[s] \in Enlace /\ Pedida(s) \in Peticion /\ Tail(fds[s].hacia) \in Seq(Peticion)
      /\ fds[s].desde \in Seq(Contestacion)
  <2>1. fds[s] \in Enlace
    BY <1>1, <1>2
  <2>2. fds[s].hacia \in Seq(Peticion) /\ fds[s].desde \in Seq(Contestacion) /\ fds[s].hacia # <<>>
    BY <1>2, <2>1 DEF Enlace
  <2>3. Head(fds[s].hacia) \in Peticion /\ Tail(fds[s].hacia) \in Seq(Peticion)
    BY <2>2
  <2> QED BY <2>1, <2>2, <2>3 DEF Pedida
<1>5. \A id, len \in Nat : Respuesta(id, len, Pedida(s)) \in Contestacion
  BY <1>4 DEF Respuesta, Cabecera, Contestacion, Encabezado
<1>6. ASSUME NEW rs \in Seq(Contestacion), Dice(s, rs)
      PROVE  fds' \in [Sockets -> {Libre} \cup Enlace]
  <2> DEFINE c == [fds[s] EXCEPT !.hacia = Tail(@), !.desde = @ \o rs]
  <2>1. fds[s].desde \o rs \in Seq(Contestacion)
    BY <1>4
  <2>2. c \in Enlace
    BY <1>4, <2>1 DEF Enlace
  <2>3. fds' = [fds EXCEPT ![s] = c]
    BY <1>1, <1>6 DEF Dice
  <2> HIDE DEF c
  <2> QED BY <1>1, <2>2, <2>3
<1>7. CASE DiceOtra(s)
  <2>1. PICK rs \in Seq(Contestacion) : Dice(s, rs)
    <3>1. \A a, b \in Contestacion : <<a>> \in Seq(Contestacion) /\ <<a, b>> \in Seq(Contestacion)
      OBVIOUS
    <3> QED BY <1>5, <1>7, <3>1 DEF DiceOtra
  <2>2. fds' \in [Sockets -> {Libre} \cup Enlace]
    BY <1>6, <2>1
  <2>3. memoria' = memoria
    BY <1>7 DEF DiceOtra
  <2> QED BY <1>1, <1>3, <2>2, <2>3, ParesMarco DEF TInv, Caben, Ocupadas
<1>8. CASE \E R \in SUBSET Ocupadas(i), avisa \in BOOLEAN : DiceSet(i, s, R, avisa)
  <2>1. PICK R \in SUBSET Ocupadas(i), avisa \in BOOLEAN : DiceSet(i, s, R, avisa)
    BY <1>8
  <2> DEFINE Quedan == (Ocupadas(i) \ R) \cup {Pedida(s).clave}
  <2>2. /\ Capacidad - Cardinality(Quedan) \in Nat
        /\ \A S \in SUBSET Quedan : IsFiniteSet(S) /\ Cardinality(S) <= Capacidad
    BY <1>4, <2>1, GuardaCabe DEF DiceSet
  <2>3. fds' \in [Sockets -> {Libre} \cup Enlace]
    <3> DEFINE aviso == IF avisa THEN <<Respuesta(11, 0, Pedida(s))>> ELSE <<>>
               dice == <<Respuesta(12, Capacidad - Cardinality(Quedan), Pedida(s))>>
    <3>1. aviso \in Seq(Contestacion) /\ dice \in Seq(Contestacion)
      <4> HIDE DEF Quedan
      <4>1. Respuesta(11, 0, Pedida(s)) \in Contestacion /\ Respuesta(12, Capacidad - Cardinality(Quedan), Pedida(s)) \in Contestacion
        BY <1>5, <2>2
      <4> QED BY <4>1
    <3>2. Dice(s, aviso \o dice)
      BY <2>1 DEF DiceSet
    <3> HIDE DEF aviso, dice
    <3>3. aviso \o dice \in Seq(Contestacion)
      BY <3>1
    <3> QED BY <1>6, <3>2, <3>3
  <2>4. memoria' = [memoria EXCEPT ![i] = Guarda(i, Pedida(s), R)]
    BY <2>1 DEF DiceSet
  <2>5. Guarda(i, Pedida(s), R) \in [Claves -> Valores \cup {Nada}]
    BY <1>1, <1>4 DEF Guarda, Peticion
  <2>6. memoria' \in [Instancias -> [Claves -> Valores \cup {Nada}]]
    BY <1>1, <2>4, <2>5
  <2>7. Caben'
    <3>1. ASSUME NEW k \in Instancias
          PROVE (IsFiniteSet(Ocupadas(k)) /\ Cardinality(Ocupadas(k)) <= Capacidad)'
      <4>1. CASE k = i
        <5>1. memoria'[k] = Guarda(i, Pedida(s), R)
          BY <1>1, <2>4, <4>1
        <5>2. {q \in Claves : memoria'[k][q] # Nada} \in SUBSET Quedan
          BY <5>1 DEF Guarda, Ocupadas
        <5> QED BY <2>2, <5>2 DEF Ocupadas
      <4>2. CASE k # i
        <5>1. memoria'[k] = memoria[k]
          BY <1>1, <2>4, <4>2
        <5> QED BY <5>1 DEF Ocupadas, TInv, Caben
      <4> QED BY <4>1, <4>2
    <3> QED BY <3>1 DEF Caben
  <2> QED BY <1>3, <2>3, <2>6, <2>7, ParesMarco
<1> QED BY <1>2, <1>7, <1>8

LEMMA InicioTInv == Init => TInv
<1> SUFFICES ASSUME Init PROVE TInv
  OBVIOUS
<1>1. SinHilo \in Hilo /\ SinHilo.pc = "no"
  BY SinHiloEsHilo
<1>2. Ocioso \in Cliente /\ Ocioso.pc = "libre"
  BY OciosoEsCliente
<1>3. TypeOK
  <2>1. hilo \in [Instancias -> Hilo] /\ cliente \in Cliente
    BY <1>1, <1>2 DEF Init
  <2>2. memoria \in [Instancias -> [Claves -> Valores \cup {Nada}]]
    BY DEF Init, SinMemoria
  <2>3. instances \in Seq(instance_t)
    BY DEF Init
  <2>4. message \in [key : Claves \cup {Nada}, value : Valores \cup {Nada}]
    BY DEF Init
  <2>5. fds \in [Sockets -> {Libre} \cup Enlace]
    BY DEF Init
  <2> QED BY <2>1, <2>2, <2>3, <2>4, <2>5 DEF Init, TypeOK
<1>4. Caben
  <2>1. \A i \in Instancias : Ocupadas(i) = {}
    BY DEF Init, Ocupadas, SinMemoria
  <2>2. 0 <= Capacidad
    BY DistribucionAssumption
  <2> QED BY <2>1, <2>2, FS_EmptySet DEF Caben
<1> QED BY <1>1, <1>2, <1>3, <1>4 DEF Init, TInv, ClaveDelTurno, Regreso, HiloConSocket, PunteroEnLista

LEMMA PasoTInv == TInv /\ [Next]_vars => TInv'
<1> SUFFICES ASSUME TInv, [Next]_vars PROVE TInv'
  OBVIOUS
<1>1. CASE UNCHANGED vars
  BY <1>1, ZenonT(60) DEF vars, TInv, TypeOK, ClaveDelTurno, Regreso, HiloConSocket, PunteroEnLista, Caben, Ocupadas,
     listas, semaforos, globales, cuentas
<1>2. CASE Next
  BY <1>2, PideTInv, ClienteTInv, HiloTInv, AgregarTInv, VuelveTInv, CaeTInv, SirveTInv, ConectaOtroTInv
     DEF Next
<1> QED BY <1>1, <1>2

\* The thread of every Instance works on a descriptor, no index leaves the list
\* and no Instance reports less than no room, whatever falls, comes back and
\* compacts.
THEOREM Tipos == Spec => []TypeOK
<1>1. Spec => []TInv
  BY InicioTInv, PasoTInv, PTL DEF Spec
<1>2. TInv => TypeOK
  BY DEF TInv
<1> QED BY <1>1, <1>2, PTL
-----------------------------------------------------------------------------
(* What a step does to the list: nothing that matters here, an Instance    *)
(* that is taken off, the wait for one_instance that follows, one that     *)
(* connects or one that comes back.                                        *)

MismasFichas ==
  /\ MismaLista
  /\ \A n \in Lugares :
       /\ instances'[n].name = instances[n].name /\ instances'[n].socket = instances[n].socket
       /\ instances'[n].is_active = instances[n].is_active
       /\ instances'[n].letter_min = instances[n].letter_min
       /\ instances'[n].letter_max = instances[n].letter_max

\* assign_instance holds one_instance while it chooses.
Reserva ==
  IF cliente.pc = "elegir" \/ (cliente.pc = "descontar" /\ cliente.sigue = "elegir") THEN 1 ELSE 0
\* Who has taken an Instance off and not waited for one_instance yet.
EnDescuento == {i \in Instancias : hilo[i].pc = "descontar"}
Descuenta == cliente.pc = "descontar"

MismosHilos == EnDescuento' = EnDescuento /\ \A i \in Instancias : hilo[i].pc = "no" <=> hilo'[i].pc = "no"

Quieta ==
  /\ MismasFichas /\ MismosHilos /\ (Descuenta' <=> Descuenta)
  /\ one_instance' + Reserva' = one_instance + Reserva
Quita ==
  \E n \in Lugares :
    /\ Cerrado(instances[n].socket) /\ Desconectar(instances[n].socket)
    /\ UNCHANGED one_instance /\ Reserva' = Reserva
    /\ \A i \in Instancias : hilo[i].pc = "no" <=> hilo'[i].pc = "no"
QuitaCliente == Quita /\ EnDescuento' = EnDescuento /\ ~Descuenta /\ Descuenta'
QuitaHilo(i) == Quita /\ i \notin EnDescuento /\ EnDescuento' = EnDescuento \cup {i} /\ (Descuenta' <=> Descuenta)
Descuento ==
  /\ Descontar /\ Reserva' = Reserva
  /\ \A i \in Instancias : hilo[i].pc = "no" <=> hilo'[i].pc = "no"
DescuentoCliente == Descuento /\ EnDescuento' = EnDescuento /\ Descuenta /\ ~Descuenta'
DescuentoHilo(i) == Descuento /\ i \in EnDescuento /\ EnDescuento' = EnDescuento \ {i} /\ (Descuenta' <=> Descuenta)

Efecto ==
  \/ Quieta \/ QuitaCliente \/ DescuentoCliente
  \/ \E i \in Instancias :
       QuitaHilo(i) \/ DescuentoHilo(i) \/ AgregarInstancia(i) \/ VuelveInstancia(i)

LEMMA FichaCambiada ==
  ASSUME instances \in Seq(instance_t), MismaLista, NEW n, NEW r, instances' = [instances EXCEPT ![n] = r],
         n \in Lugares =>
           /\ r.name = instances[n].name /\ r.socket = instances[n].socket
           /\ r.is_active = instances[n].is_active
           /\ r.letter_min = instances[n].letter_min /\ r.letter_max = instances[n].letter_max
  PROVE  MismasFichas
BY DEF MismasFichas, Lugares

LEMMA FichasIguales == ASSUME TInv, UNCHANGED instances PROVE MismasFichas
BY DEF MismasFichas, MismaLista, TInv, TypeOK

LEMMA FichasPublicadas ==
  ASSUME instances \in Seq(instance_t), NEW n, Publicar(n)
  PROVE  MismasFichas
<1> DEFINE r == [instances[n] EXCEPT !.start = @ + 1]
<1>1. instances' = [instances EXCEPT ![n] = r]
  BY DEF Publicar
<1>2. n \in Lugares =>
           /\ r.name = instances[n].name /\ r.socket = instances[n].socket
           /\ r.is_active = instances[n].is_active
           /\ r.letter_min = instances[n].letter_min /\ r.letter_max = instances[n].letter_max
  <2>1. n \in Lugares => instances[n] \in instance_t
    BY DEF Lugares
  <2> QED BY <2>1 DEF instance_t
<1> HIDE DEF r
<1> QED BY <1>1, <1>2, Publicada, FichaCambiada

LEMMA PideEfecto ==
  ASSUME TInv, NEW op \in Operaciones, NEW k \in Claves, NEW v \in Valores, Pide(op, k, v)
  PROVE  Quieta
<1>1. op \in {"GET", "SET", "STORE", "STATUS"}
  BY DistribucionAssumption
<1>2. UNCHANGED instances /\ UNCHANGED one_instance /\ UNCHANGED hilo
  BY DEF Pide, listas, semaforos
<1>3. cliente.pc = "libre" /\ cliente'.pc = op
  BY DEF Pide, En, TInv, TypeOK, Cliente
<1> QED BY <1>1, <1>2, <1>3, FichasIguales DEF Quieta, MismosHilos, EnDescuento, Descuenta, Reserva

LEMMA PerdidaEfecto ==
  ASSUME TInv, NEW n \in Lugares, NEW sigue \in {"tomar", "elegir", "simular", "abortar"},
         ~test_connection(instances[n].socket), Perdida(n, sigue),
         cliente.pc # "descontar", cliente.pc = "elegir" <=> sigue = "elegir",
         UNCHANGED <<one_instance, hilo>>
  PROVE  QuitaCliente
<1>1. cliente'.pc = "descontar" /\ cliente'.sigue = sigue
  BY DEF Perdida, TInv, TypeOK, Cliente
<1>2. Cerrado(instances[n].socket) /\ Desconectar(instances[n].socket)
  BY DEF test_connection, Perdida
<1> QED BY <1>1, <1>2 DEF QuitaCliente, Quita, EnDescuento, Descuenta, Reserva

LEMMA MandarEfecto ==
  ASSUME TInv, NEW n, Mandar(n), UNCHANGED <<one_instance, hilo>>, cliente.pc \notin {"descontar", "elegir"}
  PROVE  Quieta
<1>1. cliente'.pc = "espera"
  BY DEF Mandar, TInv, TypeOK, Cliente
<1>2. MismasFichas
  BY FichasPublicadas DEF Mandar, TInv, TypeOK
<1> QED BY <1>1, <1>2 DEF Quieta, MismosHilos, EnDescuento, Descuenta, Reserva

LEMMA ClienteEfecto ==
  ASSUME TInv, PasoCliente
  PROVE  Efecto
<1>1. instances \in Seq(instance_t) /\ cliente \in Cliente /\ one_instance \in Nat
  BY DEF TInv, TypeOK
<1>2. ASSUME UNCHANGED <<instances, one_instance, hilo>>,
             cliente.pc \notin {"descontar", "elegir"} /\ cliente'.pc \notin {"descontar", "elegir"}
      PROVE  Quieta
  BY <1>2, FichasIguales DEF Quieta, MismosHilos, EnDescuento, Descuenta, Reserva
<1>3. CASE AsignarConocida
  <2> DEFINE n == find_by_key(message.key)
  <2>1. n \in Lugares /\ cliente.pc = "GET" /\ UNCHANGED <<one_instance, hilo>>
    BY <1>1, <1>3, Encontrada DEF AsignarConocida, En, semaforos
  <2>2. Mandar(n) \/ (~test_connection(instances[n].socket) /\ Perdida(n, "tomar"))
    BY <1>3 DEF AsignarConocida
  <2> HIDE DEF n
  <2> QED BY <2>1, <2>2, MandarEfecto, PerdidaEfecto DEF Efecto
<1>4. CASE TomarInstancia
  <2>1. /\ cliente.pc \in {"GET", "tomar"} /\ cliente'.pc = "elegir" /\ one_instance' = one_instance - 1
        /\ UNCHANGED <<instances, hilo>>
    BY <1>1, <1>4 DEF TomarInstancia, En, Va, listas, Cliente
  <2>2. Quieta
    BY <1>1, <2>1, FichasIguales DEF Quieta, MismosHilos, EnDescuento, Descuenta, Reserva
  <2> QED BY <2>2 DEF Efecto
<1>5. CASE Elegir
  <2> DEFINE n == choose_instance(FALSE).elegida
  <2>1. n \in Lugares
    <3>1. TypeOK /\ PunteroEnLista
      BY DEF TInv
    <3>2. n \in Lugares \cup {0} /\ n # 0
      BY <1>5, <3>1, ElegidaEnLista DEF Elegir
    <3> QED BY <3>2
  <2>2. cliente.pc = "elegir" /\ UNCHANGED hilo
    BY <1>5 DEF Elegir, En
  <2>3. CASE /\ instances' = [instances EXCEPT ![n].keys = @ \cup {message.key}, ![n].start = @ + 1]
             /\ cliente' = [cliente EXCEPT !.pc = "espera", !.elegida = instances[n].name]
             /\ one_instance' = one_instance + 1
    <3> DEFINE r == [instances[n] EXCEPT !.keys = @ \cup {message.key}, !.start = @ + 1]
    <3> HIDE DEF n
    <3>1. instances[n] \in instance_t
      BY <1>1, <2>1 DEF Lugares
    <3>2. instances' = [instances EXCEPT ![n] = r]
      BY <1>1, <2>1, <2>3 DEF Lugares
    <3>3. /\ r.name = instances[n].name /\ r.socket = instances[n].socket
          /\ r.is_active = instances[n].is_active
          /\ r.letter_min = instances[n].letter_min /\ r.letter_max = instances[n].letter_max
      BY <3>1 DEF instance_t
    <3>4. MismaLista
      <4>1. instances[n].start + 1 \in Nat /\ message.key \in Claves \cup {Nada}
        BY <3>1 DEF instance_t, TInv, TypeOK
      <4>2. instances[n].keys \cup {message.key} \in SUBSET (Claves \cup {Nada})
        BY <3>1, <4>1 DEF instance_t
      <4>3. r \in instance_t
        BY <3>1, <4>1, <4>2 DEF instance_t
      <4> HIDE DEF r
      <4> QED BY <1>1, <3>2, <4>3, Cambiada DEF MismaLista
    <3> HIDE DEF r
    <3>5. MismasFichas
      BY <1>1, <3>2, <3>3, <3>4, FichaCambiada
    <3>6. cliente'.pc = "espera"
      BY <1>1, <2>3 DEF Cliente
    <3>7. Quieta
      BY <1>1, <2>2, <2>3, <3>5, <3>6 DEF Quieta, MismosHilos, EnDescuento, Descuenta, Reserva
    <3> QED BY <3>7 DEF Efecto
  <2>4. CASE ~test_connection(instances[n].socket) /\ Perdida(n, "elegir") /\ UNCHANGED one_instance
    <3> HIDE DEF n
    <3> QED BY <2>1, <2>2, <2>4, PerdidaEfecto DEF Efecto
  <2> QED BY <1>5, <2>3, <2>4 DEF Elegir
<1>6. CASE GuardarEnInstancia
  <2>1. Destino \in Lugares /\ cliente.pc \in {"SET", "STORE"} /\ UNCHANGED <<one_instance, hilo>>
    BY <1>1, <1>6, Encontrada DEF GuardarEnInstancia, Destino, En, semaforos
  <2>2. Mandar(Destino) \/ (~test_connection(instances[Destino].socket) /\ Perdida(Destino, "abortar"))
    BY <1>6 DEF GuardarEnInstancia
  <2> QED BY <2>1, <2>2, MandarEfecto, PerdidaEfecto DEF Efecto
<1>7. CASE ConsultarEstado
  <2> DEFINE n == find_by_key(message.key)
  <2>1. n \in Lugares /\ cliente.pc = "STATUS" /\ UNCHANGED <<one_instance, hilo>>
    BY <1>1, <1>7, Encontrada DEF ConsultarEstado, En, semaforos
  <2>2. Mandar(n) \/ (~test_connection(instances[n].socket) /\ Perdida(n, "simular"))
    BY <1>7 DEF ConsultarEstado
  <2> HIDE DEF n
  <2> QED BY <2>1, <2>2, MandarEfecto, PerdidaEfecto DEF Efecto
<1>8. CASE Abortar
  BY <1>2, <1>8, OciosoEsCliente DEF Abortar, En, listas, semaforos, Efecto
<1>9. CASE SimularAsignacion
  BY <1>2, <1>9, OciosoEsCliente DEF SimularAsignacion, En, semaforos, Efecto
<1>10. CASE SinElegida
  <2>1. UNCHANGED <<instances, one_instance, hilo, cliente>>
    BY <1>10 DEF SinElegida, listas, semaforos
  <2>2. Quieta
    BY <2>1, FichasIguales DEF Quieta, MismosHilos, EnDescuento, Descuenta, Reserva
  <2> QED BY <2>2 DEF Efecto
<1>11. CASE DescontarCliente
  <2>1. Descontar /\ cliente.pc = "descontar" /\ UNCHANGED hilo
    BY <1>11 DEF DescontarCliente, En
  <2>2. cliente'.pc = cliente.sigue /\ cliente'.pc # "descontar"
    BY <1>1, <1>11 DEF DescontarCliente, Va, Cliente
  <2>3. DescuentoCliente
    BY <2>1, <2>2 DEF DescuentoCliente, Descuento, EnDescuento, Descuenta, Reserva
  <2> QED BY <2>3 DEF Efecto
<1>12. CASE Confirmar
  BY <1>2, <1>12, OciosoEsCliente DEF Confirmar, En, listas, Efecto
<1> QED BY <1>3, <1>4, <1>5, <1>6, <1>7, <1>8, <1>9, <1>10, <1>11, <1>12 DEF PasoCliente

\* A thread that neither takes an Instance off nor waits for one_instance.
LEMMA HiloQuieto ==
  ASSUME TInv, NEW i \in Instancias, NEW r, hilo' = [hilo EXCEPT ![i] = r], MismasFichas,
         UNCHANGED <<one_instance, cliente>>, hilo[i].pc \notin {"no", "descontar"}, r.pc \notin {"no", "descontar"}
  PROVE  Quieta
<1>1. hilo'[i] = r /\ \A k \in Instancias \ {i} : hilo'[k] = hilo[k]
  BY DEF TInv, TypeOK
<1>2. MismosHilos
  BY <1>1 DEF MismosHilos, EnDescuento
<1> QED BY <1>2 DEF Quieta, Descuenta, Reserva

LEMMA HiloQuita ==
  ASSUME TInv, NEW i \in Instancias, NEW r, hilo' = [hilo EXCEPT ![i] = r], NEW n \in Lugares,
         Cerrado(instances[n].socket), Desconectar(instances[n].socket),
         UNCHANGED <<one_instance, cliente>>, hilo[i].pc \notin {"no", "descontar"}, r.pc = "descontar"
  PROVE  QuitaHilo(i)
<1>1. hilo'[i] = r /\ \A k \in Instancias \ {i} : hilo'[k] = hilo[k]
  BY DEF TInv, TypeOK
<1>2. EnDescuento' = EnDescuento \cup {i} /\ i \notin EnDescuento
  BY <1>1 DEF EnDescuento
<1>3. \A k \in Instancias : hilo[k].pc = "no" <=> hilo'[k].pc = "no"
  BY <1>1
<1> QED BY <1>2, <1>3 DEF QuitaHilo, Quita, Descuenta, Reserva

LEMMA HiloEfecto ==
  ASSUME TInv, NEW i \in Instancias, PasoHilo(i)
  PROVE  Efecto
<1>1. instances \in Seq(instance_t) /\ hilo[i] \in Hilo /\ hilo \in [Instancias -> Hilo]
  BY DEF TInv, TypeOK
<1>2. TInv'
  BY HiloTInv
<1>3. CASE Despertar(i)
  <2> DEFINE n == Propia(i)
             q == [instances[n] EXCEPT !.start = @ - 1]
             r == [hilo[i] EXCEPT !.pc = "respuesta", !.op = operation, !.header = Enviada(operation, @)]
  <2>1. instances' = [instances EXCEPT ![n] = q]
    BY <1>3 DEF Despertar
  <2>2. Len(instances') = Len(instances) /\ MismaLista
    <3>1. instances' \in Seq(instance_t)
      BY <1>2 DEF TInv, TypeOK
    <3> HIDE DEF q, n
    <3> QED BY <1>1, <2>1, <3>1 DEF MismaLista
  <2>3. n \in Lugares =>
           /\ q.name = instances[n].name /\ q.socket = instances[n].socket
           /\ q.is_active = instances[n].is_active
           /\ q.letter_min = instances[n].letter_min /\ q.letter_max = instances[n].letter_max
    <3> HIDE DEF n
    <3>1. n \in Lugares => instances[n] \in instance_t
      BY <1>1 DEF Lugares
    <3> QED BY <3>1 DEF instance_t
  <2>4. MismasFichas
    <3> HIDE DEF q, n
    <3> QED BY <1>1, <2>1, <2>2, <2>3, FichaCambiada
  <2>5. hilo' = [hilo EXCEPT ![i] = r] /\ r.pc = "respuesta" /\ hilo[i].pc = "start"
    BY <1>1, <1>3 DEF Despertar, HiloEn, Hilo
  <2>6. UNCHANGED <<one_instance, cliente>>
    BY <1>3 DEF Despertar, semaforos
  <2> HIDE DEF r
  <2> QED BY <2>4, <2>5, <2>6, HiloQuieto DEF Efecto
<1>4. CASE RecibirRespuesta(i)
  <2> DEFINE n == Propia(i)
             q == [instances[n] EXCEPT !.free_space = Cabezal(i).len]
             r == [hilo[i] EXCEPT !.pc = "start", !.header = Cabezal(i)]
  <2>1. instances' = instances \/ instances' = [instances EXCEPT ![n] = q]
    BY <1>4 DEF RecibirRespuesta, Terminar
  <2>2. MismasFichas
    <3>1. CASE instances' = [instances EXCEPT ![n] = q]
      <4>1. n \in Lugares =>
               /\ q.name = instances[n].name /\ q.socket = instances[n].socket
               /\ q.is_active = instances[n].is_active
               /\ q.letter_min = instances[n].letter_min /\ q.letter_max = instances[n].letter_max
        <5> HIDE DEF n
        <5>1. n \in Lugares => instances[n] \in instance_t
          BY <1>1 DEF Lugares
        <5> QED BY <5>1 DEF instance_t
      <4>2. instances' \in Seq(instance_t)
        BY <1>2 DEF TInv, TypeOK
      <4> HIDE DEF n, q
      <4>3. MismaLista
        BY <1>1, <3>1, <4>2 DEF MismaLista
      <4> QED BY <1>1, <3>1, <4>1, <4>3, FichaCambiada
    <3> QED BY <2>1, <3>1, FichasIguales
  <2>3. hilo' = [hilo EXCEPT ![i] = r] /\ r.pc = "start" /\ hilo[i].pc \in {"respuesta", "fin"}
    BY <1>1, <1>4 DEF RecibirRespuesta, Tras, Espera, HiloEn, Hilo
  <2>4. UNCHANGED <<one_instance, cliente>>
    BY <1>4 DEF RecibirRespuesta
  <2> HIDE DEF r
  <2> QED BY <2>2, <2>3, <2>4, HiloQuieto DEF Efecto
<1>5. CASE RecibirCompactado(i)
  <2> DEFINE r == [hilo[i] EXCEPT !.pc = "start", !.header = Cabezal(i)]
  <2>1. hilo' = [hilo EXCEPT ![i] = r] /\ r.pc = "start" /\ hilo[i].pc \in {"respuesta", "fin"}
    BY <1>1, <1>5 DEF RecibirCompactado, Tras, Espera, HiloEn, Hilo
  <2>2. UNCHANGED <<instances, one_instance, cliente>>
    BY <1>5 DEF RecibirCompactado, listas
  <2> HIDE DEF r
  <2> QED BY <2>1, <2>2, FichasIguales, HiloQuieto DEF Efecto
<1>6. CASE RecibirCompactar(i)
  <2> DEFINE r == [hilo[i] EXCEPT !.pc = "filtrar", !.header = Cabezal(i), !.j = 1, !.lista = {}]
  <2>1. hilo' = [hilo EXCEPT ![i] = r] /\ r.pc = "filtrar" /\ hilo[i].pc \in {"respuesta", "fin"}
    BY <1>1, <1>6 DEF RecibirCompactar, Espera, HiloEn, Hilo
  <2>2. UNCHANGED <<instances, one_instance, cliente>>
    BY <1>6 DEF RecibirCompactar, listas, semaforos
  <2> HIDE DEF r
  <2> QED BY <2>1, <2>2, FichasIguales, HiloQuieto DEF Efecto
<1>7. CASE RecibirFin(i)
  <2> DEFINE s == hilo[i].socket
             n == socket_is_equal(s)
             r == [hilo[i] EXCEPT !.pc = IF n = 0 THEN "fin" ELSE "descontar", !.sigue = "fin"]
  <2>1. hilo' = [hilo EXCEPT ![i] = r] /\ hilo[i].pc = "respuesta"
    BY <1>1, <1>7 DEF RecibirFin, HiloEn
  <2>2. UNCHANGED <<one_instance, cliente>> /\ Cerrado(s) /\ Desconectar(s)
    BY <1>7 DEF RecibirFin, semaforos
  <2>3. CASE n = 0
    <3>1. UNCHANGED instances /\ r.pc = "fin"
      BY <1>1, <2>2, <2>3 DEF Desconectar, Hilo
    <3> HIDE DEF r
    <3> QED BY <2>1, <2>2, <3>1, FichasIguales, HiloQuieto DEF Efecto
  <2>4. CASE n # 0
    <3>1. n \in Lugares /\ instances[n].socket = s
      BY <1>1, <2>4, HallaSocket
    <3>2. r.pc = "descontar"
      BY <1>1, <2>4 DEF Hilo
    <3> HIDE DEF r, n
    <3> QED BY <2>1, <2>2, <3>1, <3>2, HiloQuita DEF Efecto
  <2> QED BY <2>3, <2>4
<1>8. CASE DescontarHilo(i)
  <2> DEFINE r == [hilo[i] EXCEPT !.pc = hilo[i].sigue]
  <2>1. hilo' = [hilo EXCEPT ![i] = r] /\ hilo[i].pc = "descontar" /\ r.pc \in {"fin", "filtrar"}
    BY <1>1, <1>8 DEF DescontarHilo, HiloEn, Hilo, TInv, Regreso
  <2>2. Descontar /\ UNCHANGED cliente
    BY <1>8 DEF DescontarHilo
  <2> HIDE DEF r
  <2>3. hilo'[i] = r /\ \A k \in Instancias \ {i} : hilo'[k] = hilo[k]
    BY <1>1, <2>1
  <2>4. i \in EnDescuento /\ EnDescuento' = EnDescuento \ {i}
        /\ \A k \in Instancias : hilo[k].pc = "no" <=> hilo'[k].pc = "no"
    BY <2>1, <2>3 DEF EnDescuento
  <2>5. DescuentoHilo(i)
    BY <2>2, <2>4 DEF DescuentoHilo, Descuento, Descuenta, Reserva
  <2> QED BY <2>5 DEF Efecto
<1>9. CASE Filtrar(i)
  <2> DEFINE j == hilo[i].j
             s == instances[j].socket
  <2>1. /\ hilo[i].pc = "filtrar" /\ UNCHANGED <<one_instance, cliente>>
        /\ j \in Lugares
    <3>1. j \in Nat \ {0} /\ j <= Len(instances)
      BY <1>1, <1>9, HiloCampos DEF Filtrar
    <3>2. j \in Lugares
      BY <1>1, <3>1 DEF Lugares
    <3> QED BY <1>9, <3>2 DEF Filtrar, HiloEn, semaforos
  <2>2. CASE \E incluye \in BOOLEAN :
               /\ hilo' = [hilo EXCEPT ![i].j = hilo[i].j + 1,
                                       ![i].lista = IF incluye THEN @ \cup {hilo[i].j} ELSE @]
               /\ UNCHANGED <<fds, instances>>
    <3>1. PICK incluye \in BOOLEAN :
               /\ hilo' = [hilo EXCEPT ![i].j = hilo[i].j + 1,
                                       ![i].lista = IF incluye THEN @ \cup {hilo[i].j} ELSE @]
               /\ UNCHANGED <<fds, instances>>
      BY <2>2
    <3> DEFINE r == [hilo[i] EXCEPT !.j = @ + 1, !.lista = IF incluye THEN @ \cup {hilo[i].j} ELSE @]
    <3>2. hilo' = [hilo EXCEPT ![i] = r] /\ r.pc = "filtrar"
      BY <1>1, <2>1, <3>1 DEF Hilo
    <3> HIDE DEF r
    <3> QED BY <2>1, <3>1, <3>2, FichasIguales, HiloQuieto DEF Efecto
  <2>3. CASE /\ ~test_connection(s) /\ Desconectar(s)
             /\ hilo' = [hilo EXCEPT ![i].j = hilo[i].j + 1, ![i].pc = "descontar", ![i].sigue = "filtrar"]
    <3> DEFINE r == [hilo[i] EXCEPT !.j = @ + 1, !.pc = "descontar", !.sigue = "filtrar"]
    <3>1. hilo' = [hilo EXCEPT ![i] = r] /\ r.pc = "descontar"
      BY <1>1, <2>3 DEF Hilo
    <3>2. Cerrado(s) /\ Desconectar(s)
      BY <2>3 DEF test_connection
    <3> HIDE DEF r, j
    <3> QED BY <2>1, <3>1, <3>2, HiloQuita DEF Efecto
  <2> QED BY <1>9, <2>2, <2>3 DEF Filtrar
<1>10. CASE PedirCompactar(i)
  <2>1. PICK p \in {"respuesta", "compactando"} : hilo' = [hilo EXCEPT ![i].pc = p]
    BY <1>10 DEF PedirCompactar
  <2> DEFINE r == [hilo[i] EXCEPT !.pc = p]
  <2>2. hilo' = [hilo EXCEPT ![i] = r] /\ r.pc = p /\ hilo[i].pc = "filtrar"
    BY <1>1, <1>10, <2>1 DEF PedirCompactar, HiloEn, Hilo
  <2>3. UNCHANGED <<one_instance, cliente>>
    BY <1>10 DEF PedirCompactar, semaforos
  <2>4. MismasFichas
    <3> DEFINE d(n) == IF n \in hilo[i].lista THEN [instances[n] EXCEPT !.start = @ + 1] ELSE instances[n]
    <3>1. instances' = instances \/ instances' = [n \in Lugares |-> d(n)]
      BY <1>10 DEF PedirCompactar
    <3>2. Lugares = 1..Len(instances) /\ Len(instances) \in Nat /\ instances' \in Seq(instance_t)
      BY <1>1, <1>2 DEF Lugares, TInv, TypeOK
    <3>3. ASSUME NEW n \in Lugares
          PROVE  /\ d(n).name = instances[n].name /\ d(n).socket = instances[n].socket
                 /\ d(n).is_active = instances[n].is_active
                 /\ d(n).letter_min = instances[n].letter_min /\ d(n).letter_max = instances[n].letter_max
      <4>1. instances[n] \in instance_t
        BY <1>1, <3>2
      <4> QED BY <4>1 DEF instance_t
    <3>4. CASE instances' = [n \in Lugares |-> d(n)]
      <4> HIDE DEF d
      <4>1. Len(instances') = Len(instances)
        BY <3>2, <3>4
      <4> QED BY <3>2, <3>3, <3>4, <4>1 DEF MismasFichas, MismaLista
    <3> QED BY <3>1, <3>4, FichasIguales
  <2> HIDE DEF r
  <2> QED BY <2>2, <2>3, <2>4, HiloQuieto DEF Efecto
<1>11. CASE EsperarCompactado(i)
  <2> DEFINE r == [hilo[i] EXCEPT !.pc = "respuesta"]
  <2>1. hilo' = [hilo EXCEPT ![i] = r] /\ r.pc = "respuesta" /\ hilo[i].pc = "compactando"
    BY <1>1, <1>11 DEF EsperarCompactado, HiloEn, Hilo
  <2>2. UNCHANGED <<instances, one_instance, cliente>>
    BY <1>11 DEF EsperarCompactado, listas
  <2> HIDE DEF r
  <2> QED BY <2>1, <2>2, FichasIguales, HiloQuieto DEF Efecto
<1> QED BY <1>3, <1>4, <1>5, <1>6, <1>7, <1>8, <1>9, <1>10, <1>11 DEF PasoHilo

\* Every step is one of those.
LEMMA PasoEfecto ==
  ASSUME TInv, [Next]_vars
  PROVE  Efecto
<1>1. ASSUME UNCHANGED <<instances, one_instance, cliente, hilo>>
      PROVE  Quieta
  BY <1>1, FichasIguales DEF Quieta, MismosHilos, EnDescuento, Descuenta, Reserva
<1>2. CASE UNCHANGED vars
  BY <1>1, <1>2 DEF Efecto, vars, listas, semaforos
<1>3. ASSUME ConectaOtro \/ \E i \in Instancias : Cae(i) \/ Sirve(i)
      PROVE  Efecto
  <2>1. UNCHANGED <<listas, semaforos, cliente, hilo>>
    BY <1>3, SirveMarco DEF ConectaOtro, Cae
  <2> QED BY <1>1, <2>1 DEF Efecto, listas, semaforos
<1>4. CASE Next
  BY <1>3, <1>4, PideEfecto, ClienteEfecto, HiloEfecto DEF Next, Efecto
<1> QED BY <1>2, <1>4
-----------------------------------------------------------------------------
(* What each of those leaves in the list.                                  *)

\* The one that is taken off has no letters any more; the rest is as it was.
LEMMA CamposDesconectada ==
  ASSUME instances \in Seq(instance_t), NEW n \in Lugares, Desconectar(instances[n].socket)
  PROVE  LET m == socket_is_equal(instances[n].socket)
         IN  /\ m \in Lugares /\ instances[m].socket = instances[n].socket
             /\ Lugares' = Lugares
             /\ instances'[m].name = instances[m].name /\ instances'[m].socket = instances[m].socket
             /\ instances'[m].is_active = FALSE
             /\ instances'[m].letter_min = 0 /\ instances'[m].letter_max = 0
             /\ \A k \in Lugares \ {m} : instances'[k] = instances[k]
<1> DEFINE m == socket_is_equal(instances[n].socket)
           r == [instances[m] EXCEPT !.is_active = FALSE, !.letter_min = 0, !.letter_max = 0]
<1>1. m \in Lugares /\ m # 0 /\ instances[m].socket = instances[n].socket
  BY HallaSocket, Encontrada
<1>2. instances' = [instances EXCEPT ![m] = r]
  BY <1>1 DEF Desconectar
<1>3. /\ r.name = instances[m].name /\ r.socket = instances[m].socket
      /\ r.is_active = FALSE /\ r.letter_min = 0 /\ r.letter_max = 0
  <2>1. instances[m] \in instance_t
    BY <1>1 DEF Lugares
  <2> HIDE DEF m
  <2> QED BY <2>1 DEF instance_t
<1> HIDE DEF r
<1>4. instances'[m] = r /\ Lugares' = Lugares /\ \A k \in Lugares \ {m} : instances'[k] = instances[k]
  <2> HIDE DEF m
  <2> QED BY <1>1, <1>2 DEF Lugares
<1> QED BY <1>1, <1>3, <1>4

\* An Instance that is down has the letters 0, which no key has, and each one
\* that is up has its share.
Apagadas(l) == \A n \in DOMAIN l : ~l[n].is_active => l[n].letter_min = 0 /\ l[n].letter_max = 0
AlDia(l) ==
  \A n \in Activos(l) :
    /\ l[n].letter_min = letter_min(Orden(Activos(l), n), Cardinality(Activos(l)))
    /\ l[n].letter_max = letter_max(Orden(Activos(l), n), Cardinality(Activos(l)))

LEMMA LetrasRepartidas ==
  ASSUME NEW l \in Seq(instance_t), algorithm = "KE", Apagadas(l)
  PROVE  Apagadas(assign_letters(l)) /\ AlDia(assign_letters(l))
<1> DEFINE A == Activos(l)
           r(p) == IF l[p].is_active
                   THEN [l[p] EXCEPT !.letter_min = letter_min(Orden(A, p), Cardinality(A)),
                                     !.letter_max = letter_max(Orden(A, p), Cardinality(A))]
                   ELSE l[p]
           L == assign_letters(l)
<1>1. L = [p \in DOMAIN l |-> r(p)]
  BY DEF assign_letters
<1>2. DOMAIN L = DOMAIN l /\ \A n \in DOMAIN l : L[n].is_active = l[n].is_active
  BY ListaConLetras
<1>3. Activos(L) = A
  <2> HIDE DEF L
  <2> QED BY <1>2 DEF Activos
<1>4. ASSUME NEW n \in A
      PROVE  r(n).letter_min = letter_min(Orden(A, n), Cardinality(A))
             /\ r(n).letter_max = letter_max(Orden(A, n), Cardinality(A))
  <2>1. l[n] \in instance_t /\ l[n].is_active
    BY <1>4 DEF Activos
  <2> HIDE DEF A
  <2> QED BY <2>1 DEF instance_t
<1>5. \A n \in DOMAIN l : ~l[n].is_active => r(n) = l[n]
  OBVIOUS
<1>6. \A n \in DOMAIN l : L[n] = r(n)
  <2> HIDE DEF r
  <2> QED BY <1>1
<1>7. A \subseteq DOMAIN l
  BY DEF Activos
<1> HIDE DEF r, L, A
<1>8. Apagadas(L)
  BY <1>2, <1>5, <1>6 DEF Apagadas
<1>9. AlDia(L)
  BY <1>3, <1>4, <1>6, <1>7 DEF AlDia
<1> QED BY <1>8, <1>9 DEF L

LEMMA CamposDescontada ==
  ASSUME instances \in Seq(instance_t), Descontar
  PROVE  /\ Lugares' = Lugares /\ Activos(instances') = Activos(instances)
         /\ \A n \in Lugares :
              /\ instances'[n].name = instances[n].name /\ instances'[n].socket = instances[n].socket
              /\ instances'[n].is_active = instances[n].is_active
         /\ algorithm = "KE" /\ Apagadas(instances) => Apagadas(instances') /\ AlDia(instances')
<1>1. CASE SinDivisor(instances)
  BY <1>1 DEF Descontar, SinDivisor, Lugares, AlDia
<1>2. CASE ~SinDivisor(instances)
  <2>1. instances' = assign_letters(instances)
    BY <1>2 DEF Descontar
  <2> QED BY <2>1, ListaConLetras, LetrasRepartidas DEF Lugares, Activos
<1> QED BY <1>1, <1>2

LEMMA CamposAgregada ==
  ASSUME TInv, NEW i \in Instancias, AgregarInstancia(i)
  PROVE  LET m == Len(instances) + 1
         IN  /\ Lugares' = Lugares \cup {m} /\ m \notin Lugares
             /\ instances'[m].name = i /\ instances'[m].socket = Min(Cerrados) /\ instances'[m].is_active
             /\ \A n \in Lugares :
                  /\ instances'[n].name = instances[n].name /\ instances'[n].socket = instances[n].socket
                  /\ instances'[n].is_active = instances[n].is_active
             /\ hilo'[i].pc = "start" /\ \A k \in Instancias \ {i} : hilo'[k] = hilo[k]
             /\ algorithm = "KE" /\ Apagadas(instances) => Apagadas(instances') /\ AlDia(instances')
<1> DEFINE s == Min(Cerrados)
           l == Append(instances, Nueva(i, s))
           m == Len(instances) + 1
<1>1. s \in Sockets
  BY Aceptada DEF AgregarInstancia
<1>2. /\ instances \in Seq(instance_t) /\ hilo \in [Instancias -> Hilo] /\ Len(instances) \in Nat
      /\ Lugares = 1..Len(instances)
  BY DEF TInv, TypeOK, Lugares
<1>3. instances' = assign_letters(l) /\ hilo' = [hilo EXCEPT ![i] = [SinHilo EXCEPT !.pc = "start", !.socket = s]]
  BY DEF AgregarInstancia
<1> HIDE DEF s
<1>4. /\ l \in Seq(instance_t) /\ DOMAIN l = Lugares \cup {m} /\ m \notin Lugares
      /\ l[m] = Nueva(i, s) /\ \A n \in Lugares : l[n] = instances[n]
  <2>1. Nueva(i, s) \in instance_t
    BY <1>1 DEF Nueva, instance_t, Sockets
  <2> QED BY <1>2, <2>1
<1>5. l[m].name = i /\ l[m].socket = s /\ l[m].is_active
  BY <1>4 DEF Nueva
<1>6. /\ DOMAIN instances' = DOMAIN l
      /\ \A n \in DOMAIN l :
           /\ instances'[n].name = l[n].name /\ instances'[n].socket = l[n].socket
           /\ instances'[n].is_active = l[n].is_active
  <2> HIDE DEF l
  <2> QED BY <1>3, <1>4, ListaConLetras
<1>7. algorithm = "KE" /\ Apagadas(instances) => Apagadas(instances') /\ AlDia(instances')
  <2>1. Apagadas(instances) => Apagadas(l)
    BY <1>4, <1>5 DEF Apagadas, Lugares
  <2> HIDE DEF l
  <2> QED BY <1>3, <1>4, <2>1, LetrasRepartidas
<1>8. hilo'[i].pc = "start" /\ \A k \in Instancias \ {i} : hilo'[k] = hilo[k]
  BY <1>2, <1>3 DEF SinHilo
<1> HIDE DEF l
<1> QED BY <1>4, <1>5, <1>6, <1>7, <1>8 DEF Lugares, s

LEMMA CamposDevuelta ==
  ASSUME TInv, NEW i \in Instancias, VuelveInstancia(i)
  PROVE  /\ Lugares' = Lugares
         /\ \A n \in Lugares : instances'[n].name = instances[n].name
         /\ algorithm = "KE" /\ Apagadas(instances) => Apagadas(instances') /\ AlDia(instances')
<1> DEFINE s == Min(Cerrados)
           n == Propia(i)
           q == [instances[n] EXCEPT !.socket = s, !.is_active = TRUE]
           l == [instances EXCEPT ![n] = q]
<1>1. s \in Sockets
  BY Aceptada DEF VuelveInstancia
<1>2. instances \in Seq(instance_t)
  BY DEF TInv, TypeOK
<1>3. n \in Lugares
  BY <1>2, Encontrada DEF VuelveInstancia, Propia
<1>4. instances' = assign_letters(l)
  BY DEF VuelveInstancia
<1> HIDE DEF s, n
<1>5. q \in instance_t /\ q.name = instances[n].name /\ q.is_active
  <2>1. instances[n] \in instance_t
    BY <1>2, <1>3 DEF Lugares
  <2> QED BY <1>1, <2>1 DEF instance_t
<1> HIDE DEF q
<1>6. /\ l \in Seq(instance_t) /\ DOMAIN l = Lugares /\ l[n] = q
      /\ \A k \in Lugares \ {n} : l[k] = instances[k]
  BY <1>2, <1>3, <1>5, Cambiada DEF Lugares
<1> HIDE DEF l
<1>7. Lugares' = Lugares /\ \A k \in Lugares : instances'[k].name = l[k].name
  BY <1>4, <1>6, ListaConLetras DEF Lugares
<1>8. \A k \in Lugares : l[k].name = instances[k].name
  BY <1>5, <1>6
<1>9. Apagadas(instances) => Apagadas(l)
  BY <1>5, <1>6 DEF Apagadas, Lugares
<1> QED BY <1>4, <1>6, <1>7, <1>8, <1>9, LetrasRepartidas
-----------------------------------------------------------------------------
(* KE: the letters.                                                        *)

\* An Instance whose thread has started has its place in the list.
ConNombre == \A i \in Instancias : hilo[i].pc # "no" => \E n \in Lugares : instances[n].name = i

\* While somebody has taken an Instance off and waits for one_instance, the
\* letters are those of before the fall.
Pendiente == Descuenta \/ EnDescuento # {}
LetrasAlDia == algorithm = "KE" => Apagadas(instances) /\ (Pendiente \/ AlDia(instances))

LInv == TInv /\ ConNombre /\ LetrasAlDia

LEMMA NombresQuedan ==
  ASSUME TInv, Efecto
  PROVE  \A n \in Lugares : n \in Lugares' /\ instances'[n].name = instances[n].name
<1>1. instances \in Seq(instance_t)
  BY DEF TInv, TypeOK
<1>2. CASE Quieta
  BY <1>1, <1>2 DEF Quieta, MismasFichas, MismaLista, Lugares
<1>3. CASE Quita
  <2>1. PICK n \in Lugares : Desconectar(instances[n].socket)
    BY <1>3 DEF Quita
  <2> QED BY <1>1, <2>1, CamposDesconectada
<1>4. CASE Descuento
  BY <1>1, <1>4, CamposDescontada DEF Descuento
<1>5. CASE \E i \in Instancias : AgregarInstancia(i)
  BY <1>5, CamposAgregada
<1>6. CASE \E i \in Instancias : VuelveInstancia(i)
  BY <1>6, CamposDevuelta
<1> QED BY <1>2, <1>3, <1>4, <1>5, <1>6
       DEF Efecto, QuitaCliente, QuitaHilo, DescuentoCliente, DescuentoHilo

\* The threads that run go on running.
LEMMA HilosQuedan ==
  ASSUME TInv, Efecto, ~\E i \in Instancias : AgregarInstancia(i)
  PROVE  \A i \in Instancias : hilo[i].pc = "no" <=> hilo'[i].pc = "no"
<1>1. CASE \E i \in Instancias : VuelveInstancia(i)
  BY <1>1 DEF VuelveInstancia
<1> QED BY <1>1
       DEF Efecto, Quieta, MismosHilos, QuitaCliente, QuitaHilo, Quita, DescuentoCliente, DescuentoHilo,
           Descuento

LEMMA ConNombrePaso ==
  ASSUME TInv, ConNombre, Efecto
  PROVE  ConNombre'
<1>1. \A n \in Lugares : n \in Lugares' /\ instances'[n].name = instances[n].name
  BY NombresQuedan
<1>2. ASSUME NEW i \in Instancias, hilo[i].pc # "no"
      PROVE  \E n \in Lugares' : instances'[n].name = i
  BY <1>1, <1>2 DEF ConNombre
<1>3. CASE \E i \in Instancias : AgregarInstancia(i)
  <2>1. PICK i \in Instancias : AgregarInstancia(i)
    BY <1>3
  <2>2. /\ \E n \in Lugares' : instances'[n].name = i
        /\ \A k \in Instancias \ {i} : hilo'[k] = hilo[k]
    BY <2>1, CamposAgregada
  <2> QED BY <1>2, <2>2 DEF ConNombre
<1>4. CASE ~\E i \in Instancias : AgregarInstancia(i)
  BY <1>2, <1>4, HilosQuedan DEF ConNombre
<1> QED BY <1>3, <1>4

LEMMA AlgoritmoFijo == [Next]_vars => algorithm' = algorithm
<1> SUFFICES ASSUME [Next]_vars PROVE algorithm' = algorithm
  OBVIOUS
<1>1. CASE \E op \in Operaciones, k \in Claves, v \in Valores : Pide(op, k, v)
  BY <1>1 DEF Pide
<1>2. CASE PasoCliente
  BY <1>2 DEF PasoCliente, AsignarConocida, TomarInstancia, Elegir, GuardarEnInstancia, Abortar,
     ConsultarEstado, SimularAsignacion, SinElegida, DescontarCliente, Confirmar, cuentas
<1>3. ASSUME NEW i \in Instancias, PasoHilo(i) PROVE algorithm' = algorithm
  <2>1. CASE Despertar(i) \/ RecibirRespuesta(i) \/ RecibirCompactado(i)
    BY <2>1 DEF Despertar, RecibirRespuesta, RecibirCompactado, cuentas
  <2>2. CASE RecibirCompactar(i) \/ RecibirFin(i) \/ DescontarHilo(i)
    BY <2>2 DEF RecibirCompactar, RecibirFin, DescontarHilo, cuentas
  <2>3. CASE Filtrar(i) \/ PedirCompactar(i) \/ EsperarCompactado(i)
    BY <2>3 DEF Filtrar, PedirCompactar, EsperarCompactado, cuentas
  <2> QED BY <1>3, <2>1, <2>2, <2>3 DEF PasoHilo
<1>4. CASE \E i \in Instancias : AgregarInstancia(i) \/ VuelveInstancia(i) \/ Cae(i) \/ Sirve(i)
  BY <1>4, SirveMarco DEF AgregarInstancia, VuelveInstancia, Cae, cuentas
<1>5. CASE ConectaOtro
  BY <1>5 DEF ConectaOtro
<1>6. CASE UNCHANGED vars
  BY <1>6 DEF vars, cuentas
<1> QED BY <1>1, <1>2, <1>3, <1>4, <1>5, <1>6 DEF Next

LEMMA LetrasAlDiaPaso ==
  ASSUME TInv, LetrasAlDia, Efecto, algorithm' = algorithm
  PROVE  LetrasAlDia'
<1> SUFFICES ASSUME algorithm = "KE" PROVE Apagadas(instances)' /\ (Pendiente' \/ AlDia(instances)')
  BY DEF LetrasAlDia
<1>1. instances \in Seq(instance_t) /\ Apagadas(instances) /\ (Pendiente \/ AlDia(instances))
  BY DEF TInv, TypeOK, LetrasAlDia
<1>2. CASE Quieta
  <2>1. Lugares' = Lugares
    BY <1>1, <1>2 DEF Quieta, MismasFichas, MismaLista, Lugares
  <2>2. Activos(instances)' = Activos(instances)
    BY <1>2, <2>1 DEF Quieta, MismasFichas, Lugares, Activos
  <2>3. Pendiente' <=> Pendiente
    BY <1>2 DEF Quieta, MismosHilos, Pendiente
  <2>4. Apagadas(instances)'
    BY <1>1, <1>2, <2>1 DEF Quieta, MismasFichas, Lugares, Apagadas
  <2>5. AlDia(instances) => AlDia(instances)'
    <3>1. \A n \in Activos(instances) : n \in Lugares
      BY DEF Activos, Lugares
    <3> QED BY <1>2, <2>2, <3>1 DEF Quieta, MismasFichas, AlDia
  <2> QED BY <1>1, <2>3, <2>4, <2>5
<1>3. CASE QuitaCliente \/ \E i \in Instancias : QuitaHilo(i)
  <2>1. Pendiente' /\ Quita
    BY <1>3 DEF QuitaCliente, QuitaHilo, Pendiente
  <2>2. PICK n \in Lugares : Desconectar(instances[n].socket)
    BY <2>1 DEF Quita
  <2>3. Apagadas(instances)'
    <3> DEFINE m == socket_is_equal(instances[n].socket)
    <3>1. /\ m \in Lugares /\ Lugares' = Lugares
          /\ instances'[m].letter_min = 0 /\ instances'[m].letter_max = 0
          /\ \A k \in Lugares \ {m} : instances'[k] = instances[k]
      BY <1>1, <2>2, CamposDesconectada
    <3>2. \A k \in Lugares : ~instances[k].is_active => instances[k].letter_min = 0 /\ instances[k].letter_max = 0
      BY <1>1 DEF Apagadas, Lugares
    <3> HIDE DEF m
    <3>3. \A k \in Lugares' :
            ~instances'[k].is_active => instances'[k].letter_min = 0 /\ instances'[k].letter_max = 0
      BY <3>1, <3>2
    <3> QED BY <3>3 DEF Apagadas, Lugares
  <2> QED BY <2>1, <2>3
<1>4. CASE Descuento
  BY <1>1, <1>4, CamposDescontada DEF Descuento
<1>5. CASE \E i \in Instancias : AgregarInstancia(i)
  BY <1>1, <1>5, CamposAgregada
<1>6. CASE \E i \in Instancias : VuelveInstancia(i)
  BY <1>1, <1>6, CamposDevuelta
<1> QED BY <1>2, <1>3, <1>4, <1>5, <1>6 DEF Efecto, DescuentoCliente, DescuentoHilo

LEMMA InicioLInv == Init => LInv
<1> SUFFICES ASSUME Init PROVE LInv
  OBVIOUS
<1>1. TInv
  BY InicioTInv
<1>2. instances = <<>> /\ hilo = [i \in Instancias |-> SinHilo]
  BY DEF Init
<1>3. DOMAIN instances = {}
  BY <1>2
<1>4. LetrasAlDia
  BY <1>3 DEF LetrasAlDia, Apagadas, AlDia, Activos
<1>5. ConNombre
  BY <1>2 DEF ConNombre, SinHilo
<1> QED BY <1>1, <1>4, <1>5 DEF LInv

LEMMA PasoLInv == LInv /\ [Next]_vars => LInv'
  BY PasoTInv, PasoEfecto, AlgoritmoFijo, ConNombrePaso, LetrasAlDiaPaso DEF LInv

\* Those who wait for one_instance are finitely many: each has a place.
LEMMA EnDescuentoFinito ==
  ASSUME TInv, ConNombre
  PROVE  IsFiniteSet(EnDescuento) /\ Cardinality(EnDescuento) \in Nat
<1> DEFINE T == {instances[n].name : n \in Lugares}
           f == [n \in Lugares |-> instances[n].name]
<1>1. IsFiniteSet(Lugares)
  <2>1. Lugares = 1..Len(instances) /\ Len(instances) \in Nat
    BY DEF TInv, TypeOK, Lugares
  <2> QED BY <2>1, FS_Interval
<1>2. f \in Surjection(Lugares, T)
  BY DEF Surjection
<1>3. IsFiniteSet(T)
  BY <1>1, <1>2, FS_Surjection
<1>4. EnDescuento \in SUBSET T
  BY DEF ConNombre, EnDescuento
<1> QED BY <1>3, <1>4, FS_Subset, FS_CardinalityType

\* While no fall is half dealt with, every letter has an active Instance.
LEMMA LInvCubre == LInv => LetrasCubiertas
<1> SUFFICES ASSUME LInv, algorithm = "KE", Descontando = 0, Activos(instances) # {},
                    NEW letra \in Primera..(Primera + CantLetras - 1)
             PROVE  find_by_letter(letra) \in Activos(instances)
  BY DEF LetrasCubiertas
<1> DEFINE A == Activos(instances)
           c == Cardinality(A)
           S == {n \in Lugares : instances[n].letter_min <= letra /\ letra <= instances[n].letter_max}
<1>1. instances \in Seq(instance_t)
  BY DEF LInv, TInv, TypeOK
<1>2. ~Pendiente
  <2>1. IsFiniteSet(EnDescuento) /\ Cardinality(EnDescuento) \in Nat
    BY EnDescuentoFinito DEF LInv
  <2>2. ~Descuenta /\ Cardinality(EnDescuento) = 0
    BY <2>1 DEF Descontando, EnDescuento, Descuenta
  <2> QED BY <2>1, <2>2, FS_EmptySet DEF Pendiente
<1>3. Apagadas(instances) /\ AlDia(instances)
  BY <1>2 DEF LInv, LetrasAlDia
<1>4. A \in SUBSET Nat /\ IsFiniteSet(A) /\ c \in Nat \ {0}
  BY <1>1, ActivosFinitos
<1>5. PICK j \in 0..(c - 1) : Tiene(j, c, letra)
  <2> HIDE DEF c
  <2> QED BY <1>4, CubreLetras
<1>6. PICK n \in A : Orden(A, n) = j
  <2>1. j \in Nat /\ j < c
    BY <1>4
  <2> HIDE DEF A
  <2>2. \E n \in A : Cardinality(Menores(A, n)) = j
    BY <1>4, <2>1, HayEnesimo
  <2> QED BY <2>2 DEF Orden, Menores
<1>7. n \in S
  <2>1. instances[n].letter_min = letter_min(j, c) /\ instances[n].letter_max = letter_max(j, c)
    BY <1>3, <1>6 DEF AlDia
  <2> HIDE DEF c
  <2> QED BY <1>5, <1>6, <2>1 DEF Tiene, Activos, Lugares
<1>8. Primero(S) \in S
  <2>1. S \in SUBSET (Nat \ {0})
    BY <1>1 DEF Lugares
  <2> HIDE DEF S
  <2> QED BY <1>7, <2>1, PrimeroEsta
<1>9. \A m \in S : m \in A
  <2>1. letra > 0
    BY DEF Primera
  <2>2. \A m \in Lugares : ~instances[m].is_active => instances[m].letter_max = 0
    BY <1>3 DEF Apagadas, Lugares
  <2>3. \A m \in S : instances[m].is_active
    BY <2>1, <2>2
  <2> QED BY <2>3 DEF Activos, Lugares
<1> QED BY <1>8, <1>9 DEF find_by_letter

\* Whatever connects, falls and comes back: once those who noticed the falls
\* have gone on, every letter has an active Instance, so that no key is left
\* without one (find_by_letter, assign_letters).
THEOREM LetrasDeTodos == Spec => []LetrasCubiertas
<1>1. Init => LInv
  BY InicioLInv
<1>2. LInv /\ [Next]_vars => LInv'
  BY PasoLInv
<1>3. LInv => LetrasCubiertas
  BY LInvCubre
<1> QED BY <1>1, <1>2, <1>3, PTL DEF Spec
-----------------------------------------------------------------------------
(* The descriptors.                                                        *)

\* A descriptor that test_connection and recv never find ended: it is closed,
\* or it has been given to an ESI.
Seguro(s) == fds[s] = Libre \/ (fds[s].de = Otro /\ fds[s].abierta)
SiguenSeguros == \A s \in Sockets : Seguro(s) => Seguro(s)'

LEMMA DesconectarSeguro ==
  ASSUME TInv, NEW s, Desconectar(s)
  PROVE  SiguenSeguros
<1>1. fds \in [Sockets -> {Libre} \cup Enlace] /\ fds' = [fds EXCEPT ![s] = Libre]
  BY DEF TInv, TypeOK, Desconectar
<1> QED BY <1>1 DEF SiguenSeguros, Seguro

LEMMA MandaSeguro ==
  ASSUME TInv, NEW s, NEW m, Manda(s, m)
  PROVE  SiguenSeguros
<1>1. CASE UNCHANGED fds
  BY <1>1 DEF SiguenSeguros, Seguro
<1>2. CASE Escucha(s) /\ fds' = [fds EXCEPT ![s].hacia = Append(@, m)]
  <2> DEFINE c == [fds[s] EXCEPT !.hacia = Append(@, m)]
  <2>1. fds' = [fds EXCEPT ![s] = c] /\ ~Seguro(s)
    BY <1>2 DEF Escucha, Seguro
  <2>2. fds \in [Sockets -> {Libre} \cup Enlace]
    BY DEF TInv, TypeOK
  <2> HIDE DEF c
  <2> QED BY <2>1, <2>2 DEF SiguenSeguros, Seguro
<1> QED BY <1>1, <1>2 DEF Manda

LEMMA ContestaSeguro ==
  ASSUME TInv, NEW i \in Instancias, Contesta(i)
  PROVE  SiguenSeguros
<1> DEFINE s == hilo[i].socket
           c == [fds[s] EXCEPT !.desde = Tail(@)]
<1>1. CASE UNCHANGED fds
  BY <1>1 DEF SiguenSeguros, Seguro
<1>2. CASE Leida(i) /\ fds' = [fds EXCEPT ![s].desde = Tail(@)]
  <2>1. fds' = [fds EXCEPT ![s] = c] /\ fds[s] # Libre
    BY <1>2 DEF Leida
  <2>2. fds \in [Sockets -> {Libre} \cup Enlace]
    BY DEF TInv, TypeOK
  <2>3. s \in Sockets => c.de = fds[s].de /\ c.abierta = fds[s].abierta
    <3> HIDE DEF s
    <3>1. s \in Sockets => fds[s] \in Enlace
      BY <2>1, <2>2
    <3> QED BY <3>1 DEF Enlace
  <2> HIDE DEF c
  <2> QED BY <2>1, <2>2, <2>3 DEF SiguenSeguros, Seguro
<1> QED BY <1>1, <1>2 DEF Contesta

LEMMA ClienteSeguro == ASSUME TInv, PasoCliente PROVE SiguenSeguros
<1>1. UNCHANGED fds \/ \E s \in {instances[n].socket : n \in Nat} : Desconectar(s)
  <2>1. CASE \E n \in Nat : \E sigue : Perdida(n, sigue)
    BY <2>1 DEF Perdida
  <2>2. CASE AsignarConocida
    BY <2>1, <2>2, Encontrada DEF AsignarConocida, TInv, TypeOK
  <2>3. CASE Elegir
    <3>1. choose_instance(FALSE).elegida \in Nat
      <4>1. TypeOK /\ PunteroEnLista
        BY DEF TInv
      <4>2. choose_instance(FALSE).elegida \in Lugares \cup {0}
        BY <4>1, ElegidaEnLista
      <4>3. Lugares \in SUBSET Nat
        BY Encontrada DEF TInv, TypeOK
      <4>4. Lugares \cup {0} \subseteq Nat
        BY <4>3
      <4> QED BY <4>2, <4>4, Zenon
    <3> QED BY <2>1, <2>3, <3>1 DEF Elegir
  <2>4. CASE GuardarEnInstancia
    BY <2>1, <2>4, Encontrada DEF GuardarEnInstancia, Destino, TInv, TypeOK
  <2>5. CASE ConsultarEstado
    BY <2>1, <2>5, Encontrada DEF ConsultarEstado, TInv, TypeOK
  <2> QED BY <2>2, <2>3, <2>4, <2>5
         DEF PasoCliente, TomarInstancia, Abortar, SimularAsignacion, SinElegida, DescontarCliente, Confirmar
<1> QED BY <1>1, DesconectarSeguro DEF SiguenSeguros, Seguro

LEMMA HiloSeguro ==
  ASSUME TInv, NEW i \in Instancias, PasoHilo(i)
  PROVE  SiguenSeguros
<1>1. CASE UNCHANGED fds
  BY <1>1 DEF SiguenSeguros, Seguro
<1>2. CASE Despertar(i)
  BY <1>2, MandaSeguro DEF Despertar
<1>3. CASE RecibirRespuesta(i) \/ RecibirCompactado(i) \/ RecibirCompactar(i)
  BY <1>3, ContestaSeguro DEF RecibirRespuesta, RecibirCompactado, RecibirCompactar
<1>4. CASE RecibirFin(i)
  BY <1>4, DesconectarSeguro DEF RecibirFin
<1>5. CASE Filtrar(i)
  BY <1>1, <1>5, DesconectarSeguro DEF Filtrar
<1> QED BY <1>1, <1>2, <1>3, <1>4, <1>5 DEF PasoHilo, DescontarHilo, PedirCompactar, EsperarCompactado

\* Whoever falls or serves a request is an Instance, and connected.
LEMMA ParSeguro ==
  ASSUME TInv, NEW i \in Instancias, Cae(i) \/ Sirve(i)
  PROVE  SiguenSeguros
<1>1. fds \in [Sockets -> {Libre} \cup Enlace]
  BY DEF TInv, TypeOK
<1>2. PICK s \in Conectada(i) : \A t \in Sockets \ {s} : fds'[t] = fds[t]
  <2>1. CASE Cae(i)
    <3>1. PICK s \in Conectada(i) : fds' = [fds EXCEPT ![s].abierta = FALSE, ![s].hacia = <<>>]
      BY <2>1 DEF Cae
    <3>2. \A t \in Sockets \ {s} : fds'[t] = fds[t]
      BY <1>1, <3>1
    <3> QED BY <3>2
  <2>2. CASE Sirve(i)
    <3>1. PICK s \in Conectada(i) : \E rs : Dice(s, rs)
      BY <2>2, SirveDice DEF DiceSet, DiceOtra
    <3>2. \A t \in Sockets \ {s} : fds'[t] = fds[t]
      BY <1>1, <3>1 DEF Dice
    <3> QED BY <3>2
  <2> QED BY <2>1, <2>2
<1>3. ~Seguro(s)
  BY <1>2, DistribucionAssumption DEF Conectada, Seguro
<1> QED BY <1>2, <1>3 DEF SiguenSeguros, Seguro

LEMMA OtroSeguro == ASSUME TInv, ConectaOtro PROVE SiguenSeguros
<1>1. fds' = [fds EXCEPT ![Min(Cerrados)] = Conexion(Otro)] /\ fds \in [Sockets -> {Libre} \cup Enlace]
  BY DEF ConectaOtro, TInv, TypeOK
<1> QED BY <1>1 DEF SiguenSeguros, Seguro, Conexion

\* Only an Instance that connects gets a descriptor that was safe.
LEMMA PasoSeguro ==
  ASSUME TInv, [Next]_vars
  PROVE  \/ SiguenSeguros
         \/ \E i \in Instancias : VuelveInstancia(i)
         \/ \E i \in Instancias :
              AgregarInstancia(i) /\ \A s \in Sockets \ {Min(Cerrados)} : Seguro(s) => Seguro(s)'
<1>1. ASSUME UNCHANGED fds
      PROVE  SiguenSeguros
  BY <1>1 DEF SiguenSeguros, Seguro
<1>2. CASE UNCHANGED vars
  BY <1>1, <1>2 DEF vars
<1>3. CASE \E op \in Operaciones, k \in Claves, v \in Valores : Pide(op, k, v)
  BY <1>1, <1>3 DEF Pide
<1>4. ASSUME NEW i \in Instancias, AgregarInstancia(i)
      PROVE  \A s \in Sockets \ {Min(Cerrados)} : Seguro(s) => Seguro(s)'
  <2>1. fds' = [fds EXCEPT ![Min(Cerrados)] = Conexion(i)] /\ fds \in [Sockets -> {Libre} \cup Enlace]
    BY <1>4 DEF AgregarInstancia, TInv, TypeOK
  <2> QED BY <2>1 DEF Seguro
<1> QED BY <1>2, <1>3, <1>4, ClienteSeguro, HiloSeguro, ParSeguro, OtroSeguro DEF Next
-----------------------------------------------------------------------------
(* What one_instance counts.                                               *)

\* While no descriptor is in the list twice, the descriptor of an Instance
\* that is down is never found ended: nobody takes the Instance off again.
InactivaSinCierre ==
  SocketsDistintos /\ SinVueltas =>
    \A n \in Lugares : ~instances[n].is_active => Seguro(instances[n].socket)

CInv == TInv /\ ConNombre /\ vueltas \in Nat /\ InactivaSinCierre /\ CuentaInstancias

\* The Coordinador does not live again, and what has come back has come back.
LEMMA PasoSinVuelta ==
  ASSUME vueltas \in Nat, [Next]_vars
  PROVE  /\ vivo' => vivo
         /\ vueltas' \in Nat /\ (SinVueltas' => SinVueltas /\ ~\E i \in Instancias : VuelveInstancia(i))
<1> DEFINE Queda == (vivo' => vivo) /\ (vueltas' = vueltas \/ \E i \in Instancias : VuelveInstancia(i))
<1>1. ASSUME NEW op \in Operaciones, NEW k \in Claves, NEW v \in Valores, Pide(op, k, v) PROVE Queda
  BY <1>1 DEF Pide
<1>2. ASSUME PasoCliente PROVE Queda
  BY <1>2 DEF PasoCliente, AsignarConocida, TomarInstancia, Elegir, GuardarEnInstancia, Abortar,
     ConsultarEstado, SimularAsignacion, SinElegida, DescontarCliente, Confirmar, cuentas, En
<1>3. ASSUME NEW i \in Instancias, PasoHilo(i) PROVE Queda
  <2>1. CASE Despertar(i) \/ RecibirRespuesta(i) \/ RecibirCompactado(i)
    BY <2>1 DEF Despertar, RecibirRespuesta, RecibirCompactado, cuentas, HiloEn
  <2>2. CASE RecibirCompactar(i) \/ RecibirFin(i) \/ DescontarHilo(i)
    BY <2>2 DEF RecibirCompactar, RecibirFin, DescontarHilo, cuentas, HiloEn
  <2>3. CASE Filtrar(i) \/ PedirCompactar(i) \/ EsperarCompactado(i)
    BY <2>3 DEF Filtrar, PedirCompactar, EsperarCompactado, cuentas, HiloEn
  <2> QED BY <1>3, <2>1, <2>2, <2>3 DEF PasoHilo
<1>4. ASSUME NEW i \in Instancias, AgregarInstancia(i) \/ VuelveInstancia(i) \/ Cae(i) \/ Sirve(i) PROVE Queda
  <2>1. CASE VuelveInstancia(i)
    <3>1. vivo
      BY <2>1 DEF VuelveInstancia
    <3> QED BY <2>1, <3>1
  <2>2. CASE AgregarInstancia(i) \/ Cae(i)
    BY <2>2 DEF AgregarInstancia, Cae, cuentas
  <2>3. CASE Sirve(i)
    BY <2>3, SirveMarco DEF cuentas
  <2> QED BY <1>4, <2>1, <2>2, <2>3
<1>5. ASSUME ConectaOtro PROVE Queda
  BY <1>5 DEF ConectaOtro
<1>6. ASSUME UNCHANGED vars PROVE Queda
  BY <1>6 DEF vars, cuentas
<1>7. Queda
  <2> HIDE DEF Queda
  <2> QED BY <1>1, <1>2, <1>3, <1>4, <1>5, <1>6 DEF Next
<1>8. ASSUME NEW i \in Instancias, VuelveInstancia(i)
      PROVE  vueltas' = vueltas + 1
  BY <1>8 DEF VuelveInstancia
<1>9. CASE \E i \in Instancias : VuelveInstancia(i)
  <2>1. vueltas' \in Nat /\ ~SinVueltas'
    BY <1>8, <1>9 DEF SinVueltas
  <2> QED BY <1>7, <2>1
<1>10. CASE ~\E i \in Instancias : VuelveInstancia(i)
  <2>1. vueltas' = vueltas
    BY <1>7, <1>10
  <2> QED BY <1>7, <1>10, <2>1 DEF SinVueltas
<1> QED BY <1>9, <1>10

\* The places of the list keep their descriptors, unless an Instance comes back.
LEMMA SocketsQuedan ==
  ASSUME TInv, Efecto, ~\E i \in Instancias : VuelveInstancia(i)
  PROVE  /\ \A n \in Lugares : n \in Lugares' /\ instances'[n].socket = instances[n].socket
         /\ SocketsDistintos' => SocketsDistintos
<1>1. instances \in Seq(instance_t)
  BY DEF TInv, TypeOK
<1> DEFINE Quedan == \A n \in Lugares : n \in Lugares' /\ instances'[n].socket = instances[n].socket
<1>2. ASSUME Quieta PROVE Quedan
  BY <1>1, <1>2 DEF Quieta, MismasFichas, MismaLista, Lugares
<1>3. ASSUME Quita PROVE Quedan
  <2>1. PICK n \in Lugares : Desconectar(instances[n].socket)
    BY <1>3 DEF Quita
  <2> QED BY <1>1, <2>1, CamposDesconectada
<1>4. ASSUME Descuento PROVE Quedan
  BY <1>1, <1>4, CamposDescontada DEF Descuento
<1>5. ASSUME NEW i \in Instancias, AgregarInstancia(i) PROVE Quedan
  BY <1>5, CamposAgregada
<1>6. Quedan
  BY <1>2, <1>3, <1>4, <1>5
     DEF Efecto, QuitaCliente, QuitaHilo, DescuentoCliente, DescuentoHilo
<1> QED BY <1>6 DEF SocketsDistintos
LEMMA InactivaPaso ==
  ASSUME CInv, [Next]_vars, Efecto, TInv'
  PROVE  InactivaSinCierre'
<1> SUFFICES ASSUME SocketsDistintos', SinVueltas', NEW n \in Lugares', ~instances'[n].is_active
             PROVE  Seguro(instances[n].socket)'
  BY DEF InactivaSinCierre
<1>1. /\ instances \in Seq(instance_t) /\ instances' \in Seq(instance_t)
      /\ instances'[n].socket \in Sockets
  <2>1. instances \in Seq(instance_t) /\ instances' \in Seq(instance_t)
    BY DEF CInv, TInv, TypeOK
  <2>2. instances'[n] \in instance_t
    BY <2>1 DEF Lugares
  <2> QED BY <2>1, <2>2 DEF instance_t
<1>2. SinVueltas /\ ~\E i \in Instancias : VuelveInstancia(i)
  BY PasoSinVuelta DEF CInv
<1>3. /\ \A k \in Lugares : k \in Lugares' /\ instances'[k].socket = instances[k].socket
      /\ SocketsDistintos
  BY <1>2, SocketsQuedan DEF CInv
<1>4. \A k \in Lugares : ~instances[k].is_active => Seguro(instances[k].socket)
  BY <1>2, <1>3 DEF CInv, InactivaSinCierre
<1>5. CASE \E i \in Instancias : AgregarInstancia(i)
  <2>1. PICK i \in Instancias :
          AgregarInstancia(i) /\ (SiguenSeguros \/ \A s \in Sockets \ {Min(Cerrados)} : Seguro(s) => Seguro(s)')
    BY <1>2, <1>5, PasoSeguro DEF CInv
  <2> DEFINE m == Len(instances) + 1
  <2>2. /\ Lugares' = Lugares \cup {m} /\ m \notin Lugares
        /\ instances'[m].socket = Min(Cerrados) /\ instances'[m].is_active
        /\ \A k \in Lugares : instances'[k].is_active = instances[k].is_active
    BY <2>1, CamposAgregada DEF CInv
  <2> HIDE DEF m
  <2>3. n \in Lugares /\ n # m /\ instances'[n].socket # instances'[m].socket
    BY <2>2 DEF SocketsDistintos
  <2>4. Seguro(instances[n].socket)
    BY <1>4, <2>2, <2>3
  <2>5. PICK s \in Sockets : s = instances'[n].socket
    BY <1>1
  <2>6. Seguro(s) /\ s # Min(Cerrados)
    BY <1>3, <2>2, <2>3, <2>4, <2>5
  <2>7. Seguro(s)'
    BY <2>1, <2>6 DEF SiguenSeguros
  <2> QED BY <2>5, <2>7 DEF Seguro
<1>6. CASE ~\E i \in Instancias : AgregarInstancia(i)
  <2>1. SiguenSeguros
    BY <1>2, <1>6, PasoSeguro DEF CInv
  <2>2. CASE Quita
    <3>1. PICK k \in Lugares : Desconectar(instances[k].socket)
      BY <2>2 DEF Quita
    <3> DEFINE m == socket_is_equal(instances[k].socket)
    <3>2. /\ m \in Lugares /\ instances[m].socket = instances[k].socket /\ Lugares' = Lugares
          /\ \A j \in Lugares \ {m} : instances'[j] = instances[j]
      BY <1>1, <3>1, CamposDesconectada
    <3> HIDE DEF m
    <3>3. CASE n = m
      <4>1. fds' = [fds EXCEPT ![instances[k].socket] = Libre] /\ fds \in [Sockets -> {Libre} \cup Enlace]
        BY <3>1 DEF Desconectar, CInv, TInv, TypeOK
      <4>2. instances'[n].socket = instances[k].socket
        BY <1>3, <3>2, <3>3
      <4> QED BY <1>1, <4>1, <4>2 DEF Seguro
    <3>4. CASE n # m
      <4>1. n \in Lugares /\ instances'[n] = instances[n] /\ Seguro(instances[n].socket)
        BY <1>4, <3>2, <3>4
      <4> QED BY <1>1, <2>1, <4>1 DEF SiguenSeguros, Seguro
    <3> QED BY <3>3, <3>4
  <2>3. CASE Quieta \/ Descuento
    <3>1. n \in Lugares /\ instances'[n].is_active = instances[n].is_active
      BY <1>1, <2>3, CamposDescontada DEF Quieta, MismasFichas, MismaLista, Descuento, Lugares
    <3>2. Seguro(instances[n].socket) /\ instances'[n].socket = instances[n].socket
      BY <1>3, <1>4, <3>1
    <3> QED BY <1>1, <2>1, <3>2 DEF SiguenSeguros, Seguro
  <2> QED BY <1>2, <1>6, <2>2, <2>3
         DEF Efecto, QuitaCliente, QuitaHilo, DescuentoCliente, DescuentoHilo
<1> QED BY <1>5, <1>6
\* How many are to be counted: the active ones and those taken off for which
\* one_instance has not been waited for, but for the one held while choosing.
EnTurno == IF Descuenta THEN 1 ELSE 0
Contados == Cardinality(Activos(instances)) + ((EnTurno + Cardinality(EnDescuento)) - Reserva)

LEMMA CuentaEsContados ==
  CuentaInstancias <=> (vivo /\ SocketsDistintos /\ SinVueltas => one_instance = Contados)
BY DEF CuentaInstancias, Descontando, Contados, EnTurno, Reserva, Descuenta, EnDescuento

LEMMA QuitaCuenta ==
  ASSUME TInv, Quita, SocketsDistintos, InactivaSinCierre, SinVueltas
  PROVE  Cardinality(Activos(instances)) = Cardinality(Activos(instances'))  + 1
<1>1. instances \in Seq(instance_t) /\ fds \in [Sockets -> {Libre} \cup Enlace]
  BY DEF TInv, TypeOK
<1>2. PICK n \in Lugares : Cerrado(instances[n].socket) /\ Desconectar(instances[n].socket)
  BY DEF Quita
<1> DEFINE m == socket_is_equal(instances[n].socket)
<1>3. /\ m \in Lugares /\ instances[m].socket = instances[n].socket /\ Lugares' = Lugares
      /\ instances'[m].is_active = FALSE /\ \A j \in Lugares \ {m} : instances'[j] = instances[j]
  BY <1>1, <1>2, CamposDesconectada
<1> HIDE DEF m
<1>4. m = n
  BY <1>3 DEF SocketsDistintos
<1>5. instances[n].is_active
  <2>1. ~Seguro(instances[n].socket)
    BY <1>2 DEF Cerrado, Seguro
  <2>2. n \in Lugares /\ (~instances[n].is_active => Seguro(instances[n].socket))
    BY DEF InactivaSinCierre
  <2> QED BY <2>1, <2>2
<1>6. Activos(instances') = Activos(instances) \ {n} /\ n \in Activos(instances)
  BY <1>3, <1>4, <1>5 DEF Activos, Lugares
<1>7. IsFiniteSet(Activos(instances)) /\ Cardinality(Activos(instances)) \in Nat
  BY <1>1, ActivosFinitos
<1>8. Cardinality(Activos(instances) \ {n}) = Cardinality(Activos(instances)) - 1
  BY <1>6, <1>7, FS_RemoveElement
<1> QED BY <1>6, <1>7, <1>8

LEMMA AgregarCuenta ==
  ASSUME TInv, ConNombre, NEW i \in Instancias, AgregarInstancia(i)
  PROVE  /\ Cardinality(Activos(instances')) = Cardinality(Activos(instances)) + 1
         /\ EnDescuento' = EnDescuento
<1> DEFINE m == Len(instances) + 1
<1>1. instances \in Seq(instance_t)
  BY DEF TInv, TypeOK
<1>2. /\ Lugares' = Lugares \cup {m} /\ m \notin Lugares /\ instances'[m].is_active
      /\ \A n \in Lugares : instances'[n].is_active = instances[n].is_active
      /\ hilo'[i].pc = "start" /\ \A k \in Instancias \ {i} : hilo'[k] = hilo[k]
  BY CamposAgregada
<1> HIDE DEF m
<1>3. Activos(instances') = Activos(instances) \cup {m} /\ m \notin Activos(instances)
  BY <1>2 DEF Activos, Lugares
<1>4. hilo[i].pc = "no"
  <2>1. {n \in Lugares : instances[n].name = i} \in SUBSET (Nat \ {0})
    BY <1>1 DEF Lugares
  <2>2. {n \in Lugares : instances[n].name = i} = {}
    BY <2>1, PrimeroEsta DEF AgregarInstancia, Propia, name_is_equal
  <2> QED BY <2>2 DEF ConNombre
<1>5. EnDescuento' = EnDescuento
  BY <1>2, <1>4 DEF EnDescuento
<1>6. IsFiniteSet(Activos(instances)) /\ Cardinality(Activos(instances)) \in Nat
  BY <1>1, ActivosFinitos
<1> QED BY <1>3, <1>5, <1>6, FS_AddElement

LEMMA CuentaPaso ==
  ASSUME CInv, [Next]_vars, Efecto, ConNombre', TInv'
  PROVE  CuentaInstancias'
<1> SUFFICES ASSUME vivo', SocketsDistintos', SinVueltas' PROVE one_instance' = Contados'
  BY DEF CuentaInstancias, Descontando, Contados, EnTurno, Reserva, Descuenta, EnDescuento
<1>1. vivo /\ SinVueltas /\ ~\E i \in Instancias : VuelveInstancia(i)
  BY PasoSinVuelta DEF CInv
<1>2. SocketsDistintos
  BY <1>1, SocketsQuedan DEF CInv
<1>3. one_instance = Contados
  BY <1>1, <1>2, CuentaEsContados DEF CInv
<1>4. /\ instances \in Seq(instance_t) /\ instances' \in Seq(instance_t)
      /\ one_instance \in Nat /\ one_instance' \in Nat
  BY DEF CInv, TInv, TypeOK
<1>5. /\ Cardinality(Activos(instances)) \in Nat /\ Cardinality(Activos(instances')) \in Nat
      /\ IsFiniteSet(EnDescuento) /\ Cardinality(EnDescuento) \in Nat /\ Cardinality(EnDescuento') \in Nat
  <2>1. IsFiniteSet(EnDescuento) /\ Cardinality(EnDescuento) \in Nat
    BY EnDescuentoFinito DEF CInv
  <2>2. Cardinality(EnDescuento') \in Nat
    <3>1. (TInv /\ ConNombre)' => (Cardinality(EnDescuento) \in Nat)'
      BY EnDescuentoFinito, PTL
    <3> QED BY <3>1
  <2> QED BY <1>4, <2>1, <2>2, ActivosFinitos
<1> DEFINE a == Cardinality(Activos(instances))
           d == Cardinality(EnDescuento)
<1>6. /\ a \in Nat /\ a' \in Nat /\ d \in Nat /\ d' \in Nat /\ EnTurno \in Nat /\ EnTurno' \in Nat
       /\ one_instance \in Nat /\ one_instance' \in Nat /\ Reserva \in Nat /\ Reserva' \in Nat
  BY <1>4, <1>5 DEF EnTurno, Reserva
<1>7. one_instance = a + ((EnTurno + d) - Reserva) /\ Contados' = a' + ((EnTurno' + d') - Reserva')
  BY <1>3 DEF Contados
<1>8. PICK O \in Nat, A \in Nat, E \in Nat, D \in Nat, R \in Nat :
         O = one_instance' /\ A = a' /\ E = EnTurno' /\ D = d' /\ R = Reserva'
  BY <1>6
<1>9. ASSUME O + R + a + EnTurno + d = one_instance + Reserva + A + E + D
       PROVE  one_instance' = Contados'
  <2> HIDE DEF a, d
  <2>1. O = A + ((E + D) - R)
    BY <1>6, <1>7, <1>9
  <2> QED BY <1>7, <1>8, <2>1
<1>10. CASE Quieta
  <2>1. Activos(instances') = Activos(instances)
    BY <1>4, <1>10 DEF Quieta, MismasFichas, MismaLista, Lugares, Activos
  <2>2. EnDescuento' = EnDescuento /\ EnTurno' = EnTurno /\ one_instance' + Reserva' = one_instance + Reserva
    BY <1>10 DEF Quieta, MismosHilos, EnTurno
  <2>3. A = a /\ D = d /\ E = EnTurno /\ O + R = one_instance + Reserva
    BY <1>8, <2>1, <2>2
  <2> HIDE DEF a, d
  <2> QED BY <1>6, <1>9, <2>3
<1>11. CASE QuitaCliente \/ \E i \in Instancias : QuitaHilo(i)
  <2>1. Quita /\ one_instance' = one_instance /\ Reserva' = Reserva
    BY <1>11 DEF QuitaCliente, QuitaHilo, Quita
  <2>2. a = a' + 1
    BY <1>1, <1>2, <2>1, QuitaCuenta DEF CInv
  <2>3. EnTurno' + d' = EnTurno + d + 1
    <3>1. CASE QuitaCliente
      BY <1>5, <3>1 DEF QuitaCliente, EnTurno
    <3>2. ASSUME NEW i \in Instancias, QuitaHilo(i)
          PROVE  EnTurno' + d' = EnTurno + d + 1
      <4>1. i \notin EnDescuento /\ EnDescuento' = EnDescuento \cup {i} /\ EnTurno' = EnTurno
        BY <3>2 DEF QuitaHilo, EnTurno
      <4>2. d' = d + 1
        BY <1>5, <4>1, FS_AddElement
      <4> QED BY <1>5, <4>1, <4>2 DEF EnTurno
    <3> QED BY <1>11, <3>1, <3>2
  <2> HIDE DEF a, d
  <2>4. O = one_instance /\ R = Reserva /\ a = A + 1 /\ E + D = EnTurno + d + 1
    BY <1>8, <2>1, <2>2, <2>3
  <2> QED BY <1>6, <1>9, <2>4
<1>12. CASE DescuentoCliente \/ \E i \in Instancias : DescuentoHilo(i)
  <2>1. Descuento /\ one_instance' = one_instance - 1 /\ Reserva' = Reserva
    BY <1>12 DEF DescuentoCliente, DescuentoHilo, Descuento, Descontar
  <2>2. a' = a
    BY <1>4, <2>1, CamposDescontada DEF Descuento
  <2>3. EnTurno' + d' = EnTurno + d - 1
    <3>1. CASE DescuentoCliente
      BY <1>5, <3>1 DEF DescuentoCliente, EnTurno
    <3>2. ASSUME NEW i \in Instancias, DescuentoHilo(i)
          PROVE  EnTurno' + d' = EnTurno + d - 1
      <4>1. i \in EnDescuento /\ EnDescuento' = EnDescuento \ {i} /\ EnTurno' = EnTurno
        BY <3>2 DEF DescuentoHilo, EnTurno
      <4>2. d' = d - 1
        BY <1>5, <4>1, FS_RemoveElement
      <4> QED BY <1>5, <4>1, <4>2 DEF EnTurno
    <3> QED BY <1>12, <3>1, <3>2
  <2> HIDE DEF a, d
  <2>4. O = one_instance - 1 /\ R = Reserva /\ A = a /\ E + D = EnTurno + d - 1
    BY <1>8, <2>1, <2>2, <2>3
  <2> QED BY <1>6, <1>9, <2>4
<1>13. CASE \E i \in Instancias : AgregarInstancia(i)
  <2>1. PICK i \in Instancias : AgregarInstancia(i)
    BY <1>13
  <2>2. a' = a + 1 /\ EnDescuento' = EnDescuento
    BY <2>1, AgregarCuenta DEF CInv
  <2>3. one_instance' = one_instance + 1 /\ EnTurno' = EnTurno /\ Reserva' = Reserva
    BY <2>1 DEF AgregarInstancia, EnTurno, Descuenta, Reserva
  <2>4. d' = d
    BY <2>2
  <2> HIDE DEF a, d
  <2>5. O = one_instance + 1 /\ R = Reserva /\ A = a + 1 /\ E = EnTurno /\ D = d
    BY <1>8, <2>2, <2>3, <2>4
  <2> QED BY <1>6, <1>9, <2>5
<1> QED BY <1>1, <1>10, <1>11, <1>12, <1>13 DEF Efecto

LEMMA InicioCInv == Init => CInv
<1> SUFFICES ASSUME Init PROVE CInv
  OBVIOUS
<1>1. TInv /\ ConNombre
  BY InicioLInv DEF LInv
<1>2. /\ instances = <<>> /\ hilo = [i \in Instancias |-> SinHilo] /\ vueltas = 0 /\ one_instance = 0
      /\ cliente = Ocioso
  BY DEF Init
<1>3. DOMAIN instances = {}
  BY <1>2
<1>4. InactivaSinCierre
  BY <1>3 DEF InactivaSinCierre, Lugares
<1>5. Activos(instances) = {} /\ EnDescuento = {} /\ ~Descuenta /\ Reserva = 0
  BY <1>2, <1>3 DEF Activos, EnDescuento, SinHilo, Descuenta, Reserva, Ocioso
<1>6. Contados = 0
  BY <1>5, FS_EmptySet DEF Contados, EnTurno
<1>7. CuentaInstancias
  BY <1>2, <1>5, <1>6, CuentaEsContados
<1> QED BY <1>1, <1>2, <1>4, <1>7 DEF CInv

LEMMA PasoCInv == CInv /\ [Next]_vars => CInv'
<1> SUFFICES ASSUME CInv, [Next]_vars PROVE CInv'
  OBVIOUS
<1>1. TInv' /\ Efecto
  BY PasoTInv, PasoEfecto DEF CInv
<1>2. ConNombre' /\ vueltas' \in Nat
  BY <1>1, ConNombrePaso, PasoSinVuelta DEF CInv
<1> QED BY <1>1, <1>2, InactivaPaso, CuentaPaso DEF CInv

\* While no descriptor is in the list twice and nobody has come back,
\* one_instance counts the active Instances, whatever connects and falls: an
\* Instance that falls is taken off once, whoever notices it first
\* (disconnect_instance_in_list, test_connection, host_instance).
THEOREM Cuenta == Spec => []CuentaInstancias
<1>1. Init => CInv
  BY InicioCInv
<1>2. CInv /\ [Next]_vars => CInv'
  BY PasoCInv
<1>3. CInv => CuentaInstancias
  BY DEF CInv
<1> QED BY <1>1, <1>2, <1>3, PTL DEF Spec
=============================================================================
