-------------------------- MODULE InstanciaProofs --------------------------
(***************************************************************************)
(* What holds of Instancia for every table, key, value and number of       *)
(* requests.  TInv is the type invariant with what makes it inductive; the *)
(* other invariants are proved on top of it, one at a time.                *)
(***************************************************************************)
EXTENDS Instancia, Extremos

-----------------------------------------------------------------------------
(* The invariant.                                                          *)

Byte == (Letras \X Nat) \cup {Nulo}
Entrada == [clave : Claves \cup {vacio}, tamanio : Largos \cup {0}, age : Int]

\* Beyond the request, main is at work on it, and knows which.
Fase ==
  /\ pc \notin {"recv", "caida"} => pedido \in Pedidos
  /\ pc = "guardarEnTabla" => pedido.op = "SET"
  /\ pc = "compactar" => pedido.op \in {"SET", "COMPACT"}
  /\ volcado \in Nat \cup {-1}

\* compactar moves entries into a hole that is inside the table.
HuecoDentro ==
  compactado.hueco # 0 =>
    /\ compactado.i <= compactado.x
    /\ compactado.x < compactado.i + compactado.hueco
    /\ compactado.i + compactado.hueco <= CantEntradas

\* No entry has seen more SETs than there were: laMasVieja exists.
Edades ==
  \A i \in Entradas :
    /\ tabla[i].age <= pedidos
    /\ pc \in {"mutex", "procesarHeader"} /\ pedido.op = "SET" => tabla[i].age < pedidos

TInv == TypeOK /\ Fase /\ HuecoDentro /\ Edades

\* The mutex is main's exactly while main is at work, and the dump's while it
\* runs; a process that is down has no dump.
Trabajando == {"procesarHeader", "guardarEnTabla", "compactar"}
TurnoDelMutex ==
  /\ mutex_dump = "main" <=> pc \in Trabajando
  /\ mutex_dump = "dump" <=> volcado # -1
  /\ pc = "caida" => volcado = -1

\* In LRU no file is ever unmapped, and the key of a SET gets its file before
\* it gets an entry.
EntraConArchivo ==
  pc = "guardarEnTabla" \/ (pc = "compactar" /\ pedido.op = "SET")
    => Mapeada(pedido.clave) # {}
Mapeadas == algReemplazo = "LRU" => ClavesMapeadas /\ EntraConArchivo

\* compactar, at entry i of table t, with a hole of that length to fill when it
\* is not 0 and x its next entry: a free entry before i has only free ones
\* behind it, and so has i once something was moved there.
Libre(t, j) == t[j].clave = vacio
TodasLibres(t, e) == \A q \in Entradas : q >= e => Libre(t, q)
Compactada(t, i, x, h) ==
  /\ \A j \in Entradas : j < i /\ Libre(t, j) => TodasLibres(t, j)
  /\ h # 0 /\ x = i => /\ \A q \in i..(i + h - 1) : Libre(t, q)
                       /\ i + h < CantEntradas => ~Libre(t, i + h)
  /\ h # 0 /\ x > i => ~Libre(t, i) \/ TodasLibres(t, i)
Compactando ==
  pc = "compactar" => Compactada(tabla, compactado.i, compactado.x, compactado.hueco)

-----------------------------------------------------------------------------
(* The operators of the model.                                             *)

LEMMA PaginasTipo ==
  ASSUME NEW l \in Nat
  PROVE  /\ getCantPaginas(l) \in Nat
         /\ l # 0 => getCantPaginas(l) # 0
<1>1. TamanioEntradas \in Nat \ {0}
  BY InstanciaAssumption
<1>2. l + TamanioEntradas - 1 \in Nat
  BY <1>1
<1> QED BY <1>1, <1>2 DEF getCantPaginas

LEMMA EntradasFinito ==
  /\ CantEntradas \in Nat \ {0} /\ TamanioEntradas \in Nat \ {0}
  /\ Entradas \subseteq Nat
  /\ \A S \in SUBSET Entradas : IsFiniteSet(S) /\ Cardinality(S) \in 0..CantEntradas
<1>1. CantEntradas \in Nat \ {0} /\ TamanioEntradas \in Nat \ {0}
  BY InstanciaAssumption
<1>2. IsFiniteSet(Entradas) /\ Cardinality(Entradas) = CantEntradas
  BY <1>1, FS_Interval DEF Entradas
<1>3. ASSUME NEW S \in SUBSET Entradas
      PROVE  IsFiniteSet(S) /\ Cardinality(S) \in 0..CantEntradas
  BY <1>1, <1>2, FS_Subset, FS_CardinalityType
<1> QED BY <1>1, <1>3 DEF Entradas

LEMMA LibresTipo ==
  ASSUME NEW t
  PROVE  free_entries(t) \in Nat
BY EntradasFinito DEF free_entries

LEMMA PrimeraEsta ==
  ASSUME NEW S \in SUBSET Entradas
  PROVE  /\ S = {} => Primera(S) = -1
         /\ S # {} => Primera(S) \in S
<1>1. S \in SUBSET Nat
  BY EntradasFinito
<1> QED BY <1>1, MinEsta DEF Primera

\* Where the lookups lead.
LEMMA Busquedas ==
  ASSUME NEW k
  PROVE  /\ consultarTabla(k) # -1 =>
              consultarTabla(k) \in Entradas /\ Igual(tabla[consultarTabla(k)].clave, k)
         /\ consultarTablaCIRC(k) # -1 =>
              consultarTablaCIRC(k) \in Entradas /\ Igual(tabla[consultarTablaCIRC(k)].clave, k)
<1>1. \A S \in SUBSET Entradas : Primera(S) # -1 => Primera(S) \in S
  BY PrimeraEsta
<1> QED BY <1>1 DEF consultarTabla, consultarTablaCIRC

LEMMA EspacioLibre ==
  ASSUME NEW n \in Nat, buscarEspacioLibre(n) # -1
  PROVE  LET b == buscarEspacioLibre(n)
         IN /\ b \in Entradas /\ b + n <= CantEntradas
            /\ \A q \in b..(b + n - 1) : tabla[q].clave = vacio
<1> DEFINE S == {i \in Entradas : i + n <= CantEntradas
                                  /\ \A q \in i..(i + n - 1) : tabla[q].clave = vacio}
<1>1. buscarEspacioLibre(n) = Primera(S)
  BY DEF buscarEspacioLibre
<1>2. Primera(S) \in S
  <2> HIDE DEF S
  <2>1. S \in SUBSET Entradas
    BY DEF S
  <2> QED BY <2>1, <1>1, PrimeraEsta
<1> QED BY <1>1, <1>2

\* A run of entries ends inside the table.
LEMMA CorridaCorta ==
  ASSUME NEW t, NEW e \in Entradas, NEW k
  PROVE  /\ Cardinality(Corrida(t, e, k)) \in 0..(CantEntradas - e)
         /\ t[e].clave = k => Cardinality(Corrida(t, e, k)) # 0
<1> DEFINE C == Corrida(t, e, k)
<1>1. CantEntradas \in Nat /\ e \in Nat /\ e < CantEntradas
  BY EntradasFinito DEF Entradas
<1>2. C \in SUBSET (e..(CantEntradas - 1))
  BY <1>1 DEF Corrida, Entradas
<1>3. IsFiniteSet(e..(CantEntradas - 1)) /\ Cardinality(e..(CantEntradas - 1)) = CantEntradas - e
  BY <1>1, FS_Interval
<1>4. IsFiniteSet(C) /\ Cardinality(C) <= CantEntradas - e
  BY <1>2, <1>3, FS_Subset
<1>5. Cardinality(C) \in Nat
  BY <1>4, FS_CardinalityType
<1>6. t[e].clave = k => e \in C
  BY <1>1 DEF Corrida
<1> QED BY <1>1, <1>4, <1>5, <1>6, FS_EmptySet

LEMMA ValorTipo ==
  ASSUME NEW p \in Pedidos, p.op = "SET"
  PROVE  /\ p.clave \in Claves
         /\ p.valor \in Seq(Letras \X Nat) /\ Len(p.valor) \in Largos
         /\ Largos \subseteq Nat \ {0}
<1>1. p.clave \in Claves /\ p.valor \in Valores
  BY DEF Pedidos
<1>2. Largos \subseteq Nat \ {0}
  BY InstanciaAssumption
<1>3. ASSUME NEW l \in Letras, NEW n \in Largos
      PROVE  LET v == [j \in 1..n |-> <<l, j>>]
             IN v \in Seq(Letras \X Nat) /\ Len(v) = n
  BY <1>2
<1> QED BY <1>1, <1>2, <1>3 DEF Valores

LEMMA EntradaTipo ==
  ASSUME TypeOK, NEW i \in Entradas
  PROVE  /\ tabla[i] \in Entrada /\ tabla[i].clave \in Claves \cup {vacio}
         /\ tabla[i].tamanio \in Nat /\ tabla[i].age \in Int
         /\ i * TamanioEntradas \in Nat
<1>1. tabla[i] \in Entrada
  BY DEF TypeOK, Entrada
<1>2. Largos \cup {0} \subseteq Nat
  BY InstanciaAssumption
<1>3. i * TamanioEntradas \in Nat
  BY EntradasFinito
<1> QED BY <1>1, <1>2, <1>3 DEF Entrada

LEMMA LeerTipo ==
  ASSUME TypeOK, NEW p \in Int, NEW n \in Nat
  PROVE  Leer(p, n) \in Seq(Byte) /\ Len(Leer(p, n)) = n
<1>1. \A j \in 1..n : (IF p + j - 1 \in Bytes THEN mem[p + j - 1] ELSE Nulo) \in Byte
  BY DEF TypeOK, Byte
<1> QED BY <1>1 DEF Leer

LEMMA EscribirTipo ==
  ASSUME TypeOK, NEW p \in Int, NEW bytes \in Seq(Byte)
  PROVE  Escribir(p, bytes) \in [Bytes -> Byte]
<1>1. ASSUME NEW q \in Bytes, q \in p..(p + Len(bytes) - 1)
      PROVE  bytes[q - p + 1] \in Byte
  <2>1. q \in Int
    BY DEF Bytes
  <2>2. q - p + 1 \in 1..Len(bytes)
    BY <1>1, <2>1
  <2> QED BY <2>2
<1>2. \A q \in Bytes : mem[q] \in Byte
  BY DEF TypeOK, Byte
<1> QED BY <1>1, <1>2 DEF Escribir

LEMMA EnArchivoTipo ==
  ASSUME NEW f \in Seq(Byte), NEW bytes \in Seq(Byte)
  PROVE  EnArchivo(f, bytes) \in Seq(Byte)
<1>1. \A j \in 1..Len(f) : (IF j <= Len(bytes) THEN bytes[j] ELSE f[j]) \in Byte
  OBVIOUS
<1> QED BY <1>1 DEF EnArchivo

-----------------------------------------------------------------------------
(* Types.                                                                  *)

LEMMA InitTipo == Init => TInv
<1> SUFFICES ASSUME Init PROVE TInv
  OBVIOUS
<1> USE DEF Init
<1>1. CantEntradas \in Nat /\ MaxPedidos \in Nat /\ MaxCaidas \in Nat
  BY InstanciaAssumption
<1>2. tabla \in [Entradas -> Entrada] /\ \A i \in Entradas : tabla[i].age = 0
  BY DEF TablaVacia, EntradaVacia, Entrada
<1>3. mem \in [Bytes -> Byte]
  BY DEF MemVacia, Byte
<1>4. archivo \in [Claves -> Seq(Byte)]
  OBVIOUS
<1>5. respuestas \in Seq([id : {11, 12, 13, 15, 19}, largo : Nat])
  OBVIOUS
<1>6. compactado \in [i : 0..CantEntradas, x : 0..(2 * CantEntradas), hueco : 0..CantEntradas]
  BY <1>1 DEF SinCompactar
<1>7. TypeOK
  BY <1>1, <1>2, <1>3, <1>4, <1>5, <1>6 DEF TypeOK, Entrada, Byte
<1>8. Fase /\ HuecoDentro /\ Edades
  BY <1>1, <1>2 DEF Fase, HuecoDentro, Edades, SinCompactar
<1> QED BY <1>7, <1>8 DEF TInv

LEMMA RecibeTipo ==
  ASSUME TInv, NEW p \in Pedidos, Recibe(p)
  PROVE  TInv'
<1> USE DEF TInv, Recibe, datos, indices
<1>1. pedidos' \in 0..MaxPedidos /\ pedidos <= pedidos' /\ (p.op = "SET" => pedidos < pedidos')
  BY InstanciaAssumption DEF TypeOK
<1>2. respuestas' \in Seq([id : {11, 12, 13, 15, 19}, largo : Nat])
  OBVIOUS
<1>3. TypeOK'
  BY <1>1, <1>2 DEF TypeOK
<1>4. Fase' /\ HuecoDentro'
  BY DEF Fase, HuecoDentro
<1>5. Edades'
  <2> SUFFICES ASSUME NEW i \in Entradas
               PROVE  tabla[i].age <= pedidos' /\ (p.op = "SET" => tabla[i].age < pedidos')
    BY DEF Edades
  <2>1. tabla[i].age <= pedidos /\ tabla[i].age \in Int /\ pedidos \in Int
    BY DEF Edades, TypeOK
  <2> QED BY <1>1, <2>1
<1> QED BY <1>3, <1>4, <1>5

\* The steps that leave the data alone.
LEMMA MutexTipo ==
  ASSUME TInv, TomaMutex
  PROVE  TInv'
<1> USE DEF TInv, TomaMutex, datos, indices, cuentas
<1>1. TypeOK'
  BY DEF TypeOK
<1>2. Fase' /\ HuecoDentro' /\ Edades'
  BY DEF Fase, HuecoDentro, Edades
<1> QED BY <1>1, <1>2

Respuesta == [id : {11, 12, 13, 15, 19}, largo : Nat]

LEMMA ResponderTipo ==
  ASSUME TypeOK, NEW id \in {11, 12, 13, 15, 19}, NEW largo \in Nat, Responder(id, largo)
  PROVE  respuestas' \in Seq(Respuesta)
<1>1. respuestas \in Seq(Respuesta) /\ [id |-> id, largo |-> largo] \in Respuesta
  BY DEF TypeOK, Respuesta
<1> QED BY <1>1 DEF Responder

\* Answering ends the request.
LEMMA RespondidoTipo ==
  ASSUME TInv, Terminar, respuestas' \in Seq(Respuesta),
         tabla' \in [Entradas -> Entrada], \A i \in Entradas : tabla'[i].age <= pedidos,
         mem' \in [Bytes -> Byte], archivo' \in [Claves -> Seq(Byte)], lista_claves' \subseteq Claves,
         comienzoDeEntradasLibres' \in 0..CantEntradas, indexCircular' \in Nat,
         flagCompactar' \in {0, 1}, laMasVieja' \in Nat,
         compactado' = compactado \/ compactado' = SinCompactar,
         UNCHANGED <<volcado, cuentas>>
  PROVE  TInv'
<1> USE DEF Terminar, cuentas, TInv
<1>1. compactado' \in [i : 0..CantEntradas, x : 0..(2 * CantEntradas), hueco : 0..CantEntradas]
  BY InstanciaAssumption DEF TypeOK, SinCompactar
<1>2. TypeOK'
  BY <1>1 DEF TypeOK, Entrada, Byte, Respuesta
<1>3. Fase' /\ HuecoDentro'
  BY DEF Fase, HuecoDentro, SinCompactar
<1>4. Edades'
  BY DEF Edades
<1> QED BY <1>2, <1>3, <1>4

\* GET, STORE and STATUS.
LEMMA ConsultasTipo ==
  ASSUME TInv, Get \/ StoreReemplazada \/ Status
  PROVE  TInv'
<1> USE DEF datos, indices, cuentas
<1>1. UNCHANGED <<datos, indices, compactado, volcado, cuentas>> /\ Terminar
  BY DEF Get, StoreReemplazada, Status
<1>2. respuestas' \in Seq(Respuesta)
  <2>1. TypeOK
    BY DEF TInv
  <2>2. CASE Get
    BY <2>1, <2>2, ResponderTipo DEF Get
  <2>3. CASE StoreReemplazada
    <3>1. respuestas \in Seq(Respuesta)
      BY <2>1 DEF TypeOK, Respuesta
    <3>2. [id |-> 15, largo |-> 0] \in Respuesta /\ [id |-> 12, largo |-> 0] \in Respuesta
      BY DEF Respuesta
    <3> QED BY <2>3, <3>1, <3>2 DEF StoreReemplazada
  <2>4. CASE Status
    BY <2>1, <2>4, ResponderTipo DEF Status
  <2> QED BY <2>2, <2>3, <2>4
<1>3. /\ tabla \in [Entradas -> Entrada] /\ \A i \in Entradas : tabla[i].age <= pedidos
      /\ mem \in [Bytes -> Byte] /\ archivo \in [Claves -> Seq(Byte)] /\ lista_claves \subseteq Claves
      /\ comienzoDeEntradasLibres \in 0..CantEntradas /\ indexCircular \in Nat
      /\ flagCompactar \in {0, 1} /\ laMasVieja \in Nat
  BY DEF TInv, TypeOK, Edades, Entrada, Byte
<1> QED BY <1>1, <1>2, <1>3, RespondidoTipo

LEMMA StoreTipo ==
  ASSUME TInv, storeKey
  PROVE  TInv'
<1> USE DEF indices, cuentas
<1> DEFINE posicion == consultarTabla(pedido.clave)
           copia == Leer(posicion * TamanioEntradas, tabla[posicion].tamanio + 1)
<1>1. TypeOK
  BY DEF TInv
<1>2. posicion \in Entradas
  BY Busquedas DEF storeKey
<1>3. copia \in Seq(Byte)
  <2> HIDE DEF posicion
  <2>1. posicion * TamanioEntradas \in Int
    BY <1>1, <1>2, EntradaTipo
  <2>2. tabla[posicion].tamanio + 1 \in Nat
    BY <1>1, <1>2, EntradaTipo
  <2> QED BY <1>1, <2>1, <2>2, LeerTipo
<1>4. archivo' \in [Claves -> Seq(Byte)]
  <2>1. PICK c \in Claves : archivo' = [archivo EXCEPT ![c] = EnArchivo(@, copia)]
    BY <1>1 DEF storeKey, TypeOK, Mapeada
  <2>2. archivo \in [Claves -> Seq(Byte)]
    BY <1>1 DEF TypeOK, Byte
  <2>3. EnArchivo(archivo[c], copia) \in Seq(Byte)
    BY <1>3, <2>2, EnArchivoTipo
  <2> HIDE DEF copia
  <2> QED BY <2>1, <2>2, <2>3
<1>5. respuestas' \in Seq(Respuesta)
  BY <1>1, ResponderTipo DEF storeKey
<1>6. /\ tabla \in [Entradas -> Entrada] /\ \A i \in Entradas : tabla[i].age <= pedidos
      /\ mem \in [Bytes -> Byte] /\ lista_claves \subseteq Claves
      /\ comienzoDeEntradasLibres \in 0..CantEntradas /\ indexCircular \in Nat
      /\ flagCompactar \in {0, 1} /\ laMasVieja \in Nat
  BY DEF TInv, TypeOK, Edades, Entrada, Byte
<1>7. Terminar /\ UNCHANGED <<tabla, mem, lista_claves, indices, compactado, volcado, cuentas>>
  BY DEF storeKey
<1> QED BY <1>4, <1>5, <1>6, <1>7, RespondidoTipo

-----------------------------------------------------------------------------
(* SET.                                                                    *)

LEMMA MapearTipo ==
  ASSUME TypeOK, pedido \in Pedidos, pedido.op = "SET", MapearClave
  PROVE  archivo' \in [Claves -> Seq(Byte)] /\ lista_claves' \subseteq Claves
<1>1. archivo \in [Claves -> Seq(Byte)] /\ lista_claves \subseteq Claves
  BY DEF TypeOK, Byte
<1>2. pedido.clave \in Claves /\ Len(pedido.valor) \in Nat
  BY ValorTipo
<1>3. ArchivoNuevo \in Seq(Byte)
  <2>1. Paginas * TamanioEntradas + 2 \in Nat
    <3>1. Paginas \in Nat /\ TamanioEntradas \in Nat
      BY <1>2, PaginasTipo, EntradasFinito DEF Paginas, Largo
    <3> QED BY <3>1
  <2>2. Nulo \in Byte
    BY DEF Byte
  <2> QED BY <2>1, <2>2 DEF ArchivoNuevo
<1> QED BY <1>1, <1>2, <1>3 DEF MapearClave

\* One entry, one SET older.
LEMMA EnvejecidaTipo ==
  ASSUME TInv, pc = "procesarHeader", pedido.op = "SET"
  PROVE  /\ Envejecida \in [Entradas -> Entrada] /\ TablaConsultada \in [Entradas -> Entrada]
         /\ \A i \in Entradas : Envejecida[i].age <= pedidos /\ TablaConsultada[i].age <= pedidos
         /\ \A i \in Entradas : TablaConsultada[i].clave = tabla[i].clave
<1>1. pedidos \in Nat
  BY InstanciaAssumption DEF TInv, TypeOK
<1>2. ASSUME NEW i \in Entradas
      PROVE  /\ Envejecida[i] \in Entrada /\ Envejecida[i].age <= pedidos
             /\ Envejecida[i].clave = tabla[i].clave
             /\ tabla[i] \in Entrada /\ tabla[i].age <= pedidos
  <2>1. tabla[i] \in Entrada /\ tabla[i].age \in Int
    BY EntradaTipo DEF TInv
  <2>2. tabla[i].age < pedidos
    BY DEF TInv, Edades
  <2>3. PICK a \in Int : a <= pedidos /\ Envejecida[i] = [tabla[i] EXCEPT !.age = a]
    <3> DEFINE a == IF tabla[i].tamanio > TamanioEntradas THEN -1
                    ELSE IF tabla[i].clave # vacio THEN tabla[i].age + 1 ELSE tabla[i].age
    <3>1. a \in Int /\ a <= pedidos
      BY <1>1, <2>1, <2>2
    <3>2. Envejecida[i] = [tabla[i] EXCEPT !.age = a]
      BY DEF Envejecida
    <3> QED BY <3>1, <3>2
  <2> QED BY <1>1, <2>1, <2>2, <2>3 DEF Entrada
<1>3. tabla = [i \in Entradas |-> tabla[i]]
  BY DEF TInv, TypeOK
<1>4. Envejecida \in [Entradas -> Entrada]
  BY <1>2 DEF Envejecida
<1> QED BY <1>2, <1>3, <1>4 DEF TablaConsultada

LEMMA EdadMaximaTipo ==
  ASSUME NEW t \in [Entradas -> Entrada], NEW n \in Nat, \A i \in Entradas : t[i].age <= n
  PROVE  EdadMaxima(t) \in Nat
<1> DEFINE S == {0} \cup {t[i].age : i \in Entradas}
<1>1. S \in SUBSET Int /\ S # {} /\ 0 \in S
  BY DEF Entrada
<1>2. \A s \in S : s <= n
  OBVIOUS
<1>3. Max(S) \in S /\ Max(S) >= 0
  <2> HIDE DEF S
  <2>1. n \in Int
    OBVIOUS
  <2>2. Max(S) \in S /\ \A y \in S : Max(S) >= y
    BY <1>1, <1>2, <2>1, MaxEsta
  <2> QED BY <1>1, <2>2
<1> QED BY <1>1, <1>3 DEF EdadMaxima

LEMMA GuardarTipo ==
  ASSUME TypeOK, pedido \in Pedidos, pedido.op = "SET", NEW e \in Entradas
  PROVE  guardarEnMem(e) \in [Bytes -> Byte]
<1>1. Append(pedido.valor, Nulo) \in Seq(Byte)
  <2>1. pedido.valor \in Seq(Letras \X Nat)
    BY ValorTipo
  <2>2. pedido.valor \in Seq(Byte) /\ Nulo \in Byte
    BY <2>1 DEF Byte
  <2> QED BY <2>2
<1>2. e * TamanioEntradas \in Int
  BY EntradaTipo
<1> QED BY <1>1, <1>2, EscribirTipo DEF guardarEnMem

LEMMA SobrescribirTipo ==
  ASSUME pedido \in Pedidos, pedido.op = "SET", NEW n \in Nat, NEW p,
         NEW t \in [Entradas -> Entrada], \A i \in Entradas : t[i].age <= n
  PROVE  /\ Sobrescribir(t, p) \in [Entradas -> Entrada]
         /\ \A i \in Entradas : Sobrescribir(t, p)[i].age <= n
         /\ \A i \in Entradas : Sobrescribir(t, p)[i].clave \in {t[i].clave, vacio}
<1>1. Largo \in Largos
  BY ValorTipo DEF Largo
<1> DEFINE libera == Corrida(t, p + Paginas, pedido.clave)
           nueva(i) ==
             IF i = p THEN [t[i] EXCEPT !.tamanio = Largo,
                                        !.age = IF algReemplazo = "LRU" THEN 0 ELSE @]
             ELSE IF i \in libera
                  THEN [t[i] EXCEPT !.clave = vacio, !.age = IF algReemplazo = "LRU" THEN 0 ELSE @]
             ELSE t[i]
<1>2. ASSUME NEW i \in Entradas
      PROVE  nueva(i) \in Entrada /\ nueva(i).age <= n /\ nueva(i).clave \in {t[i].clave, vacio}
  <2>1. t[i] \in Entrada /\ t[i].age <= n
    OBVIOUS
  <2> DEFINE a == IF algReemplazo = "LRU" THEN 0 ELSE t[i].age
  <2>2. a \in Int /\ a <= n
    BY <2>1 DEF Entrada
  <2>3. CASE i = p
    <3>1. nueva(i) = [t[i] EXCEPT !.tamanio = Largo, !.age = a]
      BY <2>3
    <3> HIDE DEF a, nueva
    <3> QED BY <1>1, <2>1, <2>2, <3>1 DEF Entrada
  <2>4. CASE i # p /\ i \in libera
    <3>1. nueva(i) = [t[i] EXCEPT !.clave = vacio, !.age = a]
      BY <2>4
    <3> HIDE DEF a, nueva
    <3> QED BY <2>1, <2>2, <3>1 DEF Entrada
  <2>5. CASE i # p /\ i \notin libera
    <3>1. nueva(i) = t[i]
      BY <2>5
    <3> HIDE DEF a, nueva
    <3> QED BY <2>1, <3>1 DEF Entrada
  <2> QED BY <2>3, <2>4, <2>5
<1>3. Sobrescribir(t, p) = [i \in Entradas |-> nueva(i)]
  BY DEF Sobrescribir
<1> HIDE DEF nueva
<1> QED BY <1>2, <1>3

LEMMA SetConocidaTipo ==
  ASSUME TInv, SetConocida
  PROVE  TInv'
<1> DEFINE e == Encontrada
           t == TablaConsultada
<1>1. TypeOK /\ pedido \in Pedidos /\ pedido.op = "SET" /\ pc = "procesarHeader" /\ pedidos \in Nat
  BY InstanciaAssumption DEF TInv, TypeOK, Fase, SetConocida, EnProceso
<1>2. e \in Entradas
  BY Busquedas DEF SetConocida, Encontrada
<1>3. t \in [Entradas -> Entrada] /\ \A i \in Entradas : t[i].age <= pedidos
  BY <1>1, EnvejecidaTipo
<1>4. tabla' \in [Entradas -> Entrada] /\ \A i \in Entradas : tabla'[i].age <= pedidos
  <2>1. tabla' = Sobrescribir(t, e)
    BY DEF SetConocida
  <2> HIDE DEF t, e
  <2> QED BY <1>1, <1>3, <2>1, SobrescribirTipo
<1>5. mem' \in [Bytes -> Byte]
  <2>1. mem' = guardarEnMem(e)
    BY DEF SetConocida
  <2> HIDE DEF e
  <2> QED BY <1>1, <1>2, <2>1, GuardarTipo
<1>6. archivo' \in [Claves -> Seq(Byte)] /\ lista_claves' \subseteq Claves
  BY <1>1, MapearTipo DEF SetConocida
<1>7. laMasVieja' \in Nat
  <2>1. EdadMaxima(Envejecida) \in Nat
    BY <1>1, EnvejecidaTipo, EdadMaximaTipo
  <2>2. laMasVieja \in Nat
    BY DEF TInv, TypeOK
  <2> QED BY <2>1, <2>2 DEF SetConocida
<1>8. respuestas' \in Seq(Respuesta)
  BY <1>1, LibresTipo, ResponderTipo DEF SetConocida
<1>9. /\ comienzoDeEntradasLibres \in 0..CantEntradas /\ indexCircular \in Nat
      /\ flagCompactar \in {0, 1}
  BY DEF TInv, TypeOK
<1>10. /\ Terminar
       /\ UNCHANGED <<comienzoDeEntradasLibres, indexCircular, flagCompactar, compactado, volcado,
                      cuentas>>
  BY DEF SetConocida
<1> QED BY <1>4, <1>5, <1>6, <1>7, <1>8, <1>9, <1>10, RespondidoTipo

LEMMA SetNuevaTipo ==
  ASSUME TInv, SetNueva
  PROVE  TInv'
<1>1. TypeOK /\ pedido \in Pedidos /\ pedido.op = "SET" /\ pc = "procesarHeader" /\ pedidos \in Nat
  BY InstanciaAssumption DEF TInv, TypeOK, Fase, SetNueva, EnProceso
<1>2. tabla' \in [Entradas -> Entrada] /\ \A i \in Entradas : tabla'[i].age <= pedidos
  BY <1>1, EnvejecidaTipo DEF SetNueva
<1>3. archivo' \in [Claves -> Seq(Byte)] /\ lista_claves' \subseteq Claves
  BY <1>1, MapearTipo DEF SetNueva
<1>4. laMasVieja' \in Nat
  <2>1. EdadMaxima(Envejecida) \in Nat
    BY <1>1, EnvejecidaTipo, EdadMaximaTipo
  <2>2. laMasVieja \in Nat
    BY DEF TInv, TypeOK
  <2> QED BY <2>1, <2>2 DEF SetNueva
<1>5. /\ pc' = "guardarEnTabla"
      /\ UNCHANGED <<mem, comienzoDeEntradasLibres, indexCircular, flagCompactar, mutex_dump, pedido,
                     respuestas, compactado, volcado, cuentas>>
  BY DEF SetNueva
<1>6. TypeOK'
  BY <1>1, <1>2, <1>3, <1>4, <1>5 DEF TypeOK, Entrada, Byte, cuentas
<1>7. Fase' /\ HuecoDentro'
  BY <1>1, <1>5 DEF TInv, Fase, HuecoDentro
<1>8. Edades'
  BY <1>2, <1>5 DEF Edades, cuentas
<1> QED BY <1>6, <1>7, <1>8 DEF TInv

-----------------------------------------------------------------------------
(* guardarEnTabla and compactar.                                           *)

\* Main goes on with the request it has.
LEMMA SigueTipo ==
  ASSUME TInv, pedido \in Pedidos,
         \/ pc' = "guardarEnTabla" /\ pedido.op = "SET"
         \/ pc' = "compactar" /\ pedido.op \in {"SET", "COMPACT"},
         tabla' \in [Entradas -> Entrada], \A i \in Entradas : tabla'[i].age <= pedidos,
         mem' \in [Bytes -> Byte], respuestas' \in Seq(Respuesta),
         comienzoDeEntradasLibres' \in 0..CantEntradas, indexCircular' \in Nat,
         flagCompactar' \in {0, 1},
         compactado' \in [i : 0..CantEntradas, x : 0..(2 * CantEntradas), hueco : 0..CantEntradas],
         HuecoDentro',
         UNCHANGED <<archivo, lista_claves, laMasVieja, mutex_dump, pedido, volcado, cuentas>>
  PROVE  TInv'
<1>1. TypeOK'
  BY DEF TInv, TypeOK, Entrada, Byte, Respuesta, cuentas
<1>2. Fase' /\ Edades'
  BY DEF TInv, Fase, Edades, cuentas
<1> QED BY <1>1, <1>2 DEF TInv

\* What the types say, in the terms of the two lemmas above.
LEMMA Datos ==
  ASSUME TInv
  PROVE  /\ TypeOK
         /\ tabla \in [Entradas -> Entrada] /\ \A i \in Entradas : tabla[i].age <= pedidos
         /\ mem \in [Bytes -> Byte] /\ respuestas \in Seq(Respuesta)
         /\ archivo \in [Claves -> Seq(Byte)] /\ lista_claves \subseteq Claves
         /\ comienzoDeEntradasLibres \in 0..CantEntradas /\ indexCircular \in Nat
         /\ flagCompactar \in {0, 1} /\ laMasVieja \in Nat /\ pedidos \in Nat
         /\ compactado \in [i : 0..CantEntradas, x : 0..(2 * CantEntradas), hueco : 0..CantEntradas]
         /\ HuecoDentro
<1>1. TypeOK /\ HuecoDentro /\ \A i \in Entradas : tabla[i].age <= pedidos
  BY DEF TInv, Edades
<1>2. /\ tabla \in [Entradas -> Entrada]
      /\ mem \in [Bytes -> Byte] /\ respuestas \in Seq(Respuesta)
      /\ archivo \in [Claves -> Seq(Byte)] /\ lista_claves \subseteq Claves
  BY <1>1 DEF TypeOK, Entrada, Byte, Respuesta
<1>3. /\ comienzoDeEntradasLibres \in 0..CantEntradas /\ indexCircular \in Nat
      /\ flagCompactar \in {0, 1} /\ laMasVieja \in Nat
      /\ compactado \in [i : 0..CantEntradas, x : 0..(2 * CantEntradas), hueco : 0..CantEntradas]
  BY <1>1 DEF TypeOK
<1>4. pedidos \in Nat
  BY <1>1, InstanciaAssumption DEF TypeOK
<1> QED BY <1>1, <1>2, <1>3, <1>4

\* At guardarEnTabla the request is a SET, of a value with pages and bytes.
LEMMA PaginasDelPedido ==
  ASSUME TInv, pc = "guardarEnTabla"
  PROVE  /\ pedido \in Pedidos /\ pedido.op = "SET"
         /\ Paginas \in Nat \ {0} /\ EntradaNueva \in Entrada /\ EntradaNueva.age = 0
<1>1. pedido \in Pedidos /\ pedido.op = "SET"
  BY DEF TInv, Fase
<1>2. pedido.clave \in Claves /\ Largo \in Largos /\ Largo \in Nat \ {0}
  BY <1>1, ValorTipo DEF Largo
<1>3. Paginas \in Nat \ {0}
  BY <1>2, PaginasTipo DEF Paginas
<1>4. EntradaNueva \in Entrada /\ EntradaNueva.age = 0
  BY <1>2 DEF EntradaNueva, Entrada
<1> QED BY <1>1, <1>3, <1>4

\* The two ways a new value is written.
LEMMA EscribeTipo ==
  ASSUME TInv, CircEscribe \/ LruEscribe
  PROVE  TInv'
<1>1. pc = "guardarEnTabla"
  BY DEF CircEscribe, LruEscribe
<1>2. /\ pedido \in Pedidos /\ pedido.op = "SET" /\ Paginas \in Nat \ {0}
      /\ EntradaNueva \in Entrada /\ EntradaNueva.age = 0
  BY <1>1, PaginasDelPedido
<1>3. PICK e \in Entradas :
        /\ e + Paginas <= CantEntradas
        /\ tabla' = [i \in Entradas |-> IF i \in Hasta(e) THEN EntradaNueva ELSE tabla[i]]
        /\ mem' = guardarEnMem(e)
        /\ indexCircular' \in {indexCircular, e + Paginas}
        /\ lista_claves' \subseteq lista_claves
        /\ comienzoDeEntradasLibres' \in 0..CantEntradas
  <2>1. CASE CircEscribe
    <3>1. indexCircular \in Nat /\ comienzoDeEntradasLibres \in 0..CantEntradas
      BY Datos
    <3>2. indexCircular \in Entradas
      BY <1>2, <2>1, <3>1, EntradasFinito DEF CircEscribe, Entradas
    <3>3. Menor(comienzoDeEntradasLibres + Paginas, CantEntradas) \in 0..CantEntradas
      BY <1>2, <3>1, EntradasFinito DEF Menor
    <3> QED BY <2>1, <3>2, <3>3 DEF CircEscribe
  <2>2. CASE LruEscribe
    <3> DEFINE e == buscarEspacioLibre(Paginas)
    <3>1. e # -1
      BY <2>2 DEF LruEscribe, SinLugar
    <3>2. e \in Entradas /\ e + Paginas <= CantEntradas
      BY <1>2, <3>1, EspacioLibre
    <3>3. comienzoDeEntradasLibres \in 0..CantEntradas
      BY Datos
    <3> QED BY <2>2, <3>2, <3>3 DEF LruEscribe, indices
  <2> QED BY <2>1, <2>2
<1>4. tabla' \in [Entradas -> Entrada] /\ \A i \in Entradas : tabla'[i].age <= pedidos
  BY <1>2, <1>3, Datos
<1>5. mem' \in [Bytes -> Byte]
  BY <1>2, <1>3, Datos, GuardarTipo
<1>6. respuestas' \in Seq(Respuesta)
  BY Datos, LibresTipo, ResponderTipo DEF CircEscribe, LruEscribe
<1>7. indexCircular' \in Nat
  <2>1. e \in Nat
    BY <1>3, EntradasFinito
  <2> QED BY <1>2, <1>3, <2>1, Datos
<1>8. Terminar /\ UNCHANGED <<archivo, flagCompactar, laMasVieja, compactado, volcado, cuentas>>
  BY DEF CircEscribe, LruEscribe, indices
<1>9. archivo' \in [Claves -> Seq(Byte)] /\ lista_claves' \subseteq Claves
  BY <1>3, <1>8, Datos
<1>10. comienzoDeEntradasLibres' \in 0..CantEntradas /\ flagCompactar' \in {0, 1} /\ laMasVieja' \in Nat
  BY <1>3, <1>8, Datos
<1> QED BY <1>4, <1>5, <1>6, <1>7, <1>8, <1>9, <1>10, RespondidoTipo

LEMMA CircularTipo ==
  ASSUME TInv, CircSaltea \/ CircVuelve \/ LruDesaloja
  PROVE  TInv'
<1>1. pc = "guardarEnTabla" /\ pc' = "guardarEnTabla"
  BY DEF CircSaltea, CircVuelve, LruDesaloja
<1>2. pedido \in Pedidos /\ pedido.op = "SET" /\ Paginas \in Nat \ {0}
  BY <1>1, PaginasDelPedido
<1>3. /\ UNCHANGED <<mem, archivo, lista_claves, comienzoDeEntradasLibres, laMasVieja, mutex_dump,
                     pedido, respuestas, compactado, volcado, cuentas>>
      /\ flagCompactar' \in {0, flagCompactar}
  BY DEF CircSaltea, CircVuelve, LruDesaloja, datos
<1>4. indexCircular' \in Nat
  <2>1. indexCircular \in Nat
    BY Datos
  <2>2. CASE CircSaltea
    <3>1. indexCircular \in Entradas
      BY <1>2, <2>1, <2>2, EntradasFinito DEF CircSaltea, Entradas
    <3>2. getCantPaginas(tabla[indexCircular].tamanio) \in Nat
      BY <3>1, Datos, EntradaTipo, PaginasTipo
    <3> QED BY <2>1, <2>2, <3>2 DEF CircSaltea
  <2>3. CASE CircVuelve
    BY <2>3 DEF CircVuelve
  <2>4. CASE LruDesaloja
    <3>1. UNCHANGED indexCircular
      BY <2>4 DEF LruDesaloja
    <3> QED BY <2>1, <3>1
  <2> QED BY <2>2, <2>3, <2>4
<1>5. tabla' \in [Entradas -> Entrada] /\ \A i \in Entradas : tabla'[i].age <= pedidos
  <2>1. CASE CircSaltea \/ CircVuelve
    BY <2>1, Datos DEF CircSaltea, CircVuelve, datos
  <2>2. CASE LruDesaloja
    <3> DEFINE n(i) == [tabla[i] EXCEPT !.clave = vacio, !.age = 0]
    <3>1. ASSUME NEW i \in Entradas
          PROVE  n(i) \in Entrada /\ n(i).age = 0 /\ tabla[i] \in Entrada
      <4>1. tabla[i] \in Entrada
        BY Datos
      <4>2. ASSUME NEW r \in Entrada, NEW a \in Int
            PROVE  LET m == [r EXCEPT !.clave = vacio, !.age = a]
                   IN m \in Entrada /\ m.age = a
        BY DEF Entrada
      <4>3. 0 \in Int
        OBVIOUS
      <4> QED BY <4>1, <4>2, <4>3, Zenon
    <3>2. tabla' = [i \in Entradas |-> IF tabla[i].age = laMasVieja THEN n(i) ELSE tabla[i]]
      BY <2>2 DEF LruDesaloja
    <3>3. \A i \in Entradas : tabla[i].age <= pedidos /\ 0 <= pedidos
      BY Datos
    <3> HIDE DEF n
    <3> QED BY <3>1, <3>2, <3>3
  <2> QED BY <2>1, <2>2
<1>6. HuecoDentro'
  BY <1>3, Datos DEF HuecoDentro
<1>7. /\ mem' \in [Bytes -> Byte] /\ respuestas' \in Seq(Respuesta)
      /\ comienzoDeEntradasLibres' \in 0..CantEntradas /\ flagCompactar' \in {0, 1}
      /\ compactado' \in [i : 0..CantEntradas, x : 0..(2 * CantEntradas), hueco : 0..CantEntradas]
  BY <1>3, Datos
<1> QED BY <1>1, <1>2, <1>3, <1>4, <1>5, <1>6, <1>7, SigueTipo

\* Where compaction starts, and where it ends.
LEMMA EmpiezaTipo ==
  ASSUME TInv, EmpiezaACompactar \/ PideCompactar
  PROVE  TInv'
<1>1. /\ pedido \in Pedidos /\ pedido.op \in {"SET", "COMPACT"} /\ pc' = "compactar"
      /\ compactado' = SinCompactar
      /\ UNCHANGED <<datos, indices, mutex_dump, pedido, volcado, cuentas>>
  BY DEF EmpiezaACompactar, PideCompactar, EnProceso, TInv, Fase
<1>2. respuestas' \in Seq(Respuesta)
  BY Datos, ResponderTipo DEF EmpiezaACompactar, PideCompactar
<1>3. /\ compactado' \in [i : 0..CantEntradas, x : 0..(2 * CantEntradas), hueco : 0..CantEntradas]
      /\ HuecoDentro'
  BY <1>1, EntradasFinito DEF SinCompactar, HuecoDentro
<1>4. /\ tabla' \in [Entradas -> Entrada] /\ \A i \in Entradas : tabla'[i].age <= pedidos
      /\ mem' \in [Bytes -> Byte]
      /\ comienzoDeEntradasLibres' \in 0..CantEntradas /\ indexCircular' \in Nat
      /\ flagCompactar' \in {0, 1}
      /\ UNCHANGED <<archivo, lista_claves, laMasVieja, mutex_dump, pedido, volcado, cuentas>>
  BY <1>1, Datos DEF datos, indices
<1> QED BY <1>1, <1>2, <1>3, <1>4, SigueTipo

LEMMA PrimeraLibreTipo == PrimeraLibre \in 0..CantEntradas
<1> DEFINE libres == {i \in Entradas : tabla[i].clave = vacio}
<1>1. libres \in SUBSET Nat /\ libres \subseteq 0..CantEntradas /\ CantEntradas \in Nat
  BY EntradasFinito DEF Entradas
<1>2. libres # {} => Min(libres) \in libres
  <2> HIDE DEF libres
  <2> QED BY <1>1, MinEsta
<1> QED BY <1>1, <1>2 DEF PrimeraLibre

LEMMA TerminaTipo ==
  ASSUME TInv, TerminaDeCompactar
  PROVE  TInv'
<1>1. /\ comienzoDeEntradasLibres' \in 0..CantEntradas /\ indexCircular' \in Nat
      /\ compactado' = SinCompactar
      /\ UNCHANGED <<datos, laMasVieja, volcado, cuentas>>
  BY PrimeraLibreTipo, EntradasFinito DEF TerminaDeCompactar
<1>2. pc = "compactar" /\ pedido \in Pedidos
  BY DEF TerminaDeCompactar, TInv, Fase
<1>3. /\ tabla' \in [Entradas -> Entrada] /\ \A i \in Entradas : tabla'[i].age <= pedidos
      /\ mem' \in [Bytes -> Byte] /\ archivo' \in [Claves -> Seq(Byte)] /\ lista_claves' \subseteq Claves
      /\ laMasVieja' \in Nat
  BY <1>1, Datos DEF datos
<1>4. CASE Responder(12, 0) /\ Terminar /\ UNCHANGED flagCompactar
  <2>1. respuestas' \in Seq(Respuesta) /\ flagCompactar' \in {0, 1}
    BY <1>4, Datos, ResponderTipo
  <2> QED BY <1>1, <1>3, <1>4, <2>1, RespondidoTipo
<1>5. CASE /\ pedido.op = "SET" /\ flagCompactar' = 1 /\ pc' = "guardarEnTabla"
           /\ UNCHANGED <<mutex_dump, pedido, respuestas>>
  <2>1. respuestas' \in Seq(Respuesta) /\ flagCompactar' \in {0, 1}
    BY <1>5, Datos
  <2>2. /\ compactado' \in [i : 0..CantEntradas, x : 0..(2 * CantEntradas), hueco : 0..CantEntradas]
        /\ HuecoDentro'
    BY <1>1, EntradasFinito DEF SinCompactar, HuecoDentro
  <2>3. UNCHANGED <<archivo, lista_claves, laMasVieja, mutex_dump, pedido, volcado, cuentas>>
    BY <1>1, <1>5 DEF datos
  <2> QED BY <1>1, <1>2, <1>3, <1>5, <2>1, <2>2, <2>3, SigueTipo
<1> QED BY <1>4, <1>5 DEF TerminaDeCompactar

LEMMA BuscaHuecoTipo ==
  ASSUME TInv, BuscaHueco
  PROVE  TInv'
<1> DEFINE i == compactado.i
           hueco == Cardinality(Corrida(tabla, i, vacio))
<1>1. i \in Entradas /\ i \in 0..CantEntradas /\ i < CantEntradas
  BY Datos, EntradasFinito DEF BuscaHueco, Entradas
<1>2. hueco \in 0..(CantEntradas - i) /\ (tabla[i].clave = vacio => hueco # 0)
  BY <1>1, CorridaCorta
<1>3. compactado' = IF tabla[i].clave = vacio THEN [i |-> i, x |-> i, hueco |-> hueco]
                    ELSE [i |-> i + 1, x |-> 0, hueco |-> 0]
  BY DEF BuscaHueco
<1>4. /\ compactado' \in [i : 0..CantEntradas, x : 0..(2 * CantEntradas), hueco : 0..CantEntradas]
      /\ HuecoDentro'
  <2> HIDE DEF i, hueco
  <2> QED BY <1>1, <1>2, <1>3, EntradasFinito DEF HuecoDentro
<1>5. pc = "compactar" /\ UNCHANGED <<datos, indices, mutex_dump, pc, pedido, respuestas, volcado,
                                       cuentas>>
  BY DEF BuscaHueco
<1>6. pedido \in Pedidos /\ pedido.op \in {"SET", "COMPACT"}
  BY <1>5 DEF TInv, Fase
<1>7. /\ tabla' \in [Entradas -> Entrada] /\ \A j \in Entradas : tabla'[j].age <= pedidos
      /\ mem' \in [Bytes -> Byte] /\ respuestas' \in Seq(Respuesta)
      /\ comienzoDeEntradasLibres' \in 0..CantEntradas /\ indexCircular' \in Nat
      /\ flagCompactar' \in {0, 1}
      /\ UNCHANGED <<archivo, lista_claves, laMasVieja, mutex_dump, pedido, volcado, cuentas>>
  BY <1>5, Datos DEF datos, indices
<1> QED BY <1>4, <1>5, <1>6, <1>7, SigueTipo

\* One move in the table, as a fact about tables.
LEMMA MoverTipo ==
  ASSUME NEW t \in [Entradas -> Entrada], NEW a \in Entradas, NEW b \in Entradas,
         NEW e \in Entrada, NEW n \in Nat, e.age = 0,
         \A j \in Entradas : t[j].age <= n
  PROVE  LET r == [t EXCEPT ![a] = t[b], ![b] = e]
         IN r \in [Entradas -> Entrada] /\ \A j \in Entradas : r[j].age <= n
<1> DEFINE r == [t EXCEPT ![a] = t[b], ![b] = e]
<1>1. \A j \in Entradas : r[j] = IF j = b THEN e ELSE IF j = a THEN t[b] ELSE t[j]
  OBVIOUS
<1>2. r \in [Entradas -> Entrada]
  OBVIOUS
<1>3. ASSUME NEW j \in Entradas
      PROVE  r[j].age <= n
  <2>1. r[j] = e \/ r[j] = t[b] \/ r[j] = t[j]
    BY <1>1
  <2> HIDE DEF r
  <2> QED BY <2>1
<1> QED BY <1>2, <1>3

\* compactar moves from inside the table to inside the table.
LEMMA LugaresDeMover ==
  ASSUME TInv, MueveEntrada
  PROVE  LET i == compactado.i
             x == compactado.x
             y == x + compactado.hueco
         IN /\ i \in 0..CantEntradas /\ x \in Nat /\ compactado.hueco \in Nat \ {0}
            /\ i <= x /\ x < i + compactado.hueco /\ i + compactado.hueco <= CantEntradas
            /\ CantEntradas \in Nat
            /\ y < CantEntradas => x \in Entradas /\ y \in Entradas
<1> DEFINE i == compactado.i
           x == compactado.x
           y == x + compactado.hueco
<1>1. /\ i \in 0..CantEntradas /\ x \in Nat /\ compactado.hueco \in Nat \ {0}
      /\ i <= x /\ x < i + compactado.hueco /\ i + compactado.hueco <= CantEntradas
      /\ CantEntradas \in Nat
  <2>1. compactado.hueco > 0
    BY DEF MueveEntrada
  <2>2. compactado.i \in 0..CantEntradas /\ compactado.x \in Nat /\ compactado.hueco \in Nat
        /\ CantEntradas \in Nat
    BY Datos, EntradasFinito
  <2>3. compactado.hueco \in Nat \ {0}
    BY <2>1, <2>2
  <2>4. /\ compactado.i <= compactado.x /\ compactado.x < compactado.i + compactado.hueco
        /\ compactado.i + compactado.hueco <= CantEntradas
    BY <2>3, Datos DEF HuecoDentro
  <2> QED BY <2>2, <2>3, <2>4
<1>2. y < CantEntradas => x \in Entradas /\ y \in Entradas
  BY <1>1 DEF Entradas
<1> QED BY <1>1, <1>2

LEMMA MueveTipo ==
  ASSUME TInv, MueveEntrada
  PROVE  TInv'
<1> DEFINE i == compactado.i
           x == compactado.x
           y == x + compactado.hueco
<1>1. /\ i \in 0..CantEntradas /\ x \in Nat /\ compactado.hueco \in Nat \ {0}
      /\ i <= x /\ x < i + compactado.hueco /\ i + compactado.hueco <= CantEntradas
      /\ CantEntradas \in Nat
  BY LugaresDeMover
<1>2. y < CantEntradas => x \in Entradas /\ y \in Entradas
  BY LugaresDeMover
<1>3. /\ compactado' \in [i : 0..CantEntradas, x : 0..(2 * CantEntradas), hueco : 0..CantEntradas]
      /\ HuecoDentro'
  <2>1. CASE x = i + compactado.hueco - 1
    <3>1. compactado' = [i |-> i + 1, x |-> 0, hueco |-> 0]
      BY <2>1 DEF MueveEntrada
    <3> HIDE DEF i, x
    <3> QED BY <1>1, <3>1 DEF HuecoDentro
  <2>2. CASE x # i + compactado.hueco - 1
    <3>1. compactado' = [i |-> i, x |-> x + 1, hueco |-> compactado.hueco]
      BY <2>2, Datos DEF MueveEntrada
    <3>2. compactado.hueco <= CantEntradas /\ x + 1 < i + compactado.hueco
      BY <1>1, <2>2
    <3> HIDE DEF i, x
    <3> QED BY <1>1, <3>1, <3>2 DEF HuecoDentro
  <2> QED BY <2>1, <2>2
<1>4. EntradaVacia \in Entrada /\ EntradaVacia.age = 0
  BY DEF EntradaVacia, Entrada
<1>5. tabla' \in [Entradas -> Entrada] /\ \A j \in Entradas : tabla'[j].age <= pedidos
  <2>1. CASE y < CantEntradas
    <3>1. tabla' = [tabla EXCEPT ![x] = tabla[y], ![y] = EntradaVacia]
      BY <2>1 DEF MueveEntrada
    <3>2. x \in Entradas /\ y \in Entradas
      BY <1>2, <2>1
    <3> HIDE DEF x, y
    <3> QED BY <1>4, <3>1, <3>2, Datos, MoverTipo
  <2>2. CASE ~(y < CantEntradas)
    BY <2>2, Datos DEF MueveEntrada
  <2> QED BY <2>1, <2>2
<1>6. mem' \in [Bytes -> Byte]
  <2>1. CASE y < CantEntradas
    <3>1. mem' = Escribir(x * TamanioEntradas, Leer(y * TamanioEntradas, tabla[y].tamanio))
      BY <2>1 DEF MueveEntrada
    <3> HIDE DEF x, y
    <3>2. TypeOK /\ x * TamanioEntradas \in Int /\ y * TamanioEntradas \in Int
          /\ tabla[y].tamanio \in Nat
      BY <1>2, <2>1, Datos, EntradaTipo
    <3> QED BY <3>1, <3>2, LeerTipo, EscribirTipo
  <2>2. CASE ~(y < CantEntradas)
    BY <2>2, Datos DEF MueveEntrada
  <2> QED BY <2>1, <2>2
<1>7. pc = "compactar" /\ UNCHANGED <<archivo, lista_claves, indices, mutex_dump, pc, pedido,
                                       respuestas, volcado, cuentas>>
  BY DEF MueveEntrada
<1>8. pedido \in Pedidos /\ pedido.op \in {"SET", "COMPACT"}
  BY <1>7 DEF TInv, Fase
<1>9. /\ respuestas' \in Seq(Respuesta)
      /\ comienzoDeEntradasLibres' \in 0..CantEntradas /\ indexCircular' \in Nat
      /\ flagCompactar' \in {0, 1}
      /\ UNCHANGED <<archivo, lista_claves, laMasVieja, mutex_dump, pedido, volcado, cuentas>>
  BY <1>7, Datos DEF indices
<1> QED BY <1>3, <1>5, <1>6, <1>7, <1>8, <1>9, SigueTipo

-----------------------------------------------------------------------------
(* The dump and the end of the process.                                    *)

LEMMA DumpTipo ==
  ASSUME TInv, DumpEmpieza \/ PasoDump
  PROVE  TInv'
<1> USE DEF indices, cuentas
<1>1. /\ UNCHANGED <<tabla, mem, lista_claves, indices, pc, pedido, respuestas, compactado, cuentas>>
      /\ mutex_dump' \in {"libre", "main", "dump"}
  BY DEF DumpEmpieza, PasoDump, DumpSaltea, DumpCopia, DumpTermina, datos, TInv, TypeOK
<1>2. volcado' \in Nat \cup {-1}
  <2>1. CASE DumpEmpieza \/ DumpTermina
    BY <2>1 DEF DumpEmpieza, DumpTermina
  <2>2. CASE DumpSaltea
    BY <2>2, EntradasFinito DEF DumpSaltea
  <2>3. CASE DumpCopia
    <3>1. volcado \in Entradas /\ volcado \in Nat
      BY <2>3, EntradasFinito DEF DumpCopia
    <3>2. getCantPaginas(tabla[volcado].tamanio) \in Nat
      BY <3>1, Datos, EntradaTipo, PaginasTipo
    <3> QED BY <2>3, <3>1, <3>2 DEF DumpCopia
  <2> QED BY <2>1, <2>2, <2>3 DEF PasoDump
<1>3. archivo' \in [Claves -> Seq(Byte)]
  <2>1. CASE DumpEmpieza \/ DumpTermina \/ DumpSaltea
    BY <2>1, Datos DEF DumpEmpieza, DumpTermina, DumpSaltea, datos
  <2>2. CASE DumpCopia
    <3> DEFINE copia == Leer(volcado * TamanioEntradas, tabla[volcado].tamanio)
    <3>1. copia \in Seq(Byte)
      <4>1. volcado \in Entradas /\ TypeOK
        BY <2>2, Datos DEF DumpCopia
      <4>2. volcado * TamanioEntradas \in Int /\ tabla[volcado].tamanio \in Nat
        BY <4>1, EntradaTipo
      <4> QED BY <4>1, <4>2, LeerTipo
    <3>2. PICK c \in lista_claves : archivo' = [archivo EXCEPT ![c] = EnArchivo(@, copia)]
      BY <2>2 DEF DumpCopia, Mapeada
    <3> HIDE DEF copia
    <3>3. c \in Claves /\ archivo \in [Claves -> Seq(Byte)]
      BY Datos
    <3>4. EnArchivo(archivo[c], copia) \in Seq(Byte)
      BY <3>1, <3>3, EnArchivoTipo
    <3> QED BY <3>2, <3>3, <3>4
  <2> QED BY <2>1, <2>2 DEF PasoDump
<1>4. TypeOK'
  BY <1>1, <1>2, <1>3 DEF TInv, TypeOK, Byte
<1>5. Fase' /\ HuecoDentro' /\ Edades'
  BY <1>1, <1>2 DEF TInv, Fase, HuecoDentro, Edades
<1> QED BY <1>4, <1>5 DEF TInv

LEMMA MuerteTipo ==
  ASSUME TInv, MuereSinArchivo \/ Cae \/ Reinicia
  PROVE  TInv'
<1>1. caidas' \in 0..MaxCaidas /\ UNCHANGED <<archivo, algReemplazo, pedidos>>
  <2>1. caidas \in 0..MaxCaidas /\ MaxCaidas \in Nat
    BY InstanciaAssumption DEF TInv, TypeOK
  <2>2. caidas' = caidas \/ (caidas' = caidas + 1 /\ caidas < MaxCaidas)
    BY DEF MuereSinArchivo, Cae, Reinicia, cuentas
  <2>3. UNCHANGED <<archivo, algReemplazo, pedidos>>
    BY DEF MuereSinArchivo, Cae, Reinicia, Morir, datos, cuentas
  <2> QED BY <2>1, <2>2, <2>3
<1>2. CASE Morir
  <2>1. tabla' \in [Entradas -> Entrada] /\ \A i \in Entradas : tabla'[i].age = 0
    BY <1>2 DEF Morir, TablaVacia, EntradaVacia, Entrada
  <2>2. mem' \in [Bytes -> Byte]
    BY <1>2 DEF Morir, MemVacia, Byte
  <2>3. compactado' \in [i : 0..CantEntradas, x : 0..(2 * CantEntradas), hueco : 0..CantEntradas]
    BY <1>2, EntradasFinito DEF Morir, SinCompactar
  <2>4. /\ pc' = "caida" /\ lista_claves' = {} /\ respuestas' = <<>> /\ pedido' = Ausente
        /\ comienzoDeEntradasLibres' = 0 /\ indexCircular' = 0 /\ flagCompactar' = 0
        /\ laMasVieja' = 0 /\ mutex_dump' = "libre" /\ volcado' = -1 /\ compactado' = SinCompactar
    BY <1>2 DEF Morir
  <2>5. respuestas' \in Seq(Respuesta) /\ 0 \in 0..CantEntradas
    BY <2>4, EntradasFinito
  <2>6. TypeOK'
    BY <1>1, <2>1, <2>2, <2>3, <2>4, <2>5 DEF TInv, TypeOK, Entrada, Byte, Respuesta
  <2>7. Fase' /\ HuecoDentro'
    BY <2>4 DEF Fase, HuecoDentro, SinCompactar
  <2>8. Edades'
    BY <1>1, <2>1, <2>4, Datos DEF Edades
  <2> QED BY <2>6, <2>7, <2>8 DEF TInv
<1>3. CASE Reinicia
  <2>1. TypeOK'
    BY <1>3 DEF TInv, TypeOK, Reinicia, datos, indices, cuentas
  <2>2. Fase' /\ HuecoDentro' /\ Edades'
    BY <1>3 DEF TInv, Fase, HuecoDentro, Edades, Reinicia, datos, cuentas
  <2> QED BY <2>1, <2>2 DEF TInv
<1> QED BY <1>2, <1>3 DEF MuereSinArchivo, Cae

LEMMA PasoTipo == TInv /\ [Next]_vars => TInv'
<1> SUFFICES ASSUME TInv, [Next]_vars PROVE TInv'
  OBVIOUS
<1>1. ASSUME NEW p \in Pedidos, Recibe(p) PROVE TInv'
  BY <1>1, RecibeTipo
<1>2. CASE PasoMain
  BY <1>2, SetConocidaTipo, SetNuevaTipo, EscribeTipo, CircularTipo, EmpiezaTipo, TerminaTipo,
     BuscaHuecoTipo, MueveTipo, ConsultasTipo, StoreTipo
  DEF PasoMain
<1>3. CASE TomaMutex
  BY <1>3, MutexTipo
<1>4. CASE DumpEmpieza \/ PasoDump
  BY <1>4, DumpTipo
<1>5. CASE MuereSinArchivo \/ Cae \/ Reinicia
  BY <1>5, MuerteTipo
<1>6. CASE UNCHANGED vars
  <2>1. TypeOK'
    BY <1>6 DEF TInv, TypeOK, vars, datos, indices, cuentas
  <2>2. Fase' /\ HuecoDentro' /\ Edades'
    BY <1>6 DEF TInv, Fase, HuecoDentro, Edades, vars, datos, indices, cuentas
  <2> QED BY <2>1, <2>2 DEF TInv
<1> QED BY <1>1, <1>2, <1>3, <1>4, <1>5, <1>6 DEF Next

\* Every variable keeps its type: no index leaves the table and no length goes
\* below zero, whatever the sizes, the algorithm and the order of requests.
THEOREM Tipos == Spec => []TypeOK
<1>1. Init => TInv
  BY InitTipo
<1>2. TInv /\ [Next]_vars => TInv'
  BY PasoTipo
<1>3. TInv => TypeOK
  BY DEF TInv
<1> QED BY <1>1, <1>2, <1>3, PTL DEF Spec

-----------------------------------------------------------------------------
(* The mutex.                                                              *)

\* A step of main that ends its request gives the mutex back, any other keeps
\* it; the dump is asleep meanwhile.
LEMMA TurnoDeMain ==
  ASSUME TInv, TurnoDelMutex, PasoMain
  PROVE  TurnoDelMutex'
<1>1. pc \in Trabajando /\ volcado' = volcado
  BY DEF PasoMain, SetConocida, SetNueva, CircEscribe, CircSaltea, EmpiezaACompactar, CircVuelve,
         LruEscribe, LruDesaloja, PideCompactar, BuscaHueco, MueveEntrada, TerminaDeCompactar, Get,
         StoreReemplazada, storeKey, Status, EnProceso, Trabajando
<1>2. (pc' = "recv" /\ mutex_dump' = "libre") \/ (pc' \in Trabajando /\ mutex_dump' = mutex_dump)
  <2>1. CASE SetConocida \/ CircEscribe \/ LruEscribe \/ Get \/ StoreReemplazada \/ storeKey \/ Status
    BY <2>1 DEF SetConocida, CircEscribe, LruEscribe, Get, StoreReemplazada, storeKey, Status, Terminar
  <2>2. CASE SetNueva \/ CircSaltea \/ EmpiezaACompactar \/ CircVuelve \/ LruDesaloja
    BY <2>2, <1>1 DEF SetNueva, CircSaltea, EmpiezaACompactar, CircVuelve, LruDesaloja, Trabajando
  <2>3. CASE PideCompactar \/ BuscaHueco \/ MueveEntrada
    BY <2>3, <1>1 DEF PideCompactar, BuscaHueco, MueveEntrada, Trabajando
  <2>4. CASE TerminaDeCompactar
    BY <2>4, <1>1 DEF TerminaDeCompactar, Terminar, Trabajando
  <2> QED BY <2>1, <2>2, <2>3, <2>4 DEF PasoMain
<1> QED BY <1>1, <1>2 DEF TurnoDelMutex, Trabajando

LEMMA TurnoPaso == TInv /\ TurnoDelMutex /\ [Next]_vars => TurnoDelMutex'
<1> SUFFICES ASSUME TInv, TurnoDelMutex, [Next]_vars PROVE TurnoDelMutex'
  OBVIOUS
<1>1. ASSUME NEW p \in Pedidos, Recibe(p) PROVE TurnoDelMutex'
  BY <1>1 DEF Recibe, TurnoDelMutex, Trabajando
<1>2. CASE PasoMain
  BY <1>2, TurnoDeMain
<1>3. CASE TomaMutex
  BY <1>3 DEF TomaMutex, TurnoDelMutex, Trabajando
<1>4. CASE DumpEmpieza
  BY <1>4 DEF DumpEmpieza, TurnoDelMutex, Trabajando
<1>5. CASE DumpSaltea
  <2>1. volcado' # -1 /\ volcado # -1
    BY <1>5, EntradasFinito DEF DumpSaltea
  <2> QED BY <1>5, <2>1 DEF DumpSaltea, TurnoDelMutex
<1>6. CASE DumpCopia
  <2>1. volcado \in Nat /\ getCantPaginas(tabla[volcado].tamanio) \in Nat
    BY <1>6, EntradasFinito, Datos, EntradaTipo, PaginasTipo DEF DumpCopia
  <2>2. volcado' # -1 /\ volcado # -1
    BY <1>6, <2>1 DEF DumpCopia
  <2> QED BY <1>6, <2>2 DEF DumpCopia, TurnoDelMutex
<1>7. CASE DumpTermina
  <2>1. volcado # -1
    BY <1>7, EntradasFinito DEF DumpTermina
  <2> QED BY <1>7, <2>1 DEF DumpTermina, TurnoDelMutex
<1>8. CASE MuereSinArchivo \/ Cae
  BY <1>8 DEF MuereSinArchivo, Cae, Morir, TurnoDelMutex, Trabajando
<1>9. CASE Reinicia
  BY <1>9 DEF Reinicia, TurnoDelMutex, Trabajando
<1>10. CASE UNCHANGED vars
  BY <1>10 DEF vars, TurnoDelMutex
<1> QED BY <1>1, <1>2, <1>3, <1>4, <1>5, <1>6, <1>7, <1>8, <1>9, <1>10 DEF Next, PasoDump

\* The dump thread and the thread that serves requests exclude each other: no
\* dump runs while procesarHeader works, and none outlives the process, for
\* every table, algorithm and order of requests, dumps and falls.
THEOREM ElDumpVaSolo == Spec => []DumpExcluido
<1>1. Init => TInv /\ TurnoDelMutex
  BY InitTipo DEF Init, TurnoDelMutex, Trabajando
<1>2. TInv /\ TurnoDelMutex /\ [Next]_vars => TInv' /\ TurnoDelMutex'
  BY PasoTipo, TurnoPaso
<1>3. TInv /\ TurnoDelMutex => DumpExcluido
  BY DEF TInv, TypeOK, TurnoDelMutex, DumpExcluido, Trabajando
<1> QED BY <1>1, <1>2, <1>3, PTL DEF Spec

-----------------------------------------------------------------------------
(* Files of the keys of the table.                                         *)

\* MapearClave unmaps nothing and leaves a file for the key of the request.
LEMMA MapearMapea ==
  ASSUME MapearClave
  PROVE  lista_claves \subseteq lista_claves' /\ (pedido' = pedido => Mapeada(pedido.clave)' # {})
<1>1. CASE Mapeada(pedido.clave) # {}
  BY <1>1 DEF MapearClave, Mapeada
<1>2. CASE Mapeada(pedido.clave) = {}
  BY <1>2 DEF MapearClave, Mapeada, Igual
<1> QED BY <1>1, <1>2

\* If every name in the new table was in the old one or has a file, and no file
\* is unmapped, every key of the new table has its file.
TieneArchivo(k, lista) == \E c \in lista : Igual(c, k)

LEMMA SiguenMapeadas ==
  ASSUME ClavesMapeadas, lista_claves \subseteq lista_claves',
         \A i \in Entradas : \/ tabla'[i].clave = vacio
                            \/ \E j \in Entradas : tabla'[i].clave = tabla[j].clave
                            \/ TieneArchivo(tabla'[i].clave, lista_claves')
  PROVE  ClavesMapeadas'
<1> SUFFICES ASSUME NEW i \in Entradas, tabla'[i].clave # vacio
             PROVE  TieneArchivo(tabla'[i].clave, lista_claves')
  BY DEF ClavesMapeadas, Mapeada, TieneArchivo
<1>1. CASE \E j \in Entradas : tabla'[i].clave = tabla[j].clave
  BY <1>1 DEF ClavesMapeadas, Mapeada, TieneArchivo
<1> QED BY <1>1

LEMMA NombresSobrescribir ==
  ASSUME NEW t \in [Entradas -> Entrada], NEW e \in Entradas
  PROVE  \A i \in Entradas : Sobrescribir(t, e)[i].clave \in {vacio, t[i].clave}
BY DEF Sobrescribir, Entrada

LEMMA MapeadasSet ==
  ASSUME TInv, Mapeadas, SetConocida \/ SetNueva \/ LruEscribe
  PROVE  Mapeadas'
<1> SUFFICES ASSUME algReemplazo' = "LRU" PROVE ClavesMapeadas' /\ EntraConArchivo'
  BY DEF Mapeadas
<1>1. algReemplazo = "LRU"
  BY DEF SetConocida, SetNueva, LruEscribe, cuentas
<1>2. ClavesMapeadas /\ EntraConArchivo
  BY <1>1 DEF Mapeadas
<1>3. CASE SetConocida
  <2>1. lista_claves \subseteq lista_claves' /\ pc' = "recv"
    BY <1>3, MapearMapea DEF SetConocida, Terminar
  <2>2. TablaConsultada \in [Entradas -> Entrada]
    BY <1>3, EnvejecidaTipo DEF SetConocida, EnProceso
  <2>3. Encontrada \in Entradas
    BY <1>3, Busquedas DEF SetConocida, Encontrada
  <2>4. \A i \in Entradas : TablaConsultada[i].clave = tabla[i].clave
    BY <1>3, EnvejecidaTipo DEF SetConocida, EnProceso
  <2>5. tabla' = Sobrescribir(TablaConsultada, Encontrada)
    BY <1>3 DEF SetConocida
  <2>6. \A i \in Entradas : tabla'[i].clave \in {vacio, tabla[i].clave}
    BY <2>2, <2>3, <2>4, <2>5, NombresSobrescribir
  <2> QED BY <1>2, <2>1, <2>6, SiguenMapeadas DEF EntraConArchivo
<1>4. CASE SetNueva
  <2>1. lista_claves \subseteq lista_claves' /\ Mapeada(pedido.clave)' # {}
    BY <1>4, MapearMapea DEF SetNueva
  <2>2. \A i \in Entradas : tabla'[i].clave = tabla[i].clave
    BY <1>4, EnvejecidaTipo DEF SetNueva, EnProceso
  <2> QED BY <1>2, <2>1, <2>2, SiguenMapeadas DEF EntraConArchivo
<1>5. CASE LruEscribe
  <2>1. lista_claves' = lista_claves /\ pc' = "recv" /\ pc = "guardarEnTabla"
    BY <1>5 DEF LruEscribe, Terminar
  <2>2. Mapeada(pedido.clave) # {}
    BY <1>2, <2>1 DEF EntraConArchivo
  <2>3. \A i \in Entradas : tabla'[i].clave \in {pedido.clave, tabla[i].clave}
    BY <1>5 DEF LruEscribe, EntradaNueva
  <2>4. TieneArchivo(pedido.clave, lista_claves')
    BY <2>1, <2>2 DEF Mapeada, TieneArchivo
  <2> QED BY <1>2, <2>1, <2>3, <2>4, SiguenMapeadas DEF EntraConArchivo
<1> QED BY <1>3, <1>4, <1>5

LEMMA MapeadasResto ==
  ASSUME TInv, Mapeadas, PasoMain, ~SetConocida, ~SetNueva, ~LruEscribe
  PROVE  Mapeadas'
<1> SUFFICES ASSUME algReemplazo' = "LRU" PROVE ClavesMapeadas' /\ EntraConArchivo'
  BY DEF Mapeadas
<1>1. algReemplazo = "LRU"
  BY DEF PasoMain, CircEscribe, CircSaltea, EmpiezaACompactar, CircVuelve,
         LruDesaloja, PideCompactar, BuscaHueco, MueveEntrada, TerminaDeCompactar, Get,
         StoreReemplazada, storeKey, Status, cuentas
<1>2. ClavesMapeadas /\ EntraConArchivo
  BY <1>1 DEF Mapeadas
<1>3. lista_claves' = lista_claves
  BY <1>1 DEF PasoMain, CircEscribe, CircSaltea, EmpiezaACompactar, CircVuelve,
         LruDesaloja, PideCompactar, BuscaHueco, MueveEntrada, TerminaDeCompactar, Get,
         StoreReemplazada, storeKey, Status, datos
<1>4. EntraConArchivo'
  <2>1. \/ pc' = "recv"
        \/ /\ pedido' = pedido
           /\ pc' \in {"guardarEnTabla", "compactar"}
           /\ pc = "guardarEnTabla" \/ pc = "compactar" \/ pedido.op = "COMPACT"
    BY <1>1 DEF PasoMain, CircEscribe, CircSaltea, EmpiezaACompactar, CircVuelve,
         LruDesaloja, PideCompactar, BuscaHueco, MueveEntrada, TerminaDeCompactar, Get,
         StoreReemplazada, storeKey, Status, EnProceso, Terminar
  <2>2. pc = "compactar" /\ pc' = "guardarEnTabla" => pedido.op = "SET"
    BY <1>1 DEF PasoMain, CircEscribe, CircSaltea, EmpiezaACompactar, CircVuelve,
         LruDesaloja, PideCompactar, BuscaHueco, MueveEntrada, TerminaDeCompactar, Get,
         StoreReemplazada, storeKey, Status, EnProceso, Terminar
  <2>3. pedido.op = "COMPACT" => pc' # "guardarEnTabla"
    BY <2>1, <2>2, <1>1 DEF TInv, Fase, PasoMain, CircEscribe, CircSaltea, EmpiezaACompactar, CircVuelve,
         LruDesaloja, PideCompactar, BuscaHueco, MueveEntrada, TerminaDeCompactar, Get,
         StoreReemplazada, storeKey, Status, EnProceso, Terminar
  <2> QED BY <1>2, <1>3, <2>1, <2>2, <2>3 DEF EntraConArchivo, Mapeada
<1>5. \A i \in Entradas : \/ tabla'[i].clave = vacio
                         \/ \E j \in Entradas : tabla'[i].clave = tabla[j].clave
  <2>1. CASE MueveEntrada
    <3> DEFINE x == compactado.x
               y == x + compactado.hueco
    <3>1. CASE y < CantEntradas
      <4>1. tabla' = [tabla EXCEPT ![x] = tabla[y], ![y] = EntradaVacia]
        BY <2>1, <3>1 DEF MueveEntrada
      <4>2. x \in Entradas /\ y \in Entradas
        BY <2>1, <3>1, LugaresDeMover
      <4>3. tabla \in [Entradas -> Entrada] /\ EntradaVacia.clave = vacio
        BY Datos DEF EntradaVacia
      <4>4. \A i \in Entradas : tabla'[i] \in {EntradaVacia, tabla[y], tabla[i]}
        <5> HIDE DEF x, y
        <5> QED BY <4>1, <4>2, <4>3
      <4> HIDE DEF x, y
      <4> QED BY <4>2, <4>3, <4>4
    <3>2. CASE ~(y < CantEntradas)
      BY <2>1, <3>2 DEF MueveEntrada
    <3> QED BY <3>1, <3>2
  <2>2. CASE LruDesaloja
    <3>1. \A i \in Entradas : tabla[i] \in Entrada
      BY Datos
    <3> QED BY <2>2, <3>1 DEF LruDesaloja, Entrada
  <2>3. CASE ~MueveEntrada /\ ~LruDesaloja
    <3>1. tabla' = tabla
      BY <1>1, <2>3 DEF PasoMain, CircEscribe, CircSaltea, EmpiezaACompactar, CircVuelve,
         PideCompactar, BuscaHueco, TerminaDeCompactar, Get, StoreReemplazada, storeKey, Status, datos
    <3> QED BY <3>1
  <2> QED BY <2>1, <2>2, <2>3
<1> QED BY <1>2, <1>3, <1>4, <1>5, SiguenMapeadas

LEMMA MapeadasPaso == TInv /\ Mapeadas /\ [Next]_vars => Mapeadas'
<1> SUFFICES ASSUME TInv, Mapeadas, [Next]_vars PROVE Mapeadas'
  OBVIOUS
<1>1. CASE PasoMain
  BY <1>1, MapeadasSet, MapeadasResto
<1>2. CASE Morir
  <2>1. \A i \in Entradas : tabla'[i].clave = vacio
    BY <1>2 DEF Morir, TablaVacia, EntradaVacia
  <2>2. pc' = "caida"
    BY <1>2 DEF Morir
  <2> QED BY <2>1, <2>2 DEF Mapeadas, ClavesMapeadas, EntraConArchivo
<1>3. CASE (\E p \in Pedidos : Recibe(p)) \/ TomaMutex \/ Reinicia
  <2>1. tabla' = tabla /\ lista_claves' = lista_claves /\ algReemplazo' = algReemplazo
        /\ pc' \in {"mutex", "procesarHeader", "recv"}
    BY <1>3 DEF Recibe, TomaMutex, Reinicia, datos, cuentas
  <2> QED BY <2>1 DEF Mapeadas, ClavesMapeadas, EntraConArchivo, Mapeada
<1>4. CASE DumpEmpieza \/ PasoDump \/ UNCHANGED vars
  <2>1. tabla' = tabla /\ lista_claves' = lista_claves /\ algReemplazo' = algReemplazo
        /\ pc' = pc /\ pedido' = pedido
    BY <1>4 DEF DumpEmpieza, PasoDump, DumpSaltea, DumpCopia, DumpTermina, vars, datos, cuentas
  <2> QED BY <2>1 DEF Mapeadas, ClavesMapeadas, EntraConArchivo, Mapeada
<1> QED BY <1>1, <1>2, <1>3, <1>4 DEF Next, MuereSinArchivo, Cae

\* In LRU every key of the table has its file mapped, at every step of every
\* request and through every fall, however values grow: neither STORE nor the
\* dump is ever the end of an Instancia that runs LRU.
THEOREM ConLRUMapeadas == Spec => [](algReemplazo = "LRU" => ClavesMapeadas)
<1>1. Init => TInv /\ Mapeadas
  BY InitTipo
  DEF Init, Mapeadas, ClavesMapeadas, EntraConArchivo, TablaVacia, EntradaVacia
<1>2. TInv /\ Mapeadas /\ [Next]_vars => TInv' /\ Mapeadas'
  BY PasoTipo, MapeadasPaso
<1>3. Mapeadas => (algReemplazo = "LRU" => ClavesMapeadas)
  BY DEF Mapeadas
<1> QED BY <1>1, <1>2, <1>3, PTL DEF Spec

-----------------------------------------------------------------------------
(* What compactar does to the table.                                       *)

\* The entries of a run stand together: it ends at the first other name.
LEMMA CorridaEsTramo ==
  ASSUME NEW t, NEW k, NEW e \in Entradas
  PROVE  LET n == Cardinality(Corrida(t, e, k))
         IN /\ \A q \in e..(e + n - 1) : t[q].clave = k
            /\ e + n < CantEntradas => t[e + n].clave # k
<1> DEFINE otras == {j \in Entradas : e <= j /\ t[j].clave # k}
           C == Corrida(t, e, k)
<1>1. e \in Nat /\ e < CantEntradas /\ CantEntradas \in Nat /\ Entradas = 0..(CantEntradas - 1)
  BY EntradasFinito DEF Entradas
<1>2. CASE otras = {}
  <2>1. C = e..(CantEntradas - 1)
    BY <1>1, <1>2 DEF Corrida
  <2>2. Cardinality(C) = CantEntradas - e
    BY <1>1, <2>1, FS_Interval
  <2>3. \A q \in e..(CantEntradas - 1) : t[q].clave = k
    BY <1>1, <1>2
  <2> HIDE DEF C
  <2> QED BY <1>1, <2>2, <2>3 DEF C
<1>3. CASE otras # {}
  <2> DEFINE m == Min(otras)
  <2>1. m \in otras /\ \A y \in otras : m <= y
    <3>1. otras \in SUBSET Nat
      BY <1>1
    <3> HIDE DEF otras
    <3> QED BY <1>3, <3>1, MinEsta
  <2> HIDE DEF m
  <2>2. m \in Entradas /\ e <= m /\ t[m].clave # k
    BY <2>1
  <2>3. \A q \in e..(m - 1) : t[q].clave = k
    <3>1. \A q \in e..(m - 1) : q \in Entradas /\ e <= q /\ ~(m <= q)
      BY <1>1, <2>2
    <3> QED BY <2>1, <3>1
  <2>4. C = e..(m - 1)
    <3>1. C \subseteq e..(m - 1)
      <4>1. \A j \in C : j \in Entradas /\ e <= j /\ \A q \in e..j : t[q].clave = k
        BY DEF Corrida
      <4>2. \A j \in C : ~(m <= j)
        BY <1>1, <2>2, <4>1
      <4> HIDE DEF C
      <4> QED BY <1>1, <2>2, <4>1, <4>2
    <3>2. e..(m - 1) \subseteq C
      BY <1>1, <2>2, <2>3 DEF Corrida
    <3> QED BY <3>1, <3>2
  <2>5. Cardinality(C) = m - e
    BY <1>1, <2>2, <2>4, FS_Interval
  <2> HIDE DEF C
  <2>6. e + Cardinality(C) = m /\ e + Cardinality(C) - 1 = m - 1
    BY <1>1, <2>2, <2>5
  <2>7. \A q \in e..(e + Cardinality(C) - 1) : t[q].clave = k
    BY <2>3, <2>6
  <2> QED BY <2>2, <2>6, <2>7 DEF C
<1> QED BY <1>2, <1>3

LEMMA BuscaHuecoCompacta ==
  ASSUME TInv, Compactando, BuscaHueco
  PROVE  Compactando'
<1> DEFINE i == compactado.i
           h == Cardinality(Corrida(tabla, i, vacio))
<1>1. i \in Entradas /\ i \in Nat /\ compactado.hueco = 0 /\ pc = "compactar"
  BY Datos, EntradasFinito DEF BuscaHueco, Entradas
<1>2. \A j \in Entradas : j < i /\ Libre(tabla, j) => TodasLibres(tabla, j)
  BY <1>1 DEF Compactando, Compactada
<1>3. pc' = pc /\ tabla' = tabla
  BY DEF BuscaHueco, datos
<1>4. compactado' = IF tabla[i].clave = vacio THEN [i |-> i, x |-> i, hueco |-> h]
                    ELSE [i |-> i + 1, x |-> 0, hueco |-> 0]
  BY DEF BuscaHueco
<1>5. CASE Libre(tabla, i)
  <2>1. (\A q \in i..(i + h - 1) : Libre(tabla, q)) /\ (i + h < CantEntradas => ~Libre(tabla, i + h))
    BY <1>1, CorridaEsTramo DEF Libre
  <2>2. compactado' = [i |-> i, x |-> i, hueco |-> h]
    BY <1>4, <1>5 DEF Libre
  <2> HIDE DEF i, h
  <2>3. Compactada(tabla, i, i, h)
    BY <1>1, <1>2, <2>1 DEF Compactada
  <2> QED BY <1>3, <2>2, <2>3 DEF Compactando
<1>6. CASE ~Libre(tabla, i)
  <2>1. compactado' = [i |-> i + 1, x |-> 0, hueco |-> 0]
    BY <1>4, <1>6 DEF Libre
  <2> HIDE DEF i, h
  <2>2. \A j \in Entradas : j < i + 1 => j < i \/ j = i
    BY <1>1, EntradasFinito
  <2>3. Compactada(tabla, i + 1, 0, 0)
    BY <1>2, <1>6, <2>2 DEF Compactada
  <2> QED BY <1>3, <2>1, <2>3 DEF Compactando
<1> QED BY <1>5, <1>6

\* One move: what is before x stays, what is free behind stays free.
LEMMA MueveCompacta ==
  ASSUME TInv, Compactando, MueveEntrada
  PROVE  Compactando'
<1> DEFINE i == compactado.i
           x == compactado.x
           h == compactado.hueco
           y == x + h
<1>1. /\ i \in 0..CantEntradas /\ x \in Nat /\ h \in Nat \ {0}
      /\ i <= x /\ x < i + h /\ i + h <= CantEntradas /\ CantEntradas \in Nat
      /\ y < CantEntradas => x \in Entradas /\ y \in Entradas
  BY LugaresDeMover
<1>2. /\ pc = "compactar" /\ pc' = pc
      /\ y < CantEntradas => tabla' = [tabla EXCEPT ![x] = tabla[y], ![y] = EntradaVacia]
      /\ ~(y < CantEntradas) => tabla' = tabla
      /\ compactado' = IF x = i + h - 1 THEN [i |-> i + 1, x |-> 0, hueco |-> 0]
                       ELSE [compactado EXCEPT !.x = x + 1]
  BY DEF MueveEntrada
<1>3. Compactada(tabla, i, x, h)
  BY <1>2 DEF Compactando
<1>4. tabla \in [Entradas -> Entrada] /\ EntradaVacia.clave = vacio
      /\ compactado \in [i : 0..CantEntradas, x : 0..(2 * CantEntradas), hueco : 0..CantEntradas]
  BY Datos DEF EntradaVacia
<1>5. [compactado EXCEPT !.x = x + 1] = [i |-> i, x |-> x + 1, hueco |-> h]
  BY <1>4
<1>6. Entradas \subseteq Nat /\ i < CantEntradas /\ i \in Entradas /\ i \in Nat
      /\ \A q \in Nat : q < CantEntradas => q \in Entradas
  BY <1>1, EntradasFinito DEF Entradas
<1> HIDE DEF i, x, h
<1>7. /\ \A j \in Entradas : j < x => tabla'[j] = tabla[j]
      /\ \A e \in Entradas : TodasLibres(tabla, e) => TodasLibres(tabla', e)
      /\ y < CantEntradas => tabla'[x] = tabla[y]
  <2>1. CASE y < CantEntradas
    <3> DEFINE r == [tabla EXCEPT ![x] = tabla[y], ![y] = EntradaVacia]
    <3>1. x \in Entradas /\ y \in Entradas /\ x < y /\ x \in Nat /\ y \in Nat
      BY <1>1, <2>1
    <3> HIDE DEF y
    <3>2. \A j \in Entradas : r[j] = IF j = y THEN EntradaVacia ELSE IF j = x THEN tabla[y] ELSE tabla[j]
      BY <1>4, <3>1
    <3>3. tabla' = r
      BY <1>2, <2>1
    <3> HIDE DEF r
    <3>4. \A j \in Entradas : j < x => tabla'[j] = tabla[j]
      <4>1. \A j \in Entradas : j < x => j # x /\ j # y
        BY <1>6, <3>1
      <4> QED BY <3>2, <3>3, <4>1
    <3>5. tabla'[x] = tabla[y]
      BY <3>1, <3>2, <3>3
    <3>6. ASSUME NEW e \in Entradas, TodasLibres(tabla, e), NEW q \in Entradas, q >= e
          PROVE  Libre(tabla', q)
      <4>1. Libre(tabla, q) /\ (q = x => Libre(tabla, y))
        BY <1>6, <3>1, <3>6 DEF TodasLibres
      <4> QED BY <1>4, <3>2, <3>3, <4>1 DEF Libre
    <3> QED BY <3>4, <3>5, <3>6 DEF TodasLibres
  <2>2. CASE ~(y < CantEntradas)
    BY <1>2, <2>2
  <2> QED BY <2>1, <2>2
<1>8. ASSUME NEW j \in Entradas, j < i, Libre(tabla', j)
      PROVE  TodasLibres(tabla', j)
  <2>1. j < x
    BY <1>1, <1>6, <1>8
  <2>2. Libre(tabla, j)
    BY <1>7, <1>8, <2>1 DEF Libre
  <2> QED BY <1>3, <1>7, <1>8, <2>2 DEF Compactada
<1>9. ~Libre(tabla', i) \/ TodasLibres(tabla', i)
  <2>1. CASE x = i /\ y < CantEntradas
    <3>1. ~Libre(tabla, i + h)
      BY <1>1, <1>3, <2>1 DEF Compactada
    <3> QED BY <1>7, <2>1, <3>1 DEF Libre
  <2>2. CASE x = i /\ ~(y < CantEntradas)
    <3>1. i + h = CantEntradas
      BY <1>1, <2>2
    <3>2. \A q \in i..(i + h - 1) : Libre(tabla, q)
      BY <1>1, <1>3, <2>2 DEF Compactada
    <3>3. \A q \in Entradas : q >= i => q \in i..(i + h - 1)
      BY <1>1, <3>1 DEF Entradas
    <3>4. TodasLibres(tabla, i)
      BY <3>2, <3>3 DEF TodasLibres
    <3> QED BY <1>6, <1>7, <3>4
  <2>3. CASE x # i
    <3>1. x > i /\ i < x
      BY <1>1, <1>6, <2>3
    <3>2. ~Libre(tabla, i) \/ TodasLibres(tabla, i)
      BY <1>1, <1>3, <3>1 DEF Compactada
    <3> QED BY <1>6, <1>7, <3>1, <3>2 DEF Libre
  <2> QED BY <2>1, <2>2, <2>3
<1>10. CASE x = i + h - 1
  <2>1. compactado' = [i |-> i + 1, x |-> 0, hueco |-> 0]
    BY <1>2, <1>10
  <2>2. \A j \in Entradas : j < i + 1 => j < i \/ j = i
    BY <1>6
  <2>3. Compactada(tabla', i + 1, 0, 0)
    BY <1>8, <1>9, <2>2 DEF Compactada
  <2> QED BY <2>1, <2>3 DEF Compactando
<1>11. CASE x # i + h - 1
  <2>1. compactado' = [i |-> i, x |-> x + 1, hueco |-> h]
    BY <1>2, <1>5, <1>11
  <2>2. x + 1 # i
    BY <1>1, <1>6
  <2>3. Compactada(tabla', i, x + 1, h)
    BY <1>8, <1>9, <2>2 DEF Compactada
  <2> QED BY <2>1, <2>3 DEF Compactando
<1> QED BY <1>10, <1>11

LEMMA CompactandoPaso == TInv /\ Compactando /\ [Next]_vars => Compactando'
<1> SUFFICES ASSUME TInv, Compactando, [Next]_vars PROVE Compactando'
  OBVIOUS
<1>1. CASE BuscaHueco
  BY <1>1, BuscaHuecoCompacta
<1>2. CASE MueveEntrada
  BY <1>2, MueveCompacta
<1>3. CASE EmpiezaACompactar \/ PideCompactar
  <2>1. compactado' = SinCompactar
    BY <1>3 DEF EmpiezaACompactar, PideCompactar
  <2>2. \A j \in Entradas : ~(j < 0)
    BY EntradasFinito
  <2> QED BY <2>1, <2>2 DEF Compactando, Compactada, SinCompactar
<1>4. CASE \/ SetConocida \/ SetNueva \/ CircEscribe \/ CircSaltea \/ CircVuelve \/ LruEscribe
           \/ LruDesaloja \/ TerminaDeCompactar \/ Get \/ StoreReemplazada \/ storeKey \/ Status
           \/ TomaMutex \/ MuereSinArchivo \/ Cae \/ Reinicia
           \/ \E p \in Pedidos : Recibe(p)
  <2>1. pc' # "compactar"
    BY <1>4 DEF SetConocida, SetNueva, CircEscribe, CircSaltea, CircVuelve, LruEscribe, LruDesaloja,
       TerminaDeCompactar, Get, StoreReemplazada, storeKey, Status, TomaMutex, MuereSinArchivo,
       Cae, Morir, Reinicia, Recibe, Terminar
  <2> QED BY <2>1 DEF Compactando
<1>5. CASE DumpEmpieza \/ PasoDump \/ UNCHANGED vars
  <2>1. tabla' = tabla /\ compactado' = compactado /\ pc' = pc
    BY <1>5 DEF DumpEmpieza, PasoDump, DumpSaltea, DumpCopia, DumpTermina, vars, datos
  <2> QED BY <2>1 DEF Compactando
<1> QED BY <1>1, <1>2, <1>3, <1>4, <1>5 DEF Next, PasoMain

\* compactar leaves the free entries together, after all the others, whatever
\* the table was and however long its holes were.
LEMMA Junta ==
  ASSUME TInv, Compactando, pc = "compactar", compactado.i = CantEntradas
  PROVE  \A j \in Entradas : Libre(tabla, j) => TodasLibres(tabla, j)
<1>1. \A j \in Entradas : j < CantEntradas
  BY EntradasFinito DEF Entradas
<1> QED BY <1>1 DEF Compactando, Compactada

THEOREM CompactaDelTodo == Spec => []LibresJuntas
<1>1. Init => TInv /\ Compactando
  BY InitTipo DEF Init, Compactando
<1>2. TInv /\ Compactando /\ [Next]_vars => TInv' /\ Compactando'
  BY PasoTipo, CompactandoPaso
<1>3. TInv /\ Compactando => LibresJuntas
  <2> SUFFICES ASSUME TInv, Compactando, pc = "compactar", compactado.i = CantEntradas,
                      NEW j \in Entradas, NEW q \in Entradas, j < q, tabla[j].clave = vacio
               PROVE  tabla[q].clave = vacio
    BY DEF LibresJuntas
  <2>1. TodasLibres(tabla, j) /\ q >= j
    BY Junta, EntradasFinito DEF Libre
  <2> QED BY <2>1 DEF TodasLibres, Libre
<1> QED BY <1>1, <1>2, <1>3, PTL DEF Spec

-----------------------------------------------------------------------------
(* The free entries of CIRC.                                               *)

Final == Atomicos => LibresAlFinal

LEMMA TerminaFinal ==
  ASSUME TInv, Compactando, TerminaDeCompactar
  PROVE  LibresAlFinal'
<1>1. tabla' = tabla /\ comienzoDeEntradasLibres' = PrimeraLibre /\ indexCircular' = PrimeraLibre
      /\ pc = "compactar" /\ compactado.i = CantEntradas
  BY DEF TerminaDeCompactar, datos
<1>2. \A j \in Entradas : Libre(tabla, j) => TodasLibres(tabla, j)
  BY <1>1, Junta
<1>3. PrimeraLibre \in Int /\ \A j \in Entradas : j >= PrimeraLibre => Libre(tabla, j)
  <2> DEFINE libres == {i \in Entradas : tabla[i].clave = vacio}
  <2>1. CASE libres = {}
    <3>1. PrimeraLibre = CantEntradas
      BY <2>1 DEF PrimeraLibre
    <3> QED BY <3>1, EntradasFinito DEF Entradas
  <2>2. CASE libres # {}
    <3>1. PrimeraLibre = Min(libres)
      BY <2>2 DEF PrimeraLibre
    <3>2. libres \in SUBSET Nat
      BY EntradasFinito
    <3>3. PrimeraLibre \in libres
      <4> HIDE DEF libres
      <4> QED BY <2>2, <3>1, <3>2, MinEsta
    <3> QED BY <1>2, <3>3, EntradasFinito DEF Libre, TodasLibres
  <2> QED BY <2>1, <2>2
<1> QED BY <1>1, <1>3 DEF LibresAlFinal, Libre

LEMMA CircEscribeFinal ==
  ASSUME TInv, LibresAlFinal, CircEscribe
  PROVE  LibresAlFinal'
<1>1. /\ pc = "guardarEnTabla" /\ algReemplazo = "CIRC"
      /\ tabla' = [i \in Entradas |-> IF i \in Hasta(indexCircular) THEN EntradaNueva ELSE tabla[i]]
      /\ comienzoDeEntradasLibres' = Menor(comienzoDeEntradasLibres + Paginas, CantEntradas)
      /\ indexCircular' = indexCircular + Paginas /\ indexCircular + Paginas <= CantEntradas
  BY DEF CircEscribe
<1>2. indexCircular \in Nat /\ comienzoDeEntradasLibres \in Nat /\ Paginas \in Nat
      /\ CantEntradas \in Nat /\ Entradas \subseteq Nat
  BY <1>1, Datos, PaginasDelPedido, EntradasFinito
<1>3. /\ indexCircular <= comienzoDeEntradasLibres
      /\ \A i \in Entradas : i >= comienzoDeEntradasLibres => tabla[i].clave = vacio
  BY <1>1 DEF LibresAlFinal
<1>4. indexCircular' <= comienzoDeEntradasLibres'
  BY <1>1, <1>2, <1>3 DEF Menor
<1>5. ASSUME NEW i \in Entradas, i >= comienzoDeEntradasLibres'
      PROVE  tabla'[i].clave = vacio
  <2>1. i < CantEntradas /\ i \in Nat
    BY <1>2 DEF Entradas
  <2>2. i >= comienzoDeEntradasLibres + Paginas
    BY <1>1, <1>2, <1>5, <2>1 DEF Menor
  <2>3. i >= comienzoDeEntradasLibres /\ i \notin Hasta(indexCircular)
    BY <1>2, <1>3, <2>1, <2>2 DEF Hasta
  <2> QED BY <1>1, <1>3, <2>3
<1> QED BY <1>4, <1>5 DEF LibresAlFinal

\* With one entry a value, guardarEnTablaCIRC never has a value to skip.
LEMMA NoSaltea ==
  ASSUME TInv, Atomicos, CircSaltea
  PROVE  FALSE
<1>1. pc = "guardarEnTabla" /\ indexCircular + Paginas <= CantEntradas
      /\ tabla[indexCircular].tamanio > TamanioEntradas
  BY DEF CircSaltea
<1>2. indexCircular \in Nat /\ Paginas \in Nat \ {0} /\ CantEntradas \in Nat
  BY <1>1, Datos, PaginasDelPedido, EntradasFinito
<1>3. indexCircular \in Entradas
  BY <1>1, <1>2 DEF Entradas
<1>4. tabla[indexCircular].tamanio \in Largos \cup {0}
  BY <1>3, Datos DEF Entrada
<1>5. \A n \in Largos \cup {0} : ~(n > TamanioEntradas)
  BY InstanciaAssumption DEF Atomicos
<1> QED BY <1>1, <1>4, <1>5

LEMMA SetFinal ==
  ASSUME TInv, LibresAlFinal, SetConocida \/ SetNueva
  PROVE  LibresAlFinal'
<1>1. /\ UNCHANGED <<comienzoDeEntradasLibres, indexCircular, algReemplazo>>
      /\ pc = "procesarHeader" /\ pedido.op = "SET"
  BY DEF SetConocida, SetNueva, cuentas, EnProceso
<1>2. /\ TablaConsultada \in [Entradas -> Entrada]
      /\ \A i \in Entradas : TablaConsultada[i].clave = tabla[i].clave
  BY <1>1, EnvejecidaTipo
<1>3. \A i \in Entradas : tabla'[i].clave \in {vacio, tabla[i].clave}
  <2>1. CASE SetConocida
    <3>1. Encontrada \in Entradas
      BY <2>1, Busquedas DEF SetConocida, Encontrada
    <3>2. tabla' = Sobrescribir(TablaConsultada, Encontrada)
      BY <2>1 DEF SetConocida
    <3> QED BY <1>2, <3>1, <3>2, NombresSobrescribir
  <2>2. CASE SetNueva
    BY <1>2, <2>2 DEF SetNueva
  <2> QED BY <2>1, <2>2
<1> QED BY <1>1, <1>3 DEF LibresAlFinal

LEMMA FinalPaso == TInv /\ Compactando /\ Final /\ [Next]_vars => Final'
<1> SUFFICES ASSUME TInv, Compactando, Atomicos, LibresAlFinal, [Next]_vars PROVE LibresAlFinal'
  BY DEF Final, Atomicos
<1>1. CASE TerminaDeCompactar
  BY <1>1, TerminaFinal
<1>2. CASE CircEscribe
  BY <1>2, CircEscribeFinal
<1>3. CASE CircSaltea
  BY <1>3, NoSaltea
<1>4. CASE SetConocida \/ SetNueva
  BY <1>4, SetFinal
<1>5. CASE EmpiezaACompactar \/ PideCompactar \/ BuscaHueco \/ MueveEntrada
  <2>1. pc' = "compactar"
    BY <1>5 DEF EmpiezaACompactar, PideCompactar, BuscaHueco, MueveEntrada
  <2> QED BY <2>1 DEF LibresAlFinal
<1>6. CASE LruEscribe \/ LruDesaloja
  <2>1. algReemplazo' = "LRU"
    BY <1>6 DEF LruEscribe, LruDesaloja, cuentas
  <2> QED BY <2>1 DEF LibresAlFinal
<1>7. CASE CircVuelve
  <2>1. indexCircular' = 0 /\ comienzoDeEntradasLibres' = comienzoDeEntradasLibres /\ tabla' = tabla
        /\ pc = "guardarEnTabla" /\ algReemplazo = "CIRC"
    BY <1>7 DEF CircVuelve, datos
  <2>2. comienzoDeEntradasLibres \in Nat
    BY Datos, EntradasFinito
  <2> QED BY <2>1, <2>2 DEF LibresAlFinal
<1>8. CASE Morir
  <2>1. /\ indexCircular' = 0 /\ comienzoDeEntradasLibres' = 0
        /\ \A i \in Entradas : tabla'[i].clave = vacio
    BY <1>8 DEF Morir, TablaVacia, EntradaVacia
  <2> QED BY <2>1 DEF LibresAlFinal
<1>9. CASE \/ Get \/ StoreReemplazada \/ storeKey \/ Status \/ TomaMutex \/ Reinicia
           \/ DumpEmpieza \/ PasoDump \/ UNCHANGED vars \/ \E p \in Pedidos : Recibe(p)
  <2>1. UNCHANGED <<tabla, comienzoDeEntradasLibres, indexCircular, algReemplazo>>
    BY <1>9 DEF Get, StoreReemplazada, storeKey, Status, TomaMutex, Reinicia, DumpEmpieza, PasoDump,
       DumpSaltea, DumpCopia, DumpTermina, vars, datos, indices, cuentas, Recibe
  <2>2. pc' # "compactar" => pc # "compactar"
    BY <1>9 DEF Get, StoreReemplazada, storeKey, Status, EnProceso, TomaMutex, Reinicia,
       DumpEmpieza, PasoDump, DumpSaltea, DumpCopia, DumpTermina, vars, Recibe
  <2> QED BY <2>1, <2>2 DEF LibresAlFinal
<1> QED BY <1>1, <1>2, <1>3, <1>4, <1>5, <1>6, <1>7, <1>8, <1>9
    DEF Next, PasoMain, MuereSinArchivo, Cae

\* In CIRC, when every value fits in one entry, what lies beyond
\* comienzoDeEntradasLibres is free and indexCircular never passes it:
\* consultarTablaCIRC, which stops there, misses no key.
THEOREM CircNoPierdeClaves == Spec => [](Atomicos => LibresAlFinal)
<1>1. Init => TInv /\ Compactando /\ Final
  BY InitTipo
  DEF Init, Compactando, Final, LibresAlFinal, TablaVacia, EntradaVacia
<1>2. TInv /\ Compactando /\ Final /\ [Next]_vars => TInv' /\ Compactando' /\ Final'
  BY PasoTipo, CompactandoPaso, FinalPaso
<1>3. Final => (Atomicos => LibresAlFinal)
  BY DEF Final
<1> QED BY <1>1, <1>2, <1>3, PTL DEF Spec

-----------------------------------------------------------------------------
(* The entries of a key.  The table is proved in order for names that are  *)
(* told apart and SETs that need no more entries than their key has: the   *)
(* code is wrong otherwise (README.md, section 5).                         *)

SinMayusculas == \A a, b \in Claves : Igual(a, b) => a = b
NadieCrece == ~Crecen \/ Atomicos

Suyas(t, k) == {i \in Entradas : t[i].clave = k}

\* The value of k begins at n and has the entries from n on that it needs; all
\* but the first keep the length of a value of several entries.
Tramo(t, k, n) ==
  LET p == getCantPaginas(t[n].tamanio)
  IN /\ p # 0 /\ n + p <= CantEntradas
     /\ \A i \in Entradas : t[i].clave = k <=> n <= i /\ i < n + p
     /\ \A i \in Entradas : n < i /\ i < n + p => t[i].tamanio > TamanioEntradas
Tramos(t) == \A k \in Claves : Suyas(t, k) = {} \/ \E n \in Entradas : Tramo(t, k, n)

\* While compactar moves entries a value may have free entries inside, but
\* those of no other, and it has as many of its own as it needs.
EsPrimera(t, k, n) ==
  /\ n \in Entradas /\ t[n].clave = k
  /\ \A j \in Entradas : t[j].clave = k => n <= j
EnOrden(t) ==
  \A k \in Claves : \A p, q, r \in Entradas :
    t[p].clave = k /\ t[r].clave = k /\ p < q /\ q < r => t[q].clave \in {k, vacio}
PaginasJustas(t) ==
  \A k \in Claves, n \in Entradas :
    EsPrimera(t, k, n) => Cardinality(Suyas(t, k)) = getCantPaginas(t[n].tamanio)
ColasLargas(t) ==
  \A k \in Claves : \A n, j \in Entradas :
    t[n].clave = k /\ t[j].clave = k /\ n < j => t[j].tamanio > TamanioEntradas
Ordenada(t) == EnOrden(t) /\ PaginasJustas(t) /\ ColasLargas(t)

LEMMA PaginasCuantas ==
  ASSUME NEW l \in Nat
  PROVE  /\ getCantPaginas(l) \in Nat
         /\ getCantPaginas(l) = 0 <=> l = 0
         /\ getCantPaginas(l) = 1 <=> l # 0 /\ l <= TamanioEntradas
         /\ getCantPaginas(l) <= 2 <=> l <= 2 * TamanioEntradas
         /\ l <= getCantPaginas(l) * TamanioEntradas
<1> DEFINE T == TamanioEntradas
           c == getCantPaginas(l)
<1>1. T \in Nat \ {0}
  BY InstanciaAssumption
<1>2. c = (l + T - 1) \div T /\ l + T - 1 \in Nat
  BY <1>1 DEF getCantPaginas
<1>3. c \in Nat /\ c * T <= l + T - 1 /\ l + T - 1 < (c + 1) * T
  <2> DEFINE a == l + T - 1
  <2>1. a \in Nat
    BY <1>2
  <2>2. a \div T \in Nat /\ (a \div T) * T <= a /\ a < (a \div T + 1) * T
    <3> HIDE DEF a
    <3> QED BY <1>1, <2>1
  <2> QED BY <1>2, <2>2
<1> HIDE DEF c, T
<1>4. l <= c * T
  <2>1. (c + 1) * T = c * T + T
    BY <1>1, <1>3
  <2>2. c * T \in Nat
    BY <1>1, <1>3
  <2> HIDE DEF c
  <2> QED BY <1>1, <1>3, <2>1, <2>2
<1>5. CASE c = 0
  <2>1. l = 0
    BY <1>1, <1>4, <1>5
  <2> QED BY <1>1, <1>3, <1>4, <1>5, <2>1 DEF c, T
<1>6. CASE c = 1
  <2>1. l # 0 /\ l <= T
    BY <1>1, <1>3, <1>4, <1>6
  <2> QED BY <1>1, <1>3, <1>4, <1>6, <2>1 DEF c, T
<1>7. CASE c = 2
  <2>1. l > T /\ l <= 2 * T
    BY <1>1, <1>3, <1>4, <1>7
  <2> QED BY <1>1, <1>3, <1>4, <1>7, <2>1 DEF c, T
<1>8. CASE c >= 3
  <2>1. PICK d \in Nat : c = d + 3
    <3>1. c - 3 \in Nat /\ c = (c - 3) + 3
      BY <1>3, <1>8
    <3> QED BY <3>1
  <2>2. c * T = d * T + 3 * T /\ d * T \in Nat
    BY <1>1, <2>1
  <2>3. l > 2 * T
    BY <1>1, <1>3, <2>2
  <2> QED BY <1>1, <1>3, <1>4, <1>8, <2>3 DEF c, T
<1> QED BY <1>3, <1>5, <1>6, <1>7, <1>8

LEMMA PrimeraHay ==
  ASSUME NEW t, NEW k, Suyas(t, k) # {}
  PROVE  \E n \in Entradas : EsPrimera(t, k, n)
<1> DEFINE S == Suyas(t, k)
<1>1. S \in SUBSET Nat /\ S # {}
  BY EntradasFinito DEF Suyas
<1>2. Min(S) \in S /\ \A y \in S : Min(S) <= y
  <2> HIDE DEF S
  <2> QED BY <1>1, MinEsta
<1> QED BY <1>2 DEF Suyas, EsPrimera

LEMMA TramoIntervalo ==
  ASSUME NEW t \in [Entradas -> Entrada], NEW k, NEW n \in Entradas, Tramo(t, k, n)
  PROVE  LET p == getCantPaginas(t[n].tamanio)
         IN /\ p \in Nat \ {0} /\ n \in Nat
            /\ EsPrimera(t, k, n)
            /\ Suyas(t, k) = n..(n + p - 1)
            /\ Cardinality(Suyas(t, k)) = p
<1> DEFINE p == getCantPaginas(t[n].tamanio)
<1>1. t[n].tamanio \in Nat
  <2>1. t[n] \in Entrada /\ Largos \cup {0} \subseteq Nat
    BY InstanciaAssumption
  <2> QED BY <2>1 DEF Entrada
<1>2. p \in Nat \ {0}
  BY <1>1, PaginasTipo DEF Tramo
<1>3. n \in Nat /\ Entradas \subseteq Nat /\ CantEntradas \in Nat /\ n + p <= CantEntradas
  BY EntradasFinito DEF Tramo
<1>4. \A i \in Entradas : t[i].clave = k <=> n <= i /\ i < n + p
  BY DEF Tramo
<1> HIDE DEF p
<1>5. EsPrimera(t, k, n)
  BY <1>2, <1>3, <1>4 DEF EsPrimera
<1>6. Suyas(t, k) = n..(n + p - 1)
  <2>1. \A i \in n..(n + p - 1) : i \in Entradas
    BY <1>2, <1>3 DEF Entradas
  <2>2. \A i \in n..(n + p - 1) : i \in Suyas(t, k)
    BY <1>2, <1>3, <1>4, <2>1 DEF Suyas
  <2>3. \A i \in Suyas(t, k) : i \in n..(n + p - 1)
    BY <1>2, <1>3, <1>4 DEF Suyas
  <2> QED BY <2>2, <2>3
<1>7. Cardinality(Suyas(t, k)) = p
  BY <1>2, <1>3, <1>6, FS_Interval
<1> QED BY <1>2, <1>3, <1>5, <1>6, <1>7 DEF p

LEMMA TramosOrdenada ==
  ASSUME NEW t \in [Entradas -> Entrada], Tramos(t)
  PROVE  Ordenada(t)
<1>1. Entradas \subseteq Nat
  BY EntradasFinito
<1>2. ASSUME NEW k \in Claves, Suyas(t, k) # {}
      PROVE  \E n \in Entradas, p \in Nat :
               /\ EsPrimera(t, k, n) /\ p = getCantPaginas(t[n].tamanio)
               /\ Cardinality(Suyas(t, k)) = p
               /\ \A i \in Entradas : t[i].clave = k <=> n <= i /\ i < n + p
               /\ \A i \in Entradas : n < i /\ i < n + p => t[i].tamanio > TamanioEntradas
  <2>1. PICK n \in Entradas : Tramo(t, k, n)
    BY <1>2 DEF Tramos
  <2> QED BY <2>1, TramoIntervalo DEF Tramo
<1>3. EnOrden(t)
  <2> SUFFICES ASSUME NEW k \in Claves, NEW p \in Entradas, NEW q \in Entradas, NEW r \in Entradas,
                      t[p].clave = k, t[r].clave = k, p < q, q < r
               PROVE  t[q].clave = k
    BY DEF EnOrden
  <2>1. Suyas(t, k) # {}
    BY DEF Suyas
  <2>2. PICK n \in Entradas, c \in Nat : \A i \in Entradas : t[i].clave = k <=> n <= i /\ i < n + c
    BY <1>2, <2>1
  <2> QED BY <1>1, <2>2
<1>4. PaginasJustas(t)
  <2> SUFFICES ASSUME NEW k \in Claves, NEW m \in Entradas, EsPrimera(t, k, m)
               PROVE  Cardinality(Suyas(t, k)) = getCantPaginas(t[m].tamanio)
    BY DEF PaginasJustas
  <2>1. Suyas(t, k) # {}
    BY DEF Suyas, EsPrimera
  <2>2. PICK n \in Entradas : /\ EsPrimera(t, k, n)
                              /\ Cardinality(Suyas(t, k)) = getCantPaginas(t[n].tamanio)
    BY <1>2, <2>1
  <2>3. n = m
    BY <1>1, <2>2 DEF EsPrimera
  <2> QED BY <2>2, <2>3
<1>5. ColasLargas(t)
  <2> SUFFICES ASSUME NEW k \in Claves, NEW m \in Entradas, NEW j \in Entradas,
                      t[m].clave = k, t[j].clave = k, m < j
               PROVE  t[j].tamanio > TamanioEntradas
    BY DEF ColasLargas
  <2>1. Suyas(t, k) # {}
    BY DEF Suyas
  <2>2. PICK n \in Entradas, c \in Nat :
          /\ \A i \in Entradas : t[i].clave = k <=> n <= i /\ i < n + c
          /\ \A i \in Entradas : n < i /\ i < n + c => t[i].tamanio > TamanioEntradas
    BY <1>2, <2>1
  <2> QED BY <1>1, <2>2
<1> QED BY <1>3, <1>4, <1>5 DEF Ordenada

\* Once the free entries stand together at the end, every value does too.
LEMMA OrdenadaTramos ==
  ASSUME NEW t \in [Entradas -> Entrada], Ordenada(t), vacio \notin Claves,
         \A j \in Entradas : Libre(t, j) => TodasLibres(t, j)
  PROVE  Tramos(t)
<1> SUFFICES ASSUME NEW k \in Claves, Suyas(t, k) # {}
             PROVE  \E n \in Entradas : Tramo(t, k, n)
  BY DEF Tramos
<1>1. Entradas \subseteq Nat /\ CantEntradas \in Nat
  BY EntradasFinito
<1>2. PICK n \in Entradas : EsPrimera(t, k, n)
  BY PrimeraHay
<1> DEFINE S == Suyas(t, k)
           p == getCantPaginas(t[n].tamanio)
           m == Max(S)
<1>3. m \in S /\ \A y \in S : m >= y
  <2>1. S \in SUBSET Int /\ S # {} /\ \A s \in S : s <= CantEntradas
    BY <1>1 DEF Suyas, Entradas
  <2>2. CantEntradas \in Int
    BY <1>1
  <2> HIDE DEF S
  <2>3. Max(S) \in S /\ \A y \in S : Max(S) >= y
    BY <2>1, <2>2, MaxEsta
  <2> QED BY <2>3
<1> HIDE DEF m
<1>4. m \in Entradas /\ t[m].clave = k /\ n <= m
  BY <1>2, <1>3 DEF Suyas, EsPrimera
<1>5. ASSUME NEW q \in Entradas, n < q, q < m
      PROVE  t[q].clave = k
  <2>1. t[q].clave \in {k, vacio}
    BY <1>2, <1>4, <1>5 DEF Ordenada, EnOrden, EsPrimera
  <2>2. t[q].clave = vacio => t[m].clave = vacio
    BY <1>1, <1>4, <1>5 DEF Libre, TodasLibres
  <2> QED BY <1>4, <2>1, <2>2
<1>6. S = n..m
  <2>1. \A i \in S : i \in n..m
    BY <1>1, <1>2, <1>3, <1>4 DEF Suyas, EsPrimera
  <2>2. \A i \in n..m : i \in S
    <3> TAKE i \in n..m
    <3>1. i \in Entradas
      BY <1>1, <1>4 DEF Entradas
    <3>2. i = n \/ i = m \/ (n < i /\ i < m)
      BY <1>1, <1>4
    <3>3. t[i].clave = k
      BY <1>2, <1>4, <1>5, <3>1, <3>2 DEF EsPrimera
    <3> QED BY <3>1, <3>3 DEF Suyas
  <2> QED BY <2>1, <2>2
<1>7. p = m - n + 1
  <2>1. Cardinality(S) = p
    BY <1>2 DEF Ordenada, PaginasJustas
  <2>2. Cardinality(n..m) = m - n + 1
    BY <1>1, <1>4, FS_Interval
  <2> HIDE DEF S, p
  <2> QED BY <1>6, <2>1, <2>2
<1>8. Tramo(t, k, n)
  <2>1. p # 0 /\ n + p <= CantEntradas
    BY <1>1, <1>4, <1>7 DEF Entradas
  <2>2. \A i \in Entradas : t[i].clave = k <=> n <= i /\ i < n + p
    <3>1. \A i \in Entradas : t[i].clave = k <=> i \in n..m
      BY <1>6 DEF Suyas
    <3> HIDE DEF p
    <3> QED BY <1>1, <1>4, <1>7, <3>1
  <2>3. \A i \in Entradas : n < i /\ i < n + p => t[i].tamanio > TamanioEntradas
    <3> HIDE DEF p
    <3>1. \A i \in Entradas : n < i /\ i < n + p => t[i].clave = k
      BY <1>1, <2>2
    <3> QED BY <1>2, <3>1 DEF Ordenada, ColasLargas, EsPrimera
  <2> QED BY <2>1, <2>2, <2>3 DEF Tramo
<1> QED BY <1>8


\* A key none of whose entries changes has its value where it had it.
LEMMA TramoSigue ==
  ASSUME NEW t, NEW u, NEW k,
         \A i \in Entradas : /\ t[i].clave = k <=> u[i].clave = k
                             /\ t[i].clave = k => u[i].tamanio = t[i].tamanio
  PROVE  /\ Suyas(u, k) = Suyas(t, k)
         /\ \A n \in Entradas : n \in Suyas(t, k) /\ Tramo(t, k, n) => Tramo(u, k, n)
<1>1. Suyas(u, k) = Suyas(t, k)
  BY DEF Suyas
<1>2. ASSUME NEW n \in Entradas, n \in Suyas(t, k), Tramo(t, k, n)
      PROVE  Tramo(u, k, n)
  <2> DEFINE p == getCantPaginas(t[n].tamanio)
  <2>1. u[n].tamanio = t[n].tamanio
    BY <1>2 DEF Suyas
  <2>2. /\ p # 0 /\ n + p <= CantEntradas
        /\ \A i \in Entradas : t[i].clave = k <=> n <= i /\ i < n + p
        /\ \A i \in Entradas : n < i /\ i < n + p => t[i].tamanio > TamanioEntradas
    BY <1>2 DEF Tramo
  <2>3. Entradas \subseteq Nat
    BY EntradasFinito
  <2>4. p = getCantPaginas(u[n].tamanio)
    BY <2>1
  <2> HIDE DEF p
  <2>5. \A i \in Entradas : n < i /\ i < n + p => u[i].tamanio > TamanioEntradas
    BY <2>2, <2>3
  <2> QED BY <2>2, <2>4, <2>5 DEF Tramo
<1> QED BY <1>1, <1>2

\* A key that leaves the table does so with all its entries; one that enters
\* it or whose value changes has the entries it needs.
LEMMA TramosSiguen ==
  ASSUME NEW t \in [Entradas -> Entrada], NEW u \in [Entradas -> Entrada], Tramos(t),
         \A k \in Claves :
           \/ \A i \in Entradas : /\ t[i].clave = k <=> u[i].clave = k
                                  /\ t[i].clave = k => u[i].tamanio = t[i].tamanio
           \/ Suyas(u, k) = {}
           \/ \E n \in Entradas : Tramo(u, k, n)
  PROVE  Tramos(u)
<1> SUFFICES ASSUME NEW k \in Claves, Suyas(u, k) # {},
                    \A i \in Entradas : /\ t[i].clave = k <=> u[i].clave = k
                                        /\ t[i].clave = k => u[i].tamanio = t[i].tamanio
             PROVE  \E n \in Entradas : Tramo(u, k, n)
  BY DEF Tramos
<1>1. Suyas(u, k) = Suyas(t, k)
  BY TramoSigue
<1>2. PICK n \in Entradas : Tramo(t, k, n)
  BY <1>1 DEF Tramos
<1>3. n \in Suyas(t, k)
  <2>1. EsPrimera(t, k, n)
    BY <1>2, TramoIntervalo
  <2> QED BY <2>1 DEF EsPrimera, Suyas
<1> QED BY <1>2, <1>3, TramoSigue

LEMMA CambiaUno ==
  ASSUME NEW S, IsFiniteSet(S), NEW y \in S, NEW x, x \notin S
  PROVE  Cardinality((S \ {y}) \cup {x}) = Cardinality(S)
<1>1. IsFiniteSet(S \ {y}) /\ Cardinality(S \ {y}) = Cardinality(S) - 1
  BY FS_RemoveElement
<1>2. Cardinality((S \ {y}) \cup {x}) = Cardinality(S \ {y}) + 1
  BY <1>1, FS_AddElement
<1>3. Cardinality(S) \in Nat
  BY FS_CardinalityType
<1> QED BY <1>1, <1>2, <1>3

\* compactar moves an entry over free ones: it keeps its place among the
\* entries in use.
HuecoLibre(t, x, h) == \A j \in Entradas : x <= j /\ j < x + h => Libre(t, j)

\* Where the entry that is now j was.
Antes(x, y, j) == IF j = x THEN y ELSE j

LEMMA MueveLugares ==
  ASSUME NEW t \in [Entradas -> Entrada], vacio \notin Claves,
         NEW x \in Entradas, NEW y \in Entradas, x < y,
         \A j \in Entradas : x <= j /\ j < y => Libre(t, j),
         NEW u, u = [t EXCEPT ![x] = t[y], ![y] = EntradaVacia]
  PROVE  /\ \A j \in Entradas :
              u[j] = IF j = y THEN EntradaVacia ELSE IF j = x THEN t[y] ELSE t[j]
         /\ \A k \in Claves : \A j \in Entradas :
              /\ u[j].clave = k =>
                   LET a == Antes(x, y, j)
                   IN /\ a \in Entradas /\ t[a].clave = k /\ u[j] = t[a]
                      /\ j # y /\ j \in Nat /\ a \in Nat /\ (j < x \/ j = x \/ j > y)
              /\ t[j].clave = k => /\ j # y => u[j] = t[j] /\ (j < x \/ j > y)
                                   /\ j = y => u[x] = t[j]
<1>1. Entradas \subseteq Nat
  BY EntradasFinito
<1>2. \A j \in Entradas : u[j] = IF j = y THEN EntradaVacia ELSE IF j = x THEN t[y] ELSE t[j]
  BY <1>1
<1>3. EntradaVacia.clave = vacio
  BY DEF EntradaVacia
<1> DEFINE antes(j) == Antes(x, y, j)
<1>4. ASSUME NEW k \in Claves, NEW j \in Entradas, u[j].clave = k
      PROVE  /\ antes(j) \in Entradas /\ t[antes(j)].clave = k /\ u[j] = t[antes(j)]
             /\ j # y /\ j \in Nat /\ antes(j) \in Nat /\ (j < x \/ j = x \/ j > y)
  <2>1. j # y
    BY <1>2, <1>3, <1>4
  <2>2. j # x => t[j].clave = k
    BY <1>2, <1>4, <2>1
  <2>3. j < x \/ j = x \/ j > y
    BY <1>1, <2>1, <2>2 DEF Libre
  <2> QED BY <1>1, <1>2, <1>4, <2>1, <2>2, <2>3 DEF Antes
<1>5. ASSUME NEW k \in Claves, NEW j \in Entradas, t[j].clave = k
      PROVE  /\ j # y => u[j] = t[j] /\ (j < x \/ j > y)
             /\ j = y => u[x] = t[j]
  <2>1. j < x \/ j >= y
    BY <1>1, <1>5 DEF Libre
  <2> QED BY <1>1, <1>2, <2>1
<1> QED BY <1>2, <1>4, <1>5

LEMMA MuevePrimera ==
  ASSUME NEW t \in [Entradas -> Entrada], vacio \notin Claves,
         NEW x \in Entradas, NEW y \in Entradas, x < y,
         \A j \in Entradas : x <= j /\ j < y => Libre(t, j),
         NEW u, u = [t EXCEPT ![x] = t[y], ![y] = EntradaVacia],
         NEW k \in Claves, NEW n \in Entradas, EsPrimera(u, k, n)
  PROVE  EsPrimera(t, k, Antes(x, y, n))
<1>1. Entradas \subseteq Nat
  BY EntradasFinito
<1>2. u[n].clave = k
  BY DEF EsPrimera
<1> DEFINE a == Antes(x, y, n)
<1>3. a \in Entradas /\ t[a].clave = k /\ n \in Nat /\ a \in Nat
  BY <1>2, MueveLugares
<1> SUFFICES ASSUME NEW j \in Entradas, t[j].clave = k
             PROVE  a <= j
  BY <1>3 DEF EsPrimera
<1>4. /\ j # y => u[j] = t[j] /\ (j < x \/ j > y)
      /\ j = y => u[x] = t[j]
  BY MueveLugares
<1>5. CASE j = y
  <2>1. n <= x
    BY <1>4, <1>5 DEF EsPrimera
  <2> QED BY <1>1, <1>3, <1>5, <2>1 DEF Antes
<1>6. CASE j # y
  <2>1. n <= j
    BY <1>4, <1>6 DEF EsPrimera
  <2> QED BY <1>1, <1>3, <1>4, <1>6, <2>1 DEF Antes
<1> QED BY <1>5, <1>6

LEMMA MueveOrdenada ==
  ASSUME NEW t \in [Entradas -> Entrada], Ordenada(t), vacio \notin Claves,
         NEW x \in Entradas, NEW y \in Entradas, x < y,
         \A j \in Entradas : x <= j /\ j < y => Libre(t, j),
         NEW u, u = [t EXCEPT ![x] = t[y], ![y] = EntradaVacia]
  PROVE  Ordenada(u)
<1>1. Entradas \subseteq Nat
  BY EntradasFinito
<1>5. \A k \in Claves : \A n \in Entradas : EsPrimera(u, k, n) => EsPrimera(t, k, Antes(x, y, n))
  BY MuevePrimera
<1> DEFINE antes(j) == Antes(x, y, j)
<1>2. \A j \in Entradas : u[j] = IF j = y THEN EntradaVacia ELSE IF j = x THEN t[y] ELSE t[j]
  BY MueveLugares
<1>3. EntradaVacia.clave = vacio
  BY DEF EntradaVacia
<1>4. ASSUME NEW k \in Claves, NEW j \in Entradas, u[j].clave = k
      PROVE  /\ antes(j) \in Entradas /\ t[antes(j)].clave = k /\ u[j] = t[antes(j)]
             /\ j # y /\ j \in Nat /\ antes(j) \in Nat /\ (j < x \/ j = x \/ j > y)
  BY <1>4, MueveLugares
<1> HIDE DEF antes
<1>6. EnOrden(u)
  <2> SUFFICES ASSUME NEW k \in Claves, NEW p \in Entradas, NEW q \in Entradas, NEW r \in Entradas,
                      u[p].clave = k, u[r].clave = k, p < q, q < r
               PROVE  u[q].clave \in {k, vacio}
    BY DEF EnOrden
  <2>1. /\ antes(p) \in Entradas /\ t[antes(p)].clave = k /\ (p < x \/ p = x \/ p > y)
        /\ antes(r) \in Entradas /\ t[antes(r)].clave = k /\ (r < x \/ r = x \/ r > y)
    BY <1>4
  <2>2. CASE q = y
    BY <1>2, <1>3, <2>2
  <2>3. CASE q = x
    <3>1. antes(p) < y /\ y < antes(r)
      BY <1>1, <2>1, <2>3 DEF antes, Antes
    <3>2. t[y].clave \in {k, vacio}
      BY <2>1, <3>1 DEF Ordenada, EnOrden
    <3>3. x # y
      BY <1>1
    <3> QED BY <1>2, <2>3, <3>2, <3>3
  <2>4. CASE q # x /\ q # y
    <3>1. u[q] = t[q]
      BY <1>2, <2>4
    <3>2. CASE x <= q /\ q < y
      BY <3>1, <3>2 DEF Libre
    <3>3. CASE ~(x <= q /\ q < y)
      <4>1. q < x \/ q > y
        BY <1>1, <2>4, <3>3
      <4>2. antes(p) < q /\ q < antes(r)
        BY <1>1, <2>1, <4>1 DEF antes, Antes
      <4> QED BY <2>1, <3>1, <4>2 DEF Ordenada, EnOrden
    <3> QED BY <3>2, <3>3
  <2> QED BY <2>2, <2>3, <2>4
<1>7. PaginasJustas(u)
  <2> SUFFICES ASSUME NEW k \in Claves, NEW n \in Entradas, EsPrimera(u, k, n)
               PROVE  Cardinality(Suyas(u, k)) = getCantPaginas(u[n].tamanio)
    BY DEF PaginasJustas
  <2>1. u[n].clave = k
    BY DEF EsPrimera
  <2>2. /\ antes(n) \in Entradas /\ t[antes(n)].clave = k /\ u[n] = t[antes(n)]
        /\ n \in Nat /\ antes(n) \in Nat /\ (n < x \/ n = x \/ n > y)
    BY <1>4, <2>1
  <2>3. EsPrimera(t, k, antes(n))
    BY <1>5 DEF antes
  <2>4. Cardinality(Suyas(t, k)) = getCantPaginas(u[n].tamanio)
    BY <2>2, <2>3 DEF Ordenada, PaginasJustas
  <2>5. Cardinality(Suyas(u, k)) = Cardinality(Suyas(t, k))
    <3> DEFINE S == Suyas(t, k)
    <3>1. IsFiniteSet(S)
      BY EntradasFinito DEF Suyas
    <3>2. CASE t[y].clave = k
      <4>1. Suyas(u, k) = (S \ {y}) \cup {x}
        <5>1. \A j \in Entradas : u[j].clave = k <=> (j # y /\ t[j].clave = k) \/ j = x
          <6> TAKE j \in Entradas
          <6>1. x # y
            BY <1>1
          <6> QED BY <1>2, <1>3, <3>2, <6>1
        <5> QED BY <5>1 DEF Suyas
      <4>2. y \in S /\ x \notin S
        BY <1>1, <3>2 DEF Suyas, Libre
      <4> HIDE DEF S
      <4>3. Cardinality((S \ {y}) \cup {x}) = Cardinality(S)
        BY <3>1, <4>2, CambiaUno
      <4> QED BY <4>1, <4>3 DEF S
    <3>3. CASE t[y].clave # k
      <4>1. t[x].clave # k
        BY <1>1 DEF Libre
      <4>2. \A j \in Entradas : u[j].clave = k <=> t[j].clave = k
        BY <1>2, <1>3, <3>3, <4>1
      <4> QED BY <4>2 DEF Suyas
    <3> QED BY <3>2, <3>3
  <2> QED BY <2>4, <2>5
<1>8. ColasLargas(u)
  <2> SUFFICES ASSUME NEW k \in Claves, NEW n \in Entradas, NEW j \in Entradas,
                      u[n].clave = k, u[j].clave = k, n < j
               PROVE  u[j].tamanio > TamanioEntradas
    BY DEF ColasLargas
  <2>1. /\ antes(n) \in Entradas /\ t[antes(n)].clave = k /\ (n < x \/ n = x \/ n > y)
        /\ antes(j) \in Entradas /\ t[antes(j)].clave = k /\ (j < x \/ j = x \/ j > y)
        /\ u[j] = t[antes(j)]
    BY <1>4
  <2>2. antes(n) < antes(j)
    BY <1>1, <2>1 DEF antes, Antes
  <2> QED BY <2>1, <2>2 DEF Ordenada, ColasLargas
<1> QED BY <1>6, <1>7, <1>8 DEF Ordenada


\* While a new value waits for its entries its key has none, and in LRU no
\* entry of a value of several entries has the age of one to replace.  A SET
\* of a key that is there fits in its entries.
Alta == pc = "guardarEnTabla" \/ (pc = "compactar" /\ pedido.op = "SET")
LargasSinEdad ==
  \A i \in Entradas : tabla[i].tamanio > TamanioEntradas => Libre(tabla, i) \/ tabla[i].age = -1
CabeAun ==
  pc \in {"mutex", "procesarHeader"} /\ pedido.op = "SET" /\ Suyas(tabla, pedido.clave) # {}
    => Paginas <= Cardinality(Suyas(tabla, pedido.clave))
EnSuLugar ==
  Promete =>
    /\ pc # "compactar" => Tramos(tabla)
    /\ pc = "compactar" =>
         Ordenada(tabla) /\ HuecoLibre(tabla, compactado.x, compactado.hueco)
    /\ Alta => Suyas(tabla, pedido.clave) = {}
    /\ Alta /\ algReemplazo = "LRU" => LargasSinEdad
    /\ CabeAun

\* When names are told apart, a lookup leads to the first entry of the key.
LEMMA Busca ==
  ASSUME SinMayusculas, TInv, NEW k \in Claves
  PROVE  /\ consultarTabla(k) = -1 <=> Suyas(tabla, k) = {}
         /\ consultarTabla(k) # -1 => EsPrimera(tabla, k, consultarTabla(k))
         /\ \A i \in Entradas : Igual(tabla[i].clave, k) <=> tabla[i].clave = k
<1>1. \A i \in Entradas : tabla[i].clave \in Claves \cup {vacio}
  BY Datos, EntradaTipo
<1>2. ~Igual(vacio, k)
  BY InstanciaAssumption DEF Igual
<1>3. \A i \in Entradas : Igual(tabla[i].clave, k) <=> tabla[i].clave = k
  BY <1>1, <1>2 DEF SinMayusculas, Igual
<1>4. consultarTabla(k) = Primera(Suyas(tabla, k))
  <2>1. {i \in Entradas : Igual(tabla[i].clave, k)} = Suyas(tabla, k)
    BY <1>3 DEF Suyas
  <2> QED BY <2>1 DEF consultarTabla
<1> DEFINE S == Suyas(tabla, k)
<1>5. S \in SUBSET Entradas /\ S \in SUBSET Nat /\ \A s \in S : s # -1
  <2>1. S \in SUBSET Entradas /\ Entradas \subseteq Nat /\ \A s \in Nat : s # -1
    BY EntradasFinito DEF Suyas
  <2> HIDE DEF S
  <2> QED BY <2>1
<1>6. S = {} => Primera(S) = -1
  BY DEF Primera
<1>7. S # {} => Primera(S) \in S /\ \A s \in S : Primera(S) <= s
  <2> HIDE DEF S
  <2> QED BY <1>5, MinEsta DEF Primera
<1>8. S # {} => EsPrimera(tabla, k, Primera(S))
  <2> SUFFICES ASSUME S # {} PROVE EsPrimera(tabla, k, Primera(S))
    OBVIOUS
  <2>1. Primera(S) \in Entradas /\ tabla[Primera(S)].clave = k
    BY <1>7 DEF Suyas
  <2>2. \A j \in Entradas : tabla[j].clave = k => Primera(S) <= j
    BY <1>7 DEF Suyas
  <2> HIDE DEF S
  <2> QED BY <2>1, <2>2 DEF EsPrimera
<1> HIDE DEF S
<1>9. consultarTabla(k) = Primera(S)
  BY <1>4 DEF S
<1> QED BY <1>3, <1>5, <1>6, <1>7, <1>8, <1>9 DEF S

\* The two algorithms look the key of a SET up with different bounds, and find
\* the same.
LEMMA Encuentra ==
  ASSUME SinMayusculas, TInv, Promete, Final, EnProceso("SET")
  PROVE  /\ pedido.clave \in Claves /\ Encontrada = consultarTabla(pedido.clave)
         /\ pedido \in Pedidos /\ pedido.op = "SET" /\ pc = "procesarHeader"
<1>1. pedido \in Pedidos /\ pedido.op = "SET" /\ pc = "procesarHeader"
  BY DEF TInv, Fase, EnProceso
<1>2. pedido.clave \in Claves
  BY <1>1, ValorTipo
<1>3. CASE algReemplazo = "LRU"
  BY <1>1, <1>2, <1>3 DEF Encontrada
<1>4. CASE algReemplazo # "LRU"
  <2>1. algReemplazo = "CIRC" /\ Atomicos
    BY <1>4, InstanciaAssumption DEF TInv, TypeOK, Promete
  <2>2. \A i \in Entradas : i >= comienzoDeEntradasLibres => tabla[i].clave = vacio
    BY <1>1, <2>1 DEF Final, LibresAlFinal
  <2>3. ~Igual(vacio, pedido.clave)
    BY <1>2, InstanciaAssumption DEF Igual
  <2>4. \A i \in Entradas : Igual(tabla[i].clave, pedido.clave) => i < comienzoDeEntradasLibres
    <3>1. \A i \in Entradas : i >= comienzoDeEntradasLibres \/ i < comienzoDeEntradasLibres
      BY Datos, EntradasFinito
    <3>2. \A i \in Entradas : tabla[i].clave = vacio => ~Igual(tabla[i].clave, pedido.clave)
      BY <2>3
    <3> QED BY <2>2, <3>1, <3>2
  <2>5. consultarTablaCIRC(pedido.clave) = consultarTabla(pedido.clave)
    <3>1. {i \in Entradas : i < comienzoDeEntradasLibres /\ Igual(tabla[i].clave, pedido.clave)}
            = {i \in Entradas : Igual(tabla[i].clave, pedido.clave)}
      BY <2>4
    <3> QED BY <3>1 DEF consultarTablaCIRC, consultarTabla
  <2> QED BY <1>1, <1>2, <1>4, <2>5 DEF Encontrada
<1> QED BY <1>3, <1>4

\* A known key keeps the entries its new value needs; no other key loses any.
LEMMA SobrescribeTramo ==
  ASSUME NEW t \in [Entradas -> Entrada], NEW n \in Entradas,
         pedido \in Pedidos, pedido.op = "SET", Tramo(t, pedido.clave, n),
         Paginas <= getCantPaginas(t[n].tamanio)
  PROVE  LET u == Sobrescribir(t, n)
         IN /\ Tramo(u, pedido.clave, n) /\ u[n].tamanio = Largo
            /\ \A c \in Claves \ {pedido.clave}, i \in Entradas :
                 /\ t[i].clave = c <=> u[i].clave = c
                 /\ t[i].clave = c => u[i].tamanio = t[i].tamanio
<1> DEFINE u == Sobrescribir(t, n)
           k == pedido.clave
           p == getCantPaginas(t[n].tamanio)
           g == Paginas
<1>1. k \in Claves /\ Largo \in Nat \ {0} /\ g = getCantPaginas(Largo)
  BY ValorTipo DEF Largo, Paginas
<1>2. g \in Nat \ {0}
  BY <1>1, PaginasTipo
<1>3. p \in Nat \ {0} /\ g <= p /\ n + p <= CantEntradas /\ CantEntradas \in Nat
      /\ n \in Nat /\ Entradas = 0..(CantEntradas - 1)
  BY TramoIntervalo, EntradasFinito DEF Tramo, Entradas
<1>4. \A i \in Entradas : t[i].clave = k <=> n <= i /\ i < n + p
  BY DEF Tramo
<1>5. \A i \in Entradas : n < i /\ i < n + p => t[i].tamanio > TamanioEntradas
  BY DEF Tramo
<1>6. u = [i \in Entradas |->
            IF i = n THEN [t[i] EXCEPT !.tamanio = Largo, !.age = IF algReemplazo = "LRU" THEN 0 ELSE @]
            ELSE IF i \in Corrida(t, n + g, k)
                 THEN [t[i] EXCEPT !.clave = vacio, !.age = IF algReemplazo = "LRU" THEN 0 ELSE @]
            ELSE t[i]]
  BY DEF Sobrescribir
<1> HIDE DEF u, k, p, g
<1>7. \A i \in Entradas : i \in Corrida(t, n + g, k) <=> n + g <= i /\ i < n + p
  <2> TAKE i \in Entradas
  <2>1. i \in Corrida(t, n + g, k) <=> n + g <= i /\ \A q \in (n + g)..i : t[q].clave = k
    BY DEF Corrida
  <2>2. ASSUME n + g <= i, \A q \in (n + g)..i : t[q].clave = k
        PROVE  i < n + p
    <3>1. i \in (n + g)..i
      BY <1>2, <1>3, <2>2
    <3> QED BY <1>4, <2>2, <3>1
  <2>3. ASSUME n + g <= i, i < n + p, NEW q \in (n + g)..i
        PROVE  t[q].clave = k
    <3>1. q \in Entradas /\ n <= q /\ q < n + p
      BY <1>2, <1>3, <2>3
    <3> QED BY <1>4, <3>1
  <2> QED BY <2>1, <2>2, <2>3
<1>8. ASSUME NEW i \in Entradas
      PROVE  /\ i = n => u[i].clave = t[i].clave /\ u[i].tamanio = Largo
             /\ i # n /\ n + g <= i /\ i < n + p => u[i].clave = vacio
             /\ i # n /\ ~(n + g <= i /\ i < n + p) => u[i] = t[i]
  <2>1. t[i] \in Entrada
    OBVIOUS
  <2>2. CASE i = n
    <3>1. u[i] = [t[i] EXCEPT !.tamanio = Largo, !.age = IF algReemplazo = "LRU" THEN 0 ELSE @]
      BY <1>6, <2>2
    <3> QED BY <2>1, <2>2, <3>1 DEF Entrada
  <2>3. CASE i # n /\ n + g <= i /\ i < n + p
    <3>1. u[i] = [t[i] EXCEPT !.clave = vacio, !.age = IF algReemplazo = "LRU" THEN 0 ELSE @]
      BY <1>6, <1>7, <2>3
    <3> QED BY <2>1, <2>3, <3>1 DEF Entrada
  <2>4. CASE i # n /\ ~(n + g <= i /\ i < n + p)
    BY <1>6, <1>7, <2>4
  <2> QED BY <2>2, <2>3, <2>4
<1>9. vacio \notin Claves
  BY InstanciaAssumption
<1>10. u[n].tamanio = Largo
  BY <1>8
<1>11. Tramo(u, k, n)
  <2>1. getCantPaginas(u[n].tamanio) = g /\ g # 0 /\ n + g <= CantEntradas
    BY <1>1, <1>2, <1>3, <1>10
  <2>2. \A i \in Entradas : u[i].clave = k <=> n <= i /\ i < n + g
    <3> TAKE i \in Entradas
    <3>1. i \in Int /\ k # vacio
      BY <1>1, <1>3, <1>9
    <3>2. CASE i = n
      BY <1>2, <1>3, <1>4, <1>8, <3>1, <3>2
    <3>3. CASE i # n /\ n + g <= i /\ i < n + p
      BY <1>2, <1>3, <1>8, <3>1, <3>3
    <3>4. CASE i # n /\ ~(n + g <= i /\ i < n + p)
      <4>1. u[i].clave = k <=> n <= i /\ i < n + p
        BY <1>4, <1>8, <3>4
      <4> QED BY <1>2, <1>3, <3>1, <3>4, <4>1
    <3> QED BY <3>2, <3>3, <3>4
  <2>3. \A i \in Entradas : n < i /\ i < n + g => u[i].tamanio > TamanioEntradas
    <3> TAKE i \in Entradas
    <3> HAVE n < i /\ i < n + g
    <3>1. i # n /\ ~(n + g <= i /\ i < n + p) /\ i < n + p
      BY <1>2, <1>3
    <3> QED BY <1>5, <1>8, <3>1
  <2> QED BY <2>1, <2>2, <2>3 DEF Tramo
<1>12. ASSUME NEW c \in Claves \ {k}, NEW i \in Entradas
       PROVE  /\ t[i].clave = c <=> u[i].clave = c
              /\ t[i].clave = c => u[i].tamanio = t[i].tamanio
  <2>1. n <= i /\ i < n + p => t[i].clave # c
    BY <1>4, <1>12
  <2>2. i = n => n <= i /\ i < n + p
    BY <1>3
  <2>3. n + g <= i /\ i < n + p => n <= i /\ i < n + p
    BY <1>2, <1>3
  <2> QED BY <1>8, <1>9, <1>12, <2>1, <2>2, <2>3
<1> QED BY <1>10, <1>11, <1>12 DEF u, k

\* A new value has the entries it is written to.
LEMMA EscribeTramo ==
  ASSUME NEW t \in [Entradas -> Entrada], NEW e \in Entradas,
         pedido \in Pedidos, pedido.op = "SET", e + Paginas <= CantEntradas,
         Suyas(t, pedido.clave) = {},
         NEW u, u = [i \in Entradas |-> IF i \in Hasta(e) THEN EntradaNueva ELSE t[i]]
  PROVE  /\ Tramo(u, pedido.clave, e) /\ u[e].tamanio = Largo
         /\ \A c \in Claves \ {pedido.clave}, i \in Entradas :
              /\ u[i].clave = c <=> t[i].clave = c /\ i \notin Hasta(e)
              /\ u[i].clave = c => u[i].tamanio = t[i].tamanio
<1> DEFINE k == pedido.clave
           g == Paginas
<1>1. k \in Claves /\ Largo \in Nat \ {0} /\ g = getCantPaginas(Largo)
  BY ValorTipo DEF Largo, Paginas
<1>2. g \in Nat \ {0} /\ (g # 1 => Largo > TamanioEntradas)
  BY <1>1, PaginasCuantas, EntradasFinito
<1>3. e \in Nat /\ Entradas \subseteq Nat /\ CantEntradas \in Nat
  BY EntradasFinito
<1>4. EntradaNueva.clave = k /\ EntradaNueva.tamanio = Largo
  BY DEF EntradaNueva
<1>5. \A i \in Entradas : i \in Hasta(e) <=> e <= i /\ i < e + g
  BY <1>2, <1>3 DEF Hasta
<1>6. \A i \in Entradas : t[i].clave # k
  BY DEF Suyas
<1> HIDE DEF k, g
<1>7. \A i \in Entradas : u[i] = IF i \in Hasta(e) THEN EntradaNueva ELSE t[i]
  OBVIOUS
<1>8. e \in Hasta(e) /\ u[e].tamanio = Largo
  BY <1>2, <1>3, <1>4, <1>5, <1>7
<1>9. Tramo(u, k, e)
  <2>1. getCantPaginas(u[e].tamanio) = g
    BY <1>1, <1>8
  <2>2. \A i \in Entradas : u[i].clave = k <=> e <= i /\ i < e + g
    BY <1>4, <1>5, <1>6, <1>7
  <2>3. \A i \in Entradas : e < i /\ i < e + g => u[i].tamanio > TamanioEntradas
    BY <1>2, <1>3, <1>4, <1>5, <1>7
  <2>4. e + g <= CantEntradas
    BY DEF g
  <2> QED BY <1>2, <2>1, <2>2, <2>3, <2>4 DEF Tramo
<1>10. \A c \in Claves \ {k}, i \in Entradas :
         /\ u[i].clave = c <=> t[i].clave = c /\ i \notin Hasta(e)
         /\ u[i].clave = c => u[i].tamanio = t[i].tamanio
  BY <1>4, <1>7
<1> QED BY <1>8, <1>9, <1>10 DEF k


\* What the steps that write the table do to it, key by key.
Igualito(t, u, c) ==
  \A i \in Entradas : /\ t[i].clave = c <=> u[i].clave = c
                      /\ t[i].clave = c => u[i].tamanio = t[i].tamanio

LEMMA ConsultadaIgual ==
  ASSUME TInv, pc = "procesarHeader", pedido.op = "SET"
  PROVE  /\ TablaConsultada \in [Entradas -> Entrada]
         /\ \A i \in Entradas : /\ TablaConsultada[i].clave = tabla[i].clave
                                /\ TablaConsultada[i].tamanio = tabla[i].tamanio
<1>1. \A i \in Entradas : Envejecida[i].tamanio = tabla[i].tamanio
  <2> TAKE i \in Entradas
  <2>1. PICK a : Envejecida[i] = [tabla[i] EXCEPT !.age = a]
    BY DEF Envejecida
  <2>2. tabla[i] \in Entrada
    BY Datos
  <2> QED BY <2>1, <2>2 DEF Entrada
<1>2. \A i \in Entradas : TablaConsultada[i].tamanio = tabla[i].tamanio
  BY <1>1 DEF TablaConsultada
<1> QED BY <1>2, EnvejecidaTipo

LEMMA TramoIgual ==
  ASSUME NEW t \in [Entradas -> Entrada], NEW u \in [Entradas -> Entrada], NEW c,
         Igualito(t, u, c), NEW n \in Entradas, Tramo(t, c, n)
  PROVE  Tramo(u, c, n) /\ u[n].tamanio = t[n].tamanio
<1>1. EsPrimera(t, c, n)
  BY TramoIntervalo
<1>2. n \in Suyas(t, c)
  BY <1>1 DEF EsPrimera, Suyas
<1>3. Tramo(u, c, n)
  BY <1>2, TramoSigue DEF Igualito
<1> QED BY <1>1, <1>3 DEF Igualito, EsPrimera

LEMMA ConoceEfecto ==
  ASSUME SinMayusculas, TInv, Final, EnSuLugar, Promete, SetConocida
  PROVE  LET k == pedido.clave
         IN /\ k \in Claves /\ pedido \in Pedidos /\ pedido.op = "SET" /\ pc = "procesarHeader"
            /\ \E n \in Entradas :
                 /\ consultarTabla(k) = n /\ mem' = guardarEnMem(n)
                 /\ Tramo(tabla, k, n) /\ Paginas <= getCantPaginas(tabla[n].tamanio)
                 /\ Tramo(tabla', k, n) /\ tabla'[n].tamanio = Largo
            /\ \A c \in Claves \ {k} : Igualito(tabla, tabla', c)
<1> DEFINE k == pedido.clave
           t == TablaConsultada
<1>1. EnProceso("SET") /\ Encontrada # -1
  BY DEF SetConocida
<1>2. k \in Claves /\ pedido \in Pedidos /\ pedido.op = "SET" /\ pc = "procesarHeader"
      /\ Encontrada = consultarTabla(k)
  BY <1>1, Encuentra
<1>3. EsPrimera(tabla, k, Encontrada) /\ Suyas(tabla, k) # {}
  BY <1>1, <1>2, Busca
<1>4. PICK n \in Entradas : Tramo(tabla, k, n)
  BY <1>2, <1>3 DEF EnSuLugar, Tramos
<1>5. tabla \in [Entradas -> Entrada] /\ tabla' \in [Entradas -> Entrada]
  <2>1. TInv'
    BY SetConocidaTipo
  <2> QED BY <2>1, Datos DEF TInv, TypeOK, Entrada
<1>6. EsPrimera(tabla, k, n) /\ Cardinality(Suyas(tabla, k)) = getCantPaginas(tabla[n].tamanio)
  BY <1>4, <1>5, TramoIntervalo
<1>7. Encontrada = n
  BY <1>3, <1>6, EntradasFinito DEF EsPrimera
<1>8. Paginas <= getCantPaginas(tabla[n].tamanio)
  BY <1>2, <1>3, <1>6 DEF EnSuLugar, CabeAun
<1>9. t \in [Entradas -> Entrada] /\ \A c : Igualito(tabla, t, c)
  BY <1>2, ConsultadaIgual DEF Igualito
<1>10. tabla' = Sobrescribir(t, n) /\ mem' = guardarEnMem(n)
  BY <1>7 DEF SetConocida
<1> HIDE DEF t
<1>11. Tramo(t, k, n) /\ t[n].tamanio = tabla[n].tamanio
  BY <1>4, <1>5, <1>9, TramoIgual
<1>12. Tramo(tabla', k, n) /\ tabla'[n].tamanio = Largo
  BY <1>2, <1>8, <1>9, <1>10, <1>11, SobrescribeTramo
<1>13. \A c \in Claves \ {k} : Igualito(t, tabla', c)
  BY <1>2, <1>8, <1>9, <1>10, <1>11, SobrescribeTramo DEF Igualito
<1>14. \A c \in Claves \ {k} : Igualito(tabla, tabla', c)
  BY <1>9, <1>13 DEF Igualito
<1> QED BY <1>2, <1>4, <1>7, <1>8, <1>10, <1>12, <1>14

\* guardarEnTabla finds room for the whole value, in entries of no value that
\* stays.
LEMMA EscribeEfecto ==
  ASSUME TInv, EnSuLugar, Promete, CircEscribe \/ LruEscribe
  PROVE  LET k == pedido.clave
         IN /\ k \in Claves /\ pedido \in Pedidos /\ pedido.op = "SET" /\ pc = "guardarEnTabla"
            /\ \E e \in Entradas :
                 /\ e + Paginas <= CantEntradas /\ mem' = guardarEnMem(e)
                 /\ Tramo(tabla', k, e) /\ tabla'[e].tamanio = Largo
            /\ \A c \in Claves \ {k} : Igualito(tabla, tabla', c) \/ Suyas(tabla', c) = {}
<1> DEFINE k == pedido.clave
<1>1. pc = "guardarEnTabla"
  BY DEF CircEscribe, LruEscribe
<1>2. pedido \in Pedidos /\ pedido.op = "SET" /\ Paginas \in Nat \ {0}
  BY <1>1, PaginasDelPedido
<1>3. k \in Claves /\ Largo \in Largos /\ Largo \in Nat
  BY <1>2, ValorTipo DEF Largo
<1>4. Suyas(tabla, k) = {} /\ Tramos(tabla)
  BY <1>1 DEF EnSuLugar, Alta
<1>5. tabla \in [Entradas -> Entrada] /\ Entradas \subseteq Nat /\ CantEntradas \in Nat
  BY Datos, EntradasFinito
<1>6. PICK e \in Entradas :
        /\ e + Paginas <= CantEntradas
        /\ tabla' = [i \in Entradas |-> IF i \in Hasta(e) THEN EntradaNueva ELSE tabla[i]]
        /\ mem' = guardarEnMem(e)
        /\ (Atomicos \/ \A q \in Hasta(e) : tabla[q].clave = vacio)
  <2>1. CASE CircEscribe
    <3>1. indexCircular \in Nat
      BY Datos
    <3>2. indexCircular \in Entradas
      BY <1>2, <1>5, <2>1, <3>1 DEF CircEscribe, Entradas
    <3>3. Atomicos
      BY <2>1 DEF CircEscribe, Promete
    <3> QED BY <2>1, <3>2, <3>3 DEF CircEscribe
  <2>2. CASE LruEscribe
    <3> DEFINE e == buscarEspacioLibre(Paginas)
    <3>1. e # -1
      BY <2>2 DEF LruEscribe, SinLugar
    <3>2. /\ e \in Entradas /\ e + Paginas <= CantEntradas
          /\ \A q \in e..(e + Paginas - 1) : tabla[q].clave = vacio
      BY <1>2, <3>1, EspacioLibre
    <3> QED BY <2>2, <3>2 DEF LruEscribe, Hasta
  <2> QED BY <2>1, <2>2
<1>7. /\ Tramo(tabla', k, e) /\ tabla'[e].tamanio = Largo
      /\ \A c \in Claves \ {k}, i \in Entradas :
           /\ tabla'[i].clave = c <=> tabla[i].clave = c /\ i \notin Hasta(e)
           /\ tabla'[i].clave = c => tabla'[i].tamanio = tabla[i].tamanio
  BY <1>2, <1>4, <1>5, <1>6, EscribeTramo
<1>8. ASSUME NEW c \in Claves \ {k}
      PROVE  Igualito(tabla, tabla', c) \/ Suyas(tabla', c) = {}
  <2>1. CASE \A q \in Entradas \cap Hasta(e) : tabla[q].clave # c
    <3>1. \A i \in Entradas : tabla'[i].clave = c <=> tabla[i].clave = c
      BY <1>7, <2>1
    <3>2. \A i \in Entradas : tabla[i].clave = c => tabla'[i].tamanio = tabla[i].tamanio
      BY <1>7, <3>1
    <3> QED BY <3>1, <3>2 DEF Igualito
  <2>2. CASE \E q \in Entradas \cap Hasta(e) : tabla[q].clave = c
    <3>1. PICK q \in Entradas : q \in Hasta(e) /\ tabla[q].clave = c
      BY <2>2
    <3>2. Atomicos
      BY <1>6, <3>1, InstanciaAssumption
    <3>3. Paginas = 1 /\ q = e
      <4>1. Largo # 0 /\ Largo <= TamanioEntradas
        BY <1>3, <3>2, InstanciaAssumption DEF Atomicos
      <4>2. Paginas = 1
        BY <1>3, <4>1, PaginasCuantas DEF Paginas
      <4>3. Hasta(e) = e..(e + 1 - 1)
        BY <4>2 DEF Hasta
      <4> QED BY <1>5, <3>1, <4>2, <4>3
    <3>4. PICK n \in Entradas : Tramo(tabla, c, n)
      BY <1>4, <3>1 DEF Tramos, Suyas
    <3>5. getCantPaginas(tabla[n].tamanio) = 1
      <4>1. tabla[n].tamanio \in Largos \cup {0} /\ tabla[n].tamanio \in Nat
        BY Datos, EntradaTipo DEF TypeOK
      <4>2. tabla[n].tamanio <= TamanioEntradas
        BY <3>2, <4>1, EntradasFinito DEF Atomicos
      <4>3. getCantPaginas(tabla[n].tamanio) # 0
        BY <3>4 DEF Tramo
      <4> QED BY <4>1, <4>2, <4>3, PaginasCuantas
    <3>6. \A i \in Entradas : tabla[i].clave = c => i = n
      <4>1. \A i \in Entradas : tabla[i].clave = c <=> n <= i /\ i < n + 1
        BY <3>4, <3>5 DEF Tramo
      <4> QED BY <1>5, <4>1
    <3>7. \A i \in Entradas : tabla'[i].clave # c
      BY <1>7, <3>1, <3>3, <3>6
    <3> QED BY <3>7 DEF Suyas
  <2> QED BY <2>1, <2>2
<1> QED BY <1>1, <1>2, <1>3, <1>6, <1>7, <1>8

\* LRU replaces whole values.
LEMMA DesalojaEfecto ==
  ASSUME TInv, EnSuLugar, Promete, LruDesaloja, NEW c \in Claves
  PROVE  Igualito(tabla, tabla', c) \/ Suyas(tabla', c) = {}
<1>1. /\ Tramos(tabla) /\ LargasSinEdad /\ laMasVieja \in Nat /\ vacio \notin Claves
      /\ tabla \in [Entradas -> Entrada] /\ Entradas \subseteq Nat
  BY Datos, EntradasFinito, InstanciaAssumption DEF LruDesaloja, EnSuLugar, Alta
<1>2. \A i \in Entradas : /\ tabla[i].age = laMasVieja => tabla'[i].clave = vacio
                          /\ tabla[i].age # laMasVieja => tabla'[i] = tabla[i]
  <2>1. \A i \in Entradas : tabla[i] \in Entrada
    BY <1>1
  <2> QED BY <2>1 DEF LruDesaloja, Entrada
<1>3. CASE \A i \in Entradas : tabla[i].clave = c => tabla[i].age # laMasVieja
  BY <1>1, <1>2, <1>3 DEF Igualito
<1>4. CASE \E i \in Entradas : tabla[i].clave = c /\ tabla[i].age = laMasVieja
  <2>1. PICK q \in Entradas : tabla[q].clave = c /\ tabla[q].age = laMasVieja
    BY <1>4
  <2>2. tabla[q].tamanio \in Nat /\ ~(tabla[q].tamanio > TamanioEntradas)
    <3>1. tabla[q].tamanio \in Nat
      BY Datos, EntradaTipo
    <3>2. tabla[q].tamanio > TamanioEntradas => tabla[q].clave = vacio \/ tabla[q].age = -1
      BY <1>1 DEF LargasSinEdad, Libre
    <3>3. c # vacio /\ laMasVieja # -1
      BY <1>1
    <3> QED BY <2>1, <3>1, <3>2, <3>3
  <2>3. PICK n \in Entradas : Tramo(tabla, c, n)
    BY <1>1, <2>1 DEF Tramos, Suyas
  <2>4. n <= q /\ q < n + getCantPaginas(tabla[n].tamanio)
    BY <2>1, <2>3 DEF Tramo
  <2>5. q = n
    BY <1>1, <2>2, <2>3, <2>4 DEF Tramo
  <2>6. getCantPaginas(tabla[n].tamanio) = 1
    <3>1. getCantPaginas(tabla[n].tamanio) # 0
      BY <2>3 DEF Tramo
    <3> QED BY <2>2, <2>5, <3>1, PaginasCuantas, EntradasFinito
  <2>7. \A i \in Entradas : tabla[i].clave = c => i = n
    <3>1. \A i \in Entradas : tabla[i].clave = c <=> n <= i /\ i < n + 1
      BY <2>3, <2>6 DEF Tramo
    <3> QED BY <1>1, <3>1
  <2>8. \A i \in Entradas : tabla'[i].clave # c
    BY <1>1, <1>2, <2>1, <2>5, <2>7
  <2> QED BY <2>8 DEF Suyas
<1> QED BY <1>3, <1>4


\* Each step leaves the values where they belong.  First, what follows when a
\* request is over.
LEMMA TerminaEnSuLugar ==
  ASSUME Tramos(tabla'), pc' \in {"recv", "caida"}
  PROVE  EnSuLugar'
BY DEF EnSuLugar, Alta, CabeAun

LEMMA TablasTipo ==
  ASSUME TInv, [Next]_vars
  PROVE  /\ tabla \in [Entradas -> Entrada] /\ tabla' \in [Entradas -> Entrada]
         /\ vacio \notin Claves
         /\ Entradas \subseteq Nat /\ CantEntradas \in Nat /\ Entradas = 0..(CantEntradas - 1)
<1>1. TInv'
  BY PasoTipo
<1> QED BY <1>1, EntradasFinito, InstanciaAssumption DEF TInv, TypeOK, Entrada, Entradas

LEMMA SetEnSuLugar ==
  ASSUME SinMayusculas, TInv, Final, EnSuLugar, Promete, [Next]_vars, SetConocida \/ SetNueva
  PROVE  EnSuLugar'
<1>1. tabla \in [Entradas -> Entrada] /\ tabla' \in [Entradas -> Entrada]
  BY TablasTipo
<1>2. CASE SetConocida
  <2>1. /\ \E n \in Entradas : Tramo(tabla', pedido.clave, n)
        /\ \A c \in Claves \ {pedido.clave} : Igualito(tabla, tabla', c)
        /\ Tramos(tabla)
    BY <1>2, ConoceEfecto DEF EnSuLugar
  <2>2. Tramos(tabla')
    BY <1>1, <2>1, TramosSiguen DEF Igualito
  <2>3. pc' = "recv"
    BY <1>2 DEF SetConocida, Terminar
  <2> QED BY <2>2, <2>3, TerminaEnSuLugar
<1>3. CASE SetNueva
  <2>1. EnProceso("SET") /\ Encontrada = -1 /\ tabla' = TablaConsultada /\ pc' = "guardarEnTabla"
        /\ UNCHANGED <<pedido, algReemplazo>>
    BY <1>3 DEF SetNueva, cuentas
  <2>2. pedido.clave \in Claves /\ pc = "procesarHeader" /\ pedido.op = "SET"
        /\ consultarTabla(pedido.clave) = -1
    BY <2>1, Encuentra
  <2>3. Suyas(tabla, pedido.clave) = {} /\ Tramos(tabla)
    BY <2>2, Busca DEF EnSuLugar
  <2>4. \A c : Igualito(tabla, tabla', c)
    BY <2>1, <2>2, ConsultadaIgual DEF Igualito
  <2>5. Tramos(tabla')
    BY <1>1, <2>3, <2>4, TramosSiguen DEF Igualito
  <2>6. Suyas(tabla', pedido.clave) = {}
    BY <2>3, <2>4 DEF Suyas, Igualito
  <2>7. ASSUME algReemplazo' = "LRU" PROVE LargasSinEdad'
    <3> SUFFICES ASSUME NEW i \in Entradas, tabla'[i].tamanio > TamanioEntradas
                 PROVE  tabla'[i].age = -1
      BY DEF LargasSinEdad
    <3>1. tabla' = Envejecida
      BY <2>1, <2>7 DEF TablaConsultada
    <3>2. tabla[i].tamanio > TamanioEntradas
      BY <2>1, <2>2, ConsultadaIgual
    <3>3. Envejecida[i] = [tabla[i] EXCEPT !.age = -1]
      BY <3>2 DEF Envejecida
    <3>4. tabla[i] \in Entrada
      BY <1>1
    <3> QED BY <3>1, <3>3, <3>4 DEF Entrada
  <2> QED BY <2>1, <2>5, <2>6, <2>7 DEF EnSuLugar, CabeAun
<1> QED BY <1>2, <1>3

LEMMA GuardarEnSuLugar ==
  ASSUME TInv, EnSuLugar, Promete, [Next]_vars, CircEscribe \/ LruEscribe \/ LruDesaloja
  PROVE  EnSuLugar'
<1>1. tabla \in [Entradas -> Entrada] /\ tabla' \in [Entradas -> Entrada] /\ Entradas \subseteq Nat
  BY TablasTipo
<1>2. pc = "guardarEnTabla" /\ Tramos(tabla)
  BY DEF CircEscribe, LruEscribe, LruDesaloja, EnSuLugar
<1>3. CASE CircEscribe \/ LruEscribe
  <2>1. /\ \E e \in Entradas : Tramo(tabla', pedido.clave, e)
        /\ \A c \in Claves \ {pedido.clave} : Igualito(tabla, tabla', c) \/ Suyas(tabla', c) = {}
    BY <1>3, EscribeEfecto
  <2>2. Tramos(tabla')
    BY <1>1, <1>2, <2>1, TramosSiguen DEF Igualito
  <2>3. pc' = "recv"
    BY <1>3 DEF CircEscribe, LruEscribe, Terminar
  <2> QED BY <2>2, <2>3, TerminaEnSuLugar
<1>4. CASE LruDesaloja
  <2>1. \A c \in Claves : Igualito(tabla, tabla', c) \/ Suyas(tabla', c) = {}
    BY <1>4, DesalojaEfecto
  <2>2. Tramos(tabla')
    BY <1>1, <1>2, <2>1, TramosSiguen DEF Igualito
  <2>3. pc' = "guardarEnTabla" /\ UNCHANGED <<pedido, algReemplazo>>
    BY <1>2, <1>4 DEF LruDesaloja, cuentas
  <2>4. Suyas(tabla, pedido.clave) = {} /\ (algReemplazo = "LRU" => LargasSinEdad)
    BY <1>2 DEF EnSuLugar, Alta
  <2>5. \A i \in Entradas : \/ tabla'[i].clave = vacio
                           \/ tabla'[i] = tabla[i]
    <3>1. \A i \in Entradas : tabla[i] \in Entrada
      BY <1>1
    <3> QED BY <1>4, <3>1 DEF LruDesaloja, Entrada
  <2>6. pedido.clave # vacio
    <3>1. pedido \in Pedidos /\ pedido.op = "SET"
      BY <1>2, PaginasDelPedido
    <3> QED BY <3>1, ValorTipo, InstanciaAssumption
  <2>7. Suyas(tabla', pedido.clave) = {}
    BY <2>4, <2>5, <2>6 DEF Suyas
  <2>8. algReemplazo = "LRU" => LargasSinEdad'
    BY <2>4, <2>5 DEF LargasSinEdad, Libre
  <2> QED BY <2>2, <2>3, <2>7, <2>8 DEF EnSuLugar, CabeAun
<1> QED BY <1>3, <1>4

\* compactar.
LEMMA EmpiezaEnSuLugar ==
  ASSUME TInv, EnSuLugar, Promete, [Next]_vars, EmpiezaACompactar \/ PideCompactar
  PROVE  EnSuLugar'
<1>1. tabla \in [Entradas -> Entrada]
  BY TablasTipo
<1>2. /\ tabla' = tabla /\ UNCHANGED <<pedido, algReemplazo>> /\ pc' = "compactar"
      /\ compactado' = SinCompactar /\ pc # "compactar"
      /\ pc = "guardarEnTabla" \/ pedido.op = "COMPACT"
  BY DEF EmpiezaACompactar, PideCompactar, datos, cuentas, EnProceso
<1>3. Tramos(tabla) /\ (pc = "guardarEnTabla" => /\ Suyas(tabla, pedido.clave) = {}
                                                 /\ algReemplazo = "LRU" => LargasSinEdad)
  BY <1>2 DEF EnSuLugar, Alta
<1>4. Ordenada(tabla)
  BY <1>1, <1>3, TramosOrdenada
<1>5. HuecoLibre(tabla, 0, 0)
  BY EntradasFinito DEF HuecoLibre
<1>6. Alta' => pc = "guardarEnTabla"
  BY <1>2 DEF Alta
<1>7. LargasSinEdad => LargasSinEdad'
  BY <1>2 DEF LargasSinEdad
<1> QED BY <1>2, <1>3, <1>4, <1>5, <1>6, <1>7 DEF EnSuLugar, CabeAun, SinCompactar

LEMMA BuscaHuecoEnSuLugar ==
  ASSUME TInv, EnSuLugar, Promete, [Next]_vars, BuscaHueco
  PROVE  EnSuLugar'
<1> DEFINE i == compactado.i
           h == Cardinality(Corrida(tabla, i, vacio))
<1>1. i \in Entradas /\ pc = "compactar"
  BY Datos, EntradasFinito DEF BuscaHueco, Entradas
<1>2. /\ UNCHANGED <<tabla, pedido, algReemplazo, pc>>
      /\ compactado' = IF tabla[i].clave = vacio THEN [i |-> i, x |-> i, hueco |-> h]
                       ELSE [i |-> i + 1, x |-> 0, hueco |-> 0]
  BY DEF BuscaHueco, datos, cuentas
<1>3. HuecoLibre(tabla, compactado'.x, compactado'.hueco)
  <2>1. CASE tabla[i].clave = vacio
    <3>1. \A q \in i..(i + h - 1) : tabla[q].clave = vacio
      BY <1>1, CorridaEsTramo
    <3>2. h \in Nat /\ i \in Nat /\ Entradas \subseteq Nat
      <4>1. h \in 0..(CantEntradas - i)
        BY <1>1, CorridaCorta
      <4>2. i \in Nat /\ Entradas \subseteq Nat /\ CantEntradas \in Nat
        BY <1>1, EntradasFinito
      <4> HIDE DEF i, h
      <4> QED BY <4>1, <4>2
    <3>3. compactado'.x = i /\ compactado'.hueco = h
      BY <1>2, <2>1
    <3> HIDE DEF i, h
    <3>4. \A j \in Entradas : i <= j /\ j < i + h => j \in i..(i + h - 1)
      BY <3>2
    <3> QED BY <3>1, <3>3, <3>4 DEF HuecoLibre, Libre
  <2>2. CASE tabla[i].clave # vacio
    <3>1. compactado'.x = 0 /\ compactado'.hueco = 0
      BY <1>2, <2>2
    <3> QED BY <3>1, EntradasFinito DEF HuecoLibre
  <2> QED BY <2>1, <2>2
<1>4. LargasSinEdad => LargasSinEdad'
  BY <1>2 DEF LargasSinEdad
<1> QED BY <1>1, <1>2, <1>3, <1>4 DEF EnSuLugar, CabeAun, Alta

\* One move, for any table.
LEMMA MueveEfecto ==
  ASSUME TInv, EnSuLugar, Promete, [Next]_vars, MueveEntrada
  PROVE  LET x == compactado.x
             h == compactado.hueco
             y == x + h
         IN /\ pc = "compactar" /\ Ordenada(tabla) /\ HuecoLibre(tabla, x, h)
            /\ x \in Nat /\ h \in Nat \ {0}
            /\ \/ /\ x \in Entradas /\ y \in Entradas /\ x < y
                  /\ \A j \in Entradas : x <= j /\ j < y => Libre(tabla, j)
                  /\ tabla' = [tabla EXCEPT ![x] = tabla[y], ![y] = EntradaVacia]
                  /\ mem' = Escribir(x * TamanioEntradas, Leer(y * TamanioEntradas, tabla[y].tamanio))
                  /\ \A j \in Entradas : tabla'[j] = IF j = y THEN EntradaVacia
                                                     ELSE IF j = x THEN tabla[y] ELSE tabla[j]
               \/ y >= CantEntradas /\ tabla' = tabla /\ mem' = mem
            /\ \/ compactado'.x = x + 1 /\ compactado'.hueco = h /\ compactado'.i = compactado.i
               \/ /\ x = compactado.i + h - 1
                  /\ compactado'.x = 0 /\ compactado'.hueco = 0
            /\ UNCHANGED <<pedido, algReemplazo, pc>>
<1> DEFINE x == compactado.x
           h == compactado.hueco
           y == x + h
<1>1. pc = "compactar" /\ UNCHANGED <<pedido, algReemplazo, pc>>
  BY DEF MueveEntrada, cuentas
<1>2. Ordenada(tabla) /\ HuecoLibre(tabla, x, h)
  BY <1>1 DEF EnSuLugar
<1>3. /\ x \in Nat /\ h \in Nat \ {0} /\ CantEntradas \in Nat
      /\ y < CantEntradas => x \in Entradas /\ y \in Entradas
  BY LugaresDeMover
<1>4. \/ compactado'.x = x + 1 /\ compactado'.hueco = h /\ compactado'.i = compactado.i
      \/ /\ x = compactado.i + h - 1
         /\ compactado'.x = 0 /\ compactado'.hueco = 0
  <2>1. compactado' = IF x = compactado.i + h - 1 THEN [i |-> compactado.i + 1, x |-> 0, hueco |-> 0]
                      ELSE [compactado EXCEPT !.x = x + 1]
    BY DEF MueveEntrada
  <2>2. compactado \in [i : 0..CantEntradas, x : 0..(2 * CantEntradas), hueco : 0..CantEntradas]
    BY Datos
  <2> QED BY <2>1, <2>2
<1>5. CASE y < CantEntradas
  <2>1. /\ tabla' = [tabla EXCEPT ![x] = tabla[y], ![y] = EntradaVacia]
        /\ mem' = Escribir(x * TamanioEntradas, Leer(y * TamanioEntradas, tabla[y].tamanio))
    BY <1>5 DEF MueveEntrada
  <2>2. x \in Entradas /\ y \in Entradas /\ x < y
    BY <1>3, <1>5
  <2>3. \A j \in Entradas : tabla'[j] = IF j = y THEN EntradaVacia
                                       ELSE IF j = x THEN tabla[y] ELSE tabla[j]
    <3>1. tabla \in [Entradas -> Entrada]
      BY Datos
    <3> HIDE DEF x, y
    <3> QED BY <2>1, <2>2, <3>1
  <2>4. \A j \in Entradas : x <= j /\ j < y => Libre(tabla, j)
    BY <1>2 DEF HuecoLibre
  <2> HIDE DEF x, y, h
  <2> QED BY <1>1, <1>2, <1>3, <1>4, <2>1, <2>2, <2>3, <2>4 DEF x, y, h
<1>6. CASE ~(y < CantEntradas)
  <2>1. y >= CantEntradas /\ tabla' = tabla /\ mem' = mem
    BY <1>3, <1>6 DEF MueveEntrada
  <2> QED BY <1>1, <1>2, <1>3, <1>4, <2>1
<1> QED BY <1>5, <1>6

LEMMA MueveEnSuLugar ==
  ASSUME TInv, EnSuLugar, Promete, [Next]_vars, MueveEntrada
  PROVE  EnSuLugar'
<1> DEFINE x == compactado.x
           h == compactado.hueco
           y == x + h
<1>1. /\ pc = "compactar" /\ Ordenada(tabla) /\ HuecoLibre(tabla, x, h)
      /\ x \in Nat /\ h \in Nat \ {0}
      /\ \/ /\ x \in Entradas /\ y \in Entradas /\ x < y
            /\ \A j \in Entradas : x <= j /\ j < y => Libre(tabla, j)
            /\ tabla' = [tabla EXCEPT ![x] = tabla[y], ![y] = EntradaVacia]
            /\ \A j \in Entradas : tabla'[j] = IF j = y THEN EntradaVacia
                                               ELSE IF j = x THEN tabla[y] ELSE tabla[j]
         \/ y >= CantEntradas /\ tabla' = tabla
      /\ \/ compactado'.x = x + 1 /\ compactado'.hueco = h
         \/ compactado'.x = 0 /\ compactado'.hueco = 0
      /\ UNCHANGED <<pedido, algReemplazo, pc>>
  BY MueveEfecto
<1> HIDE DEF x, h
<1>2. /\ tabla \in [Entradas -> Entrada] /\ vacio \notin Claves
      /\ Entradas \subseteq Nat /\ \A j \in Entradas : j < CantEntradas
      /\ CantEntradas \in Nat
  BY TablasTipo
<1>3. Ordenada(tabla')
  BY <1>1, <1>2, MueveOrdenada
<1>4. HuecoLibre(tabla', x + 1, h)
  <2> SUFFICES ASSUME NEW j \in Entradas, x + 1 <= j, j < x + 1 + h
               PROVE  tabla'[j].clave = vacio
    BY DEF HuecoLibre, Libre
  <2>1. j \in Nat /\ j # x /\ j <= y
    BY <1>1, <1>2
  <2>2. CASE j = y
    BY <1>1, <1>2, <2>1, <2>2 DEF EntradaVacia
  <2>3. CASE j # y
    <3>1. x <= j /\ j < x + h
      BY <1>1, <2>1, <2>3
    <3> QED BY <1>1, <2>1, <2>3, <3>1 DEF HuecoLibre, Libre
  <2> QED BY <2>2, <2>3
<1>5. HuecoLibre(tabla', 0, 0)
  BY <1>2 DEF HuecoLibre
<1>6. \A j \in Entradas : \/ tabla'[j] = EntradaVacia
                         \/ \E q \in Entradas : tabla'[j] = tabla[q]
  BY <1>1
<1>7. EntradaVacia.clave = vacio
  BY DEF EntradaVacia
<1>8. LargasSinEdad => LargasSinEdad'
  BY <1>6, <1>7, Zenon DEF LargasSinEdad, Libre
<1>9. ASSUME Alta' PROVE Suyas(tabla', pedido.clave) = {}
  <2>1. pedido.op = "SET" /\ pedido \in Pedidos
    BY <1>1, <1>9 DEF Alta, TInv, Fase
  <2>2. pedido.clave \in Claves /\ Suyas(tabla, pedido.clave) = {}
    BY <1>1, <2>1, ValorTipo DEF EnSuLugar, Alta
  <2> QED BY <1>2, <1>6, <1>7, <2>2 DEF Suyas
<1> QED BY <1>1, <1>3, <1>4, <1>5, <1>8, <1>9 DEF EnSuLugar, CabeAun, Alta

LEMMA TerminaDeCompactarEnSuLugar ==
  ASSUME TInv, Compactando, EnSuLugar, Promete, [Next]_vars, TerminaDeCompactar
  PROVE  EnSuLugar'
<1>1. /\ tabla' = tabla /\ algReemplazo' = algReemplazo
      /\ pc = "compactar" /\ compactado.i = CantEntradas
      /\ \/ pc' = "recv"
         \/ pc' = "guardarEnTabla" /\ pedido.op = "SET" /\ pedido' = pedido
  BY DEF TerminaDeCompactar, Terminar, datos, cuentas
<1>2. Ordenada(tabla) /\ tabla \in [Entradas -> Entrada] /\ vacio \notin Claves
  BY <1>1, TablasTipo DEF EnSuLugar
<1>3. \A j \in Entradas : Libre(tabla, j) => TodasLibres(tabla, j)
  BY <1>1, Junta
<1>4. Tramos(tabla')
  BY <1>1, <1>2, <1>3, OrdenadaTramos
<1>5. CASE pc' = "recv"
  BY <1>4, <1>5, TerminaEnSuLugar
<1>6. CASE pc' = "guardarEnTabla" /\ pedido.op = "SET" /\ pedido' = pedido
  <2>1. Suyas(tabla, pedido.clave) = {} /\ (algReemplazo = "LRU" => LargasSinEdad)
    BY <1>1, <1>6 DEF EnSuLugar, Alta
  <2>2. LargasSinEdad => LargasSinEdad'
    BY <1>1 DEF LargasSinEdad
  <2> QED BY <1>1, <1>4, <1>6, <2>1, <2>2 DEF EnSuLugar, CabeAun
<1> QED BY <1>1, <1>5, <1>6

LEMMA RecibeEnSuLugar ==
  ASSUME NadieCrece, TInv, EnSuLugar, Promete, NEW p \in Pedidos, Recibe(p)
  PROVE  EnSuLugar'
<1>1. /\ pc = "recv" /\ pc' = "mutex" /\ tabla' = tabla /\ pedido' = p
      /\ algReemplazo' = algReemplazo /\ (Crecen \/ Cabe(p))
  BY DEF Recibe, datos
<1>2. Tramos(tabla')
  BY <1>1 DEF EnSuLugar
<1>3. CabeAun'
  <2> SUFFICES ASSUME p.op = "SET", Suyas(tabla, p.clave) # {}
               PROVE  getCantPaginas(Len(p.valor)) <= Cardinality(Suyas(tabla, p.clave))
    BY <1>1 DEF CabeAun, Paginas, Largo
  <2>1. CASE Cabe(p)
    BY <2>1 DEF Cabe, Suyas
  <2>2. CASE Atomicos
    <3>1. Len(p.valor) \in Nat /\ Len(p.valor) # 0 /\ Len(p.valor) <= TamanioEntradas
      BY <2>2, ValorTipo DEF Atomicos
    <3>2. getCantPaginas(Len(p.valor)) = 1
      BY <3>1, PaginasCuantas
    <3>3. IsFiniteSet(Suyas(tabla, p.clave))
      BY EntradasFinito DEF Suyas
    <3>4. Cardinality(Suyas(tabla, p.clave)) # 0 /\ Cardinality(Suyas(tabla, p.clave)) \in Nat
      BY <3>3, FS_EmptySet, FS_CardinalityType
    <3> QED BY <3>2, <3>4
  <2> QED BY <1>1, <2>1, <2>2 DEF NadieCrece
<1> QED BY <1>1, <1>2, <1>3 DEF EnSuLugar, Alta

LEMMA QuietoEnSuLugar ==
  ASSUME TInv, EnSuLugar, Promete,
         \/ CircSaltea \/ CircVuelve \/ Get \/ StoreReemplazada \/ storeKey \/ Status \/ TomaMutex
         \/ Reinicia \/ DumpEmpieza \/ PasoDump \/ UNCHANGED vars
  PROVE  EnSuLugar'
<1>1. tabla' = tabla /\ algReemplazo' = algReemplazo
  BY DEF CircSaltea, CircVuelve, Get, StoreReemplazada, storeKey, Status, TomaMutex, Reinicia,
     DumpEmpieza, PasoDump, DumpSaltea, DumpCopia, DumpTermina, vars, datos, cuentas
<1>2. CASE Get \/ StoreReemplazada \/ storeKey \/ Status \/ Reinicia
  <2>1. pc' = "recv" /\ pc # "compactar"
    BY <1>2 DEF Get, StoreReemplazada, storeKey, Status, Reinicia, Terminar, EnProceso
  <2> QED BY <1>1, <2>1, TerminaEnSuLugar DEF EnSuLugar
<1>3. CASE \/ CircSaltea \/ CircVuelve \/ TomaMutex \/ DumpEmpieza \/ PasoDump \/ UNCHANGED vars
  <2>1. pedido' = pedido /\ compactado' = compactado
        /\ (pc' = pc \/ (pc = "mutex" /\ pc' = "procesarHeader"))
    BY <1>3 DEF CircSaltea, CircVuelve, TomaMutex,
       DumpEmpieza, PasoDump, DumpSaltea, DumpCopia, DumpTermina, vars
  <2>2. LargasSinEdad => LargasSinEdad'
    BY <1>1 DEF LargasSinEdad
  <2>3. CabeAun'
    BY <1>1, <2>1 DEF EnSuLugar, CabeAun, Paginas, Largo
  <2> QED BY <1>1, <2>1, <2>2, <2>3 DEF EnSuLugar, Alta
<1> QED BY <1>2, <1>3

LEMMA MorirEnSuLugar ==
  ASSUME Morir
  PROVE  EnSuLugar'
<1>1. pc' = "caida" /\ \A i \in Entradas : tabla'[i].clave = vacio
  BY DEF Morir, TablaVacia, EntradaVacia
<1>2. Tramos(tabla')
  BY <1>1, InstanciaAssumption DEF Tramos, Suyas
<1> QED BY <1>1, <1>2, TerminaEnSuLugar

LEMMA EnSuLugarPaso ==
  ASSUME SinMayusculas, NadieCrece
  PROVE  TInv /\ Compactando /\ Final /\ EnSuLugar /\ [Next]_vars => EnSuLugar'
<1> SUFFICES ASSUME TInv, Compactando, Final, EnSuLugar, [Next]_vars, Promete'
             PROVE  EnSuLugar'
  BY DEF EnSuLugar
<1>0. Promete
  <2>1. algReemplazo' = algReemplazo
    BY DEF Next, Recibe, TomaMutex, PasoMain, SetConocida, SetNueva, CircEscribe, CircSaltea,
       EmpiezaACompactar, CircVuelve, LruEscribe, LruDesaloja, PideCompactar, BuscaHueco,
       MueveEntrada, TerminaDeCompactar, Get, StoreReemplazada, storeKey, Status, DumpEmpieza,
       PasoDump, DumpSaltea, DumpCopia, DumpTermina, MuereSinArchivo, Cae, Morir, Reinicia, vars,
       cuentas
  <2> QED BY <2>1 DEF Promete, Atomicos
<1>1. ASSUME NEW p \in Pedidos, Recibe(p) PROVE EnSuLugar'
  BY <1>0, <1>1, RecibeEnSuLugar
<1>2. CASE SetConocida \/ SetNueva
  BY <1>0, <1>2, SetEnSuLugar
<1>3. CASE CircEscribe \/ LruEscribe \/ LruDesaloja
  BY <1>0, <1>3, GuardarEnSuLugar
<1>4. CASE EmpiezaACompactar \/ PideCompactar
  BY <1>0, <1>4, EmpiezaEnSuLugar
<1>5. CASE BuscaHueco
  BY <1>0, <1>5, BuscaHuecoEnSuLugar
<1>6. CASE MueveEntrada
  BY <1>0, <1>6, MueveEnSuLugar
<1>7. CASE TerminaDeCompactar
  BY <1>0, <1>7, TerminaDeCompactarEnSuLugar
<1>8. CASE \/ CircSaltea \/ CircVuelve \/ Get \/ StoreReemplazada \/ storeKey \/ Status \/ TomaMutex
           \/ Reinicia \/ DumpEmpieza \/ PasoDump \/ UNCHANGED vars
  BY <1>0, <1>8, QuietoEnSuLugar
<1>9. CASE Morir
  BY <1>9, MorirEnSuLugar
<1> QED BY <1>1, <1>2, <1>3, <1>4, <1>5, <1>6, <1>7, <1>8, <1>9
    DEF Next, PasoMain, MuereSinArchivo, Cae

\* The invariant the rest of this module needs of the table, and that it is one.
Asentada == TInv /\ Compactando /\ Final /\ EnSuLugar

LEMMA AsentadaEmpieza == Init => Asentada
<1> SUFFICES ASSUME Init PROVE Asentada
  OBVIOUS
<1>1. \A i \in Entradas : tabla[i].clave = vacio
  BY DEF Init, TablaVacia, EntradaVacia
<1>2. EnSuLugar
  BY <1>1, InstanciaAssumption DEF Init, EnSuLugar, Tramos, Suyas, Alta, CabeAun
<1>3. Compactando /\ Final
  BY <1>1 DEF Init, Compactando, Final, LibresAlFinal
<1> QED BY <1>2, <1>3, InitTipo DEF Asentada

LEMMA AsentadaSigue ==
  ASSUME SinMayusculas, NadieCrece
  PROVE  Asentada /\ [Next]_vars => Asentada'
<1>1. Asentada /\ [Next]_vars => TInv' /\ Compactando' /\ Final'
  BY PasoTipo, CompactandoPaso, FinalPaso DEF Asentada
<1>2. Asentada /\ [Next]_vars => EnSuLugar'
  BY EnSuLugarPaso DEF Asentada
<1> QED BY <1>1, <1>2 DEF Asentada

LEMMA UnaVez ==
  ASSUME SinMayusculas, Asentada
  PROVE  UnaVezEnLaTabla
<1> SUFFICES ASSUME pc # "compactar", algReemplazo = "LRU", NEW k \in Claves,
                    consultarTabla(k) # -1
             PROVE  LET n == consultarTabla(k)
                    IN {i \in Entradas : tabla[i].clave = k}
                         = n..(n + getCantPaginas(tabla[n].tamanio) - 1)
  BY DEF UnaVezEnLaTabla
<1>1. Tramos(tabla) /\ TInv /\ tabla \in [Entradas -> Entrada]
  BY Datos DEF Asentada, EnSuLugar, Promete
<1>2. EsPrimera(tabla, k, consultarTabla(k)) /\ Suyas(tabla, k) # {}
  BY <1>1, Busca
<1>3. PICK n \in Entradas : Tramo(tabla, k, n)
  BY <1>1, <1>2 DEF Tramos
<1>4. /\ EsPrimera(tabla, k, n)
      /\ Suyas(tabla, k) = n..(n + getCantPaginas(tabla[n].tamanio) - 1)
  BY <1>1, <1>3, TramoIntervalo
<1>5. consultarTabla(k) = n
  <2> DEFINE m == consultarTabla(k)
  <2>1. EsPrimera(tabla, k, m)
    BY <1>2
  <2> HIDE DEF m
  <2>2. m = n
    BY <1>4, <2>1, EntradasFinito DEF EsPrimera
  <2> QED BY <2>2 DEF m
<1> QED BY <1>4, <1>5 DEF Suyas

\* In LRU every value stands in one piece in exactly the entries it needs, at
\* every step but those of compactar: for tables, values and holes of any size,
\* whatever was replaced or compacted before.
THEOREM EntradasDeCadaClave ==
  ASSUME SinMayusculas, NadieCrece
  PROVE  Spec => []UnaVezEnLaTabla
<1>1. Init => Asentada
  BY AsentadaEmpieza
<1>2. Asentada /\ [Next]_vars => Asentada'
  BY AsentadaSigue
<1>3. Asentada => UnaVezEnLaTabla
  BY UnaVez
<1> QED BY <1>1, <1>2, <1>3, PTL DEF Spec

-----------------------------------------------------------------------------
(* The bytes of a value.  A value that fills its last entry is followed by *)
(* a '\0' in the next, and one of three entries is torn by compactar       *)
(* (README.md, section 5): what follows is about shorter ones.             *)

DosEntradas == \A n \in Largos : n # TamanioEntradas /\ n < 2 * TamanioEntradas

\* The n bytes that memory m has from p on.
BytesDe(m, p, n) == [j \in 1..n |-> IF p + j - 1 \in Bytes THEN m[p + j - 1] ELSE Nulo]

LEMMA Comas ==
  ASSUME NEW a \in Nat, NEW b \in Nat
  PROVE  /\ a * TamanioEntradas \in Nat
         /\ a < b => a * TamanioEntradas + TamanioEntradas <= b * TamanioEntradas
         /\ a <= b => a * TamanioEntradas <= b * TamanioEntradas
         /\ (a + b) * TamanioEntradas = a * TamanioEntradas + b * TamanioEntradas
<1> DEFINE T == TamanioEntradas
<1>1. T \in Nat \ {0}
  BY EntradasFinito
<1> HIDE DEF T
<1>2. a * T \in Nat /\ b * T \in Nat
  BY <1>1
<1>3. \A c \in Nat : (a + c) * T = a * T + c * T /\ c * T \in Nat
  BY <1>1
<1>4. ASSUME a < b PROVE a * T + T <= b * T
  <2>1. PICK c \in Nat : b = (a + 1) + c
    <3>1. b - (a + 1) \in Nat /\ b = (a + 1) + (b - (a + 1))
      BY <1>4
    <3> QED BY <3>1
  <2>2. b * T = (a * T + 1 * T) + c * T /\ c * T \in Nat
    BY <1>1, <2>1
  <2> QED BY <1>1, <1>2, <2>2
<1>5. ASSUME a <= b PROVE a * T <= b * T
  <2>1. a = b \/ a < b
    BY <1>5
  <2> QED BY <1>1, <1>2, <1>4, <2>1
<1> QED BY <1>2, <1>3, <1>4, <1>5 DEF T

\* A value fits in its entries with its '\0'.
LEMMA CabeConSuNulo ==
  ASSUME DosEntradas, NEW l \in Largos
  PROVE  /\ l \in Nat \ {0}
         /\ getCantPaginas(l) \in {1, 2}
         /\ getCantPaginas(l) = 1 <=> l < TamanioEntradas
         /\ l < getCantPaginas(l) * TamanioEntradas
<1>1. l \in Nat \ {0} /\ l # TamanioEntradas /\ l < 2 * TamanioEntradas
      /\ TamanioEntradas \in Nat \ {0}
  BY InstanciaAssumption, EntradasFinito DEF DosEntradas
<1> DEFINE g == getCantPaginas(l)
<1>2. g \in Nat /\ g # 0 /\ (g = 1 <=> l <= TamanioEntradas) /\ g <= 2
  BY <1>1, PaginasCuantas
<1> HIDE DEF g
<1>3. g \in {1, 2}
  BY <1>2
<1>4. l < g * TamanioEntradas
  BY <1>1, <1>2, <1>3
<1> QED BY <1>1, <1>2, <1>3, <1>4 DEF g

LEMMA BytesTipo ==
  ASSUME NEW m \in [Bytes -> Byte], NEW p \in Int, NEW n \in Nat
  PROVE  BytesDe(m, p, n) \in Seq(Byte) /\ BytesDe(m, p, n) # Ausente
<1>1. \A j \in 1..n : (IF p + j - 1 \in Bytes THEN m[p + j - 1] ELSE Nulo) \in Byte
  BY DEF Byte
<1>2. BytesDe(m, p, n) \in Seq(Byte)
  BY <1>1 DEF BytesDe
<1> QED BY <1>2, InstanciaAssumption DEF Byte

LEMMA TamanioTipo ==
  ASSUME NEW t \in [Entradas -> Entrada], NEW n \in Entradas
  PROVE  t[n].tamanio \in Nat /\ t[n].tamanio \in Largos \cup {0}
<1>1. t[n] \in Entrada /\ Largos \cup {0} \subseteq Nat
  BY InstanciaAssumption
<1> QED BY <1>1 DEF Entrada

\* What STATUS, STORE and the dump read: before a step and after it.
LEMMA PrimeraEs ==
  ASSUME SinMayusculas, NEW t \in [Entradas -> Entrada], NEW k \in Claves
  PROVE  LET P == Primera({i \in Entradas : Igual(t[i].clave, k)})
         IN /\ Suyas(t, k) = {} => P = -1
            /\ \A n : EsPrimera(t, k, n) => P = n
<1>1. \A i \in Entradas : t[i].clave \in Claves \cup {vacio}
  BY DEF Entrada
<1>2. ~Igual(vacio, k)
  BY InstanciaAssumption DEF Igual
<1>3. \A i \in Entradas : Igual(t[i].clave, k) <=> t[i].clave = k
  BY <1>1, <1>2 DEF SinMayusculas, Igual
<1> DEFINE S == Suyas(t, k)
<1>4. {i \in Entradas : Igual(t[i].clave, k)} = S
  BY <1>3 DEF Suyas
<1>5. S \in SUBSET Nat
  BY EntradasFinito DEF Suyas
<1>6. ASSUME NEW n, EsPrimera(t, k, n) PROVE n \in S /\ \A s \in S : n <= s
  BY <1>6 DEF Suyas, EsPrimera
<1> HIDE DEF S
<1>7. S = {} => Primera(S) = -1
  BY DEF Primera
<1>8. ASSUME NEW n, EsPrimera(t, k, n) PROVE Primera(S) = n
  <2>1. n \in S /\ \A s \in S : n <= s
    BY <1>6, <1>8
  <2>2. Min(S) \in S /\ \A s \in S : Min(S) <= s
    BY <1>5, <2>1, MinEsta
  <2>3. Min(S) = n
    <3> DEFINE m == Min(S)
    <3>1. m \in S /\ m <= n /\ n <= m
      BY <2>1, <2>2
    <3> HIDE DEF m
    <3>2. m \in Nat /\ n \in Nat
      BY <1>5, <2>1, <3>1
    <3>3. m = n
      BY <3>1, <3>2
    <3> QED BY <3>3 DEF m
  <2> QED BY <2>1, <2>3 DEF Primera
<1> QED BY <1>4, <1>7, <1>8 DEF S

LEMMA ValorAntes ==
  ASSUME SinMayusculas, tabla \in [Entradas -> Entrada], mem \in [Bytes -> Byte], NEW k \in Claves
  PROVE  /\ Suyas(tabla, k) = {} <=> get_value(k) = Ausente
         /\ \A n : EsPrimera(tabla, k, n) =>
              get_value(k) = BytesDe(mem, n * TamanioEntradas, tabla[n].tamanio)
<1>1. Suyas(tabla, k) = {} => consultarTabla(k) = -1
  BY PrimeraEs DEF consultarTabla
<1>2. \A n : EsPrimera(tabla, k, n) => consultarTabla(k) = n
  BY PrimeraEs DEF consultarTabla
<1>3. Suyas(tabla, k) = {} => get_value(k) = Ausente
  BY <1>1 DEF get_value
<1>4. ASSUME NEW n, EsPrimera(tabla, k, n)
      PROVE  /\ get_value(k) = BytesDe(mem, n * TamanioEntradas, tabla[n].tamanio)
             /\ get_value(k) # Ausente
  <2>1. n \in Entradas /\ n \in Nat /\ n # -1 /\ tabla[n].tamanio \in Nat
        /\ n * TamanioEntradas \in Int
    <3>1. n \in Entradas /\ n \in Nat
      BY <1>4, EntradasFinito DEF EsPrimera
    <3>2. tabla[n].tamanio \in Nat
      BY <3>1, TamanioTipo
    <3>3. n * TamanioEntradas \in Nat
      BY <3>1, Comas
    <3> QED BY <3>1, <3>2, <3>3
  <2>2. get_value(k) = BytesDe(mem, n * TamanioEntradas, tabla[n].tamanio)
    BY <1>2, <1>4, <2>1 DEF get_value, Leer, BytesDe
  <2> QED BY <2>1, <2>2, BytesTipo
<1>5. Suyas(tabla, k) # {} => \E n \in Entradas : EsPrimera(tabla, k, n)
  BY PrimeraHay
<1> QED BY <1>3, <1>4, <1>5

LEMMA ValorDespues ==
  ASSUME SinMayusculas, tabla' \in [Entradas -> Entrada], mem' \in [Bytes -> Byte],
         NEW k \in Claves
  PROVE  /\ Suyas(tabla', k) = {} <=> get_value(k)' = Ausente
         /\ \A n : EsPrimera(tabla', k, n) =>
              get_value(k)' = BytesDe(mem', n * TamanioEntradas, tabla'[n].tamanio)
<1>1. Suyas(tabla', k) = {} => consultarTabla(k)' = -1
  BY PrimeraEs DEF consultarTabla
<1>2. \A n : EsPrimera(tabla', k, n) => consultarTabla(k)' = n
  BY PrimeraEs DEF consultarTabla
<1>3. Suyas(tabla', k) = {} => get_value(k)' = Ausente
  BY <1>1 DEF get_value
<1>4. ASSUME NEW n, EsPrimera(tabla', k, n)
      PROVE  /\ get_value(k)' = BytesDe(mem', n * TamanioEntradas, tabla'[n].tamanio)
             /\ get_value(k)' # Ausente
  <2>1. n \in Entradas /\ n \in Nat /\ n # -1 /\ tabla'[n].tamanio \in Nat
        /\ n * TamanioEntradas \in Int
    <3>1. n \in Entradas /\ n \in Nat
      BY <1>4, EntradasFinito DEF EsPrimera
    <3>2. tabla'[n].tamanio \in Nat
      BY <3>1, TamanioTipo
    <3>3. n * TamanioEntradas \in Nat
      BY <3>1, Comas
    <3> QED BY <3>1, <3>2, <3>3
  <2>2. get_value(k)' = BytesDe(mem', n * TamanioEntradas, tabla'[n].tamanio)
    BY <1>2, <1>4, <2>1 DEF get_value, Leer, BytesDe
  <2> QED BY <2>1, <2>2, BytesTipo
<1>5. Suyas(tabla', k) # {} => \E n \in Entradas : EsPrimera(tabla', k, n)
  BY PrimeraHay
<1> QED BY <1>3, <1>4, <1>5

\* The entry y of table t has moved to x, and nothing else.
Movida(t, u, x, y) ==
  /\ x \in Entradas /\ y \in Entradas /\ x < y
  /\ \A j \in Entradas : x <= j /\ j < y => Libre(t, j)
  /\ u = [t EXCEPT ![x] = t[y], ![y] = EntradaVacia]

LEMMA MueveDonde ==
  ASSUME NEW t \in [Entradas -> Entrada], NEW u, NEW x, NEW y, Movida(t, u, x, y),
         NEW k \in Claves, NEW j \in Suyas(u, k)
  PROVE  /\ Antes(x, y, j) \in Suyas(t, k)
         /\ u[j] = t[Antes(x, y, j)] /\ (j < x \/ j = x \/ j > y)
<1>1. vacio \notin Claves
  BY InstanciaAssumption
<1> QED BY <1>1, MueveLugares DEF Suyas, Movida

LEMMA MueveAdonde ==
  ASSUME NEW t \in [Entradas -> Entrada], NEW u, NEW x, NEW y, Movida(t, u, x, y),
         NEW k \in Claves, NEW j \in Suyas(t, k)
  PROVE  /\ j # y => u[j] = t[j] /\ (j < x \/ j > y)
         /\ j = y => u[x] = t[j]
<1>1. vacio \notin Claves
  BY InstanciaAssumption
<1> QED BY <1>1, MueveLugares DEF Suyas, Movida

\* compactar copies the length of the whole value with each of its two entries:
\* the entry after the first holds a copy of the second wherever that is, and
\* no entry in use lies between the two.
Hueco(c) == {j \in Entradas : c.hueco # 0 /\ c.x <= j /\ j < c.x + c.hueco}
SombraDe(t, m, c) ==
  \A k \in Claves : \A n, r \in Entradas : EsPrimera(t, k, n) /\ t[r].clave = k /\ n < r =>
    /\ \A b \in Nat : b < t[n].tamanio - TamanioEntradas =>
         m[(n + 1) * TamanioEntradas + b] = m[r * TamanioEntradas + b]
    /\ \A j \in Entradas : n < j /\ j < r => t[j].tamanio = 0 \/ j \in Hueco(c)
VaciadasDe(t, c) ==
  \A j \in Entradas : c.hueco # 0 /\ c.i + c.hueco <= j /\ j < c.x + c.hueco => t[j].tamanio = 0
Entera ==
  Promete /\ pc = "compactar" => SombraDe(tabla, mem, compactado) /\ VaciadasDe(tabla, compactado)

LEMMA EnPagina ==
  ASSUME NEW n \in Entradas, NEW b \in Nat, b < TamanioEntradas
  PROVE  /\ n * TamanioEntradas + b \in Bytes
         /\ \A a \in Nat : /\ n < a => n * TamanioEntradas + b < a * TamanioEntradas
                           /\ a <= n => a * TamanioEntradas <= n * TamanioEntradas + b
<1> DEFINE T == TamanioEntradas
<1>1. n \in Nat /\ n < CantEntradas /\ CantEntradas \in Nat /\ T \in Nat \ {0}
  BY EntradasFinito DEF Entradas
<1>2. n * T \in Nat /\ CantEntradas * T \in Nat /\ n * T + T <= CantEntradas * T
  BY <1>1, Comas
<1>3. \A a \in Nat : /\ a * T \in Nat /\ n < a => n * T + T <= a * T
                     /\ a <= n => a * T <= n * T
  BY <1>1, Comas
<1> DEFINE N == n * T
           C == CantEntradas * T
<1>4. N + b \in Bytes
  <2>1. Bytes = 0..(C - 1)
    BY DEF Bytes
  <2>2. N \in Nat /\ C \in Nat /\ N + T <= C
    BY <1>2
  <2> HIDE DEF N, C
  <2> QED BY <1>1, <2>1, <2>2
<1>5. ASSUME NEW a \in Nat
      PROVE  (n < a => N + b < a * T) /\ (a <= n => a * T <= N + b)
  <2> DEFINE A == a * T
  <2>1. A \in Nat /\ N \in Nat /\ (n < a => N + T <= A) /\ (a <= n => A <= N)
    <3>1. N \in Nat
      BY <1>2
    <3>2. A \in Nat
      BY <1>1
    <3> QED BY <1>3, <3>1, <3>2
  <2> HIDE DEF A, N
  <2>2. (n < a => N + b < A) /\ (a <= n => A <= N + b)
    BY <1>1, <2>1
  <2> QED BY <2>2 DEF A
<1> QED BY <1>4, <1>5

LEMMA EscribirEfecto ==
  ASSUME TypeOK, NEW p \in Nat, NEW bytes \in Seq(Byte), mem' = Escribir(p, bytes)
  PROVE  \A q \in Bytes :
           /\ q < p \/ q >= p + Len(bytes) => mem'[q] = mem[q]
           /\ p <= q /\ q < p + Len(bytes) => mem'[q] = bytes[q - p + 1]
<1> SUFFICES ASSUME NEW q \in Bytes
             PROVE  /\ q < p \/ q >= p + Len(bytes) => mem'[q] = mem[q]
                    /\ p <= q /\ q < p + Len(bytes) => mem'[q] = bytes[q - p + 1]
  OBVIOUS
<1>1. q \in Int /\ Len(bytes) \in Nat
  BY DEF Bytes
<1>2. mem'[q] = IF q \in p..(p + Len(bytes) - 1) THEN bytes[q - p + 1] ELSE mem[q]
  BY DEF Escribir
<1>3. q \in p..(p + Len(bytes) - 1) <=> p <= q /\ q < p + Len(bytes)
  BY <1>1
<1> QED BY <1>1, <1>2, <1>3

\* One move writes as many bytes as the value is long, from entry x on.
LEMMA MueveBytes ==
  ASSUME TypeOK, NEW x \in Entradas, NEW y \in Entradas, NEW l \in Nat,
         x < y, l < 2 * TamanioEntradas,
         mem' = Escribir(x * TamanioEntradas, Leer(y * TamanioEntradas, l))
  PROVE  /\ l = 0 => \A q \in Bytes : mem'[q] = mem[q]
         /\ \A j \in Entradas, b \in Nat :
              b < TamanioEntradas /\ (j < x \/ j > x + 1) =>
                mem'[j * TamanioEntradas + b] = mem[j * TamanioEntradas + b]
         /\ \A b \in Nat :
              b < l /\ y * TamanioEntradas + b \in Bytes =>
                mem'[x * TamanioEntradas + b] = mem[y * TamanioEntradas + b]
<1> DEFINE T == TamanioEntradas
           X == x * T
           Y == y * T
<1>1. x \in Nat /\ y \in Nat /\ CantEntradas \in Nat /\ T \in Nat \ {0}
  BY EntradasFinito
<1>2. X \in Nat /\ Y \in Nat /\ X < Y
  <2>1. X \in Nat /\ Y \in Nat /\ X + T <= Y
    BY <1>1, Comas
  <2> HIDE DEF X, Y
  <2> QED BY <1>1, <2>1
<1>3. Leer(Y, l) \in Seq(Byte) /\ Len(Leer(Y, l)) = l
  BY <1>2, LeerTipo
<1>4. \A q \in Bytes : /\ q < X \/ q >= X + l => mem'[q] = mem[q]
                       /\ X <= q /\ q < X + l => mem'[q] = Leer(Y, l)[q - X + 1]
  BY <1>2, <1>3, EscribirEfecto
<1>5. ASSUME l = 0, NEW q \in Bytes PROVE mem'[q] = mem[q]
  <2>1. q \in Int
    BY DEF Bytes
  <2> HIDE DEF X
  <2> QED BY <1>2, <1>4, <1>5, <2>1
<1>6. ASSUME NEW j \in Entradas, NEW b \in Nat, b < T, j < x \/ j > x + 1
      PROVE  mem'[j * T + b] = mem[j * T + b]
  <2> DEFINE q == j * T + b
  <2>1. q \in Bytes /\ q \in Int
    BY <1>6, EnPagina DEF Bytes
  <2>2. j < x => q < X
    BY <1>1, <1>6, EnPagina
  <2>3. ASSUME j > x + 1 PROVE q >= X + l
    <3>1. j \in Nat /\ x + 2 <= j /\ x + 2 \in Nat
      BY <1>1, <2>3, EntradasFinito
    <3>2. (x + 2) * T <= q
      BY <1>6, <3>1, EnPagina
    <3>3. (x + 2) * T = X + 2 * T
      BY <1>1, Comas
    <3> HIDE DEF q, X
    <3> QED BY <1>1, <1>2, <2>1, <3>2, <3>3
  <2> HIDE DEF q, X
  <2>4. mem'[q] = mem[q]
    BY <1>4, <1>6, <2>1, <2>2, <2>3
  <2> QED BY <2>4 DEF q
<1>7. ASSUME NEW b \in Nat, b < l, Y + b \in Bytes
      PROVE  mem'[X + b] = mem[Y + b]
  <2>1. X + b \in Bytes
    <3>1. Bytes = 0..(CantEntradas * T - 1) /\ CantEntradas * T \in Nat
      BY <1>1, Comas DEF Bytes
    <3> HIDE DEF X, Y
    <3> QED BY <1>2, <1>7, <3>1
  <2>2. b + 1 \in 1..l /\ Y + (b + 1) - 1 = Y + b /\ (X + b) - X + 1 = b + 1
        /\ X <= X + b /\ X + b < X + l
    <3> HIDE DEF X, Y
    <3> QED BY <1>2, <1>7
  <2>3. Leer(Y, l)[b + 1] = mem[Y + b]
    <3> HIDE DEF X, Y
    <3> QED BY <1>7, <2>2 DEF Leer
  <2>4. mem'[X + b] = Leer(Y, l)[(X + b) - X + 1]
    <3> HIDE DEF X, Y
    <3> QED BY <1>4, <2>1, <2>2
  <2> QED BY <2>2, <2>3, <2>4
<1> QED BY <1>5, <1>6, <1>7

\* What one move does to the memory, page by page.
LEMMA MuevePaginas ==
  ASSUME DosEntradas, TypeOK, NEW x, NEW y, Movida(tabla, tabla', x, y),
         mem' = Escribir(x * TamanioEntradas, Leer(y * TamanioEntradas, tabla[y].tamanio))
  PROVE  LET w == tabla[y].tamanio
         IN /\ w \in Nat /\ w < 2 * TamanioEntradas
            /\ w = 0 => \A q \in Bytes : mem'[q] = mem[q]
            /\ \A j \in Entradas, b \in Nat :
                 b < TamanioEntradas /\ (j < x \/ j > x + 1) =>
                   mem'[j * TamanioEntradas + b] = mem[j * TamanioEntradas + b]
            /\ \A b \in Nat :
                 b < w /\ y * TamanioEntradas + b \in Bytes =>
                   mem'[x * TamanioEntradas + b] = mem[y * TamanioEntradas + b]
<1>1. x \in Entradas /\ y \in Entradas /\ x < y /\ tabla \in [Entradas -> Entrada]
      /\ TamanioEntradas \in Nat \ {0}
  BY EntradasFinito DEF Movida, TypeOK, Entrada
<1>2. tabla[y].tamanio \in Nat /\ tabla[y].tamanio < 2 * TamanioEntradas
  BY <1>1, TamanioTipo DEF DosEntradas
<1> QED BY <1>1, <1>2, MueveBytes

\* The first entry of a key, now at n, was at a.
LEMMA MueveCabeza ==
  ASSUME DosEntradas, TypeOK, NEW x, NEW y, Movida(tabla, tabla', x, y),
         mem' = Escribir(x * TamanioEntradas, Leer(y * TamanioEntradas, tabla[y].tamanio)),
         NEW k \in Claves, NEW n \in Entradas, EsPrimera(tabla', k, n), NEW a, a = Antes(x, y, n)
  PROVE  /\ a \in Entradas /\ EsPrimera(tabla, k, a) /\ tabla'[n] = tabla[a]
         /\ tabla[a].tamanio \in Nat /\ tabla[a].tamanio < 2 * TamanioEntradas
         /\ (n < x \/ n = x \/ n > y)
         /\ \A b \in Nat : b < TamanioEntradas /\ b < tabla[a].tamanio =>
              mem'[n * TamanioEntradas + b] = mem[a * TamanioEntradas + b]
<1> DEFINE T == TamanioEntradas
           l == tabla[a].tamanio
           w == tabla[y].tamanio
<1>1. /\ Entradas \subseteq Nat /\ T \in Nat \ {0} /\ tabla \in [Entradas -> Entrada]
      /\ vacio \notin Claves /\ x \in Entradas /\ y \in Entradas /\ x < y
  BY EntradasFinito, InstanciaAssumption DEF TypeOK, Entrada, Movida
<1>2. /\ a \in Entradas /\ (n < x \/ n = x \/ n > y)
      /\ EsPrimera(tabla, k, a) /\ tabla'[n] = tabla[a]
  <2>1. n \in Suyas(tabla', k)
    BY DEF EsPrimera, Suyas
  <2>2. EsPrimera(tabla, k, a)
    BY <1>1, MuevePrimera DEF Movida
  <2>3. a \in Suyas(tabla, k) /\ (n < x \/ n = x \/ n > y) /\ tabla'[n] = tabla[a]
    BY <1>1, <2>1, MueveDonde
  <2> QED BY <2>2, <2>3 DEF Suyas
<1>3. l \in Nat /\ l < 2 * T
  BY <1>1, <1>2, TamanioTipo DEF DosEntradas
<1>4. /\ \A j \in Entradas, b \in Nat : b < T /\ (j < x \/ j > x + 1) => mem'[j * T + b] = mem[j * T + b]
      /\ \A b \in Nat : b < w /\ y * T + b \in Bytes => mem'[x * T + b] = mem[y * T + b]
  BY MuevePaginas
<1>5. \A j \in Entradas, b \in Nat : b < T => j * T + b \in Bytes
  BY EnPagina
<1> HIDE DEF T, l, w
<1>6. ASSUME NEW b \in Nat, b < T, b < l
      PROVE  mem'[n * T + b] = mem[a * T + b]
  <2>1. CASE n = x
    <3>1. a = y /\ l = w
      BY <2>1 DEF Antes, l, w
    <3> QED BY <1>1, <1>4, <1>5, <1>6, <2>1, <3>1
  <2>2. CASE n # x
    <3>1. a = n /\ (n < x \/ n > x + 1)
      BY <1>1, <1>2, <2>2 DEF Antes
    <3> QED BY <1>4, <1>6, <3>1
  <2> QED BY <2>1, <2>2
<1> QED BY <1>2, <1>3, <1>6 DEF T, l

\* Its other entry, now at r, was at s; and the entry after its first.
LEMMA MueveCola ==
  ASSUME DosEntradas, TypeOK, NEW x, NEW y, Movida(tabla, tabla', x, y),
         mem' = Escribir(x * TamanioEntradas, Leer(y * TamanioEntradas, tabla[y].tamanio)),
         NEW c, SombraDe(tabla, mem, c), y \notin Hueco(c), ColasLargas(tabla),
         NEW k \in Claves, NEW n \in Entradas, EsPrimera(tabla', k, n), NEW a, a = Antes(x, y, n),
         NEW r \in Suyas(tabla', k), n < r, NEW s, s = Antes(x, y, r)
  PROVE  /\ s \in Suyas(tabla, k) /\ a < s
         /\ \A b \in Nat : b < tabla[a].tamanio - TamanioEntradas =>
              /\ b < TamanioEntradas
              /\ mem'[(n + 1) * TamanioEntradas + b] = mem[(a + 1) * TamanioEntradas + b]
              /\ mem'[r * TamanioEntradas + b] = mem[s * TamanioEntradas + b]
<1> DEFINE T == TamanioEntradas
           l == tabla[a].tamanio
           w == tabla[y].tamanio
<1>1. /\ Entradas \subseteq Nat /\ T \in Nat \ {0} /\ tabla \in [Entradas -> Entrada]
      /\ CantEntradas \in Nat /\ Entradas = 0..(CantEntradas - 1)
      /\ vacio \notin Claves /\ x \in Entradas /\ y \in Entradas /\ x < y
      /\ \A j \in Entradas : x <= j /\ j < y => Libre(tabla, j)
      /\ r \in Entradas
  BY EntradasFinito, InstanciaAssumption DEF TypeOK, Entrada, Entradas, Movida, Suyas
<1>2. /\ a \in Entradas /\ tabla[a].clave = k /\ (n < x \/ n = x \/ n > y)
      /\ EsPrimera(tabla, k, a) /\ l \in Nat /\ l < 2 * T
  BY MueveCabeza DEF EsPrimera
<1>3. w \in Nat /\ w < 2 * T
  BY MuevePaginas
<1>4. /\ w = 0 => \A q \in Bytes : mem'[q] = mem[q]
      /\ \A j \in Entradas, b \in Nat : b < T /\ (j < x \/ j > x + 1) => mem'[j * T + b] = mem[j * T + b]
      /\ \A b \in Nat : b < w /\ y * T + b \in Bytes => mem'[x * T + b] = mem[y * T + b]
  BY MuevePaginas
<1>5. \A j \in Entradas, b \in Nat : b < T => j * T + b \in Bytes
  BY EnPagina
<1> HIDE DEF T, l, w
<1>6. s \in Entradas /\ tabla[s].clave = k /\ (r < x \/ r = x \/ r > y)
  BY <1>1, MueveDonde DEF Suyas
<1>7. a < s
  BY <1>1, <1>2, <1>6 DEF Antes
<1>8. tabla[s].tamanio > T
  BY <1>2, <1>6, <1>7 DEF ColasLargas, T
<1>9. ASSUME NEW b \in Nat, b < l - T
      PROVE  /\ b < T /\ mem'[r * T + b] = mem[s * T + b]
  <2>1. b < T
    BY <1>1, <1>2, <1>9
  <2>2. CASE r = x
    <3>1. s = y /\ b < w
      BY <1>1, <1>3, <1>8, <2>1, <2>2 DEF Antes, w
    <3> QED BY <1>1, <1>4, <1>5, <2>1, <2>2, <3>1
  <2>3. CASE r # x
    <3>1. s = r /\ (r < x \/ r > x + 1)
      BY <1>1, <1>6, <2>3 DEF Antes
    <3> QED BY <1>1, <1>4, <2>1, <3>1
  <2> QED BY <2>1, <2>2, <2>3
<1>10. ASSUME NEW b \in Nat, b < l - T
      PROVE  mem'[(n + 1) * T + b] = mem[(a + 1) * T + b]
  <2>0. b < T /\ T + b \in Nat
    BY <1>1, <1>9, <1>10
  <2>1. n + 1 \in Entradas /\ a + 1 \in Entradas /\ n \in Nat /\ a \in Nat /\ x \in Nat /\ y \in Nat
    BY <1>1, <1>2, <1>6, <1>7
  <2>2. \A j \in Nat : (j + 1) * T + b = j * T + (T + b)
    <3> TAKE j \in Nat
    <3>1. (j + 1) * T = j * T + 1 * T /\ j * T \in Nat
      BY Comas DEF T
    <3> QED BY <1>1, <3>1
  <2>3. (a + 1) * T + b \in Bytes
    BY <1>5, <2>0, <2>1
  <2>4. CASE n = x
    <3>1. a = y /\ l = w
      BY <2>4 DEF Antes, l, w
    <3>2. mem'[x * T + (T + b)] = mem[y * T + (T + b)]
      <4>1. T + b < w /\ y * T + (T + b) \in Bytes
        BY <1>1, <1>3, <1>10, <2>0, <2>1, <2>2, <2>3, <3>1
      <4> QED BY <1>4, <2>0, <4>1
    <3> QED BY <2>1, <2>2, <2>4, <3>1, <3>2
  <2>5. CASE n # x /\ n + 1 # x
    <3>1. a = n /\ (n + 1 < x \/ n + 1 > x + 1)
      BY <1>1, <1>2, <2>1, <2>5 DEF Antes
    <3> QED BY <1>4, <2>0, <2>1, <3>1
  <2>6. CASE n + 1 = x
    <3>1. a = n
      BY <2>1, <2>6 DEF Antes
    <3>2. CASE s = y
      <4>1. mem[(a + 1) * T + b] = mem[y * T + b]
        BY <1>2, <1>6, <1>7, <1>10, <3>2 DEF SombraDe, l, T
      <4>2. b < w /\ y * T + b \in Bytes
        BY <1>1, <1>3, <1>5, <1>8, <2>0, <3>2 DEF w
      <4> QED BY <1>4, <2>6, <3>1, <4>1, <4>2
    <3>3. CASE s # y
      <4>1. s > y /\ a < y
        <5>1. s >= x
          BY <1>1, <1>6, <1>7, <2>1, <2>6, <3>1
        <5>2. ~(s < y)
          BY <1>1, <1>6, <5>1 DEF Libre
        <5> QED BY <1>1, <1>6, <2>1, <2>6, <3>1, <3>3, <5>2
      <4>2. w = 0
        BY <1>1, <1>2, <1>6, <1>7, <4>1 DEF SombraDe, w
      <4> QED BY <1>4, <2>3, <3>1, <4>2
    <3> QED BY <3>2, <3>3
  <2> QED BY <2>4, <2>5, <2>6
<1> QED BY <1>6, <1>7, <1>9, <1>10 DEF Suyas, T, l

\* What lies between the two entries of a key, after the move.
LEMMA MueveEntre ==
  ASSUME TypeOK, NEW x, NEW y, Movida(tabla, tabla', x, y), NEW h \in Nat \ {0}, y = x + h,
         NEW c, c.x = x, c.hueco = h, VaciadasDe(tabla, c), NEW d,
         \/ d.x = x + 1 /\ d.hueco = h
         \/ d.hueco = 0 /\ x = c.i + h - 1 /\ c.i \in Nat,
         SombraDe(tabla, mem, c),
         NEW k \in Claves, NEW n \in Entradas, EsPrimera(tabla', k, n),
         NEW r \in Suyas(tabla', k), NEW j \in Entradas, n < j, j < r
  PROVE  tabla'[j].tamanio = 0 \/ j \in Hueco(d)
<1>1. /\ Entradas \subseteq Nat /\ tabla \in [Entradas -> Entrada] /\ x < y
      /\ x \in Nat /\ y \in Nat /\ n \in Nat /\ r \in Nat /\ j \in Nat
      /\ x \in Entradas /\ y \in Entradas /\ r \in Entradas /\ vacio \notin Claves
  <2>1. Entradas \subseteq Nat /\ tabla \in [Entradas -> Entrada] /\ vacio \notin Claves
    BY EntradasFinito, InstanciaAssumption DEF TypeOK, Entrada
  <2>2. x \in Entradas /\ y \in Entradas /\ r \in Entradas /\ x < y
    BY DEF Movida, Suyas
  <2> QED BY <2>1, <2>2
<1> DEFINE a == Antes(x, y, n)
           s == Antes(x, y, r)
<1>2. EsPrimera(tabla, k, a)
  BY <1>1, MuevePrimera DEF Movida
<1>3. /\ tabla'[j] = IF j = y THEN EntradaVacia ELSE IF j = x THEN tabla[y] ELSE tabla[j]
      /\ a \in Entradas /\ (n < x \/ n = x \/ n > y)
      /\ s \in Entradas /\ tabla[s].clave = k /\ (r < x \/ r = x \/ r > y)
  <2>1. n \in Suyas(tabla', k)
    BY DEF EsPrimera, Suyas
  <2>2. a \in Suyas(tabla, k) /\ (n < x \/ n = x \/ n > y)
    BY <1>1, <2>1, MueveDonde
  <2>4. s \in Suyas(tabla, k) /\ (r < x \/ r = x \/ r > y)
    BY <1>1, MueveDonde
  <2>5. tabla'[j] = IF j = y THEN EntradaVacia ELSE IF j = x THEN tabla[y] ELSE tabla[j]
    BY <1>1, MueveLugares DEF Movida
  <2> QED BY <2>2, <2>4, <2>5 DEF Suyas
<1>4. a \in Nat /\ s \in Nat /\ a < s /\ (j < x \/ j > y => a < j /\ j < s)
  BY <1>1, <1>3 DEF Antes
<1>5. a < s => \A q \in Entradas : a < q /\ q < s => tabla[q].tamanio = 0 \/ q \in Hueco(c)
  BY <1>2, <1>3 DEF SombraDe
<1>6. \A q \in Entradas : q \in Hueco(c) <=> x <= q /\ q < y
  BY DEF Hueco
<1> HIDE DEF a
<1>7. CASE j = y
  BY <1>3, <1>7 DEF EntradaVacia
<1>8. CASE j = x
  <2>1. n < x /\ r > y
    BY <1>1, <1>3, <1>8
  <2>2. a < y /\ y < s
    BY <1>1, <2>1 DEF a, Antes
  <2>3. tabla[y].tamanio = 0
    BY <1>1, <1>4, <1>5, <1>6, <2>2
  <2> QED BY <1>1, <1>3, <1>8, <2>3
<1>9. CASE x < j /\ j < y
  <2>1. CASE d.x = x + 1 /\ d.hueco = h
    BY <1>1, <1>9, <2>1 DEF Hueco
  <2>2. CASE x = c.i + h - 1 /\ c.i \in Nat
    <3>1. c.i + c.hueco <= j /\ j < c.x + c.hueco /\ c.hueco # 0
      BY <1>1, <1>9, <2>2
    <3>2. tabla[j].tamanio = 0
      BY <3>1 DEF VaciadasDe
    <3> QED BY <1>1, <1>3, <1>9, <3>2
  <2> QED BY <2>1, <2>2
<1>10. CASE j < x \/ j > y
  <2>1. tabla[j].tamanio = 0
    BY <1>1, <1>4, <1>5, <1>6, <1>10
  <2> QED BY <1>1, <1>3, <1>10, <2>1
<1> QED BY <1>1, <1>7, <1>8, <1>9, <1>10

\* A value of two entries has a second one, and its bytes end before its third.
LEMMA DosTieneOtra ==
  ASSUME DosEntradas, TypeOK, Ordenada(tabla), NEW k \in Claves, NEW n \in Entradas,
         EsPrimera(tabla, k, n), tabla[n].tamanio >= TamanioEntradas
  PROVE  \E r \in Entradas : tabla[r].clave = k /\ n < r
<1>1. tabla \in [Entradas -> Entrada] /\ Entradas \subseteq Nat /\ TamanioEntradas \in Nat \ {0}
  BY EntradasFinito DEF TypeOK, Entrada
<1>2. tabla[n].tamanio \in Largos
  BY <1>1, TamanioTipo
<1>3. getCantPaginas(tabla[n].tamanio) = 2
  BY <1>1, <1>2, CabeConSuNulo
<1>4. Cardinality(Suyas(tabla, k)) = 2
  BY <1>3 DEF Ordenada, PaginasJustas
<1>5. Suyas(tabla, k) # {n}
  BY <1>4, FS_Singleton
<1>6. n \in Suyas(tabla, k)
  BY DEF EsPrimera, Suyas
<1>7. PICK r \in Suyas(tabla, k) : r # n
  BY <1>5, <1>6
<1>8. r \in Entradas /\ tabla[r].clave = k /\ n <= r
  BY DEF Suyas, EsPrimera
<1> QED BY <1>1, <1>7, <1>8

\* compactar carries every value along: at each of its steps it is where a
\* lookup of its key leads.
LEMMA MueveValor ==
  ASSUME SinMayusculas, DosEntradas, TypeOK, TypeOK', Ordenada(tabla),
         NEW x, NEW y, Movida(tabla, tabla', x, y),
         mem' = Escribir(x * TamanioEntradas, Leer(y * TamanioEntradas, tabla[y].tamanio)),
         NEW c, SombraDe(tabla, mem, c), y \notin Hueco(c), NEW k \in Claves
  PROVE  get_value(k)' = get_value(k)
<1> DEFINE T == TamanioEntradas
<1>1. /\ tabla \in [Entradas -> Entrada] /\ mem \in [Bytes -> Byte]
      /\ tabla' \in [Entradas -> Entrada] /\ mem' \in [Bytes -> Byte]
      /\ vacio \notin Claves /\ x \in Entradas /\ y \in Entradas /\ x < y
      /\ Entradas \subseteq Nat /\ T \in Nat \ {0}
  BY EntradasFinito, InstanciaAssumption DEF TypeOK, Entrada, Byte, Movida
<1>2. CASE Suyas(tabla', k) = {}
  <2>1. Suyas(tabla, k) = {}
    <3> SUFFICES ASSUME NEW j \in Entradas, tabla[j].clave = k PROVE FALSE
      BY DEF Suyas
    <3>1. /\ j # y => tabla'[j] = tabla[j]
          /\ j = y => tabla'[x] = tabla[j]
      <4>1. j \in Suyas(tabla, k)
        BY DEF Suyas
      <4> QED BY <1>1, <4>1, MueveAdonde
    <3> QED BY <1>1, <1>2, <3>1 DEF Suyas
  <2> QED BY <1>1, <1>2, <2>1, ValorAntes, ValorDespues
<1>3. CASE Suyas(tabla', k) # {}
  <2>1. PICK n \in Entradas : EsPrimera(tabla', k, n)
    BY <1>3, PrimeraHay
  <2> DEFINE a == Antes(x, y, n)
             l == tabla[a].tamanio
  <2>2. /\ EsPrimera(tabla, k, a) /\ a \in Entradas /\ tabla'[n] = tabla[a]
        /\ l \in Nat /\ l < 2 * T
        /\ \A b \in Nat : b < T /\ b < l => mem'[n * T + b] = mem[a * T + b]
    BY <2>1, MueveCabeza
  <2>3. n \in Nat /\ a \in Nat /\ n * T \in Nat /\ a * T \in Nat
    <3>1. n \in Nat /\ a \in Nat
      BY <1>1, <2>2
    <3> HIDE DEF a
    <3> QED BY <3>1, Comas
  <2>4. /\ get_value(k) = BytesDe(mem, a * T, l)
        /\ get_value(k)' = BytesDe(mem', n * T, l)
    <3>1. get_value(k) = BytesDe(mem, a * T, l)
      BY <1>1, <2>2, ValorAntes
    <3>2. get_value(k)' = BytesDe(mem', n * T, tabla'[n].tamanio)
      BY <1>1, <2>1, ValorDespues
    <3> QED BY <2>2, <3>1, <3>2
  <2>5. l \in Nat /\ l < 2 * T
    BY <2>2
  <2>6. \A r \in Entradas : tabla'[r].clave = k /\ n < r =>
          \A b \in Nat : b < l - T => mem'[(n + 1) * T + b] = mem[(a + 1) * T + b]
    <3> SUFFICES ASSUME NEW r \in Entradas, tabla'[r].clave = k, n < r
                 PROVE  \A b \in Nat : b < l - T => mem'[(n + 1) * T + b] = mem[(a + 1) * T + b]
      OBVIOUS
    <3>1. r \in Suyas(tabla', k) /\ ColasLargas(tabla)
      BY DEF Suyas, Ordenada
    <3> QED BY <2>1, <3>1, MueveCola
  <2>7. l >= T => \E r \in Entradas : tabla'[r].clave = k /\ n < r
    <3> SUFFICES ASSUME l >= T PROVE \E r \in Entradas : tabla'[r].clave = k /\ n < r
      OBVIOUS
    <3>1. PICK r \in Entradas : tabla[r].clave = k /\ a < r
      BY <2>2, DosTieneOtra
    <3>2. /\ r # y => tabla'[r] = tabla[r] /\ (r < x \/ r > y)
          /\ r = y => tabla'[x] = tabla[r]
      <4>1. r \in Suyas(tabla, k)
        BY <3>1 DEF Suyas
      <4> QED BY <1>1, <4>1, MueveAdonde
    <3>3. CASE r # y
      <4>1. n < r
        BY <1>1, <2>3, <3>1, <3>2, <3>3 DEF Antes
      <4> QED BY <3>1, <3>2, <3>3, <4>1
    <3>4. CASE r = y
      <4>1. tabla'[x].clave = k
        BY <3>1, <3>2, <3>4
      <4>2. n <= x
        BY <1>1, <2>1, <4>1 DEF EsPrimera
      <4>3. n # x
        BY <2>3, <3>1, <3>4, <1>1 DEF Antes
      <4>4. x \in Entradas /\ n < x
        BY <1>1, <4>2, <4>3
      <4> QED BY <4>1, <4>4
    <3> QED BY <3>3, <3>4
  <2> HIDE DEF a, l, T
  <2>8. ASSUME NEW b \in 0..(l - 1)
        PROVE  /\ n * T + b \in Bytes /\ a * T + b \in Bytes
               /\ mem'[n * T + b] = mem[a * T + b]
    <3>1. b \in Nat /\ b < l
      BY <2>5, <2>8
    <3>2. CASE b < T
      BY <2>1, <2>2, <3>1, <3>2, EnPagina DEF T
    <3>3. CASE b >= T
      <4>1. PICK u \in Nat : b = T + u
        <5>1. b - T \in Nat /\ b = T + (b - T)
          BY <1>1, <3>1, <3>3 DEF T
        <5> QED BY <5>1
      <4>2. u < T /\ u < l - T
        BY <1>1, <2>5, <3>1, <4>1 DEF T
      <4>3. l >= T
        BY <1>1, <2>5, <3>1, <3>3 DEF T
      <4>4. PICK r \in Entradas : tabla'[r].clave = k /\ n < r
        BY <2>7, <4>3
      <4>5. mem'[(n + 1) * T + u] = mem[(a + 1) * T + u]
        BY <2>6, <4>2, <4>4
      <4>6. PICK s \in Entradas : tabla[s].clave = k /\ a < s
        BY <2>2, <4>3, DosTieneOtra DEF l, T
      <4>7. n + 1 \in Entradas /\ a + 1 \in Entradas
        BY <2>3, <4>4, <4>6, EntradasFinito DEF Entradas
      <4>8. (n + 1) * T + u \in Bytes /\ (a + 1) * T + u \in Bytes
        BY <4>2, <4>7, EnPagina DEF T
      <4>9. \A j \in Nat : j * T \in Nat => (j + 1) * T + u = j * T + (T + u)
        <5> TAKE j \in Nat
        <5> HAVE j * T \in Nat
        <5>1. (j + 1) * T = j * T + 1 * T
          BY Comas DEF T
        <5>2. T \in Nat
          BY <1>1 DEF T
        <5> QED BY <5>1, <5>2
      <4>10. n * T + (T + u) = (n + 1) * T + u /\ a * T + (T + u) = (a + 1) * T + u
        BY <2>3, <4>9 DEF T
      <4> QED BY <4>1, <4>5, <4>8, <4>10
    <3> QED BY <1>1, <3>1, <3>2, <3>3 DEF T
  <2>9. BytesDe(mem', n * T, l) = BytesDe(mem, a * T, l)
    <3> DEFINE N == n * T
               A == a * T
    <3>1. N \in Int /\ A \in Int
      BY <2>3 DEF T
    <3>2. \A b \in 0..(l - 1) : N + b \in Bytes /\ A + b \in Bytes /\ mem'[N + b] = mem[A + b]
      BY <2>8
    <3> HIDE DEF N, A
    <3>3. ASSUME NEW j \in 1..l
          PROVE  (IF N + j - 1 \in Bytes THEN mem'[N + j - 1] ELSE Nulo)
                   = (IF A + j - 1 \in Bytes THEN mem[A + j - 1] ELSE Nulo)
      <4>1. j - 1 \in 0..(l - 1) /\ N + (j - 1) = N + j - 1 /\ A + (j - 1) = A + j - 1
        BY <2>5, <3>1
      <4> QED BY <3>2, <4>1
    <3>4. BytesDe(mem', N, l) = BytesDe(mem, A, l)
      BY <3>3 DEF BytesDe
    <3> QED BY <3>4 DEF N, A
  <2> QED BY <2>4, <2>9 DEF T
<1> QED BY <1>2, <1>3

LEMMA MueveEntera ==
  ASSUME SinMayusculas, DosEntradas, TInv, TInv', EnSuLugar, Entera, Promete, [Next]_vars,
         MueveEntrada
  PROVE  Entera' /\ \A k \in Claves : get_value(k)' = get_value(k)
<1> DEFINE c == compactado
           d == compactado'
           x == c.x
           h == c.hueco
           y == x + h
<1>1. /\ pc = "compactar" /\ Ordenada(tabla) /\ HuecoLibre(tabla, x, h)
      /\ x \in Nat /\ h \in Nat \ {0} /\ y \in Nat
      /\ \/ /\ Movida(tabla, tabla', x, y)
            /\ mem' = Escribir(x * TamanioEntradas, Leer(y * TamanioEntradas, tabla[y].tamanio))
         \/ y >= CantEntradas /\ tabla' = tabla /\ mem' = mem
      /\ \/ d.x = x + 1 /\ d.hueco = h /\ d.i = c.i
         \/ d.hueco = 0 /\ x = c.i + h - 1
  <2>1. Movida(tabla, tabla', x, y) <=>
          /\ x \in Entradas /\ y \in Entradas /\ x < y
          /\ \A j \in Entradas : x <= j /\ j < y => Libre(tabla, j)
          /\ tabla' = [tabla EXCEPT ![x] = tabla[y], ![y] = EntradaVacia]
    BY DEF Movida
  <2> QED BY <2>1, MueveEfecto
<1>2. c.i \in Nat /\ c.i <= x /\ x < c.i + h
  BY LugaresDeMover
<1>3. SombraDe(tabla, mem, c) /\ VaciadasDe(tabla, c)
  BY <1>1 DEF Entera
<1>4. /\ TypeOK /\ TypeOK' /\ vacio \notin Claves /\ Entradas \subseteq Nat /\ CantEntradas \in Nat
      /\ \A j \in Entradas : j < CantEntradas
  BY EntradasFinito, InstanciaAssumption DEF TInv, Entradas
<1>5. \A j \in Entradas : j \in Hueco(c) <=> x <= j /\ j < y
  BY <1>1 DEF Hueco
<1>6. y \notin Hueco(c)
  BY <1>1 DEF Hueco
<1>7. h # 0 /\ h \in Nat
  BY <1>1
<1> HIDE DEF x, h, c, d
<1>8. CASE /\ Movida(tabla, tabla', x, y)
           /\ mem' = Escribir(x * TamanioEntradas, Leer(y * TamanioEntradas, tabla[y].tamanio))
  <2>1. \A k \in Claves : get_value(k)' = get_value(k)
    BY <1>1, <1>3, <1>4, <1>6, <1>8, MueveValor
  <2>2. /\ x \in Entradas /\ y \in Entradas /\ x < y
        /\ \A j \in Entradas : x <= j /\ j < y => Libre(tabla, j)
        /\ tabla' = [tabla EXCEPT ![x] = tabla[y], ![y] = EntradaVacia]
        /\ tabla \in [Entradas -> Entrada]
    BY <1>4, <1>8 DEF Movida, TypeOK, Entrada
  <2>3. SombraDe(tabla', mem', d)
    <3> SUFFICES ASSUME NEW k \in Claves, NEW n \in Entradas, NEW r \in Entradas,
                        EsPrimera(tabla', k, n), tabla'[r].clave = k, n < r
                 PROVE  /\ \A b \in Nat : b < tabla'[n].tamanio - TamanioEntradas =>
                             mem'[(n + 1) * TamanioEntradas + b] = mem'[r * TamanioEntradas + b]
                        /\ \A j \in Entradas : n < j /\ j < r =>
                             tabla'[j].tamanio = 0 \/ j \in Hueco(d)
      BY DEF SombraDe
    <3> DEFINE a == Antes(x, y, n)
               s == Antes(x, y, r)
    <3>1. EsPrimera(tabla, k, a) /\ a \in Entradas /\ tabla'[n] = tabla[a]
      BY <1>4, <1>8, MueveCabeza
    <3>2. ColasLargas(tabla) /\ r \in Suyas(tabla', k)
      BY <1>1 DEF Ordenada, Suyas
    <3>3. /\ s \in Suyas(tabla, k) /\ a < s
          /\ \A b \in Nat : b < tabla[a].tamanio - TamanioEntradas =>
               /\ mem'[(n + 1) * TamanioEntradas + b] = mem[(a + 1) * TamanioEntradas + b]
               /\ mem'[r * TamanioEntradas + b] = mem[s * TamanioEntradas + b]
      BY <1>3, <1>4, <1>6, <1>8, <3>2, MueveCola
    <3> HIDE DEF a, s
    <3>4. \A b \in Nat : b < tabla[a].tamanio - TamanioEntradas =>
            mem[(a + 1) * TamanioEntradas + b] = mem[s * TamanioEntradas + b]
      BY <1>3, <3>1, <3>3 DEF SombraDe, Suyas
    <3>5. \A b \in Nat : b < tabla'[n].tamanio - TamanioEntradas =>
            mem'[(n + 1) * TamanioEntradas + b] = mem'[r * TamanioEntradas + b]
      BY <3>1, <3>3, <3>4
    <3>6. ASSUME NEW j \in Entradas, n < j, j < r
          PROVE  tabla'[j].tamanio = 0 \/ j \in Hueco(d)
      BY <1>1, <1>2, <1>3, <1>4, <1>8, <3>2, <3>6, MueveEntre DEF x, h
    <3> QED BY <3>5, <3>6
  <2>4. VaciadasDe(tabla', d)
    <3> SUFFICES ASSUME NEW j \in Entradas, d.hueco # 0, d.i + d.hueco <= j, j < d.x + d.hueco
                 PROVE  tabla'[j].tamanio = 0
      BY DEF VaciadasDe
    <3>1. d.x = x + 1 /\ d.hueco = h /\ d.i = c.i
      BY <1>1
    <3>2. c.i + h <= j /\ j <= y /\ j # x /\ j \in Nat
      BY <1>1, <1>2, <1>4, <3>1
    <3>3. tabla'[j] = IF j = y THEN EntradaVacia ELSE tabla[j]
      BY <2>2, <3>2
    <3>4. CASE j = y
      BY <3>3, <3>4 DEF EntradaVacia
    <3>5. CASE j # y
      <4>1. j < x + h
        BY <1>1, <3>2, <3>5
      <4>2. tabla[j].tamanio = 0
        BY <1>3, <1>7, <3>2, <4>1 DEF VaciadasDe, x, h
      <4> QED BY <3>3, <3>5, <4>2
    <3> QED BY <3>4, <3>5
  <2> QED BY <2>1, <2>3, <2>4 DEF Entera, d
<1>9. CASE y >= CantEntradas /\ tabla' = tabla /\ mem' = mem
  <2>1. \A k \in Claves : get_value(k)' = get_value(k)
    BY <1>9 DEF get_value, consultarTabla, Leer
  <2>2. SombraDe(tabla', mem', d)
    <3> SUFFICES ASSUME NEW k \in Claves, NEW n \in Entradas, NEW r \in Entradas,
                        EsPrimera(tabla, k, n), tabla[r].clave = k, n < r,
                        NEW j \in Entradas, n < j, j < r
                 PROVE  tabla[j].tamanio = 0
      BY <1>3, <1>9 DEF SombraDe
    <3>1. tabla[j].tamanio = 0 \/ j \in Hueco(c)
      BY <1>3 DEF SombraDe
    <3>2. ASSUME x <= j PROVE FALSE
      <4>1. x <= r /\ r < x + h
        BY <1>1, <1>4, <1>9, <3>2
      <4>2. tabla[r].clave = vacio
        BY <1>1, <4>1 DEF HuecoLibre, Libre
      <4> QED BY <1>4, <4>2
    <3> QED BY <1>5, <3>1, <3>2
  <2>3. VaciadasDe(tabla', d)
    <3> SUFFICES ASSUME NEW j \in Entradas, d.hueco # 0, d.i + d.hueco <= j
                 PROVE  tabla[j].tamanio = 0
      BY <1>9 DEF VaciadasDe
    <3>1. d.hueco = h /\ d.i = c.i
      BY <1>1
    <3>2. c.i + h <= j /\ j < x + h
      BY <1>1, <1>4, <1>9, <3>1
    <3> QED BY <1>3, <1>7, <3>2 DEF VaciadasDe, x, h
  <2> QED BY <2>1, <2>2, <2>3 DEF Entera, d
<1> QED BY <1>1, <1>8, <1>9

\* Outside compactar a value is in one piece, and so it is its own shadow.
LEMMA TramosSombra ==
  ASSUME DosEntradas, TypeOK, Tramos(tabla), NEW c
  PROVE  SombraDe(tabla, mem, c)
<1> SUFFICES ASSUME NEW k \in Claves, NEW n \in Entradas, NEW r \in Entradas,
                    EsPrimera(tabla, k, n), tabla[r].clave = k, n < r
             PROVE  r = n + 1
  <2>1. Entradas \subseteq Nat
    BY EntradasFinito
  <2>2. \A j \in Entradas, n \in Entradas : ~(n < j /\ j < n + 1)
    BY <2>1
  <2> QED BY <2>2 DEF SombraDe
<1>1. tabla \in [Entradas -> Entrada] /\ Entradas \subseteq Nat
  BY EntradasFinito DEF TypeOK, Entrada
<1>2. Suyas(tabla, k) # {}
  BY DEF Suyas
<1>3. PICK m \in Entradas : Tramo(tabla, k, m)
  BY <1>2 DEF Tramos
<1> DEFINE p == getCantPaginas(tabla[m].tamanio)
<1>4. /\ p \in Nat \ {0} /\ EsPrimera(tabla, k, m)
      /\ \A i \in Entradas : tabla[i].clave = k <=> m <= i /\ i < m + p
  BY <1>1, <1>3, TramoIntervalo DEF Tramo
<1>5. m = n
  BY <1>1, <1>4 DEF EsPrimera
<1>6. p <= 2
  <2>1. tabla[m].tamanio \in Nat /\ tabla[m].tamanio <= 2 * TamanioEntradas
    <3>1. tabla[m].tamanio \in Nat /\ tabla[m].tamanio \in Largos \cup {0}
      BY <1>1, TamanioTipo
    <3> QED BY <3>1, EntradasFinito DEF DosEntradas
  <2> QED BY <2>1, PaginasCuantas
<1> HIDE DEF p
<1> QED BY <1>1, <1>4, <1>5, <1>6

LEMMA EnteraPaso ==
  ASSUME SinMayusculas, NadieCrece, DosEntradas, Asentada, Entera, [Next]_vars
  PROVE  Entera'
<1> SUFFICES ASSUME Promete', pc' = "compactar"
             PROVE  SombraDe(tabla', mem', compactado') /\ VaciadasDe(tabla', compactado')
  BY DEF Entera
<1>1. TInv /\ TInv' /\ EnSuLugar
  BY PasoTipo DEF Asentada
<1>2. algReemplazo' = algReemplazo
  BY DEF Next, Recibe, TomaMutex, PasoMain, SetConocida, SetNueva, CircEscribe, CircSaltea,
     EmpiezaACompactar, CircVuelve, LruEscribe, LruDesaloja, PideCompactar, BuscaHueco,
     MueveEntrada, TerminaDeCompactar, Get, StoreReemplazada, storeKey, Status, DumpEmpieza,
     PasoDump, DumpSaltea, DumpCopia, DumpTermina, MuereSinArchivo, Cae, Morir, Reinicia, vars,
     cuentas
<1>3. Promete
  BY <1>2 DEF Promete, Atomicos
<1>4. CASE EmpiezaACompactar \/ PideCompactar
  <2>1. tabla' = tabla /\ mem' = mem /\ compactado'.hueco = 0 /\ pc # "compactar"
    BY <1>4 DEF EmpiezaACompactar, PideCompactar, SinCompactar, datos, EnProceso
  <2>2. SombraDe(tabla, mem, compactado')
    BY <1>1, <1>3, <2>1, TramosSombra DEF TInv, EnSuLugar
  <2> QED BY <2>1, <2>2 DEF VaciadasDe
<1>5. CASE BuscaHueco
  <2>1. /\ tabla' = tabla /\ mem' = mem /\ compactado.hueco = 0 /\ pc = "compactar"
        /\ compactado'.hueco = 0 \/ (compactado'.x = compactado.i /\ compactado'.i = compactado.i)
    BY <1>5 DEF BuscaHueco, datos
  <2>2. \A j \in Entradas : j \notin Hueco(compactado)
    BY <2>1 DEF Hueco
  <2>3. SombraDe(tabla, mem, compactado')
    BY <1>3, <2>1, <2>2 DEF Entera, SombraDe
  <2>4. VaciadasDe(tabla, compactado')
    <3> SUFFICES ASSUME NEW j \in Entradas, compactado'.hueco # 0,
                        compactado'.i + compactado'.hueco <= j, j < compactado'.x + compactado'.hueco
                 PROVE  FALSE
      BY DEF VaciadasDe
    <3>1. compactado'.i \in Nat /\ compactado'.hueco \in Nat /\ j \in Nat
      BY <1>1, EntradasFinito DEF TInv, TypeOK
    <3>2. compactado'.x = compactado'.i
      BY <2>1
    <3> QED BY <3>1, <3>2
  <2> QED BY <2>1, <2>3, <2>4
<1>6. CASE MueveEntrada
  <2>1. Entera'
    BY <1>1, <1>3, <1>6, MueveEntera
  <2> QED BY <2>1 DEF Entera
<1>7. CASE DumpEmpieza \/ PasoDump \/ UNCHANGED vars
  <2>1. UNCHANGED <<tabla, mem, compactado, pc>>
    BY <1>7 DEF DumpEmpieza, PasoDump, DumpSaltea, DumpCopia, DumpTermina, vars, datos
  <2> QED BY <1>3, <2>1 DEF Entera
<1>8. \/ EmpiezaACompactar \/ PideCompactar \/ BuscaHueco \/ MueveEntrada
      \/ DumpEmpieza \/ PasoDump \/ UNCHANGED vars
  BY DEF Next, Recibe, TomaMutex, PasoMain, SetConocida, SetNueva, CircEscribe, CircSaltea,
     CircVuelve, LruEscribe, LruDesaloja, TerminaDeCompactar, Get, StoreReemplazada, storeKey,
     Status, MuereSinArchivo, Cae, Morir, Reinicia, Terminar
<1> QED BY <1>4, <1>5, <1>6, <1>7, <1>8

\* What guardarEnMem writes is the value, read back by its key, and touches the
\* bytes of no other.
LEMMA GuardaBytes ==
  ASSUME DosEntradas, TypeOK, pedido \in Pedidos, pedido.op = "SET",
         NEW e \in Entradas, e + Paginas <= CantEntradas, mem' = guardarEnMem(e)
  PROVE  /\ BytesDe(mem', e * TamanioEntradas, Largo) = pedido.valor
         /\ \A n, p, l \in Nat :
              /\ l <= p * TamanioEntradas
              /\ n + p <= e \/ e + Paginas <= n
              => BytesDe(mem', n * TamanioEntradas, l) = BytesDe(mem, n * TamanioEntradas, l)
<1> DEFINE T == TamanioEntradas
           v == pedido.valor
           E == e * T
           g == Paginas
           bytes == Append(v, Nulo)
<1>1. /\ v \in Seq(Letras \X Nat) /\ Largo = Len(v) /\ Largo \in Largos
  BY ValorTipo DEF Largo
<1>2. Largo \in Nat \ {0} /\ g \in Nat /\ Largo < g * T /\ g * T \in Nat
  BY <1>1, CabeConSuNulo, EntradasFinito DEF Paginas
<1>3. e \in Nat /\ CantEntradas \in Nat /\ T \in Nat \ {0} /\ E \in Nat
  BY EntradasFinito, Comas
<1>4. bytes \in Seq(Byte) /\ Len(bytes) = Largo + 1
      /\ \A j \in 1..Largo : bytes[j] = v[j]
  <2>1. v \in Seq(Byte) /\ Nulo \in Byte
    BY <1>1 DEF Byte
  <2> HIDE DEF v
  <2> QED BY <1>1, <2>1
<1> HIDE DEF bytes
<1>5. \A q \in Bytes :
        /\ q < E \/ q >= E + (Largo + 1) => mem'[q] = mem[q]
        /\ E <= q /\ q < E + (Largo + 1) => mem'[q] = bytes[q - E + 1]
  <2>1. mem' = Escribir(E, bytes)
    BY DEF guardarEnMem, bytes
  <2> HIDE DEF E
  <2> QED BY <1>3, <1>4, <2>1, EscribirEfecto
<1>6. E + g * T <= CantEntradas * T /\ CantEntradas * T \in Nat
  <2>1. (e + g) * T = E + g * T /\ e + g \in Nat
    BY <1>2, <1>3, Comas
  <2>2. (e + g) * T <= CantEntradas * T /\ CantEntradas * T \in Nat
    BY <1>3, <2>1, Comas
  <2> QED BY <2>1, <2>2
<1>7. BytesDe(mem', E, Largo) = v
  <2>1. ASSUME NEW j \in 1..Largo
        PROVE  (IF E + j - 1 \in Bytes THEN mem'[E + j - 1] ELSE Nulo) = v[j]
    <3> DEFINE G == g * T
               C == CantEntradas * T
               q == E + j - 1
    <3>1. G \in Nat /\ C \in Nat /\ Largo < G /\ E + G <= C /\ Bytes = 0..(C - 1)
      BY <1>2, <1>6 DEF Bytes
    <3> HIDE DEF G, C, E
    <3>2. q \in Bytes /\ E <= q /\ q < E + (Largo + 1) /\ q - E + 1 = j
      BY <1>2, <1>3, <3>1
    <3>3. mem'[q] = bytes[q - E + 1]
      <4> HIDE DEF q
      <4> QED BY <1>5, <3>2
    <3> QED BY <1>4, <3>2, <3>3
  <2>2. BytesDe(mem', E, Largo) = [j \in 1..Largo |-> v[j]]
    BY <2>1 DEF BytesDe
  <2>3. v = [j \in 1..Largo |-> v[j]]
    <3> HIDE DEF v
    <3> QED BY <1>1
  <2> QED BY <2>2, <2>3
<1>8. ASSUME NEW n \in Nat, NEW p \in Nat, NEW l \in Nat, l <= p * T, n + p <= e \/ e + g <= n
      PROVE  BytesDe(mem', n * T, l) = BytesDe(mem, n * T, l)
  <2> DEFINE N == n * T
             G == g * T
             P == p * T
  <2>1. N \in Nat /\ G \in Nat /\ P \in Nat /\ Largo < G /\ l <= P
    BY <1>2, <1>3, <1>8, Comas
  <2>2. N + P <= E \/ E + G <= N
    <3>1. (n + p) * T = N + P /\ n + p \in Nat /\ (e + g) * T = E + G /\ e + g \in Nat
      BY <1>2, <1>3, <1>8, Comas
    <3>2. /\ n + p <= e => (n + p) * T <= e * T
          /\ e + g <= n => (e + g) * T <= n * T
      BY <1>3, <3>1, Comas
    <3> QED BY <1>8, <3>1, <3>2
  <2> HIDE DEF N, G, P, E
  <2>3. ASSUME NEW j \in 1..l, N + j - 1 \in Bytes
        PROVE  mem'[N + j - 1] = mem[N + j - 1]
    <3> DEFINE q == N + j - 1
    <3>1. q < E \/ q >= E + (Largo + 1)
      BY <1>2, <1>3, <2>1, <2>2
    <3> HIDE DEF q
    <3>2. mem'[q] = mem[q]
      BY <1>5, <2>3, <3>1 DEF q
    <3> QED BY <3>2 DEF q
  <2>4. \A j \in 1..l : (IF N + j - 1 \in Bytes THEN mem'[N + j - 1] ELSE Nulo)
                          = (IF N + j - 1 \in Bytes THEN mem[N + j - 1] ELSE Nulo)
    BY <2>3
  <2>5. BytesDe(mem', N, l) = BytesDe(mem, N, l)
    BY <2>4 DEF BytesDe
  <2> QED BY <2>5 DEF N
<1> QED BY <1>7, <1>8 DEF T, v, E, g

LEMMA GuardaValor ==
  ASSUME SinMayusculas, DosEntradas, TypeOK, TypeOK', Tramos(tabla),
         pedido \in Pedidos, pedido.op = "SET", NEW k \in Claves, k = pedido.clave,
         NEW e \in Entradas, Tramo(tabla', k, e), tabla'[e].tamanio = Largo,
         mem' = guardarEnMem(e)
  PROVE  /\ get_value(k)' = pedido.valor
         /\ \A c \in Claves \ {k} :
              Igualito(tabla, tabla', c) => get_value(c)' = get_value(c)
<1> DEFINE T == TamanioEntradas
<1>1. /\ tabla \in [Entradas -> Entrada] /\ mem \in [Bytes -> Byte]
      /\ tabla' \in [Entradas -> Entrada] /\ mem' \in [Bytes -> Byte]
      /\ Entradas \subseteq Nat /\ CantEntradas \in Nat /\ Entradas = 0..(CantEntradas - 1)
  BY EntradasFinito DEF TypeOK, Entrada, Byte, Entradas
<1>2. /\ Paginas \in Nat \ {0} /\ e + Paginas <= CantEntradas /\ EsPrimera(tabla', k, e)
      /\ \A i \in Entradas : tabla'[i].clave = k <=> e <= i /\ i < e + Paginas
  BY <1>1, TramoIntervalo DEF Paginas, Tramo
<1>3. /\ BytesDe(mem', e * T, Largo) = pedido.valor
      /\ \A n, p, l \in Nat :
           /\ l <= p * T
           /\ n + p <= e \/ e + Paginas <= n
           => BytesDe(mem', n * T, l) = BytesDe(mem, n * T, l)
  BY <1>2, GuardaBytes
<1>4. get_value(k)' = pedido.valor
  BY <1>1, <1>2, <1>3, ValorDespues
<1>5. ASSUME NEW c \in Claves \ {k}, Igualito(tabla, tabla', c)
      PROVE  get_value(c)' = get_value(c)
  <2>1. CASE Suyas(tabla, c) = {}
    <3>1. Suyas(tabla', c) = {}
      BY <1>5, <2>1 DEF Igualito, Suyas
    <3> QED BY <1>1, <2>1, <3>1, ValorAntes, ValorDespues
  <2>2. CASE Suyas(tabla, c) # {}
    <3>1. PICK n \in Entradas : Tramo(tabla, c, n)
      BY <2>2 DEF Tramos
    <3> DEFINE l == tabla[n].tamanio
               p == getCantPaginas(l)
    <3>2. Tramo(tabla', c, n) /\ tabla'[n].tamanio = l
      BY <1>1, <1>5, <3>1, TramoIgual
    <3>3. /\ EsPrimera(tabla, c, n) /\ EsPrimera(tabla', c, n) /\ p \in Nat \ {0} /\ n \in Nat
          /\ \A i \in Entradas : tabla'[i].clave = c <=> n <= i /\ i < n + p
      BY <1>1, <3>1, <3>2, TramoIntervalo DEF Tramo
    <3>4. l \in Nat /\ l <= p * T
      <4>1. l \in Nat
        BY <1>1, TamanioTipo
      <4> QED BY <4>1, PaginasCuantas
    <3> HIDE DEF l, p
    <3>5. n + p <= e \/ e + Paginas <= n
      <4>1. ~(e <= n /\ n < e + Paginas)
        BY <1>2, <1>5, <3>3 DEF EsPrimera
      <4>2. ~(n <= e /\ e < n + p)
        BY <1>2, <1>5, <3>3 DEF EsPrimera
      <4> QED BY <1>1, <1>2, <3>3, <4>1, <4>2
    <3>6. BytesDe(mem', n * T, l) = BytesDe(mem, n * T, l)
      BY <1>3, <3>3, <3>4, <3>5
    <3>7. get_value(c) = BytesDe(mem, n * T, l)
      BY <1>1, <3>3, ValorAntes DEF l
    <3>8. get_value(c)' = BytesDe(mem', n * T, tabla'[n].tamanio)
      BY <1>1, <3>3, ValorDespues
    <3> QED BY <3>2, <3>6, <3>7, <3>8
  <2> QED BY <2>1, <2>2
<1> QED BY <1>4, <1>5

-----------------------------------------------------------------------------
(* The store.                                                              *)

\* What the mapping shows of a step that is promised to the Coordinador.
LEMMA AlmacenVista ==
  ASSUME Promete, [Next]_vars
  PROVE  /\ Promete' /\ UNCHANGED algReemplazo
         /\ valoresPrometidos = [k \in Claves |-> get_value(k)]
         /\ valoresPrometidos' = [k \in Claves |-> get_value(k)']
         /\ EnCurso = IF Alta THEN [clave |-> pedido.clave, valor |-> pedido.valor] ELSE Ausente
         /\ EnCurso' = IF Alta' THEN [clave |-> pedido'.clave, valor |-> pedido'.valor] ELSE Ausente
<1>1. algReemplazo' = algReemplazo
  BY DEF Next, Recibe, TomaMutex, PasoMain, SetConocida, SetNueva, CircEscribe, CircSaltea,
     EmpiezaACompactar, CircVuelve, LruEscribe, LruDesaloja, PideCompactar, BuscaHueco,
     MueveEntrada, TerminaDeCompactar, Get, StoreReemplazada, storeKey, Status, DumpEmpieza,
     PasoDump, DumpSaltea, DumpCopia, DumpTermina, MuereSinArchivo, Cae, Morir, Reinicia, vars,
     cuentas
<1>2. Promete'
  BY <1>1 DEF Promete, Atomicos
<1>3. /\ valoresPrometidos = [k \in Claves |-> get_value(k)]
      /\ valoresPrometidos' = [k \in Claves |-> get_value(k)']
  BY <1>2 DEF valoresPrometidos, valoresGuardados
<1>4. /\ EnCurso = IF Alta THEN [clave |-> pedido.clave, valor |-> pedido.valor] ELSE Ausente
      /\ EnCurso' = IF Alta' THEN [clave |-> pedido'.clave, valor |-> pedido'.valor] ELSE Ausente
  BY <1>2 DEF EnCurso, Alta
<1> QED BY <1>1, <1>2, <1>3, <1>4

LEMMA PedidoNoAusente ==
  ASSUME pedido \in Pedidos, pedido.op = "SET"
  PROVE  /\ pedido.clave \in Claves /\ pedido.valor \in Valores
         /\ [clave |-> pedido.clave, valor |-> pedido.valor] # Ausente
<1>1. pedido.clave \in Claves /\ pedido.valor \in Valores
  BY DEF Pedidos
<1> QED BY <1>1, InstanciaAssumption

\* A SET of a key of the table changes its value and nothing else.
LEMMA AlmacenCambia ==
  ASSUME SinMayusculas, DosEntradas, Asentada, Promete, [Next]_vars, SetConocida
  PROVE  Tienda!Next
<1>1. TInv /\ TypeOK /\ TypeOK' /\ Final /\ EnSuLugar
  BY PasoTipo DEF Asentada, TInv
<1> DEFINE t == pedido.clave
<1>2. /\ t \in Claves /\ pedido \in Pedidos /\ pedido.op = "SET" /\ pc = "procesarHeader"
      /\ \E n \in Entradas : /\ mem' = guardarEnMem(n) /\ Tramo(tabla, t, n)
                             /\ Tramo(tabla', t, n) /\ tabla'[n].tamanio = Largo
      /\ \A c \in Claves \ {t} : Igualito(tabla, tabla', c)
  BY <1>1, ConoceEfecto
<1>3. PICK n \in Entradas : /\ mem' = guardarEnMem(n) /\ Tramo(tabla, t, n)
                            /\ Tramo(tabla', t, n) /\ tabla'[n].tamanio = Largo
  BY <1>2
<1>4. PICK k \in Claves : k = pedido.clave
  BY <1>2
<1>5. pc' = "recv"
  BY DEF SetConocida, Terminar
<1>6. pedido.valor \in Valores
  BY <1>2, PedidoNoAusente
<1>7. Tramos(tabla)
  BY <1>1, <1>2 DEF EnSuLugar
<1>8. /\ get_value(k)' = pedido.valor
      /\ \A c \in Claves \ {k} : get_value(c)' = get_value(c)
  BY <1>1, <1>2, <1>3, <1>4, <1>7, GuardaValor
<1>9. get_value(k) # Ausente
  <2>1. tabla \in [Entradas -> Entrada] /\ mem \in [Bytes -> Byte]
    BY <1>1 DEF TypeOK, Entrada, Byte
  <2>2. EsPrimera(tabla, k, n)
    BY <1>3, <1>4, <2>1, TramoIntervalo
  <2>3. Suyas(tabla, k) # {}
    BY <2>2 DEF EsPrimera, Suyas
  <2> QED BY <2>1, <2>3, ValorAntes
<1>10. EnCurso = Ausente /\ EnCurso' = Ausente
  BY <1>2, <1>5, AlmacenVista DEF Alta
<1>11. /\ valoresPrometidos[k] # Ausente
       /\ valoresPrometidos' = [valoresPrometidos EXCEPT ![k] = pedido.valor]
  <2>1. valoresPrometidos = [c \in Claves |-> get_value(c)]
        /\ valoresPrometidos' = [c \in Claves |-> get_value(c)']
    BY AlmacenVista
  <2> QED BY <1>8, <1>9, <2>1
<1>12. Tienda!Cambiar(k, pedido.valor)
  BY <1>10, <1>11 DEF Tienda!Cambiar
<1> QED BY <1>6, <1>12 DEF Tienda!Next

\* That of another asks for its entries first.
LEMMA AlmacenPide ==
  ASSUME SinMayusculas, Asentada, Promete, [Next]_vars, SetNueva
  PROVE  Tienda!Next
<1>1. TInv /\ TypeOK /\ TypeOK' /\ Final /\ EnSuLugar
  BY PasoTipo DEF Asentada, TInv
<1>2. EnProceso("SET") /\ Encontrada = -1 /\ tabla' = TablaConsultada /\ pc' = "guardarEnTabla"
      /\ UNCHANGED <<pedido, mem>>
  BY DEF SetNueva
<1>3. /\ pedido.clave \in Claves /\ pedido \in Pedidos /\ pedido.op = "SET"
      /\ pc = "procesarHeader" /\ consultarTabla(pedido.clave) = -1
  BY <1>1, <1>2, Encuentra
<1>4. PICK k \in Claves : k = pedido.clave
  BY <1>3
<1>5. /\ tabla \in [Entradas -> Entrada] /\ mem \in [Bytes -> Byte]
      /\ tabla' \in [Entradas -> Entrada] /\ mem' \in [Bytes -> Byte]
  BY <1>1 DEF TypeOK, Entrada, Byte
<1>6. get_value(k) = Ausente
  BY <1>3, <1>4 DEF get_value
<1>7. \A i \in Entradas : /\ tabla'[i].clave = tabla[i].clave
                         /\ tabla'[i].tamanio = tabla[i].tamanio
  BY <1>1, <1>2, <1>3, ConsultadaIgual
<1>8. ASSUME NEW c \in Claves PROVE get_value(c)' = get_value(c)
  <2>1. Suyas(tabla', c) = Suyas(tabla, c)
    BY <1>7 DEF Suyas
  <2>2. CASE Suyas(tabla, c) = {}
    BY <1>5, <2>1, <2>2, ValorAntes, ValorDespues
  <2>3. CASE Suyas(tabla, c) # {}
    <3>1. PICK n \in Entradas : EsPrimera(tabla, c, n)
      BY <2>3, PrimeraHay
    <3>2. EsPrimera(tabla', c, n) /\ tabla'[n].tamanio = tabla[n].tamanio
      BY <1>7, <3>1 DEF EsPrimera
    <3>3. get_value(c) = BytesDe(mem, n * TamanioEntradas, tabla[n].tamanio)
      BY <1>5, <3>1, ValorAntes
    <3>4. get_value(c)' = BytesDe(mem', n * TamanioEntradas, tabla'[n].tamanio)
      BY <1>5, <3>2, ValorDespues
    <3> QED BY <1>2, <3>2, <3>3, <3>4
  <2> QED BY <2>2, <2>3
<1>9. EnCurso = Ausente /\ EnCurso' = [clave |-> k, valor |-> pedido.valor]
  BY <1>2, <1>3, <1>4, AlmacenVista DEF Alta
<1>10. valoresPrometidos[k] = Ausente /\ valoresPrometidos' = valoresPrometidos
  <2>1. valoresPrometidos = [c \in Claves |-> get_value(c)]
        /\ valoresPrometidos' = [c \in Claves |-> get_value(c)']
    BY AlmacenVista
  <2> QED BY <1>6, <1>8, <2>1
<1>11. Tienda!Pedir(k, pedido.valor)
  BY <1>9, <1>10 DEF Tienda!Pedir
<1>12. pedido.valor \in Valores
  BY <1>3, PedidoNoAusente
<1> QED BY <1>11, <1>12 DEF Tienda!Next

\* guardarEnTabla stores it; the keys it writes over are gone, all of them.
LEMMA AlmacenGuarda ==
  ASSUME SinMayusculas, DosEntradas, Asentada, Promete, [Next]_vars, CircEscribe \/ LruEscribe
  PROVE  Tienda!Next
<1>1. TInv /\ TypeOK /\ TypeOK' /\ EnSuLugar
  BY PasoTipo DEF Asentada, TInv
<1> DEFINE t == pedido.clave
<1>2. /\ t \in Claves /\ pedido \in Pedidos /\ pedido.op = "SET" /\ pc = "guardarEnTabla"
      /\ \E e \in Entradas : /\ e + Paginas <= CantEntradas /\ mem' = guardarEnMem(e)
                             /\ Tramo(tabla', t, e) /\ tabla'[e].tamanio = Largo
      /\ \A c \in Claves \ {t} : Igualito(tabla, tabla', c) \/ Suyas(tabla', c) = {}
  BY <1>1, EscribeEfecto
<1>3. PICK e \in Entradas : /\ mem' = guardarEnMem(e)
                            /\ Tramo(tabla', t, e) /\ tabla'[e].tamanio = Largo
  BY <1>2
<1>4. PICK k \in Claves : k = pedido.clave
  BY <1>2
<1>5. Tramos(tabla) /\ Suyas(tabla, k) = {} /\ pc' = "recv"
  BY <1>1, <1>2, <1>4 DEF EnSuLugar, Alta, CircEscribe, LruEscribe, Terminar
<1>6. /\ tabla \in [Entradas -> Entrada] /\ mem \in [Bytes -> Byte]
      /\ tabla' \in [Entradas -> Entrada] /\ mem' \in [Bytes -> Byte]
  BY <1>1 DEF TypeOK, Entrada, Byte
<1>7. /\ get_value(k)' = pedido.valor
      /\ \A c \in Claves \ {k} : Igualito(tabla, tabla', c) => get_value(c)' = get_value(c)
  BY <1>1, <1>2, <1>3, <1>4, <1>5, GuardaValor
<1>8. get_value(k) = Ausente
  BY <1>5, <1>6, ValorAntes
<1>9. \A c \in Claves \ {k} : get_value(c)' \in {get_value(c), Ausente}
  <2> TAKE c \in Claves \ {k}
  <2>1. CASE Igualito(tabla, tabla', c)
    BY <1>7, <2>1
  <2>2. CASE Suyas(tabla', c) = {}
    BY <1>6, <2>2, ValorDespues
  <2> QED BY <1>2, <1>4, <2>1, <2>2
<1>10. /\ EnCurso = [clave |-> k, valor |-> pedido.valor] /\ EnCurso # Ausente
       /\ EnCurso' = Ausente
  BY <1>2, <1>4, <1>5, AlmacenVista, PedidoNoAusente DEF Alta
<1>11. valoresPrometidos = [c \in Claves |-> get_value(c)]
       /\ valoresPrometidos' = [c \in Claves |-> get_value(c)']
  BY AlmacenVista
<1> DEFINE R == {c \in Claves : get_value(c) # Ausente /\ get_value(c)' = Ausente}
<1>12. R \in SUBSET (Tienda!Presentes \ {EnCurso.clave})
  BY <1>8, <1>10, <1>11 DEF Tienda!Presentes
<1>13. valoresPrometidos' = [Tienda!Sin(R) EXCEPT ![EnCurso.clave] = EnCurso.valor]
  <2>1. \A c \in Claves : get_value(c)' = IF c = k THEN pedido.valor
                                         ELSE IF c \in R THEN Ausente ELSE get_value(c)
    BY <1>7, <1>9
  <2>2. \A c \in Claves : valoresPrometidos[c] = get_value(c)
    BY <1>11
  <2> HIDE DEF R
  <2> QED BY <1>10, <1>11, <2>1, <2>2 DEF Tienda!Sin
<1>14. Tienda!Guardar
  <2> HIDE DEF R
  <2> QED BY <1>10, <1>12, <1>13 DEF Tienda!Guardar
<1> QED BY <1>14 DEF Tienda!Next

\* LRU replaces values, and changes none.
LEMMA AlmacenReemplaza ==
  ASSUME SinMayusculas, Asentada, Promete, [Next]_vars, LruDesaloja
  PROVE  Tienda!Next
<1>1. TInv /\ TypeOK /\ TypeOK' /\ EnSuLugar
  BY PasoTipo DEF Asentada, TInv
<1>2. pc = "guardarEnTabla" /\ pc' = pc /\ pedido' = pedido /\ mem' = mem
  BY DEF LruDesaloja
<1>3. /\ tabla \in [Entradas -> Entrada] /\ mem \in [Bytes -> Byte]
      /\ tabla' \in [Entradas -> Entrada] /\ mem' \in [Bytes -> Byte]
  BY <1>1 DEF TypeOK, Entrada, Byte
<1>4. ASSUME NEW c \in Claves PROVE get_value(c)' \in {get_value(c), Ausente}
  <2>1. CASE Suyas(tabla', c) = {}
    BY <1>3, <2>1, ValorDespues
  <2>2. CASE Suyas(tabla', c) # {} /\ Igualito(tabla, tabla', c)
    <3>1. PICK n \in Entradas : EsPrimera(tabla', c, n)
      BY <2>2, PrimeraHay
    <3>2. EsPrimera(tabla, c, n) /\ tabla'[n].tamanio = tabla[n].tamanio
      BY <2>2, <3>1 DEF EsPrimera, Igualito
    <3>3. get_value(c) = BytesDe(mem, n * TamanioEntradas, tabla[n].tamanio)
      BY <1>3, <3>2, ValorAntes
    <3>4. get_value(c)' = BytesDe(mem', n * TamanioEntradas, tabla'[n].tamanio)
      BY <1>3, <3>1, ValorDespues
    <3> QED BY <1>2, <3>2, <3>3, <3>4
  <2> QED BY <1>1, <2>1, <2>2, DesalojaEfecto
<1>5. pedido \in Pedidos /\ pedido.op = "SET"
  BY <1>1, <1>2, PaginasDelPedido
<1>6. EnCurso # Ausente /\ EnCurso' = EnCurso
  BY <1>2, <1>5, AlmacenVista, PedidoNoAusente DEF Alta
<1>7. valoresPrometidos = [c \in Claves |-> get_value(c)]
      /\ valoresPrometidos' = [c \in Claves |-> get_value(c)']
  BY AlmacenVista
<1> DEFINE R == {c \in Claves : get_value(c) # Ausente /\ get_value(c)' = Ausente}
<1>8. R \in SUBSET Tienda!Presentes
  BY <1>7 DEF Tienda!Presentes
<1>9. valoresPrometidos' = Tienda!Sin(R)
  <2>1. \A c \in Claves : get_value(c)' = IF c \in R THEN Ausente ELSE get_value(c)
    BY <1>4
  <2>2. \A c \in Claves : valoresPrometidos[c] = get_value(c)
    BY <1>7
  <2> HIDE DEF R
  <2> QED BY <1>7, <2>1, <2>2 DEF Tienda!Sin
<1>10. Tienda!Reemplazar
  <2> HIDE DEF R
  <2> QED BY <1>6, <1>8, <1>9 DEF Tienda!Reemplazar
<1> QED BY <1>10 DEF Tienda!Next

\* A process that dies loses everything.
LEMMA AlmacenPierde ==
  ASSUME SinMayusculas, Asentada, Promete, [Next]_vars, Morir
  PROVE  Tienda!Next
<1>1. TypeOK'
  BY PasoTipo DEF Asentada, TInv
<1>2. /\ tabla' \in [Entradas -> Entrada] /\ mem' \in [Bytes -> Byte] /\ pc' = "caida"
      /\ \A c \in Claves : Suyas(tabla', c) = {}
  BY <1>1, InstanciaAssumption DEF Morir, TypeOK, Entrada, Byte, TablaVacia, EntradaVacia, Suyas
<1>3. \A c \in Claves : get_value(c)' = Ausente
  BY <1>2, ValorDespues
<1>4. valoresPrometidos' = [c \in Claves |-> Ausente] /\ EnCurso' = Ausente
  BY <1>2, <1>3, AlmacenVista DEF Alta
<1>5. Tienda!Perder
  BY <1>4 DEF Tienda!Perder
<1> QED BY <1>5 DEF Tienda!Next

\* Everything else, compactar included, is invisible.
LEMMA AlmacenQuieto ==
  ASSUME SinMayusculas, DosEntradas, Asentada, Entera, Promete, [Next]_vars,
         \/ \E p \in Pedidos : Recibe(p)
         \/ TomaMutex \/ CircSaltea \/ EmpiezaACompactar \/ CircVuelve \/ PideCompactar
         \/ BuscaHueco \/ MueveEntrada \/ TerminaDeCompactar \/ Get \/ StoreReemplazada \/ storeKey
         \/ Status \/ DumpEmpieza \/ PasoDump \/ Reinicia \/ UNCHANGED vars
  PROVE  UNCHANGED <<valoresPrometidos, EnCurso>>
<1>1. TInv /\ TInv' /\ EnSuLugar
  BY PasoTipo DEF Asentada
<1>2. \A c \in Claves : get_value(c)' = get_value(c)
  <2>1. CASE MueveEntrada
    BY <1>1, <2>1, MueveEntera
  <2>2. CASE ~MueveEntrada
    <3>1. tabla' = tabla /\ mem' = mem
      BY <2>2 DEF Recibe, TomaMutex, CircSaltea, EmpiezaACompactar, CircVuelve, PideCompactar,
         BuscaHueco, TerminaDeCompactar, Get, StoreReemplazada, storeKey, Status, DumpEmpieza,
         PasoDump, DumpSaltea, DumpCopia, DumpTermina, Reinicia, vars, datos
    <3> QED BY <3>1 DEF get_value, consultarTabla, Leer
  <2> QED BY <2>1, <2>2
<1>3. valoresPrometidos' = valoresPrometidos
  BY <1>2, AlmacenVista
<1>4. pc = "guardarEnTabla" => pedido.op = "SET"
  BY <1>1 DEF TInv, Fase
<1>5. CASE \/ \E p \in Pedidos : Recibe(p)
           \/ TomaMutex \/ PideCompactar \/ Get \/ StoreReemplazada \/ storeKey \/ Status
           \/ Reinicia \/ DumpEmpieza \/ PasoDump \/ UNCHANGED vars
  <2>1. (~Alta /\ ~Alta') \/ UNCHANGED <<pc, pedido>>
    BY <1>5 DEF Recibe, TomaMutex, PideCompactar, Get, StoreReemplazada, storeKey, Status, Reinicia,
       EnProceso, Terminar, Alta, DumpEmpieza, PasoDump, DumpSaltea, DumpCopia, DumpTermina, vars
  <2> QED BY <1>3, <2>1, AlmacenVista DEF Alta
<1>6. CASE \/ CircSaltea \/ EmpiezaACompactar \/ CircVuelve \/ BuscaHueco \/ MueveEntrada
           \/ TerminaDeCompactar
  <2>1. (~Alta /\ ~Alta') \/ (Alta /\ Alta' /\ pedido' = pedido)
    BY <1>4, <1>6 DEF CircSaltea, EmpiezaACompactar, CircVuelve, BuscaHueco, MueveEntrada,
       TerminaDeCompactar, Terminar, Alta
  <2> QED BY <1>3, <2>1, AlmacenVista
<1> QED BY <1>5, <1>6

LEMMA AlmacenPaso ==
  ASSUME SinMayusculas, DosEntradas, Asentada, Entera, [Next]_vars
  PROVE  [Tienda!Next]_<<valoresPrometidos, EnCurso>>
<1>1. CASE ~Promete
  <2>1. algReemplazo' = algReemplazo
    BY DEF Next, Recibe, TomaMutex, PasoMain, SetConocida, SetNueva, CircEscribe, CircSaltea,
       EmpiezaACompactar, CircVuelve, LruEscribe, LruDesaloja, PideCompactar, BuscaHueco,
       MueveEntrada, TerminaDeCompactar, Get, StoreReemplazada, storeKey, Status, DumpEmpieza,
       PasoDump, DumpSaltea, DumpCopia, DumpTermina, MuereSinArchivo, Cae, Morir, Reinicia, vars,
       cuentas
  <2>2. ~Promete'
    BY <1>1, <2>1 DEF Promete, Atomicos
  <2>3. UNCHANGED <<valoresPrometidos, EnCurso>>
    BY <1>1, <2>2 DEF valoresPrometidos, EnCurso
  <2> QED BY <2>3
<1>2. CASE Promete
  <2>1. CASE SetConocida
    BY <1>2, <2>1, AlmacenCambia
  <2>2. CASE SetNueva
    BY <1>2, <2>2, AlmacenPide
  <2>3. CASE CircEscribe \/ LruEscribe
    BY <1>2, <2>3, AlmacenGuarda
  <2>4. CASE LruDesaloja
    BY <1>2, <2>4, AlmacenReemplaza
  <2>5. CASE Morir
    BY <1>2, <2>5, AlmacenPierde
  <2>6. CASE \/ \E p \in Pedidos : Recibe(p)
             \/ TomaMutex \/ CircSaltea \/ EmpiezaACompactar \/ CircVuelve \/ PideCompactar
             \/ BuscaHueco \/ MueveEntrada \/ TerminaDeCompactar \/ Get \/ StoreReemplazada
             \/ storeKey \/ Status \/ DumpEmpieza \/ PasoDump \/ Reinicia \/ UNCHANGED vars
    <3>1. UNCHANGED <<valoresPrometidos, EnCurso>>
      BY <1>2, <2>6, AlmacenQuieto
    <3> QED BY <3>1
  <2> QED BY <2>1, <2>2, <2>3, <2>4, <2>5, <2>6 DEF Next, PasoMain, MuereSinArchivo, Cae
<1> QED BY <1>1, <1>2

\* The table and the memory together are a store: no step of the Instancia, and
\* none of a compaction or a replacement, invents a value, tears one or touches
\* another key's.  For LRU, and for CIRC when every value fits in one entry;
\* for tables and memories of any size, and values as long as compactar can
\* carry, which end before their last entry does.
THEOREM InstanciaEsAlmacen ==
  ASSUME SinMayusculas, NadieCrece, DosEntradas
  PROVE  Spec => EsUnAlmacen
<1>1. Init => Tienda!Init
  <2> SUFFICES ASSUME Init PROVE Tienda!Init
    OBVIOUS
  <2>1. /\ tabla \in [Entradas -> Entrada] /\ mem \in [Bytes -> Byte]
        /\ \A c \in Claves : Suyas(tabla, c) = {}
    BY InstanciaAssumption
    DEF Init, TablaVacia, MemVacia, EntradaVacia, Entrada, Byte, Suyas
  <2>2. \A c \in Claves : get_value(c) = Ausente
    BY <2>1, ValorAntes
  <2>3. valoresPrometidos = [c \in Claves |-> Ausente]
    BY <2>2 DEF valoresPrometidos, valoresGuardados
  <2>4. EnCurso = Ausente
    BY DEF Init, EnCurso
  <2> QED BY <2>3, <2>4 DEF Tienda!Init
<1>2. Init => Asentada /\ Entera
  BY AsentadaEmpieza DEF Init, Entera
<1>3. Asentada /\ Entera /\ [Next]_vars => Asentada' /\ Entera'
  BY AsentadaSigue, EnteraPaso
<1>4. Asentada /\ Entera /\ [Next]_vars => [Tienda!Next]_(Tienda!vars)
  BY AlmacenPaso DEF Tienda!vars
<1> QED BY <1>1, <1>2, <1>3, <1>4, PTL DEF Spec, EsUnAlmacen, Tienda!Spec

-----------------------------------------------------------------------------
(* Who is replaced.  With values of several entries a flagCompactar left   *)
(* from an earlier SET lets LRU replace before it compacts, and CIRC tears *)
(* values (README.md, section 5): what follows is about values of one.     *)

\* CIRC writes over entries in use only when there are no others.
Llenas ==
  Atomicos /\ algReemplazo = "CIRC" /\ pc # "compactar" =>
    /\ \A i \in Entradas : i < comienzoDeEntradasLibres => ~Libre(tabla, i)
    /\ indexCircular = comienzoDeEntradasLibres \/ comienzoDeEntradasLibres = CantEntradas

\* A key of one entry keeps it when its value changes.
LEMMA ConocidaEnUna ==
  ASSUME SinMayusculas, Atomicos, Asentada, [Next]_vars, SetConocida
  PROVE  \A i \in Entradas : Libre(tabla, i) <=> Libre(tabla', i)
<1>1. TInv /\ Final /\ EnSuLugar /\ Promete /\ TypeOK /\ TypeOK'
  BY PasoTipo DEF Asentada, TInv, Promete
<1>2. /\ tabla \in [Entradas -> Entrada] /\ tabla' \in [Entradas -> Entrada]
      /\ vacio \notin Claves
  BY <1>1, InstanciaAssumption DEF TypeOK, Entrada
<1>3. PICK k \in Claves : k = pedido.clave
  BY <1>1, ConoceEfecto
<1>4. /\ \E n \in Entradas : /\ Tramo(tabla, k, n) /\ Tramo(tabla', k, n)
                             /\ Paginas <= getCantPaginas(tabla[n].tamanio)
                             /\ tabla'[n].tamanio = Largo
      /\ \A c \in Claves \ {k} : Igualito(tabla, tabla', c)
  BY <1>1, <1>3, ConoceEfecto
<1>5. PICK n \in Entradas : Tramo(tabla, k, n) /\ Tramo(tabla', k, n)
  BY <1>4
<1>6. \A t \in [Entradas -> Entrada] :
        Tramo(t, k, n) => \A i \in Entradas : t[i].clave = k <=> i = n
  <2> TAKE t \in [Entradas -> Entrada]
  <2> HAVE Tramo(t, k, n)
  <2>1. /\ n \in Nat /\ getCantPaginas(t[n].tamanio) # 0
        /\ Suyas(t, k) = n..(n + getCantPaginas(t[n].tamanio) - 1)
    BY TramoIntervalo
  <2>2. t[n].tamanio \in Largos \cup {0} /\ t[n].tamanio \in Nat
    BY TamanioTipo
  <2>3. t[n].tamanio <= TamanioEntradas
    BY <2>2, EntradasFinito DEF Atomicos
  <2>4. getCantPaginas(t[n].tamanio) = 1
    BY <2>1, <2>2, <2>3, PaginasCuantas
  <2>5. Suyas(t, k) = n..(n + 1 - 1)
    BY <2>1, <2>4
  <2>6. Suyas(t, k) = {n}
    BY <2>1, <2>5
  <2> QED BY <2>6 DEF Suyas
<1>7. \A i \in Entradas : tabla[i].clave = k <=> tabla'[i].clave = k
  BY <1>2, <1>5, <1>6
<1>8. \A c \in Claves, i \in Entradas : tabla[i].clave = c <=> tabla'[i].clave = c
  BY <1>4, <1>7 DEF Igualito
<1>9. \A i \in Entradas : /\ tabla[i].clave \in Claves \cup {vacio}
                          /\ tabla'[i].clave \in Claves \cup {vacio}
  BY <1>2 DEF Entrada
<1> QED BY <1>2, <1>8, <1>9 DEF Libre

LEMMA CircEscribeLlenas ==
  ASSUME Atomicos, TInv, LibresAlFinal, Llenas, CircEscribe
  PROVE  Llenas'
<1>1. /\ pc = "guardarEnTabla" /\ algReemplazo = "CIRC"
      /\ tabla' = [i \in Entradas |-> IF i \in Hasta(indexCircular) THEN EntradaNueva ELSE tabla[i]]
      /\ comienzoDeEntradasLibres' = Menor(comienzoDeEntradasLibres + Paginas, CantEntradas)
      /\ indexCircular' = indexCircular + Paginas /\ indexCircular + Paginas <= CantEntradas
  BY DEF CircEscribe
<1>2. /\ indexCircular \in Nat /\ comienzoDeEntradasLibres \in 0..CantEntradas
      /\ Paginas \in Nat \ {0} /\ CantEntradas \in Nat /\ Entradas \subseteq Nat
      /\ pedido \in Pedidos /\ pedido.op = "SET"
  BY <1>1, Datos, PaginasDelPedido, EntradasFinito
<1>3. pedido.clave # vacio
  BY <1>2, ValorTipo, InstanciaAssumption
<1>4. /\ \A i \in Entradas : i < comienzoDeEntradasLibres => ~Libre(tabla, i)
      /\ indexCircular = comienzoDeEntradasLibres \/ comienzoDeEntradasLibres = CantEntradas
  BY <1>1 DEF Llenas
<1>5. indexCircular' = comienzoDeEntradasLibres' \/ comienzoDeEntradasLibres' = CantEntradas
  BY <1>1, <1>2, <1>4 DEF Menor
<1>6. ASSUME NEW i \in Entradas, i < comienzoDeEntradasLibres'
      PROVE  ~Libre(tabla', i)
  <2>1. CASE i \in Hasta(indexCircular)
    <3>1. tabla'[i] = EntradaNueva
      BY <1>1, <2>1
    <3> QED BY <1>3, <3>1 DEF Libre, EntradaNueva
  <2>2. CASE i \notin Hasta(indexCircular)
    <3>1. tabla'[i] = tabla[i]
      BY <1>1, <2>2
    <3>2. i < comienzoDeEntradasLibres
      <4>1. i < CantEntradas /\ i < comienzoDeEntradasLibres + Paginas
        BY <1>1, <1>2, <1>6 DEF Menor, Entradas
      <4>2. i < indexCircular \/ i >= indexCircular + Paginas
        BY <1>2, <2>2 DEF Hasta
      <4> QED BY <1>1, <1>2, <1>4, <4>1, <4>2
    <3> QED BY <1>4, <3>1, <3>2 DEF Libre
  <2> QED BY <2>1, <2>2
<1> QED BY <1>5, <1>6 DEF Llenas

LEMMA LlenasPaso ==
  ASSUME SinMayusculas, Atomicos
  PROVE  Asentada /\ Llenas /\ [Next]_vars => Llenas'
<1> SUFFICES ASSUME Asentada, Llenas, [Next]_vars PROVE Llenas'
  OBVIOUS
<1>0. TInv /\ Final /\ LibresAlFinal /\ EnSuLugar
  BY DEF Asentada, Final
<1>1. CASE TerminaDeCompactar
  <2>1. /\ comienzoDeEntradasLibres' = PrimeraLibre /\ indexCircular' = PrimeraLibre
        /\ tabla' = tabla
    BY <1>1 DEF TerminaDeCompactar, datos
  <2>2. \A i \in Entradas : i < PrimeraLibre => ~Libre(tabla, i)
    <3> DEFINE libres == {i \in Entradas : tabla[i].clave = vacio}
    <3>1. libres \in SUBSET Nat /\ Entradas \subseteq Nat
      BY EntradasFinito
    <3>2. libres # {} => Min(libres) \in Nat /\ \A s \in libres : Min(libres) <= s
      <4> HIDE DEF libres
      <4> QED BY <3>1, MinEsta
    <3>3. ASSUME NEW i \in Entradas, i < PrimeraLibre, Libre(tabla, i) PROVE FALSE
      <4>1. i \in libres
        BY <3>3 DEF Libre
      <4>2. PrimeraLibre = Min(libres)
        BY <4>1 DEF PrimeraLibre
      <4> HIDE DEF libres
      <4>3. PrimeraLibre \in Nat /\ PrimeraLibre <= i
        BY <3>2, <4>1, <4>2
      <4> QED BY <3>1, <3>3, <4>3
    <3> QED BY <3>3
  <2> QED BY <2>1, <2>2 DEF Llenas
<1>2. CASE CircEscribe
  BY <1>0, <1>2, CircEscribeLlenas
<1>3. CASE CircSaltea
  BY <1>0, <1>3, NoSaltea
<1>4. CASE SetConocida \/ SetNueva
  <2>1. /\ UNCHANGED <<comienzoDeEntradasLibres, indexCircular, algReemplazo>>
        /\ pc = "procesarHeader" /\ pedido.op = "SET"
    BY <1>4 DEF SetConocida, SetNueva, cuentas, EnProceso
  <2>2. \A i \in Entradas : Libre(tabla, i) <=> Libre(tabla', i)
    <3>1. CASE SetConocida
      BY <3>1, ConocidaEnUna
    <3>2. CASE SetNueva
      <4>1. tabla' = TablaConsultada
        BY <3>2 DEF SetNueva
      <4> QED BY <1>0, <2>1, <4>1, ConsultadaIgual DEF Libre
    <3> QED BY <1>4, <3>1, <3>2
  <2> QED BY <2>1, <2>2 DEF Llenas
<1>5. CASE EmpiezaACompactar \/ PideCompactar \/ BuscaHueco \/ MueveEntrada
  <2>1. pc' = "compactar"
    BY <1>5 DEF EmpiezaACompactar, PideCompactar, BuscaHueco, MueveEntrada
  <2> QED BY <2>1 DEF Llenas
<1>6. CASE LruEscribe \/ LruDesaloja
  <2>1. algReemplazo' = "LRU"
    BY <1>6 DEF LruEscribe, LruDesaloja, cuentas
  <2> QED BY <2>1 DEF Llenas
<1>7. CASE CircVuelve
  <2>1. /\ comienzoDeEntradasLibres' = comienzoDeEntradasLibres /\ tabla' = tabla
        /\ pc = "guardarEnTabla" /\ algReemplazo = "CIRC" /\ indexCircular + Paginas > CantEntradas
    BY <1>7 DEF CircVuelve, datos, SinLugar
  <2>2. /\ comienzoDeEntradasLibres \in 0..CantEntradas /\ indexCircular \in Nat
        /\ indexCircular <= comienzoDeEntradasLibres
    BY <1>0, <2>1, Datos DEF LibresAlFinal
  <2>3. Paginas = 1
    <3>1. pedido \in Pedidos /\ pedido.op = "SET" /\ Paginas \in Nat \ {0}
      BY <1>0, <2>1, PaginasDelPedido
    <3>2. Largo \in Largos /\ Largo \in Nat \ {0}
      BY <3>1, ValorTipo, InstanciaAssumption DEF Largo
    <3>3. Largo <= TamanioEntradas
      BY <3>2 DEF Atomicos
    <3> QED BY <3>2, <3>3, PaginasCuantas DEF Paginas
  <2>4. comienzoDeEntradasLibres = CantEntradas
    BY <2>1, <2>2, <2>3, EntradasFinito
  <2> QED BY <2>1, <2>4 DEF Llenas
<1>8. CASE Morir
  <2>1. indexCircular' = 0 /\ comienzoDeEntradasLibres' = 0
    BY <1>8 DEF Morir
  <2>2. \A i \in Entradas : ~(i < 0)
    BY EntradasFinito
  <2> QED BY <2>1, <2>2 DEF Llenas
<1>9. CASE \/ Get \/ StoreReemplazada \/ storeKey \/ Status \/ TomaMutex \/ Reinicia
           \/ DumpEmpieza \/ PasoDump \/ UNCHANGED vars \/ \E p \in Pedidos : Recibe(p)
  <2>1. UNCHANGED <<tabla, comienzoDeEntradasLibres, indexCircular, algReemplazo>>
    BY <1>9 DEF Get, StoreReemplazada, storeKey, Status, TomaMutex, Reinicia, DumpEmpieza, PasoDump,
       DumpSaltea, DumpCopia, DumpTermina, vars, datos, indices, cuentas, Recibe
  <2>2. pc' # "compactar" => pc # "compactar"
    BY <1>9 DEF Get, StoreReemplazada, storeKey, Status, EnProceso, TomaMutex, Reinicia,
       DumpEmpieza, PasoDump, DumpSaltea, DumpCopia, DumpTermina, vars, Recibe
  <2> QED BY <2>1, <2>2 DEF Llenas
<1> QED BY <1>1, <1>2, <1>3, <1>4, <1>5, <1>6, <1>7, <1>8, <1>9
    DEF Next, PasoMain, MuereSinArchivo, Cae

LEMMA UnaPagina ==
  ASSUME Atomicos, TInv, pc = "guardarEnTabla"
  PROVE  Paginas = 1
<1>1. pedido \in Pedidos /\ pedido.op = "SET"
  BY PaginasDelPedido
<1>2. Largo \in Largos /\ Largo \in Nat \ {0}
  BY <1>1, ValorTipo, InstanciaAssumption DEF Largo
<1>3. Largo <= TamanioEntradas
  BY <1>2 DEF Atomicos
<1> QED BY <1>2, <1>3, PaginasCuantas DEF Paginas

LEMMA NadaLibre ==
  ASSUME NEW t, \A i \in Entradas : ~Libre(t, i)
  PROVE  free_entries(t) = 0
<1>1. {i \in Entradas : t[i].clave = vacio} = {}
  BY DEF Libre
<1> QED BY <1>1, FS_EmptySet DEF free_entries

\* CIRC, when it writes over an entry in use.
LEMMA CircPisa ==
  ASSUME Atomicos, Asentada, Llenas, CircEscribe, NEW k \in Claves,
         Suyas(tabla, k) # {}, Suyas(tabla', k) = {}
  PROVE  free_entries(tabla) < Paginas
<1>1. TInv /\ LibresAlFinal /\ pc = "guardarEnTabla" /\ algReemplazo = "CIRC"
      /\ tabla' = [i \in Entradas |-> IF i \in Hasta(indexCircular) THEN EntradaNueva ELSE tabla[i]]
  BY DEF Asentada, Final, CircEscribe
<1>2. Paginas = 1
  BY <1>1, UnaPagina
<1>3. /\ indexCircular \in Nat /\ comienzoDeEntradasLibres \in 0..CantEntradas
      /\ Entradas \subseteq Nat /\ vacio \notin Claves
  BY <1>1, Datos, EntradasFinito, InstanciaAssumption
<1>4. PICK j \in Entradas : tabla[j].clave = k
  BY DEF Suyas
<1>5. tabla'[j].clave # k
  BY DEF Suyas
<1>6. j = indexCircular
  <2>1. j \in Hasta(indexCircular)
    BY <1>1, <1>4, <1>5
  <2>2. Hasta(indexCircular) = indexCircular..(indexCircular + 1 - 1)
    BY <1>2 DEF Hasta
  <2> QED BY <1>3, <2>1, <2>2
<1>7. comienzoDeEntradasLibres = CantEntradas
  <2>1. ~(j >= comienzoDeEntradasLibres)
    BY <1>1, <1>3, <1>4 DEF LibresAlFinal
  <2>2. indexCircular # comienzoDeEntradasLibres
    BY <1>3, <1>6, <2>1
  <2> QED BY <1>1, <2>2 DEF Llenas
<1>8. \A i \in Entradas : ~Libre(tabla, i)
  <2>1. \A i \in Entradas : i < CantEntradas
    BY EntradasFinito DEF Entradas
  <2> QED BY <1>1, <1>7, <2>1 DEF Llenas
<1>9. free_entries(tabla) = 0
  BY <1>8, NadaLibre
<1> QED BY <1>2, <1>9

\* LRU, when it replaces.
LEMMA LruSinLugar ==
  ASSUME Atomicos, TInv, LruDesaloja
  PROVE  free_entries(tabla) < Paginas
<1>1. pc = "guardarEnTabla" /\ buscarEspacioLibre(Paginas) = -1
  BY DEF LruDesaloja, SinLugar
<1>2. Paginas = 1
  BY <1>1, UnaPagina
<1> DEFINE S == {i \in Entradas : i + 1 <= CantEntradas
                                  /\ \A q \in i..(i + 1 - 1) : tabla[q].clave = vacio}
<1>3. Primera(S) = -1
  BY <1>1, <1>2 DEF buscarEspacioLibre
<1>4. S \in SUBSET Entradas /\ Entradas \subseteq Nat
  BY EntradasFinito
<1>5. S = {}
  <2> HIDE DEF S
  <2>1. S # {} => Primera(S) \in S
    BY <1>4, PrimeraEsta
  <2>2. \A i \in Nat : i # -1
    OBVIOUS
  <2> QED BY <1>3, <1>4, <2>1, <2>2
<1>6. ASSUME NEW i \in Entradas, Libre(tabla, i) PROVE FALSE
  <2>1. i \in Nat /\ i + 1 <= CantEntradas
    BY EntradasFinito DEF Entradas
  <2>2. i..(i + 1 - 1) = {i}
    BY <2>1
  <2>3. i \in S
    BY <1>6, <2>1, <2>2 DEF Libre
  <2> QED BY <1>5, <2>3
<1>7. free_entries(tabla) = 0
  BY <1>6, NadaLibre
<1> QED BY <1>2, <1>7

\* No other step takes a key from the table, but the end of the process.
LEMMA ClavesQuedan ==
  ASSUME SinMayusculas, Atomicos, Asentada, [Next]_vars, ~CircEscribe, ~LruDesaloja,
         pc' # "caida", NEW k \in Claves, Suyas(tabla, k) # {}
  PROVE  Suyas(tabla', k) # {}
<1>1. TInv /\ Final /\ EnSuLugar /\ Promete
  BY DEF Asentada, Promete
<1>2. PICK j \in Entradas : tabla[j].clave = k
  BY DEF Suyas
<1>3. CASE SetConocida
  <2>1. PICK q \in Claves : q = pedido.clave
    BY <1>1, <1>3, ConoceEfecto
  <2>2. /\ \E n \in Entradas : Tramo(tabla', q, n)
        /\ \A c \in Claves \ {q} : Igualito(tabla, tabla', c)
    BY <1>1, <1>3, <2>1, ConoceEfecto
  <2>3. CASE k = q
    <3>1. PICK n \in Entradas : Tramo(tabla', k, n)
      BY <2>2, <2>3
    <3>2. tabla' \in [Entradas -> Entrada]
      BY PasoTipo, <1>1 DEF TInv, TypeOK, Entrada
    <3>3. EsPrimera(tabla', k, n)
      BY <3>1, <3>2, TramoIntervalo
    <3> QED BY <3>3 DEF EsPrimera, Suyas
  <2>4. CASE k # q
    BY <1>2, <2>2, <2>4 DEF Igualito, Suyas
  <2> QED BY <2>3, <2>4
<1>4. CASE SetNueva
  <2>1. tabla' = TablaConsultada /\ pc = "procesarHeader" /\ pedido.op = "SET"
    BY <1>4 DEF SetNueva, EnProceso
  <2> QED BY <1>1, <1>2, <2>1, ConsultadaIgual DEF Suyas
<1>5. CASE LruEscribe
  <2> DEFINE e == buscarEspacioLibre(Paginas)
  <2>1. /\ pc = "guardarEnTabla" /\ e # -1
        /\ tabla' = [i \in Entradas |-> IF i \in Hasta(e) THEN EntradaNueva ELSE tabla[i]]
    BY <1>5 DEF LruEscribe, SinLugar
  <2>2. \A q \in e..(e + Paginas - 1) : tabla[q].clave = vacio
    BY <1>1, <2>1, PaginasDelPedido, EspacioLibre
  <2>3. j \notin Hasta(e)
    BY <1>2, <2>2, InstanciaAssumption DEF Hasta
  <2>4. tabla'[j] = tabla[j]
    BY <2>1, <2>3
  <2> QED BY <1>2, <2>4 DEF Suyas
<1>6. CASE MueveEntrada
  <2> DEFINE x == compactado.x
             y == x + compactado.hueco
  <2>1. \/ /\ x \in Entradas /\ y \in Entradas
           /\ \A i \in Entradas : x <= i /\ i < y => Libre(tabla, i)
           /\ x < y
           /\ \A i \in Entradas : tabla'[i] = IF i = y THEN EntradaVacia
                                              ELSE IF i = x THEN tabla[y] ELSE tabla[i]
        \/ tabla' = tabla
    BY <1>1, <1>6, MueveEfecto
  <2> HIDE DEF x, y
  <2>2. CASE tabla' = tabla
    BY <2>2
  <2>3. CASE tabla' # tabla
    <3>1. j # x
      BY <1>2, <2>1, <2>3, EntradasFinito, InstanciaAssumption DEF Libre
    <3>2. j = y => tabla'[x].clave = k
      <4>1. x # y /\ x \in Entradas
        <5>1. x \in Entradas /\ y \in Entradas /\ x < y
          BY <2>1, <2>3
        <5>2. x \in Nat /\ y \in Nat
          BY <5>1, EntradasFinito
        <5> QED BY <5>1, <5>2
      <4>2. tabla'[x] = tabla[y]
        BY <2>1, <2>3, <4>1
      <4> QED BY <1>2, <4>2
    <3>3. j # y => tabla'[j].clave = k
      BY <1>2, <2>1, <2>3, <3>1
    <3> QED BY <2>1, <2>3, <3>2, <3>3 DEF Suyas
  <2> QED BY <2>2, <2>3
<1>7. CASE Morir
  BY <1>7 DEF Morir
<1>8. CASE \/ CircSaltea \/ EmpiezaACompactar \/ CircVuelve \/ PideCompactar \/ BuscaHueco
           \/ TerminaDeCompactar \/ Get \/ StoreReemplazada \/ storeKey \/ Status \/ TomaMutex
           \/ Reinicia \/ DumpEmpieza \/ PasoDump \/ UNCHANGED vars \/ \E p \in Pedidos : Recibe(p)
  <2>1. tabla' = tabla
    BY <1>8 DEF CircSaltea, EmpiezaACompactar, CircVuelve, PideCompactar, BuscaHueco,
       TerminaDeCompactar, Get, StoreReemplazada, storeKey, Status, TomaMutex, Reinicia,
       DumpEmpieza, PasoDump, DumpSaltea, DumpCopia, DumpTermina, vars, datos, Recibe
  <2> QED BY <2>1
<1> QED BY <1>3, <1>4, <1>5, <1>6, <1>7, <1>8 DEF Next, PasoMain, MuereSinArchivo, Cae

\* A key is replaced only when every entry is in use: CIRC goes round the table
\* without leaving a free entry behind, and LRU frees the oldest entries only
\* for want of any other.  For tables of any size and values of one entry.
THEOREM ReemplazaSinLugar ==
  ASSUME SinMayusculas, Atomicos
  PROVE  Spec => ReemplazaSoloSiNoEntra
<1>1. Init => Asentada /\ Llenas
  <2>1. Init => Llenas
    BY EntradasFinito DEF Init, Llenas
  <2> QED BY <2>1, AsentadaEmpieza
<1>2. Asentada /\ Llenas /\ [Next]_vars => Asentada' /\ Llenas'
  BY AsentadaSigue, LlenasPaso DEF NadieCrece
<1>3. Asentada /\ Llenas /\ [Next]_vars =>
        [pc' # "caida" /\ (\E k \in Claves : get_value(k) # Ausente /\ get_value(k)' = Ausente)
           => free_entries(tabla) < Paginas]_vars
  <2> SUFFICES ASSUME Asentada, Llenas, [Next]_vars, pc' # "caida",
                      NEW k \in Claves, get_value(k) # Ausente, get_value(k)' = Ausente
               PROVE  free_entries(tabla) < Paginas
    OBVIOUS
  <2>1. TInv /\ TypeOK /\ TypeOK'
    BY PasoTipo DEF Asentada, TInv
  <2>2. /\ tabla \in [Entradas -> Entrada] /\ mem \in [Bytes -> Byte]
        /\ tabla' \in [Entradas -> Entrada] /\ mem' \in [Bytes -> Byte]
    BY <2>1 DEF TypeOK, Entrada, Byte
  <2>3. Suyas(tabla, k) # {} /\ Suyas(tabla', k) = {}
    BY <2>2, ValorAntes, ValorDespues
  <2>4. CASE CircEscribe
    BY <2>3, <2>4, CircPisa
  <2>5. CASE LruDesaloja
    BY <2>1, <2>5, LruSinLugar
  <2>6. CASE ~CircEscribe /\ ~LruDesaloja
    BY <2>3, <2>6, ClavesQuedan
  <2> QED BY <2>4, <2>5, <2>6
<1> QED BY <1>1, <1>2, <1>3, PTL DEF Spec, ReemplazaSoloSiNoEntra

-----------------------------------------------------------------------------
(* Files.  A file is stretched for the value its key had when it was       *)
(* mapped and, in LRU, outlives it: it holds no longer one whole, nor is   *)
(* the right file written for names that differ in case (README.md,        *)
(* section 5).                                                             *)

\* Every value fits in the file made for any other.
EntranEnTodos == \A n, m \in Largos : n <= getCantPaginas(m) * TamanioEntradas + 2
\* Either the algorithm or the values are such that CIRC tears none.
NadieRompe == Atomicos \/ Algoritmos \subseteq {"LRU"}

Archivables == \A c \in lista_claves : \A n \in Largos : n <= Len(archivo[c])

\* The dump goes from the first entry of a value to that of another.
DumpAlPrincipio ==
  \A k \in Claves :
    volcado \in Entradas /\ tabla[volcado].clave = k => EsPrimera(tabla, k, volcado)

LEMMA TodosPrometen ==
  ASSUME NadieRompe, TypeOK
  PROVE  Promete
BY DEF NadieRompe, Promete, TypeOK

\* While the dump runs main does not.
LEMMA DuranteElDump ==
  ASSUME TInv, TurnoDelMutex, [Next]_vars, volcado' # -1
  PROVE  /\ UNCHANGED <<tabla, mem, lista_claves>> /\ pc \notin Trabajando
         /\ DumpEmpieza \/ DumpSaltea \/ DumpCopia \/ UNCHANGED <<volcado, archivo>>
<1>1. pc \notin Trabajando
  <2>1. CASE DumpEmpieza
    BY <2>1 DEF DumpEmpieza, TurnoDelMutex
  <2>2. CASE volcado # -1
    BY <2>2 DEF TurnoDelMutex
  <2>3. CASE ~DumpEmpieza /\ volcado = -1
    <3>1. -1 \notin Entradas /\ ~(-1 >= CantEntradas)
      BY EntradasFinito
    <3>2. ~PasoDump
      BY <2>3, <3>1 DEF PasoDump, DumpSaltea, DumpCopia, DumpTermina
    <3>3. volcado' = volcado \/ volcado' = -1
      BY <2>3, <3>2 DEF Next, Recibe, TomaMutex, PasoMain, SetConocida, SetNueva, CircEscribe,
         CircSaltea, EmpiezaACompactar, CircVuelve, LruEscribe, LruDesaloja, PideCompactar,
         BuscaHueco, MueveEntrada, TerminaDeCompactar, Get, StoreReemplazada, storeKey, Status,
         MuereSinArchivo, Cae, Morir, Reinicia, vars
    <3> QED BY <2>3, <3>3
  <2> QED BY <2>1, <2>2, <2>3
<1>2. ~PasoMain
  BY <1>1 DEF PasoMain, SetConocida, SetNueva, CircEscribe, CircSaltea, EmpiezaACompactar,
     CircVuelve, LruEscribe, LruDesaloja, PideCompactar, BuscaHueco, MueveEntrada,
     TerminaDeCompactar, Get, StoreReemplazada, storeKey, Status, EnProceso, Trabajando
<1>3. ~Morir /\ ~DumpTermina
  BY DEF Morir, DumpTermina
<1>4. CASE DumpEmpieza \/ DumpSaltea \/ DumpCopia
  BY <1>1, <1>4 DEF DumpEmpieza, DumpSaltea, DumpCopia, datos
<1>5. CASE (\E p \in Pedidos : Recibe(p)) \/ TomaMutex \/ Reinicia \/ UNCHANGED vars
  BY <1>1, <1>5 DEF Recibe, TomaMutex, Reinicia, vars, datos
<1> QED BY <1>2, <1>3, <1>4, <1>5 DEF Next, PasoDump, MuereSinArchivo, Cae

\* After an entry that is not of a value only its first can follow.
LEMMA SigueUnaPrimera ==
  ASSUME NEW t \in [Entradas -> Entrada], Tramos(t), NEW n \in Entradas, NEW k \in Claves,
         t[n].clave = k, n = 0 \/ (n - 1 \in Entradas /\ t[n - 1].clave # k)
  PROVE  EsPrimera(t, k, n)
<1>1. Entradas \subseteq Nat
  BY EntradasFinito
<1>2. CASE n = 0
  BY <1>1, <1>2 DEF EsPrimera
<1>3. CASE n # 0
  <2>1. PICK m \in Entradas : Tramo(t, k, m)
    BY DEF Tramos, Suyas
  <2>2. /\ EsPrimera(t, k, m)
        /\ \A i \in Entradas : t[i].clave = k <=>
             m <= i /\ i < m + getCantPaginas(t[m].tamanio)
        /\ getCantPaginas(t[m].tamanio) \in Nat
    BY <2>1, TramoIntervalo DEF Tramo
  <2>3. m <= n
    BY <2>2
  <2>4. ~(m <= n - 1)
    <3>1. n < m + getCantPaginas(t[m].tamanio)
      BY <2>2
    <3>2. n - 1 < m + getCantPaginas(t[m].tamanio)
      BY <1>1, <2>2, <3>1
    <3> QED BY <1>3, <2>2, <3>2
  <2>5. m = n
    BY <1>1, <2>3, <2>4
  <2> QED BY <2>2, <2>5
<1> QED BY <1>2, <1>3

LEMMA DumpAlPrincipioPaso ==
  ASSUME NadieRompe, Asentada, TurnoDelMutex, DumpAlPrincipio, [Next]_vars
  PROVE  DumpAlPrincipio'
<1> SUFFICES ASSUME NEW k \in Claves, volcado' \in Entradas, tabla'[volcado'].clave = k
             PROVE  EsPrimera(tabla', k, volcado')
  BY DEF DumpAlPrincipio
<1>1. TInv /\ EnSuLugar /\ Promete /\ Entradas \subseteq Nat /\ vacio \notin Claves
  BY TodosPrometen, EntradasFinito, InstanciaAssumption DEF Asentada, TInv
<1>2. volcado' # -1
  BY <1>1
<1>3. tabla' = tabla /\ pc \notin Trabajando
  BY <1>1, <1>2, DuranteElDump
<1>4. Tramos(tabla) /\ tabla \in [Entradas -> Entrada]
  BY <1>1, <1>3, Datos DEF EnSuLugar, Trabajando
<1>5. CASE DumpEmpieza
  <2>1. volcado' = 0
    BY <1>5 DEF DumpEmpieza
  <2> QED BY <1>3, <1>4, <2>1, SigueUnaPrimera
<1>6. CASE DumpSaltea
  <2>1. volcado \in Entradas /\ tabla[volcado].clave = vacio /\ volcado' = volcado + 1
    BY <1>6 DEF DumpSaltea
  <2>2. volcado' - 1 = volcado
    BY <1>1, <2>1
  <2> QED BY <1>1, <1>3, <1>4, <2>1, <2>2, SigueUnaPrimera
<1>7. CASE DumpCopia
  <2> DEFINE n == volcado
             p == getCantPaginas(tabla[n].tamanio)
  <2>1. n \in Entradas /\ tabla[n].clave # vacio /\ volcado' = n + p
    BY <1>7 DEF DumpCopia
  <2>2. PICK c \in Claves : c = tabla[n].clave
    BY <1>4, <2>1 DEF Entrada
  <2>3. EsPrimera(tabla, c, n)
    BY <2>1, <2>2 DEF DumpAlPrincipio
  <2>4. PICK m \in Entradas : Tramo(tabla, c, m)
    BY <1>4, <2>1, <2>2 DEF Tramos, Suyas
  <2>5. m = n
    <3>1. EsPrimera(tabla, c, m)
      BY <1>4, <2>4, TramoIntervalo
    <3> QED BY <1>1, <2>3, <3>1 DEF EsPrimera
  <2>6. /\ p \in Nat \ {0} /\ n + p <= CantEntradas
        /\ \A i \in Entradas : tabla[i].clave = c <=> n <= i /\ i < n + p
    BY <1>4, <2>4, <2>5, TramoIntervalo DEF Tramo
  <2> HIDE DEF p
  <2>7. volcado' - 1 \in Entradas /\ tabla[volcado' - 1].clave = c
    <3>1. CantEntradas \in Nat /\ n \in Nat
      BY <1>1, <2>1, EntradasFinito
    <3>2. n + p - 1 \in Entradas /\ n <= n + p - 1 /\ n + p - 1 < n + p
      BY <2>6, <3>1 DEF Entradas
    <3>3. tabla[n + p - 1].clave = c
      BY <2>6, <3>2
    <3>4. volcado' - 1 = n + p - 1
      BY <2>1, <2>6, <3>1
    <3> QED BY <3>2, <3>3, <3>4
  <2>8. c # k
    <3>1. ~(volcado' < n + p)
      BY <1>1, <2>1, <2>6
    <3> QED BY <1>3, <2>6, <3>1
  <2> QED BY <1>3, <1>4, <2>7, <2>8, SigueUnaPrimera
<1>8. CASE UNCHANGED volcado
  BY <1>3, <1>8 DEF DumpAlPrincipio
<1> QED BY <1>1, <1>2, <1>5, <1>6, <1>7, <1>8, DuranteElDump

\* A copy into a file is complete when the file is long enough.
LEMMA CopiaCompleta ==
  ASSUME NEW f \in Seq(Byte), NEW v \in Seq(Byte), NEW w \in Seq(Byte),
         Len(v) <= Len(f), Len(v) <= Len(w), \A j \in 1..Len(v) : w[j] = v[j]
  PROVE  /\ Len(EnArchivo(f, w)) = Len(f)
         /\ Prefijo(Len(v), EnArchivo(f, w)) = v
<1> DEFINE g == EnArchivo(f, w)
           l == Len(v)
<1>1. l \in Nat /\ Len(f) \in Nat /\ Len(w) \in Nat /\ v = [j \in 1..l |-> v[j]]
  OBVIOUS
<1>2. g \in Seq(Byte) /\ Len(g) = Len(f)
  BY <1>1, EnArchivoTipo DEF EnArchivo
<1>3. \A j \in 1..l : g[j] = v[j]
  BY <1>1 DEF EnArchivo
<1> HIDE DEF g
<1>4. SubSeq(g, 1, l) = [j \in 1..l |-> g[j]]
  BY <1>1, <1>2
<1>5. SubSeq(g, 1, l) = v
  BY <1>1, <1>3, <1>4
<1>6. Prefijo(l, g) = v
  <2>1. Len(g) < l \/ l <= Len(g)
    BY <1>1, <1>2
  <2>2. (IF Len(g) < l THEN Len(g) ELSE l) = l
    BY <1>1, <1>2
  <2> QED BY <1>5, <2>2 DEF Prefijo
<1> QED BY <1>2, <1>6 DEF g

LEMMA ArchivoNuevoLargo ==
  ASSUME EntranEnTodos, pedido \in Pedidos, pedido.op = "SET"
  PROVE  /\ ArchivoNuevo \in Seq(Byte)
         /\ \A n \in Largos : n <= Len(ArchivoNuevo)
<1>1. Largo \in Largos /\ Largo \in Nat
  BY ValorTipo DEF Largo
<1>2. Paginas * TamanioEntradas + 2 \in Nat
  <2>1. Paginas \in Nat /\ TamanioEntradas \in Nat
    BY <1>1, PaginasCuantas, EntradasFinito DEF Paginas
  <2> QED BY <2>1
<1>3. \A n \in Largos : n <= Paginas * TamanioEntradas + 2
  BY <1>1 DEF EntranEnTodos, Paginas
<1>4. Nulo \in Byte
  BY DEF Byte
<1> DEFINE L == Paginas * TamanioEntradas + 2
<1>5. ArchivoNuevo = [j \in 1..L |-> Nulo]
  BY DEF ArchivoNuevo
<1>6. L \in Nat /\ \A n \in Largos : n <= L
  BY <1>2, <1>3
<1> HIDE DEF L
<1>7. ArchivoNuevo \in Seq(Byte) /\ Len(ArchivoNuevo) = L
  BY <1>4, <1>5, <1>6
<1> QED BY <1>6, <1>7

\* What STORE and the dump write of a key.
LEMMA StoreCopia ==
  ASSUME SinMayusculas, TInv, storeKey
  PROVE  \E k \in lista_claves, w \in Seq(Byte) :
           /\ archivo' = [archivo EXCEPT ![k] = EnArchivo(archivo[k], w)]
           /\ get_value(k) # Ausente /\ get_value(k) \in Seq(Byte)
           /\ Len(get_value(k)) \in Largos \cup {0} /\ Len(get_value(k)) <= Len(w)
           /\ \A j \in 1..Len(get_value(k)) : w[j] = get_value(k)[j]
           /\ \E e \in Entradas : /\ tabla[e].clave # vacio
                                 /\ w = Leer(e * TamanioEntradas, tabla[e].tamanio + 1)
<1> DEFINE e == consultarTabla(pedido.clave)
           w == Leer(e * TamanioEntradas, tabla[e].tamanio + 1)
           v == Leer(e * TamanioEntradas, tabla[e].tamanio)
<1>1. EnProceso("STORE") /\ e # -1 /\ pedido \in Pedidos
  BY DEF storeKey, EnProceso, TInv, Fase
<1>2. PICK k \in Claves : k = pedido.clave
  BY <1>1 DEF Pedidos
<1>3. e \in Entradas
  BY <1>1, Busquedas
<1>4. PICK c \in Mapeada(pedido.clave) : archivo' = [archivo EXCEPT ![c] = EnArchivo(@, w)]
  BY DEF storeKey
<1>5. c = k /\ c \in lista_claves
  <2>1. c \in Claves /\ Igual(c, k) /\ c \in lista_claves
    BY <1>2, <1>4, Datos DEF Mapeada
  <2> QED BY <2>1 DEF SinMayusculas
<1>6. get_value(k) = v /\ v \in Seq(Byte) /\ v # Ausente
  <2>1. get_value(k) = v
    BY <1>1, <1>2 DEF get_value
  <2>2. v \in Seq(Byte)
    <3> HIDE DEF e
    <3>1. e * TamanioEntradas \in Int /\ tabla[e].tamanio \in Nat /\ TypeOK
      BY <1>3, EntradaTipo DEF TInv
    <3> QED BY <3>1, LeerTipo
  <2>3. v # Ausente
    BY <2>2, InstanciaAssumption DEF Byte
  <2> QED BY <2>1, <2>2, <2>3
<1>7. /\ tabla[e].tamanio \in Largos \cup {0} /\ tabla[e].tamanio \in Nat
      /\ e * TamanioEntradas \in Int /\ TypeOK
  <2> HIDE DEF e
  <2>1. TypeOK /\ tabla \in [Entradas -> Entrada]
    BY Datos
  <2>2. tabla[e].tamanio \in Largos \cup {0}
    BY <1>3, <2>1, TamanioTipo
  <2>3. tabla[e].tamanio \in Nat /\ e * TamanioEntradas \in Int
    BY <1>3, <2>1, EntradaTipo
  <2> QED BY <2>1, <2>2, <2>3
<1>8. /\ w \in Seq(Byte) /\ Len(w) = tabla[e].tamanio + 1 /\ Len(v) = tabla[e].tamanio
      /\ \A j \in 1..Len(v) : w[j] = v[j]
  <2> DEFINE l == tabla[e].tamanio
             p == e * TamanioEntradas
  <2>1. l \in Nat /\ p \in Int /\ TypeOK
    BY <1>7
  <2>2. l + 1 \in Nat
    BY <2>1
  <2> HIDE DEF l, p
  <2>3. /\ Leer(p, l + 1) \in Seq(Byte) /\ Len(Leer(p, l + 1)) = l + 1 /\ Len(Leer(p, l)) = l
    BY <2>1, <2>2, LeerTipo
  <2>4. \A j \in 1..l : Leer(p, l + 1)[j] = Leer(p, l)[j]
    BY <2>1 DEF Leer
  <2> QED BY <2>3, <2>4 DEF l, p
<1>9. archivo' = [archivo EXCEPT ![k] = EnArchivo(archivo[k], w)]
  BY <1>4, <1>5
<1>10. \E i \in Entradas : /\ tabla[i].clave # vacio
                          /\ w = Leer(i * TamanioEntradas, tabla[i].tamanio + 1)
  <2>1. Igual(tabla[e].clave, k)
    BY <1>1, <1>2, Busquedas
  <2> HIDE DEF e
  <2>2. tabla[e].clave # vacio
    BY <1>2, <2>1, InstanciaAssumption DEF Igual
  <2> QED BY <1>3, <2>2
<1> HIDE DEF w, v, e
<1>11. Len(v) <= Len(w) /\ Len(v) \in Largos \cup {0}
  BY <1>7, <1>8
<1>12. k \in lista_claves
  BY <1>5
<1> QED BY <1>6, <1>8, <1>9, <1>10, <1>11, <1>12

LEMMA DumpCopiaElValor ==
  ASSUME SinMayusculas, TInv, DumpAlPrincipio, DumpCopia
  PROVE  \E k \in lista_claves, w \in Seq(Byte) :
           /\ archivo' = [archivo EXCEPT ![k] = EnArchivo(archivo[k], w)]
           /\ tabla[volcado].clave = k /\ EsPrimera(tabla, k, volcado)
           /\ get_value(k) = w /\ w # Ausente
           /\ Len(w) = tabla[volcado].tamanio /\ Len(w) \in Largos \cup {0}
<1> DEFINE w == Leer(volcado * TamanioEntradas, tabla[volcado].tamanio)
<1>1. volcado \in Entradas /\ tabla[volcado].clave # vacio
  BY DEF DumpCopia
<1>2. /\ tabla \in [Entradas -> Entrada] /\ mem \in [Bytes -> Byte] /\ TypeOK
      /\ lista_claves \subseteq Claves
  BY Datos
<1>3. PICK k \in Claves : k = tabla[volcado].clave
  BY <1>1, <1>2 DEF Entrada
<1>4. PICK c \in Mapeada(k) : archivo' = [archivo EXCEPT ![c] = EnArchivo(@, w)]
  BY <1>3 DEF DumpCopia
<1>5. c = k /\ c \in lista_claves
  <2>1. c \in Claves /\ Igual(c, k) /\ c \in lista_claves
    BY <1>2, <1>4 DEF Mapeada
  <2> QED BY <2>1 DEF SinMayusculas
<1>6. EsPrimera(tabla, k, volcado)
  BY <1>1, <1>3 DEF DumpAlPrincipio
<1>7. get_value(k) = w
  BY <1>2, <1>6, ValorAntes DEF Leer, BytesDe
<1>8. get_value(k) # Ausente
  BY <1>2, <1>6, ValorAntes DEF EsPrimera, Suyas
<1>9. w \in Seq(Byte) /\ Len(w) = tabla[volcado].tamanio
      /\ tabla[volcado].tamanio \in Largos \cup {0}
  <2>1. volcado * TamanioEntradas \in Int /\ tabla[volcado].tamanio \in Nat
    BY <1>1, <1>2, EntradaTipo
  <2> QED BY <1>1, <1>2, <2>1, LeerTipo, TamanioTipo
<1> HIDE DEF w
<1> QED BY <1>3, <1>4, <1>5, <1>6, <1>7, <1>8, <1>9

\* The steps that touch a file, and how.
LEMMA QuienEscribe ==
  ASSUME [Next]_vars
  PROVE  \/ (SetConocida \/ SetNueva) /\ MapearClave /\ pedido.op = "SET" /\ pc = "procesarHeader"
         \/ CircEscribe
         \/ storeKey /\ lista_claves' = lista_claves
         \/ DumpCopia /\ lista_claves' = lista_claves
         \/ Morir
         \/ UNCHANGED <<archivo, lista_claves>>
<1>1. CASE SetConocida \/ SetNueva
  BY <1>1 DEF SetConocida, SetNueva, EnProceso
<1>2. CASE CircEscribe \/ Morir
  BY <1>2
<1>3. CASE storeKey \/ DumpCopia
  BY <1>3 DEF storeKey, DumpCopia
<1>4. CASE \/ CircSaltea \/ EmpiezaACompactar \/ CircVuelve \/ LruEscribe \/ LruDesaloja
           \/ PideCompactar \/ BuscaHueco \/ MueveEntrada \/ TerminaDeCompactar \/ Get
           \/ StoreReemplazada \/ Status \/ TomaMutex \/ Reinicia \/ DumpEmpieza \/ DumpSaltea
           \/ DumpTermina \/ UNCHANGED vars \/ \E p \in Pedidos : Recibe(p)
  BY <1>4 DEF CircSaltea, EmpiezaACompactar, CircVuelve, LruEscribe, LruDesaloja, PideCompactar,
     BuscaHueco, MueveEntrada, TerminaDeCompactar, Get, StoreReemplazada, Status, TomaMutex,
     Reinicia, DumpEmpieza, DumpSaltea, DumpTermina, vars, datos, Recibe
<1> QED BY <1>1, <1>2, <1>3, <1>4 DEF Next, PasoMain, PasoDump, MuereSinArchivo, Cae

LEMMA ArchivablesPaso ==
  ASSUME SinMayusculas, EntranEnTodos, TInv, DumpAlPrincipio, Archivables, [Next]_vars
  PROVE  Archivables'
<1>1. /\ archivo \in [Claves -> Seq(Byte)] /\ lista_claves \subseteq Claves
      /\ Largos \subseteq Nat
  BY Datos, InstanciaAssumption
<1>2. CASE (SetConocida \/ SetNueva) /\ MapearClave /\ pedido.op = "SET" /\ pc = "procesarHeader"
  <2>1. pedido \in Pedidos /\ pedido.clave \in Claves
    BY <1>2, ValorTipo DEF TInv, Fase
  <2>2. \A n \in Largos : n <= Len(ArchivoNuevo)
    BY <1>2, <2>1, ArchivoNuevoLargo
  <2>3. CASE UNCHANGED <<archivo, lista_claves>>
    BY <2>3 DEF Archivables
  <2>4. CASE /\ archivo' = [archivo EXCEPT ![pedido.clave] = ArchivoNuevo]
             /\ lista_claves' = lista_claves \cup {pedido.clave}
    <3> SUFFICES ASSUME NEW c \in lista_claves' PROVE \A n \in Largos : n <= Len(archivo'[c])
      BY DEF Archivables
    <3>1. CASE c = pedido.clave
      <4>1. archivo'[c] = ArchivoNuevo
        BY <1>1, <2>1, <2>4, <3>1
      <4> QED BY <2>2, <4>1
    <3>2. CASE c # pedido.clave
      <4>1. c \in lista_claves /\ archivo'[c] = archivo[c]
        BY <1>1, <2>4, <3>2
      <4> QED BY <4>1 DEF Archivables
    <3> QED BY <3>1, <3>2
  <2> QED BY <1>2, <2>3, <2>4 DEF MapearClave
<1>3. CASE CircEscribe
  BY <1>3 DEF CircEscribe, Archivables
<1>4. ASSUME NEW k \in lista_claves, NEW w \in Seq(Byte), lista_claves' = lista_claves,
             archivo' = [archivo EXCEPT ![k] = EnArchivo(archivo[k], w)]
      PROVE  Archivables'
  <2>1. Len(EnArchivo(archivo[k], w)) = Len(archivo[k])
    <3>1. archivo[k] \in Seq(Byte)
      BY <1>1
    <3>2. Len(archivo[k]) \in Nat
      BY <3>1
    <3> QED BY <3>2 DEF EnArchivo
  <2>2. \A c \in lista_claves : Len(archivo'[c]) = Len(archivo[c])
    BY <1>1, <1>4, <2>1
  <2> QED BY <1>4, <2>2 DEF Archivables
<1>5. CASE storeKey /\ lista_claves' = lista_claves
  BY <1>4, <1>5, StoreCopia
<1>6. CASE DumpCopia /\ lista_claves' = lista_claves
  BY <1>4, <1>6, DumpCopiaElValor
<1>7. CASE Morir
  BY <1>7 DEF Morir, Archivables
<1>8. CASE UNCHANGED <<archivo, lista_claves>>
  BY <1>8 DEF Archivables
<1> QED BY <1>2, <1>3, <1>5, <1>6, <1>7, <1>8, QuienEscribe

\* A mapped file is written whole, from the value of its key.
LEMMA CopiaDelValor ==
  ASSUME TInv, Archivables, NEW k \in lista_claves, NEW w \in Seq(Byte), NEW v \in Seq(Byte),
         archivo' = [archivo EXCEPT ![k] = EnArchivo(archivo[k], w)],
         Len(v) \in Largos \cup {0}, Len(v) <= Len(w), \A j \in 1..Len(v) : w[j] = v[j]
  PROVE  /\ Prefijo(Len(v), archivo'[k]) = v
         /\ \A c \in Claves : c # k => archivo'[c] = archivo[c]
<1>1. archivo \in [Claves -> Seq(Byte)] /\ k \in Claves
  BY Datos
<1>2. archivo[k] \in Seq(Byte) /\ archivo'[k] = EnArchivo(archivo[k], w)
  BY <1>1
<1>3. Len(archivo[k]) \in Nat
  BY <1>2
<1>4. Len(v) <= Len(archivo[k])
  BY <1>3 DEF Archivables
<1>5. Prefijo(Len(v), EnArchivo(archivo[k], w)) = v
  BY <1>2, <1>4, CopiaCompleta
<1> QED BY <1>1, <1>2, <1>5

\* A file is emptied only for the first SET of its key, and what is written
\* into it is the whole value its key has at that moment: neither STORE nor the
\* dump, which goes through the table by the lengths it finds there, takes a
\* part of a value or that of another key.  For tables and values of any size
\* that fit in the files.
THEOREM LosArchivosSonCopias ==
  ASSUME SinMayusculas, NadieCrece, NadieRompe, EntranEnTodos
  PROVE  Spec => ArchivoEsCopia
<1> DEFINE Inv == Asentada /\ TurnoDelMutex /\ DumpAlPrincipio /\ Archivables
<1>1. Init => Inv
  <2>1. Init => DumpAlPrincipio /\ Archivables /\ TurnoDelMutex
    BY EntradasFinito DEF Init, DumpAlPrincipio, Archivables, TurnoDelMutex, Trabajando
  <2> QED BY <2>1, AsentadaEmpieza
<1>2. Inv /\ [Next]_vars => Inv'
  <2> SUFFICES ASSUME Inv, [Next]_vars PROVE Inv'
    OBVIOUS
  <2>1. TInv
    BY DEF Asentada
  <2> QED BY <2>1, AsentadaSigue, TurnoPaso, DumpAlPrincipioPaso, ArchivablesPaso
<1>3. Inv /\ [Next]_vars =>
        [\A k \in Claves :
           archivo'[k] # archivo[k] =>
             \/ k \notin lista_claves /\ pedido.op = "SET" /\ pedido.clave = k
             \/ /\ get_value(k) # Ausente
                /\ Prefijo(Len(get_value(k)), archivo'[k]) = get_value(k)]_vars
  <2> SUFFICES ASSUME Inv, [Next]_vars, NEW k \in Claves, archivo'[k] # archivo[k]
               PROVE  \/ k \notin lista_claves /\ pedido.op = "SET" /\ pedido.clave = k
                      \/ /\ get_value(k) # Ausente
                         /\ Prefijo(Len(get_value(k)), archivo'[k]) = get_value(k)
    OBVIOUS
  <2>1. TInv /\ archivo \in [Claves -> Seq(Byte)]
    BY Datos DEF Asentada
  <2>2. CASE MapearClave /\ pedido.op = "SET" /\ pc = "procesarHeader"
    <3>1. pedido.clave \in Claves
      BY <2>1, <2>2, ValorTipo DEF TInv, Fase
    <3>2. Mapeada(pedido.clave) = {} /\ archivo' = [archivo EXCEPT ![pedido.clave] = ArchivoNuevo]
      BY <2>2 DEF MapearClave
    <3>3. k = pedido.clave
      BY <2>1, <3>2
    <3>4. k \notin lista_claves
      BY <3>2, <3>3 DEF Mapeada, Igual
    <3> QED BY <2>2, <3>3, <3>4
  <2>3. CASE storeKey
    <3>1. PICK c \in lista_claves, w \in Seq(Byte) :
            /\ archivo' = [archivo EXCEPT ![c] = EnArchivo(archivo[c], w)]
            /\ get_value(c) # Ausente /\ get_value(c) \in Seq(Byte)
            /\ Len(get_value(c)) \in Largos \cup {0} /\ Len(get_value(c)) <= Len(w)
            /\ \A j \in 1..Len(get_value(c)) : w[j] = get_value(c)[j]
      BY <2>1, <2>3, StoreCopia
    <3>2. k = c
      BY <2>1, <3>1
    <3> QED BY <2>1, <3>1, <3>2, CopiaDelValor
  <2>4. CASE DumpCopia
    <3>1. PICK c \in lista_claves, w \in Seq(Byte) :
            /\ archivo' = [archivo EXCEPT ![c] = EnArchivo(archivo[c], w)]
            /\ get_value(c) = w /\ w # Ausente /\ Len(w) \in Largos \cup {0}
      BY <2>1, <2>4, DumpCopiaElValor
    <3>2. k = c
      BY <2>1, <3>1
    <3>3. Len(w) <= Len(w)
      OBVIOUS
    <3>4. Prefijo(Len(w), archivo'[c]) = w
      BY <2>1, <3>1, <3>3, CopiaDelValor
    <3> QED BY <3>1, <3>2, <3>4
  <2>5. CASE CircEscribe \/ Morir \/ UNCHANGED archivo
    BY <2>5 DEF CircEscribe, Morir
  <2> QED BY <2>2, <2>3, <2>4, <2>5, QuienEscribe
<1> HIDE DEF Inv
<1> QED BY <1>1, <1>2, <1>3, PTL DEF Spec, ArchivoEsCopia

-----------------------------------------------------------------------------
(* The dump.  What a file holds is a C string: it ends at its first '\0',  *)
(* which the dump does not write.  When every value has the same length,   *)
(* and ends before its entry does, there is always one in its place; the   *)
(* dump mixes values of different lengths (README.md, section 5).          *)

UnLargo == \E n \in Largos : Largos = {n} /\ n < TamanioEntradas

\* Byte L of an entry, and of a mapped file, is a '\0'; those before it, in an
\* entry in use, are not.
Limpios(L, t, m) ==
  /\ \A e \in Entradas : m[e * TamanioEntradas + L] = Nulo
  /\ \A e \in Entradas : t[e].clave # vacio =>
       t[e].tamanio = L /\ \A b \in Nat : b < L => m[e * TamanioEntradas + b] # Nulo
Terminados(L, a, lista) == \A c \in lista : L + 1 <= Len(a[c]) /\ a[c][L + 1] = Nulo

\* The values the dump has gone past are in their files.
Volcada ==
  volcado # -1 => \A k \in Claves, n \in Entradas :
    EsPrimera(tabla, k, n) /\ n < volcado => Cadena(archivo[k]) = get_value(k)

LEMMA UnLargoTipo ==
  ASSUME NEW L, Largos = {L}, L < TamanioEntradas
  PROVE  L \in Nat \ {0} /\ DosEntradas /\ Atomicos /\ EntranEnTodos /\ NadieRompe /\ NadieCrece
<1>1. L \in Nat \ {0} /\ TamanioEntradas \in Nat \ {0}
  BY InstanciaAssumption
<1>2. DosEntradas /\ Atomicos
  BY <1>1 DEF DosEntradas, Atomicos
<1>3. getCantPaginas(L) = 1
  BY <1>1, PaginasCuantas
<1>4. EntranEnTodos
  BY <1>1, <1>3 DEF EntranEnTodos
<1> QED BY <1>1, <1>2, <1>4 DEF NadieRompe, NadieCrece

\* What is written into one entry, its '\0' included, stays in it.
LEMMA EscribeEnUna ==
  ASSUME TypeOK, NEW e \in Entradas, NEW bytes \in Seq(Byte), Len(bytes) <= TamanioEntradas,
         mem' = Escribir(e * TamanioEntradas, bytes)
  PROVE  \A j \in Entradas, b \in Nat : b < TamanioEntradas =>
           mem'[j * TamanioEntradas + b] =
             IF j = e /\ b < Len(bytes) THEN bytes[b + 1] ELSE mem[j * TamanioEntradas + b]
<1> SUFFICES ASSUME NEW j \in Entradas, NEW b \in Nat, b < TamanioEntradas
             PROVE  mem'[j * TamanioEntradas + b] =
               IF j = e /\ b < Len(bytes) THEN bytes[b + 1] ELSE mem[j * TamanioEntradas + b]
  OBVIOUS
<1> DEFINE T == TamanioEntradas
           E == e * T
           J == j * T
           q == J + b
<1>1. e \in Nat /\ j \in Nat /\ T \in Nat /\ E \in Nat /\ J \in Nat
  BY Comas, EntradasFinito
<1>2. q \in Bytes
  BY EnPagina
<1>3. /\ e < j => E + T <= J
      /\ j < e => J + T <= E
  BY <1>1, Comas
<1>4. /\ q < E \/ q >= E + Len(bytes) => mem'[q] = mem[q]
      /\ E <= q /\ q < E + Len(bytes) => mem'[q] = bytes[q - E + 1]
  <2> HIDE DEF E, q
  <2> QED BY <1>1, <1>2, EscribirEfecto DEF E
<1>5. Len(bytes) \in Nat
  OBVIOUS
<1>6. CASE j = e
  <2>1. q = E + b /\ q - E + 1 = b + 1
    BY <1>1, <1>6
  <2> HIDE DEF E, q
  <2>2. CASE b < Len(bytes)
    <3>1. mem'[q] = bytes[b + 1]
      BY <1>1, <1>4, <1>5, <2>1, <2>2
    <3> QED BY <1>6, <2>2, <3>1 DEF q
  <2>3. CASE ~(b < Len(bytes))
    <3>1. mem'[q] = mem[q]
      BY <1>1, <1>4, <1>5, <2>1, <2>3
    <3> QED BY <1>6, <2>3, <3>1 DEF q
  <2> QED BY <2>2, <2>3
<1>7. CASE j # e
  <2>1. e < j \/ j < e
    BY <1>1, <1>7
  <2> HIDE DEF E, J, T
  <2>2. q < E \/ q >= E + Len(bytes)
    <3>1. Len(bytes) <= T /\ b < T
      BY DEF T
    <3> QED BY <1>1, <1>3, <1>5, <2>1, <3>1
  <2>3. mem'[q] = mem[q]
    BY <1>4, <2>2
  <2> QED BY <1>7, <2>3 DEF T, J
<1> QED BY <1>6, <1>7

\* A SET writes its value and a '\0'.
LEMMA GuardaLimpio ==
  ASSUME NEW L, Largos = {L}, L < TamanioEntradas, TypeOK, Limpios(L, tabla, mem),
         pedido \in Pedidos, pedido.op = "SET", NEW e \in Entradas, mem' = guardarEnMem(e),
         tabla'[e].clave # vacio => tabla'[e].tamanio = L,
         \A j \in Entradas \ {e} : tabla'[j].clave # vacio =>
           tabla[j].clave # vacio /\ tabla'[j].tamanio = tabla[j].tamanio
  PROVE  Limpios(L, tabla', mem')
<1> DEFINE T == TamanioEntradas
           v == pedido.valor
           bytes == Append(v, Nulo)
<1>1. L \in Nat
  BY UnLargoTipo
<1>2. /\ v \in Seq(Letras \X Nat) /\ Len(v) = L
  BY ValorTipo
<1>3. \A b \in Nat : b < L => v[b + 1] # Nulo
  <2> SUFFICES ASSUME NEW b \in Nat, b < L PROVE v[b + 1] # Nulo
    OBVIOUS
  <2> HIDE DEF v
  <2>1. v[b + 1] \in Letras \X Nat
    BY <1>1, <1>2
  <2> QED BY <2>1, InstanciaAssumption
<1>4. /\ bytes \in Seq(Byte) /\ Len(bytes) = L + 1 /\ Len(bytes) <= T /\ bytes[L + 1] = Nulo
      /\ \A b \in Nat : b < L => bytes[b + 1] = v[b + 1]
  <2>1. v \in Seq(Byte) /\ Nulo \in Byte
    BY <1>2 DEF Byte
  <2>2. T \in Nat
    BY EntradasFinito
  <2> HIDE DEF v
  <2> QED BY <1>1, <1>2, <2>1, <2>2
<1> HIDE DEF bytes, v
<1>5. \A j \in Entradas, b \in Nat : b < T =>
        mem'[j * T + b] = IF j = e /\ b < Len(bytes) THEN bytes[b + 1] ELSE mem[j * T + b]
  <2>1. mem' = Escribir(e * T, bytes)
    BY DEF guardarEnMem, bytes, v
  <2> QED BY <1>4, <2>1, EscribeEnUna
<1>6. ASSUME NEW j \in Entradas PROVE mem'[j * T + L] = Nulo
  <2>1. mem'[j * T + L] = IF j = e /\ L < Len(bytes) THEN bytes[L + 1] ELSE mem[j * T + L]
    BY <1>1, <1>5
  <2> QED BY <1>4, <2>1 DEF Limpios
<1>7. ASSUME NEW j \in Entradas, tabla'[j].clave # vacio
      PROVE  tabla'[j].tamanio = L /\ \A b \in Nat : b < L => mem'[j * T + b] # Nulo
  <2>1. ASSUME NEW b \in Nat, b < L
        PROVE  /\ j = e => mem'[j * T + b] = v[b + 1]
               /\ j # e => mem'[j * T + b] = mem[j * T + b]
    <3>1. b < T /\ b < Len(bytes)
      BY <1>1, <1>4, <2>1, EntradasFinito
    <3>2. mem'[j * T + b] = IF j = e /\ b < Len(bytes) THEN bytes[b + 1] ELSE mem[j * T + b]
      BY <1>5, <3>1
    <3> QED BY <1>4, <2>1, <3>1, <3>2
  <2>2. CASE j = e
    BY <1>3, <1>7, <2>1, <2>2
  <2>3. CASE j # e
    BY <1>7, <2>1, <2>3 DEF Limpios
  <2> QED BY <2>2, <2>3
<1> QED BY <1>6, <1>7 DEF Limpios

\* compactar brings the bytes of a value along without its '\0'.
LEMMA MueveLimpio ==
  ASSUME NEW L, Largos = {L}, L < TamanioEntradas, TypeOK, Limpios(L, tabla, mem),
         NEW x \in Entradas, NEW y \in Entradas, x < y,
         tabla' = [tabla EXCEPT ![x] = tabla[y], ![y] = EntradaVacia],
         mem' = Escribir(x * TamanioEntradas, Leer(y * TamanioEntradas, tabla[y].tamanio))
  PROVE  Limpios(L, tabla', mem')
<1> DEFINE T == TamanioEntradas
           w == tabla[y].tamanio
           bytes == Leer(y * T, w)
<1>1. L \in Nat /\ T \in Nat /\ x # y
  BY UnLargoTipo, EntradasFinito
<1>2. tabla \in [Entradas -> Entrada] /\ w \in {0, L} /\ w \in Nat
  <2>1. tabla \in [Entradas -> Entrada]
    BY DEF TypeOK, Entrada
  <2> QED BY <2>1, TamanioTipo
<1>3. bytes \in Seq(Byte) /\ Len(bytes) = w
  <2>1. y * T \in Int
    BY Comas, EntradasFinito
  <2> HIDE DEF w
  <2> QED BY <1>2, <2>1, LeerTipo
<1>4. \A b \in Nat : b < w => bytes[b + 1] = mem[y * T + b]
  <2> SUFFICES ASSUME NEW b \in Nat, b < w PROVE bytes[b + 1] = mem[y * T + b]
    OBVIOUS
  <2> DEFINE Y == y * T
  <2>1. b < T /\ Y \in Nat
    BY <1>1, <1>2, Comas, EntradasFinito
  <2>2. Y + b \in Bytes
    BY <2>1, EnPagina
  <2> HIDE DEF w, Y
  <2>3. b + 1 \in 1..w /\ Y + (b + 1) - 1 = Y + b
    BY <1>2, <2>1
  <2>4. Leer(Y, w)[b + 1] = IF Y + (b + 1) - 1 \in Bytes THEN mem[Y + (b + 1) - 1] ELSE Nulo
    BY <2>3 DEF Leer
  <2> QED BY <2>2, <2>3, <2>4 DEF Y
<1> HIDE DEF bytes
<1>5. \A j \in Entradas, b \in Nat : b < T =>
        mem'[j * T + b] = IF j = x /\ b < w THEN bytes[b + 1] ELSE mem[j * T + b]
  <2>1. Len(bytes) <= T /\ mem' = Escribir(x * T, bytes)
    BY <1>1, <1>2, <1>3 DEF bytes
  <2> QED BY <1>3, <2>1, EscribeEnUna
<1>6. \A j \in Entradas : tabla'[j] = IF j = y THEN EntradaVacia ELSE IF j = x THEN tabla[y] ELSE tabla[j]
  BY <1>1, <1>2
<1>7. ASSUME NEW j \in Entradas PROVE mem'[j * T + L] = Nulo
  <2>1. ~(L < w)
    BY <1>1, <1>2
  <2>2. mem'[j * T + L] = mem[j * T + L]
    BY <1>1, <1>5, <2>1
  <2> QED BY <2>2 DEF Limpios
<1>8. ASSUME NEW j \in Entradas, tabla'[j].clave # vacio
      PROVE  tabla'[j].tamanio = L /\ \A b \in Nat : b < L => mem'[j * T + b] # Nulo
  <2>1. j # y
    BY <1>6, <1>8 DEF EntradaVacia
  <2>2. CASE j = x
    <3>1. tabla[y].clave # vacio /\ w = L /\ tabla'[j].tamanio = L
      <4>1. tabla'[j] = tabla[y]
        BY <1>6, <2>1, <2>2
      <4>2. tabla[y].clave # vacio
        BY <1>8, <4>1
      <4>3. tabla[y].tamanio = L
        BY <4>2 DEF Limpios
      <4> QED BY <4>1, <4>2, <4>3 DEF w
    <3>2. ASSUME NEW b \in Nat, b < L PROVE mem'[j * T + b] = mem[y * T + b]
      <4>1. b < T /\ b < w
        BY <1>1, <3>1, <3>2
      <4> QED BY <1>4, <1>5, <2>2, <4>1
    <3> QED BY <3>1, <3>2 DEF Limpios
  <2>3. CASE j # x
    <3>1. tabla'[j] = tabla[j]
      BY <1>6, <2>1, <2>3
    <3>2. ASSUME NEW b \in Nat, b < L PROVE mem'[j * T + b] = mem[j * T + b]
      <4>1. b < T
        BY <1>1, <3>2
      <4> QED BY <1>5, <2>3, <4>1
    <3> QED BY <1>8, <3>1, <3>2 DEF Limpios
  <2> QED BY <2>2, <2>3
<1> QED BY <1>7, <1>8 DEF Limpios

LEMMA LimpiosPaso ==
  ASSUME SinMayusculas, NEW L, Largos = {L}, L < TamanioEntradas,
         Asentada, Limpios(L, tabla, mem), [Next]_vars
  PROVE  Limpios(L, tabla', mem')
<1>1. TInv /\ Final /\ EnSuLugar /\ TypeOK /\ Promete /\ tabla \in [Entradas -> Entrada]
  BY UnLargoTipo, Datos DEF Asentada, TInv, Promete
<1>2. CASE SetConocida
  <2>1. /\ EnProceso("SET") /\ Encontrada \in Entradas /\ mem' = guardarEnMem(Encontrada)
        /\ tabla' = Sobrescribir(TablaConsultada, Encontrada)
    BY <1>2, Busquedas DEF SetConocida, Encontrada
  <2>2. PICK e \in Entradas : e = Encontrada
    BY <2>1
  <2>3. pedido \in Pedidos /\ pedido.op = "SET" /\ pc = "procesarHeader" /\ Largo = L
    <3>1. pedido \in Pedidos /\ pedido.op = "SET" /\ pc = "procesarHeader"
      BY <1>1, <2>1 DEF EnProceso, TInv, Fase
    <3> QED BY <3>1, ValorTipo DEF Largo
  <2> DEFINE t == TablaConsultada
  <2>4. /\ t \in [Entradas -> Entrada]
        /\ \A i \in Entradas : t[i].clave = tabla[i].clave /\ t[i].tamanio = tabla[i].tamanio
    BY <1>1, <2>3, ConsultadaIgual
  <2>5. tabla' = Sobrescribir(t, e) /\ mem' = guardarEnMem(e)
    BY <2>1, <2>2
  <2> HIDE DEF t
  <2>6. tabla'[e].tamanio = L
    BY <2>3, <2>4, <2>5 DEF Sobrescribir, Entrada
  <2>7. ASSUME NEW j \in Entradas \ {e}, tabla'[j].clave # vacio
        PROVE  tabla[j].clave # vacio /\ tabla'[j].tamanio = tabla[j].tamanio
    <3>1. t[j] \in Entrada
      BY <2>4
    <3>2. \/ tabla'[j] = t[j]
          \/ \E a : tabla'[j] = [t[j] EXCEPT !.clave = vacio, !.age = a]
      BY <2>5 DEF Sobrescribir
    <3>3. tabla'[j] = t[j]
      BY <2>7, <3>1, <3>2 DEF Entrada
    <3> QED BY <2>4, <2>7, <3>3
  <2> QED BY <1>1, <2>3, <2>5, <2>6, <2>7, GuardaLimpio
<1>3. CASE SetNueva
  <2>1. tabla' = TablaConsultada /\ pc = "procesarHeader" /\ pedido.op = "SET" /\ mem' = mem
    BY <1>3 DEF SetNueva, EnProceso
  <2>2. \A i \in Entradas : tabla'[i].clave = tabla[i].clave /\ tabla'[i].tamanio = tabla[i].tamanio
    BY <1>1, <2>1, ConsultadaIgual
  <2> QED BY <2>1, <2>2 DEF Limpios
<1>4. CASE CircEscribe \/ LruEscribe
  <2>1. pc = "guardarEnTabla"
    BY <1>4 DEF CircEscribe, LruEscribe
  <2>2. /\ pedido \in Pedidos /\ pedido.op = "SET" /\ Paginas = 1 /\ Largo = L
        /\ Entradas \subseteq Nat /\ indexCircular \in Nat /\ CantEntradas \in Nat
    <3>1. pedido \in Pedidos /\ pedido.op = "SET"
      BY <1>1, <2>1, PaginasDelPedido
    <3>2. Paginas = 1
      BY <1>1, <2>1, UnLargoTipo, UnaPagina
    <3> QED BY <1>1, <3>1, <3>2, ValorTipo, EntradasFinito, Datos DEF Largo
  <2>3. PICK e \in Entradas :
          /\ tabla' = [i \in Entradas |-> IF i \in Hasta(e) THEN EntradaNueva ELSE tabla[i]]
          /\ mem' = guardarEnMem(e)
    <3>1. CASE CircEscribe
      <4>1. indexCircular \in Entradas
        BY <2>2, <3>1 DEF CircEscribe, Entradas
      <4> QED BY <3>1, <4>1 DEF CircEscribe
    <3>2. CASE LruEscribe
      <4>1. buscarEspacioLibre(1) \in Entradas
        BY <2>2, <3>2, EspacioLibre DEF LruEscribe, SinLugar
      <4> QED BY <2>2, <3>2, <4>1 DEF LruEscribe
    <3> QED BY <1>4, <3>1, <3>2
  <2>4. \A i \in Entradas : i \in Hasta(e) <=> i = e
    BY <2>2 DEF Hasta
  <2>5. \A i \in Entradas : tabla'[i] = IF i = e THEN EntradaNueva ELSE tabla[i]
    BY <2>3, <2>4
  <2>6. tabla'[e].tamanio = L
    BY <2>2, <2>5 DEF EntradaNueva
  <2>7. \A j \in Entradas \ {e} : tabla'[j] = tabla[j]
    BY <2>5
  <2> QED BY <1>1, <2>2, <2>3, <2>6, <2>7, GuardaLimpio
<1>5. CASE LruDesaloja
  <2>1. mem' = mem
    BY <1>5 DEF LruDesaloja
  <2>2. \A i \in Entradas : tabla'[i] = tabla[i] \/ tabla'[i].clave = vacio
    <3>1. \A i \in Entradas : tabla[i] \in Entrada
      BY <1>1
    <3> QED BY <1>5, <3>1 DEF LruDesaloja, Entrada
  <2> QED BY <2>1, <2>2 DEF Limpios
<1>6. CASE MueveEntrada
  <2> DEFINE x == compactado.x
             y == x + compactado.hueco
  <2>1. \/ /\ x \in Entradas /\ y \in Entradas /\ x < y
           /\ tabla' = [tabla EXCEPT ![x] = tabla[y], ![y] = EntradaVacia]
           /\ mem' = Escribir(x * TamanioEntradas, Leer(y * TamanioEntradas, tabla[y].tamanio))
        \/ tabla' = tabla /\ mem' = mem
    BY <1>1, <1>6, MueveEfecto
  <2> HIDE DEF x, y
  <2> QED BY <1>1, <2>1, MueveLimpio
<1>7. CASE Morir
  <2>1. \A e \in Entradas : mem'[e * TamanioEntradas + L] = Nulo
    <3>1. \A e \in Entradas : e * TamanioEntradas + L \in Bytes
      BY UnLargoTipo, EnPagina
    <3> QED BY <1>7, <3>1 DEF Morir, MemVacia
  <2>2. \A e \in Entradas : tabla'[e].clave = vacio
    BY <1>7 DEF Morir, TablaVacia, EntradaVacia
  <2> QED BY <2>1, <2>2 DEF Limpios
<1>8. CASE \/ CircSaltea \/ EmpiezaACompactar \/ CircVuelve \/ PideCompactar \/ BuscaHueco
           \/ TerminaDeCompactar \/ Get \/ StoreReemplazada \/ storeKey \/ Status \/ TomaMutex
           \/ Reinicia \/ DumpEmpieza \/ PasoDump \/ UNCHANGED vars \/ \E p \in Pedidos : Recibe(p)
  <2>1. tabla' = tabla /\ mem' = mem
    BY <1>8 DEF CircSaltea, EmpiezaACompactar, CircVuelve, PideCompactar, BuscaHueco,
       TerminaDeCompactar, Get, StoreReemplazada, storeKey, Status, TomaMutex, Reinicia,
       DumpEmpieza, PasoDump, DumpSaltea, DumpCopia, DumpTermina, vars, datos, Recibe
  <2> QED BY <2>1
<1> QED BY <1>2, <1>3, <1>4, <1>5, <1>6, <1>7, <1>8
    DEF Next, PasoMain, MuereSinArchivo, Cae

LEMMA TerminadosPaso ==
  ASSUME SinMayusculas, NEW L, Largos = {L}, L < TamanioEntradas,
         TInv, DumpAlPrincipio, Limpios(L, tabla, mem), Terminados(L, archivo, lista_claves),
         [Next]_vars
  PROVE  Terminados(L, archivo', lista_claves')
<1>1. /\ archivo \in [Claves -> Seq(Byte)] /\ lista_claves \subseteq Claves
      /\ L \in Nat \ {0} /\ EntranEnTodos
  BY Datos, UnLargoTipo
<1>2. CASE (SetConocida \/ SetNueva) /\ MapearClave /\ pedido.op = "SET" /\ pc = "procesarHeader"
  <2>1. pedido \in Pedidos /\ pedido.clave \in Claves /\ Largo = L
    BY <1>2, ValorTipo DEF TInv, Fase, Largo
  <2>2. L + 1 <= Len(ArchivoNuevo) /\ ArchivoNuevo[L + 1] = Nulo
    <3>1. Paginas = 1
      <4>1. L \in Nat /\ L # 0 /\ L <= TamanioEntradas
        BY <1>1, EntradasFinito
      <4>2. getCantPaginas(L) = 1
        BY <4>1, PaginasCuantas
      <4> QED BY <2>1, <4>2 DEF Paginas
    <3>2. ArchivoNuevo = [j \in 1..(1 * TamanioEntradas + 2) |-> Nulo]
      BY <3>1 DEF ArchivoNuevo
    <3>3. TamanioEntradas \in Nat
      BY EntradasFinito
    <3> QED BY <1>1, <3>2, <3>3
  <2>3. CASE UNCHANGED <<archivo, lista_claves>>
    BY <2>3
  <2>4. CASE /\ archivo' = [archivo EXCEPT ![pedido.clave] = ArchivoNuevo]
             /\ lista_claves' = lista_claves \cup {pedido.clave}
    <3> SUFFICES ASSUME NEW c \in lista_claves'
                 PROVE  L + 1 <= Len(archivo'[c]) /\ archivo'[c][L + 1] = Nulo
      BY DEF Terminados
    <3>1. CASE c = pedido.clave
      <4>1. archivo'[c] = ArchivoNuevo
        BY <1>1, <2>1, <2>4, <3>1
      <4> QED BY <2>2, <4>1
    <3>2. CASE c # pedido.clave
      <4>1. c \in lista_claves /\ archivo'[c] = archivo[c]
        BY <1>1, <2>4, <3>2
      <4> QED BY <4>1 DEF Terminados
    <3> QED BY <3>1, <3>2
  <2> QED BY <1>2, <2>3, <2>4 DEF MapearClave
<1>3. CASE CircEscribe
  BY <1>3 DEF CircEscribe, Terminados
<1>4. ASSUME NEW k \in lista_claves, NEW w \in Seq(Byte), lista_claves' = lista_claves,
             archivo' = [archivo EXCEPT ![k] = EnArchivo(archivo[k], w)],
             L + 1 <= Len(w) => w[L + 1] = Nulo
      PROVE  Terminados(L, archivo', lista_claves')
  <2>1. /\ archivo[k] \in Seq(Byte) /\ Len(archivo[k]) \in Nat
        /\ L + 1 <= Len(archivo[k]) /\ archivo[k][L + 1] = Nulo
    <3>1. archivo[k] \in Seq(Byte)
      BY <1>1
    <3> QED BY <3>1 DEF Terminados
  <2> DEFINE g == EnArchivo(archivo[k], w)
  <2>2. Len(g) = Len(archivo[k])
    BY <2>1 DEF EnArchivo
  <2>3. g[L + 1] = Nulo
    <3>1. L + 1 \in 1..Len(archivo[k])
      BY <1>1, <2>1
    <3>2. g[L + 1] = IF L + 1 <= Len(w) THEN w[L + 1] ELSE archivo[k][L + 1]
      BY <3>1 DEF EnArchivo
    <3> QED BY <1>4, <2>1, <3>2
  <2> HIDE DEF g
  <2>4. archivo'[k] = g /\ \A c \in lista_claves : c # k => archivo'[c] = archivo[c]
    BY <1>1, <1>4 DEF g
  <2> QED BY <1>4, <2>1, <2>2, <2>3, <2>4 DEF Terminados
<1>5. CASE storeKey /\ lista_claves' = lista_claves
  <2>1. PICK k \in lista_claves, w \in Seq(Byte) :
          /\ archivo' = [archivo EXCEPT ![k] = EnArchivo(archivo[k], w)]
          /\ \E e \in Entradas : /\ tabla[e].clave # vacio
                                 /\ w = Leer(e * TamanioEntradas, tabla[e].tamanio + 1)
    BY <1>5, StoreCopia
  <2>2. PICK e \in Entradas : /\ tabla[e].clave # vacio
                              /\ w = Leer(e * TamanioEntradas, tabla[e].tamanio + 1)
    BY <2>1
  <2>3. w[L + 1] = Nulo
    <3> DEFINE E == e * TamanioEntradas
    <3>1. w = Leer(E, L + 1) /\ mem[E + L] = Nulo
      BY <2>2 DEF Limpios
    <3>2. E \in Nat
      BY Comas, EntradasFinito
    <3> HIDE DEF E
    <3>3. L + 1 \in 1..(L + 1) /\ E + (L + 1) - 1 = E + L
      BY <1>1, <3>2
    <3>4. w[L + 1] = IF E + (L + 1) - 1 \in Bytes THEN mem[E + (L + 1) - 1] ELSE Nulo
      BY <3>1, <3>3 DEF Leer
    <3> QED BY <3>1, <3>3, <3>4
  <2> QED BY <1>4, <1>5, <2>1, <2>3
<1>6. CASE DumpCopia /\ lista_claves' = lista_claves
  <2>1. PICK k \in lista_claves, w \in Seq(Byte) :
          /\ archivo' = [archivo EXCEPT ![k] = EnArchivo(archivo[k], w)]
          /\ Len(w) \in Largos \cup {0}
    BY <1>6, DumpCopiaElValor
  <2>2. ~(L + 1 <= Len(w))
    BY <1>1, <2>1
  <2> QED BY <1>4, <1>6, <2>1, <2>2
<1>7. CASE Morir
  BY <1>7 DEF Morir, Terminados
<1>8. CASE UNCHANGED <<archivo, lista_claves>>
  BY <1>8
<1> QED BY <1>2, <1>3, <1>5, <1>6, <1>7, <1>8, QuienEscribe

\* A string is what was written before its '\0'.
LEMMA CadenaHasta ==
  ASSUME NEW f \in Seq(Byte), NEW w \in Seq(Byte), Len(w) + 1 <= Len(f),
         f[Len(w) + 1] = Nulo, \A j \in 1..Len(w) : w[j] # Nulo
  PROVE  Cadena(EnArchivo(f, w)) = w
<1> DEFINE g == EnArchivo(f, w)
           l == Len(w)
           nulos == {j \in DOMAIN g : g[j] = Nulo}
<1>1. l \in Nat /\ Len(f) \in Nat /\ g = [j \in 1..Len(f) |-> IF j <= l THEN w[j] ELSE f[j]]
  BY DEF EnArchivo
<1>2. g \in Seq(Byte) /\ DOMAIN g = 1..Len(f) /\ Len(g) = Len(f)
  BY <1>1, EnArchivoTipo
<1>3. /\ \A j \in 1..l : g[j] = w[j] /\ g[j] # Nulo
      /\ g[l + 1] = Nulo
  BY <1>1
<1> HIDE DEF g
<1>4. l + 1 \in nulos /\ nulos \in SUBSET Nat
  BY <1>1, <1>2, <1>3
<1>5. \A j \in nulos : l + 1 <= j
  <2> SUFFICES ASSUME NEW j \in nulos, j < l + 1 PROVE FALSE
    BY <1>1, <1>4
  <2>1. j \in 1..l
    BY <1>1, <1>2, <1>4
  <2> QED BY <1>3, <2>1
<1>6. Min(nulos) = l + 1
  <2> DEFINE m == Min(nulos)
  <2> HIDE DEF nulos
  <2>1. m \in nulos /\ \A j \in nulos : m <= j
    BY <1>4, MinEsta
  <2> HIDE DEF m
  <2>2. m = l + 1
    BY <1>1, <1>4, <1>5, <2>1
  <2> QED BY <2>2 DEF m
<1>7. Cadena(g) = SubSeq(g, 1, (l + 1) - 1)
  BY <1>4, <1>6 DEF Cadena
<1>8. (l + 1) - 1 = l
  BY <1>1
<1>9. SubSeq(g, 1, l) = [j \in 1..l |-> g[j]]
  BY <1>1, <1>2
<1>10. w = [j \in 1..l |-> w[j]]
  OBVIOUS
<1> QED BY <1>3, <1>7, <1>8, <1>9, <1>10 DEF g

LEMMA VolcadaPaso ==
  ASSUME SinMayusculas, NEW L, Largos = {L}, L < TamanioEntradas,
         Asentada, TurnoDelMutex, DumpAlPrincipio, Limpios(L, tabla, mem),
         Terminados(L, archivo, lista_claves), Volcada, [Next]_vars
  PROVE  Volcada'
<1>1. TInv /\ EnSuLugar /\ tabla \in [Entradas -> Entrada] /\ mem \in [Bytes -> Byte]
      /\ archivo \in [Claves -> Seq(Byte)] /\ lista_claves \subseteq Claves
      /\ L \in Nat \ {0} /\ vacio \notin Claves /\ Entradas \subseteq Nat
  BY Datos, UnLargoTipo, EntradasFinito, InstanciaAssumption DEF Asentada
<1> SUFFICES ASSUME volcado' # -1, NEW k \in Claves, NEW n \in Entradas,
                    EsPrimera(tabla', k, n), n < volcado'
             PROVE  Cadena(archivo'[k]) = get_value(k)'
  BY DEF Volcada
<1>2. tabla' = tabla /\ mem' = mem
  BY <1>1, DuranteElDump
<1>3. get_value(k)' = get_value(k)
  BY <1>2 DEF get_value, consultarTabla, Leer
<1>4. EsPrimera(tabla, k, n) /\ n \in Nat
  BY <1>1, <1>2
<1>5. volcado # -1 /\ n < volcado => Cadena(archivo[k]) = get_value(k)
  BY <1>4 DEF Volcada
<1>6. CASE DumpEmpieza
  <2>1. volcado' = 0
    BY <1>6 DEF DumpEmpieza
  <2> QED BY <1>4, <2>1
<1>7. CASE DumpSaltea
  <2>1. volcado \in Entradas /\ tabla[volcado].clave = vacio /\ volcado' = volcado + 1
        /\ archivo' = archivo
    BY <1>7 DEF DumpSaltea, datos
  <2>2. n # volcado
    BY <1>1, <1>4, <2>1 DEF EsPrimera
  <2>3. n < volcado /\ volcado # -1
    BY <1>1, <1>4, <2>1, <2>2
  <2> QED BY <1>3, <1>5, <2>1, <2>3
<1>8. CASE DumpCopia
  <2>1. PICK c \in lista_claves, w \in Seq(Byte) :
          /\ archivo' = [archivo EXCEPT ![c] = EnArchivo(archivo[c], w)]
          /\ tabla[volcado].clave = c /\ EsPrimera(tabla, c, volcado)
          /\ get_value(c) = w /\ Len(w) = tabla[volcado].tamanio
    BY <1>1, <1>8, DumpCopiaElValor
  <2>2. volcado \in Entradas /\ tabla[volcado].clave # vacio /\ volcado \in Nat
        /\ volcado' = volcado + getCantPaginas(tabla[volcado].tamanio)
    BY <1>1, <1>8 DEF DumpCopia
  <2>3. tabla[volcado].tamanio = L
        /\ \A b \in Nat : b < L => mem[volcado * TamanioEntradas + b] # Nulo
    BY <2>2 DEF Limpios
  <2>4. volcado' = volcado + 1
    <3>1. L \in Nat /\ L # 0 /\ L <= TamanioEntradas
      BY <1>1, EntradasFinito
    <3>2. getCantPaginas(L) = 1
      BY <3>1, PaginasCuantas
    <3> QED BY <2>2, <2>3, <3>2
  <2>5. CASE k = c
    <3>1. w = BytesDe(mem, volcado * TamanioEntradas, L)
      BY <1>1, <2>1, <2>3, ValorAntes
    <3>2. \A j \in 1..L : w[j] # Nulo
      <4> SUFFICES ASSUME NEW j \in 1..L PROVE w[j] # Nulo
        OBVIOUS
      <4> DEFINE E == volcado * TamanioEntradas
                 b == j - 1
      <4>1. b \in Nat /\ b < L /\ E \in Nat /\ b < TamanioEntradas
        BY <1>1, <2>2, Comas, EntradasFinito
      <4>2. E + b \in Bytes /\ mem[E + b] # Nulo
        BY <2>2, <2>3, <4>1, EnPagina
      <4> HIDE DEF E
      <4>3. E + j - 1 = E + b
        BY <4>1
      <4>4. BytesDe(mem, E, L)[j] = IF E + j - 1 \in Bytes THEN mem[E + j - 1] ELSE Nulo
        BY DEF BytesDe
      <4>5. BytesDe(mem, E, L)[j] # Nulo
        <5> HIDE DEF b
        <5> QED BY <4>2, <4>3, <4>4
      <4> QED BY <3>1, <4>5 DEF E
    <3>3. archivo[c] \in Seq(Byte) /\ archivo'[c] = EnArchivo(archivo[c], w)
      BY <1>1, <2>1
    <3>4. Len(w) = L /\ L + 1 <= Len(archivo[c]) /\ archivo[c][L + 1] = Nulo
      BY <2>1, <2>3 DEF Terminados
    <3>5. Cadena(EnArchivo(archivo[c], w)) = w
      BY <3>2, <3>3, <3>4, CadenaHasta
    <3> QED BY <1>3, <2>1, <2>5, <3>3, <3>5
  <2>6. CASE k # c
    <3>1. n # volcado
      BY <1>4, <2>1, <2>6 DEF EsPrimera
    <3>2. n < volcado /\ volcado # -1
      BY <1>4, <2>2, <2>4, <3>1
    <3>3. archivo'[k] = archivo[k]
      BY <1>1, <2>1, <2>6
    <3> QED BY <1>3, <1>5, <3>2, <3>3
  <2> QED BY <2>5, <2>6
<1>9. CASE UNCHANGED <<volcado, archivo>>
  BY <1>3, <1>5, <1>9
<1> QED BY <1>1, <1>6, <1>7, <1>8, <1>9, DuranteElDump

\* After a dump the file of every key of the table holds, up to its '\0', the
\* value of the key, whatever SETs, STOREs, replacements and restarts there
\* were: for tables of any size and values of one length.
THEOREM ElDumpGuardaTodo ==
  ASSUME SinMayusculas, UnLargo
  PROVE  Spec => []VolcadoEsElValor
<1>1. PICK L \in Largos : Largos = {L} /\ L < TamanioEntradas
  BY DEF UnLargo
<1>2. L \in Nat \ {0} /\ EntranEnTodos /\ NadieRompe /\ NadieCrece
  BY <1>1, UnLargoTipo
<1> DEFINE Inv == /\ Asentada /\ TurnoDelMutex /\ DumpAlPrincipio /\ Volcada
                  /\ Limpios(L, tabla, mem) /\ Terminados(L, archivo, lista_claves)
<1>3. Init => Inv
  <2> SUFFICES ASSUME Init PROVE Inv
    OBVIOUS
  <2>1. DumpAlPrincipio /\ TurnoDelMutex /\ Volcada /\ Terminados(L, archivo, lista_claves)
    BY EntradasFinito DEF Init, DumpAlPrincipio, TurnoDelMutex, Trabajando, Volcada, Terminados
  <2>2. Limpios(L, tabla, mem)
    <3>1. \A e \in Entradas : e * TamanioEntradas + L \in Bytes
      BY <1>1, <1>2, EnPagina
    <3> QED BY <3>1 DEF Init, Limpios, TablaVacia, EntradaVacia, MemVacia
  <2> QED BY <2>1, <2>2, AsentadaEmpieza
<1>4. Inv /\ [Next]_vars => Inv'
  <2> SUFFICES ASSUME Inv, [Next]_vars PROVE Inv'
    OBVIOUS
  <2>1. TInv
    BY DEF Asentada
  <2>2. Asentada' /\ TurnoDelMutex' /\ DumpAlPrincipio'
    BY <1>2, <2>1, AsentadaSigue, TurnoPaso, DumpAlPrincipioPaso
  <2>3. Volcada'
    BY <1>1, VolcadaPaso
  <2>4. Limpios(L, tabla', mem') /\ Terminados(L, archivo', lista_claves')
    BY <1>1, <2>1, LimpiosPaso, TerminadosPaso
  <2> QED BY <2>2, <2>3, <2>4 DEF Limpios, Terminados
<1>5. Inv => VolcadoEsElValor
  <2> SUFFICES ASSUME Inv, volcado = CantEntradas, mutex_dump = "dump",
                      NEW k \in Claves, get_value(k) # Ausente
               PROVE  Cadena(archivo[k]) = get_value(k)
    BY DEF VolcadoEsElValor
  <2>1. tabla \in [Entradas -> Entrada] /\ mem \in [Bytes -> Byte]
    BY Datos DEF Asentada
  <2>2. Suyas(tabla, k) # {}
    BY <2>1, ValorAntes
  <2>3. PICK n \in Entradas : EsPrimera(tabla, k, n)
    BY <2>2, PrimeraHay
  <2>4. n < volcado /\ volcado # -1
    BY EntradasFinito DEF Entradas
  <2> QED BY <2>3, <2>4 DEF Volcada
<1> HIDE DEF Inv
<1> QED BY <1>3, <1>4, <1>5, PTL DEF Spec
=============================================================================
