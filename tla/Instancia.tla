----------------------------- MODULE Instancia -----------------------------
(***************************************************************************)
(* One Instancia process: the thread that serves the Coordinador's         *)
(* requests, the dump thread, the table of entries, the memory it indexes  *)
(* and the mapped files.  Memory and files are kept byte by byte, because  *)
(* what can go wrong is where the bytes of a value end up.                 *)
(***************************************************************************)
EXTENDS Integers, Sequences, FiniteSets, FiniteSetsExt, SequencesExt

CONSTANTS
  Claves,             \* the keys the Coordinador may name
  vacio,              \* the name of a free entry
  Minuscula,          \* what string_equals_ignore_case compares of a name
  Letras, Largos,     \* a value repeats one letter, for one of these lengths
  Nulo,               \* a byte of no value: '\0' and memory never written
  Ausente,            \* no value, no request
  CantEntradas, TamanioEntradas,
  Algoritmos,         \* the values of AlgoritmoReemplazo to explore
  MaxPedidos,         \* bound: how many SETs are served
  MaxCaidas,          \* bound: how often the process is killed
  MaxAvisos,          \* bound: how many of the 11s of one request are kept
  Crecen              \* whether a SET may need more entries than the key has

Entradas == 0..(CantEntradas - 1)
Bytes == 0..(CantEntradas * TamanioEntradas - 1)

\* The j-th byte of a value of letter l is <<l, j>>: a torn value shows.
Valores == {[j \in 1..n |-> <<l, j>>] : l \in Letras, n \in Largos}

getCantPaginas(largo) == (largo + TamanioEntradas - 1) \div TamanioEntradas

Pedidos ==
  [op : {"SET"}, clave : Claves, valor : Valores]
    \cup [op : {"GET", "STORE", "STATUS", "COMPACT"}, clave : Claves, valor : {<<>>}]

ASSUME InstanciaAssumption ==
  /\ CantEntradas \in Nat \ {0} /\ TamanioEntradas \in Nat \ {0}
  /\ Largos \subseteq Nat \ {0}
  /\ vacio \notin Claves
  /\ Nulo \notin Letras \X Nat
  /\ Ausente \notin Seq((Letras \X Nat) \cup {Nulo})
  /\ Ausente \notin [clave : Claves, valor : Valores]
  /\ Minuscula \in [Claves \cup {vacio} -> Claves \cup {vacio}]
  /\ \A k \in Claves \cup {vacio} : Minuscula[k] = vacio <=> k = vacio
  /\ Algoritmos \subseteq {"CIRC", "LRU"}
  /\ MaxPedidos \in Nat /\ MaxCaidas \in Nat /\ MaxAvisos \in Nat /\ Crecen \in BOOLEAN

VARIABLES
  algReemplazo,
  tabla, mem,
  archivo,                  \* archivo[k]: the bytes of the file of k, on disk
  lista_claves,             \* the keys whose file is mapped
  comienzoDeEntradasLibres, indexCircular, flagCompactar, laMasVieja,
  mutex_dump,               \* "libre", "main" or "dump"
  pc,                       \* where the thread of main is
  pedido,                   \* the request it serves
  respuestas,               \* the headers it has sent for that request
  compactado,               \* compactar: its i and x, and the length of the hole
  volcado,                  \* dump: its i, or -1 while it sleeps
  pedidos, caidas           \* what the bounds count

indices == <<comienzoDeEntradasLibres, indexCircular, flagCompactar, laMasVieja>>
datos == <<tabla, mem, archivo, lista_claves>>
cuentas == <<algReemplazo, pedidos, caidas>>
vars == <<datos, indices, mutex_dump, pc, pedido, respuestas, compactado, volcado, cuentas>>

EntradaVacia == [clave |-> vacio, tamanio |-> 0, age |-> 0]
SinCompactar == [i |-> 0, x |-> 0, hueco |-> 0]

TablaVacia == [i \in Entradas |-> EntradaVacia]
MemVacia == [p \in Bytes |-> Nulo]

Init ==
  /\ tabla = TablaVacia /\ mem = MemVacia /\ lista_claves = {}
  /\ comienzoDeEntradasLibres = 0 /\ indexCircular = 0
  /\ flagCompactar = 0 /\ laMasVieja = 0
  /\ mutex_dump = "libre"
  /\ pedido = Ausente /\ respuestas = <<>>
  /\ compactado = SinCompactar /\ volcado = -1 /\ pc = "recv"
  /\ algReemplazo \in Algoritmos
  /\ archivo = [k \in Claves |-> <<>>]
  /\ pedidos = 0 /\ caidas = 0

-----------------------------------------------------------------------------
(* Looking things up.                                                      *)

Igual(a, b) == Minuscula[a] = Minuscula[b]
Primera(S) == IF S = {} THEN -1 ELSE Min(S)

consultarTabla(k) == Primera({i \in Entradas : Igual(tabla[i].clave, k)})
\* Mutant: the lookup stops one entry early.
consultarTablaCIRCCorta(k) ==
  Primera({i \in Entradas : i < comienzoDeEntradasLibres - 1 /\ Igual(tabla[i].clave, k)})

consultarTablaCIRC(k) ==
  Primera({i \in Entradas : i < comienzoDeEntradasLibres /\ Igual(tabla[i].clave, k)})

free_entries(t) == Cardinality({i \in Entradas : t[i].clave = vacio})

\* The entries from e on that carry exactly the name k, with no other between.
\* The read of tabla[CantEntradas] at the end of the table matches no key.
Corrida(t, e, k) == {j \in Entradas : e <= j /\ \A q \in e..j : t[q].clave = k}

\* buscarEspacioLibre: the first place where n free entries stand together.
buscarEspacioLibre(n) ==
  Primera({i \in Entradas : i + n <= CantEntradas
                            /\ \A q \in i..(i + n - 1) : tabla[q].clave = vacio})

\* Mutant: any mapped file will do.
MapeadaCualquiera(k) == lista_claves

\* The mapped file a name leads to: its own, or that of a name that differs
\* from it only in case.
Mapeada(k) == {c \in lista_claves : Igual(c, k)}

Largo == Len(pedido.valor)
Paginas == getCantPaginas(Largo)
Hasta(e) == e..(e + Paginas - 1)
EntradaNueva == [clave |-> pedido.clave, tamanio |-> Largo, age |-> 0]

\* Mutant: comienzoDeEntradasLibres grows beyond the table.
MenorSinTope(a, b) == a
Menor(a, b) == IF a < b THEN a ELSE b

-----------------------------------------------------------------------------
(* Bytes.  What a copy reads past the end of mem is no byte of a value;    *)
(* what guardarEnMem writes there, a last '\0', is not kept.               *)

Leer(p, n) == [j \in 1..n |-> IF p + j - 1 \in Bytes THEN mem[p + j - 1] ELSE Nulo]
Escribir(p, bytes) ==
  [q \in Bytes |-> IF q \in p..(p + Len(bytes) - 1) THEN bytes[q - p + 1] ELSE mem[q]]

\* Mutant: the entry's number is taken for its place in mem.
guardarEnMemSinTamanio(posicion) == Escribir(posicion, Append(pedido.valor, Nulo))
guardarEnMem(posicion) == Escribir(posicion * TamanioEntradas, Append(pedido.valor, Nulo))

get_value(k) ==
  LET posicion == consultarTabla(k)
  IN IF posicion = -1 THEN Ausente
     ELSE Leer(posicion * TamanioEntradas, tabla[posicion].tamanio)

\* A copy into a mapped file changes the bytes the file has and adds none.
EnArchivo(f, bytes) == [j \in 1..Len(f) |-> IF j <= Len(bytes) THEN bytes[j] ELSE f[j]]

\* guardarEnClaves: the file is emptied, then stretched to two bytes more than
\* the entries of the value.
ArchivoNuevo == [j \in 1..(Paginas * TamanioEntradas + 2) |-> Nulo]

-----------------------------------------------------------------------------
(* The thread of main.                                                     *)

Responder(id, largo) == respuestas' = Append(respuestas, [id |-> id, largo |-> largo])
Terminar == pc' = "recv" /\ pedido' = Ausente /\ mutex_dump' = "libre"

\* A value may not need more entries than its key has, unless Crecen.
Cabe(p) ==
  LET suyas == {i \in Entradas : tabla[i].clave = p.clave}
  IN p.op = "SET" /\ suyas # {} => getCantPaginas(Len(p.valor)) <= Cardinality(suyas)

Recibe(p) ==
  /\ pc = "recv"
  /\ p.op = "SET" => pedidos < MaxPedidos
  /\ Crecen \/ Cabe(p)
  /\ pedidos' = (IF p.op = "SET" THEN pedidos + 1 ELSE pedidos)
  /\ pedido' = p
  /\ respuestas' = <<>>
  /\ pc' = "mutex"
  /\ UNCHANGED <<datos, indices, mutex_dump, compactado, volcado, algReemplazo, caidas>>

\* Mutant: a request does not wait for the dump.
TomaSinMutex ==
  /\ pc = "mutex"
  /\ mutex_dump' = "main"
  /\ pc' = "procesarHeader"
  /\ UNCHANGED <<datos, indices, pedido, respuestas, compactado, volcado, cuentas>>

TomaMutex ==
  /\ pc = "mutex" /\ mutex_dump = "libre"
  /\ mutex_dump' = "main"
  /\ pc' = "procesarHeader"
  /\ UNCHANGED <<datos, indices, pedido, respuestas, compactado, volcado, cuentas>>

\* Mutants: the file of a key that was stored before is not mapped again; the
\* file is made anew at every SET.
MapearClaveUnaVez ==
  IF Mapeada(pedido.clave) # {} \/ archivo[pedido.clave] # <<>>
  THEN UNCHANGED <<archivo, lista_claves>>
  ELSE /\ archivo' = [archivo EXCEPT ![pedido.clave] = ArchivoNuevo]
       /\ lista_claves' = lista_claves \cup {pedido.clave}

MapearClaveSiempre ==
  /\ archivo' = [archivo EXCEPT ![pedido.clave] = ArchivoNuevo]
  /\ lista_claves' = lista_claves \cup {pedido.clave}

\* SET, first: the file of a key that has none mapped.
MapearClave ==
  IF Mapeada(pedido.clave) # {} THEN UNCHANGED <<archivo, lista_claves>>
  ELSE /\ archivo' = [archivo EXCEPT ![pedido.clave] = ArchivoNuevo]
       /\ lista_claves' = lista_claves \cup {pedido.clave}

\* consultarTablaLRU: every SET ages the table, whether it finds its key or not.
Envejecida ==
  [i \in Entradas |->
    [tabla[i] EXCEPT !.age = IF tabla[i].tamanio > TamanioEntradas THEN -1
                             ELSE IF tabla[i].clave # vacio THEN @ + 1 ELSE @]]
TablaConsultada == IF algReemplazo = "LRU" THEN Envejecida ELSE tabla
EdadMaxima(t) == Max({0} \cup {t[i].age : i \in Entradas})

Encontrada ==
  IF algReemplazo = "LRU" THEN consultarTabla(pedido.clave)
  ELSE consultarTablaCIRC(pedido.clave)

\* Mutants: all the entries of the key but the first are freed; the key keeps
\* its age.
SobrescribirLiberaTodo(t, posicion) ==
  LET libera == Corrida(t, posicion + 1, pedido.clave)
  IN [i \in Entradas |->
       IF i = posicion THEN [t[i] EXCEPT !.tamanio = Largo, !.age = 0]
       ELSE IF i \in libera THEN [t[i] EXCEPT !.clave = vacio, !.age = 0] ELSE t[i]]

SobrescribirSinRejuvenecer(t, posicion) ==
  [i \in Entradas |->
    IF i = posicion THEN [t[i] EXCEPT !.tamanio = Largo]
    ELSE IF i \in Corrida(t, posicion + Paginas, pedido.clave) THEN [t[i] EXCEPT !.clave = vacio]
    ELSE t[i]]

\* The value of a known key is written over the old one; the entries it needs
\* no more are freed, with the size they had.
Sobrescribir(t, posicion) ==
  LET libera == Corrida(t, posicion + Paginas, pedido.clave)
      lru == algReemplazo = "LRU"
  IN [i \in Entradas |->
       IF i = posicion THEN [t[i] EXCEPT !.tamanio = Largo, !.age = IF lru THEN 0 ELSE @]
       ELSE IF i \in libera THEN [t[i] EXCEPT !.clave = vacio, !.age = IF lru THEN 0 ELSE @]
       ELSE t[i]]

EnProceso(op) == pc = "procesarHeader" /\ pedido.op = op

SetConocida ==
  /\ EnProceso("SET") /\ Encontrada # -1
  /\ MapearClave
  /\ tabla' = Sobrescribir(TablaConsultada, Encontrada)
  /\ mem' = guardarEnMem(Encontrada)
  /\ laMasVieja' = (IF algReemplazo = "LRU" THEN EdadMaxima(Envejecida) ELSE laMasVieja)
  /\ Responder(12, free_entries(tabla'))
  /\ Terminar
  /\ UNCHANGED <<comienzoDeEntradasLibres, indexCircular, flagCompactar, compactado, volcado, cuentas>>

SetNueva ==
  /\ EnProceso("SET") /\ Encontrada = -1
  /\ MapearClave
  /\ tabla' = TablaConsultada
  /\ laMasVieja' = (IF algReemplazo = "LRU" THEN EdadMaxima(Envejecida) ELSE laMasVieja)
  /\ pc' = "guardarEnTabla"
  /\ UNCHANGED <<mem, comienzoDeEntradasLibres, indexCircular, flagCompactar, mutex_dump, pedido,
                 respuestas, compactado, volcado, cuentas>>

\* guardarEnTablaCIRC, one action for each way through a call; all but the
\* first end in a call to itself.
CircEscribe ==
  LET donde == Hasta(indexCircular)
      pisadas == {tabla[i].clave : i \in donde}
  IN
  /\ pc = "guardarEnTabla" /\ algReemplazo = "CIRC"
  /\ indexCircular + Paginas <= CantEntradas
  /\ tabla[indexCircular].tamanio <= TamanioEntradas
  /\ lista_claves' = {c \in lista_claves : \A k \in pisadas : ~Igual(c, k)}
  /\ tabla' = [i \in Entradas |-> IF i \in donde THEN EntradaNueva ELSE tabla[i]]
  /\ mem' = guardarEnMem(indexCircular)
  /\ comienzoDeEntradasLibres' = Menor(comienzoDeEntradasLibres + Paginas, CantEntradas)
  /\ indexCircular' = indexCircular + Paginas
  /\ Responder(12, free_entries(tabla'))
  /\ Terminar
  /\ UNCHANGED <<archivo, flagCompactar, laMasVieja, compactado, volcado, cuentas>>

\* The entry at the index belongs to a value of several entries: skip it.
CircSaltea ==
  /\ pc = "guardarEnTabla" /\ algReemplazo = "CIRC"
  /\ indexCircular + Paginas <= CantEntradas
  /\ tabla[indexCircular].tamanio > TamanioEntradas
  /\ indexCircular' = indexCircular + getCantPaginas(tabla[indexCircular].tamanio)
  /\ UNCHANGED <<datos, comienzoDeEntradasLibres, flagCompactar, laMasVieja, mutex_dump, pc,
                 pedido, respuestas, compactado, volcado, cuentas>>

\* Mutant: the last entry is never reached.
SinLugarAntes ==
  IF algReemplazo = "CIRC" THEN indexCircular + Paginas >= CantEntradas
  ELSE buscarEspacioLibre(Paginas) = -1

\* The end of the table is too near: CIRC tells the Coordinador (11), whose
\* answer nobody awaits, and compacts; LRU compacts without a word.
SinLugar ==
  IF algReemplazo = "CIRC" THEN indexCircular + Paginas > CantEntradas
  ELSE buscarEspacioLibre(Paginas) = -1

EmpiezaACompactar ==
  /\ pc = "guardarEnTabla" /\ SinLugar /\ flagCompactar = 0
  /\ IF algReemplazo = "CIRC" /\ Len(respuestas) < MaxAvisos THEN Responder(11, 0)
     ELSE UNCHANGED respuestas
  /\ compactado' = SinCompactar
  /\ pc' = "compactar"
  /\ UNCHANGED <<datos, indices, mutex_dump, pedido, volcado, cuentas>>

\* Mutant: the index does not go back to the start.
CircNoVuelve ==
  /\ pc = "guardarEnTabla" /\ algReemplazo = "CIRC" /\ SinLugar /\ flagCompactar = 1
  /\ flagCompactar' = 0
  /\ UNCHANGED <<datos, comienzoDeEntradasLibres, indexCircular, laMasVieja, mutex_dump, pc,
                 pedido, respuestas, compactado, volcado, cuentas>>

CircVuelve ==
  /\ pc = "guardarEnTabla" /\ algReemplazo = "CIRC" /\ SinLugar /\ flagCompactar = 1
  /\ indexCircular' = 0
  /\ flagCompactar' = 0
  /\ UNCHANGED <<datos, comienzoDeEntradasLibres, laMasVieja, mutex_dump, pc, pedido, respuestas,
                 compactado, volcado, cuentas>>

\* guardarEnTablaLRU.
LruEscribe ==
  LET posicion == buscarEspacioLibre(Paginas)
  IN
  /\ pc = "guardarEnTabla" /\ algReemplazo = "LRU" /\ ~SinLugar
  /\ tabla' = [i \in Entradas |-> IF i \in Hasta(posicion) THEN EntradaNueva ELSE tabla[i]]
  /\ mem' = guardarEnMem(posicion)
  /\ Responder(12, free_entries(tabla'))
  /\ Terminar
  /\ UNCHANGED <<archivo, lista_claves, indices, compactado, volcado, cuentas>>

\* Still no room after compacting: the oldest entries are freed, by an age
\* taken when the SET began.  Their file stays mapped.
LruDesaloja ==
  /\ pc = "guardarEnTabla" /\ algReemplazo = "LRU" /\ SinLugar /\ flagCompactar = 1
  /\ tabla' = [i \in Entradas |->
                IF tabla[i].age = laMasVieja THEN [tabla[i] EXCEPT !.clave = vacio, !.age = 0]
                ELSE tabla[i]]
  /\ flagCompactar' = 0
  /\ UNCHANGED <<mem, archivo, lista_claves, comienzoDeEntradasLibres, indexCircular, laMasVieja,
                 mutex_dump, pc, pedido, respuestas, compactado, volcado, cuentas>>

\* compactar: from entry i on, a hole of some length ...
PideCompactar ==
  /\ EnProceso("COMPACT")
  /\ compactado' = SinCompactar
  /\ pc' = "compactar"
  /\ UNCHANGED <<datos, indices, mutex_dump, pedido, respuestas, volcado, cuentas>>

\* Mutant: a hole at the last entry but one is not looked for.
BuscaHuecoCorto ==
  LET i == compactado.i
      hueco == Cardinality(Corrida(tabla, i, vacio))
  IN
  /\ pc = "compactar" /\ i < CantEntradas /\ compactado.hueco = 0
  /\ compactado' = (IF tabla[i].clave = vacio /\ i < CantEntradas - 2
                    THEN [i |-> i, x |-> i, hueco |-> hueco]
                    ELSE [i |-> i + 1, x |-> 0, hueco |-> 0])
  /\ UNCHANGED <<datos, indices, mutex_dump, pc, pedido, respuestas, volcado, cuentas>>

BuscaHueco ==
  LET i == compactado.i
      hueco == Cardinality(Corrida(tabla, i, vacio))
  IN
  /\ pc = "compactar" /\ i < CantEntradas /\ compactado.hueco = 0
  /\ compactado' = (IF tabla[i].clave = vacio THEN [i |-> i, x |-> i, hueco |-> hueco]
                    ELSE [i |-> i + 1, x |-> 0, hueco |-> 0])
  /\ UNCHANGED <<datos, indices, mutex_dump, pc, pedido, respuestas, volcado, cuentas>>

\* ... takes as many entries as it is long from behind it, one by one; each
\* brings along tamanio bytes, which is the length of the whole value.
MueveEntrada ==
  LET x == compactado.x
      y == x + compactado.hueco
      ultima == x = compactado.i + compactado.hueco - 1
  IN
  /\ pc = "compactar" /\ compactado.hueco > 0
  /\ IF y < CantEntradas
     THEN /\ tabla' = [tabla EXCEPT ![x] = tabla[y], ![y] = EntradaVacia]
          /\ mem' = Escribir(x * TamanioEntradas, Leer(y * TamanioEntradas, tabla[y].tamanio))
     ELSE UNCHANGED <<tabla, mem>>
  /\ compactado' = (IF ultima THEN [i |-> compactado.i + 1, x |-> 0, hueco |-> 0]
                    ELSE [compactado EXCEPT !.x = x + 1])
  /\ UNCHANGED <<archivo, lista_claves, indices, mutex_dump, pc, pedido, respuestas, volcado,
                 cuentas>>

\* Mutant: the last entry in use instead of the first free one.
PrimeraLibreCorrida ==
  LET libres == {i \in Entradas : tabla[i].clave = vacio}
  IN IF libres = {} THEN CantEntradas ELSE Max({0, Min(libres) - 1})

PrimeraLibre ==
  LET libres == {i \in Entradas : tabla[i].clave = vacio}
  IN IF libres = {} THEN CantEntradas ELSE Min(libres)

TerminaDeCompactar ==
  /\ pc = "compactar" /\ compactado.i = CantEntradas
  /\ comienzoDeEntradasLibres' = PrimeraLibre
  /\ indexCircular' = PrimeraLibre
  /\ compactado' = SinCompactar
  /\ \/ /\ pedido.op = "COMPACT"
        /\ Responder(12, 0)
        /\ Terminar
        /\ UNCHANGED flagCompactar
     \/ /\ pedido.op = "SET"
        /\ flagCompactar' = 1
        /\ pc' = "guardarEnTabla"
        /\ UNCHANGED <<mutex_dump, pedido, respuestas>>
  /\ UNCHANGED <<datos, laMasVieja, volcado, cuentas>>

Get ==
  /\ EnProceso("GET")
  /\ Responder(12, 0)
  /\ Terminar
  /\ UNCHANGED <<datos, indices, compactado, volcado, cuentas>>

\* STORE answers 12 whether or not it has answered 15 before.
StoreReemplazada ==
  /\ EnProceso("STORE") /\ consultarTabla(pedido.clave) = -1
  /\ respuestas' = respuestas \o <<[id |-> 15, largo |-> 0], [id |-> 12, largo |-> 0]>>
  /\ Terminar
  /\ UNCHANGED <<datos, indices, compactado, volcado, cuentas>>

\* One more byte than the value goes with it, its '\0'.
storeKey ==
  LET posicion == consultarTabla(pedido.clave)
      copia == Leer(posicion * TamanioEntradas, tabla[posicion].tamanio + 1)
  IN
  /\ EnProceso("STORE") /\ posicion # -1
  /\ \E c \in Mapeada(pedido.clave) : archivo' = [archivo EXCEPT ![c] = EnArchivo(@, copia)]
  /\ Responder(12, 0)
  /\ Terminar
  /\ UNCHANGED <<tabla, mem, lista_claves, indices, compactado, volcado, cuentas>>

Status ==
  /\ EnProceso("STATUS")
  /\ Responder(IF get_value(pedido.clave) = Ausente THEN 19 ELSE 13, 0)
  /\ Terminar
  /\ UNCHANGED <<datos, indices, compactado, volcado, cuentas>>

PasoMain ==
  \/ SetConocida \/ SetNueva \/ CircEscribe \/ CircSaltea \/ EmpiezaACompactar \/ CircVuelve
  \/ LruEscribe \/ LruDesaloja \/ PideCompactar \/ BuscaHueco \/ MueveEntrada
  \/ TerminaDeCompactar \/ Get \/ StoreReemplazada \/ storeKey \/ Status

-----------------------------------------------------------------------------
(* The dump thread, and the end of the process.                            *)

DumpEmpieza ==
  /\ pc # "caida" /\ volcado = -1 /\ mutex_dump = "libre"
  /\ mutex_dump' = "dump"
  /\ volcado' = 0
  /\ UNCHANGED <<datos, indices, pc, pedido, respuestas, compactado, cuentas>>

DumpSaltea ==
  /\ volcado \in Entradas /\ tabla[volcado].clave = vacio
  /\ volcado' = volcado + 1
  /\ UNCHANGED <<datos, indices, mutex_dump, pc, pedido, respuestas, compactado, cuentas>>

\* The dump copies the value without its '\0', then skips the entries the
\* value's length says it has.
DumpCopia ==
  LET tamanio == tabla[volcado].tamanio
      copia == Leer(volcado * TamanioEntradas, tamanio)
  IN
  /\ volcado \in Entradas /\ tabla[volcado].clave # vacio
  /\ \E c \in Mapeada(tabla[volcado].clave) :
       archivo' = [archivo EXCEPT ![c] = EnArchivo(@, copia)]
  /\ volcado' = volcado + getCantPaginas(tamanio)
  /\ UNCHANGED <<tabla, mem, lista_claves, indices, mutex_dump, pc, pedido, respuestas, compactado,
                 cuentas>>

DumpTermina ==
  /\ volcado >= CantEntradas
  /\ mutex_dump' = "libre"
  /\ volcado' = -1
  /\ UNCHANGED <<datos, indices, pc, pedido, respuestas, compactado, cuentas>>

PasoDump == DumpSaltea \/ DumpCopia \/ DumpTermina

\* The files outlive the process; everything else goes with it.
Morir ==
  /\ pc' = "caida"
  /\ tabla' = TablaVacia /\ mem' = MemVacia /\ lista_claves' = {}
  /\ comienzoDeEntradasLibres' = 0 /\ indexCircular' = 0
  /\ flagCompactar' = 0 /\ laMasVieja' = 0
  /\ mutex_dump' = "libre"
  /\ pedido' = Ausente /\ respuestas' = <<>>
  /\ compactado' = SinCompactar /\ volcado' = -1
  /\ UNCHANGED <<archivo, algReemplazo, pedidos>>

\* A key of the table without a mapped file: the dump exits, STORE reads NULL.
MuereSinArchivo ==
  /\ \/ /\ volcado \in Entradas /\ tabla[volcado].clave # vacio
        /\ Mapeada(tabla[volcado].clave) = {}
     \/ /\ EnProceso("STORE") /\ consultarTabla(pedido.clave) # -1
        /\ Mapeada(pedido.clave) = {}
  /\ Morir
  /\ UNCHANGED caidas

Cae ==
  /\ pc # "caida" /\ caidas < MaxCaidas
  /\ caidas' = caidas + 1
  /\ Morir

Reinicia ==
  /\ pc = "caida"
  /\ pc' = "recv"
  /\ UNCHANGED <<datos, indices, mutex_dump, pedido, respuestas, compactado, volcado, cuentas>>

Next ==
  \/ \E p \in Pedidos : Recibe(p)
  \/ TomaMutex \/ PasoMain
  \/ DumpEmpieza \/ PasoDump
  \/ MuereSinArchivo \/ Cae \/ Reinicia

Spec == Init /\ [][Next]_vars

\* Both threads run; a request need not come and a dump need not start.  The
\* dump sleeps between two dumps without the mutex, so main gets it in the end.
Justicia ==
  /\ SF_vars(TomaMutex) /\ WF_vars(PasoMain)
  /\ WF_vars(PasoDump) /\ WF_vars(MuereSinArchivo)

SpecJusta == Spec /\ Justicia

TypeOK ==
  /\ algReemplazo \in Algoritmos
  /\ tabla \in [Entradas -> [clave : Claves \cup {vacio}, tamanio : Largos \cup {0}, age : Int]]
  /\ mem \in [Bytes -> (Letras \X Nat) \cup {Nulo}]
  /\ archivo \in [Claves -> Seq((Letras \X Nat) \cup {Nulo})]
  /\ lista_claves \subseteq Claves
  /\ comienzoDeEntradasLibres \in 0..CantEntradas /\ indexCircular \in Nat
  /\ flagCompactar \in {0, 1} /\ laMasVieja \in Nat
  /\ mutex_dump \in {"libre", "main", "dump"}
  /\ pc \in {"recv", "mutex", "procesarHeader", "guardarEnTabla", "compactar", "caida"}
  /\ pedido \in Pedidos \cup {Ausente}
  /\ respuestas \in Seq([id : {11, 12, 13, 15, 19}, largo : Nat])
  /\ compactado \in [i : 0..CantEntradas, x : 0..(2 * CantEntradas), hueco : 0..CantEntradas]
  /\ volcado \in Int
  /\ pedidos \in 0..MaxPedidos /\ caidas \in 0..MaxCaidas

-----------------------------------------------------------------------------
(* Values.                                                                 *)

\* No value needs more than one entry.
Atomicos == \A n \in Largos : n <= TamanioEntradas

\* CIRC tears values of several entries (NoPisaNoAtomicas): for it the promise
\* is only about values of one entry.
Promete == algReemplazo = "LRU" \/ Atomicos

valoresGuardados == [k \in Claves |-> get_value(k)]
valoresPrometidos == IF Promete THEN valoresGuardados ELSE [k \in Claves |-> Ausente]
EnCurso ==
  IF Promete /\ (pc = "guardarEnTabla" \/ (pc = "compactar" /\ pedido.op = "SET"))
  THEN [clave |-> pedido.clave, valor |-> pedido.valor] ELSE Ausente

Tienda == INSTANCE Almacen WITH valores <- valoresPrometidos, pedido <- EnCurso

\* The table and the memory together are the store the Coordinador believes in,
\* at every step of a compaction and of a replacement as well: guardarEnTablaCIRC,
\* guardarEnTablaLRU and compactar neither tear a value nor touch another's.
EsUnAlmacen == Tienda!Spec

-----------------------------------------------------------------------------
(* Replacement.                                                            *)

\* The keys of the table, by age: consultarTablaLRU's ages are the order of
\* the last SETs, the key whose SET is answered is the newest, and LRU replaces
\* the oldest when the table is full.
EdadDe(k) == tabla[consultarTabla(k)].age
Presentes == {k \in Claves : consultarTabla(k) # -1}
PorEdad ==
  IF algReemplazo # "LRU" THEN <<>>
  ELSE SetToSortSeq(Presentes, LAMBDA a, b : EdadDe(a) < EdadDe(b))

Orden == INSTANCE Reciente WITH orden <- PorEdad, Capacidad <- CantEntradas
EsReciente ==
  /\ Orden!Spec
  /\ [][algReemplazo = "LRU" /\ pedido # Ausente /\ pedido.op = "SET" /\ pc' = "recv"
          => Head(PorEdad') = pedido.clave]_vars

\* A key leaves the table, other than with the process, only to make room for
\* a value that would not fit in all the free entries together: neither CIRC
\* nor LRU replaces what compacting alone could spare.
ReemplazaSoloSiNoEntra ==
  [][pc' # "caida" /\ (\E k \in Claves : get_value(k) # Ausente /\ get_value(k)' = Ausente)
       => free_entries(tabla) < Paginas]_vars

\* CIRC writes over whole values: an entry of a value that needs several is
\* never reused while others of it stay, which the skip in guardarEnTablaCIRC
\* is there to ensure.
NoPisaNoAtomicas ==
  [][\A i \in Entradas :
       tabla[i].clave # vacio /\ tabla[i].tamanio > TamanioEntradas /\ CircEscribe
         => tabla'[i].clave = tabla[i].clave]_vars

\* In CIRC the entries from comienzoDeEntradasLibres on are free: the lookup
\* that stops there misses no key, and the index never points beyond it.
LibresAlFinal ==
  algReemplazo = "CIRC" /\ pc # "compactar" =>
    /\ indexCircular <= comienzoDeEntradasLibres
    /\ \A i \in Entradas : i >= comienzoDeEntradasLibres => tabla[i].clave = vacio

\* A key has the entries its value needs, side by side, and is nowhere else in
\* the table: compactar, which takes a value apart and puts it together again,
\* leaves no entry behind, and no lookup misses a key that is there.
UnaVezEnLaTabla ==
  pc # "compactar" /\ algReemplazo = "LRU" => \A k \in Claves :
    LET n == consultarTabla(k)
    IN n # -1 => {i \in Entradas : tabla[i].clave = k}
                   = n..(n + getCantPaginas(tabla[n].tamanio) - 1)

\* When compactar has gone through the table no entry in use comes after a free
\* one: what is free stands together, so that the value it was called for fits
\* if the free entries are enough.
LibresJuntas ==
  pc = "compactar" /\ compactado.i = CantEntradas =>
    \A j, q \in Entradas : j < q /\ tabla[j].clave = vacio => tabla[q].clave = vacio

-----------------------------------------------------------------------------
(* Files.                                                                  *)

\* Every key of the table has its file mapped: STORE and the dump need it and
\* neither survives without it.
ClavesMapeadas ==
  \A i \in Entradas : tabla[i].clave # vacio => Mapeada(tabla[i].clave) # {}

\* A file is emptied only for the SET of its key when none was mapped, and
\* written only by STORE of its key or by the dump, each time from the value
\* its key has at that moment.
Prefijo(n, s) == SubSeq(s, 1, IF Len(s) < n THEN Len(s) ELSE n)
ArchivoEsCopia ==
  [][\A k \in Claves :
       archivo'[k] # archivo[k] =>
         \/ k \notin lista_claves /\ pedido.op = "SET" /\ pedido.clave = k
         \/ /\ get_value(k) # Ausente
            /\ Prefijo(Len(get_value(k)), archivo'[k]) = get_value(k)]_vars

\* A file holds the value its key had when it was last written, up to its '\0'.
\* After a dump every file does, says the dump: store every key of the table.
Cadena(s) ==
  LET nulos == {j \in DOMAIN s : s[j] = Nulo}
  IN IF nulos = {} THEN s ELSE SubSeq(s, 1, Min(nulos) - 1)
VolcadoEsElValor ==
  volcado = CantEntradas /\ mutex_dump = "dump" =>
    \A k \in Claves : get_value(k) # Ausente => Cadena(archivo[k]) = get_value(k)

-----------------------------------------------------------------------------
(* Threads and answers.                                                    *)

\* The dump sees no half-done request and no request runs during a dump.
DumpExcluido ==
  /\ volcado # -1 => pc \in {"recv", "mutex"}
  /\ mutex_dump = "dump" <=> volcado # -1

\* Every request is answered, unless the process dies.
TodoPedidoTermina == pc = "mutex" ~> pc \in {"recv", "caida"}

-----------------------------------------------------------------------------
(* What the code's comments say and the code does not do: TLC refutes each *)
(* of these (README.md, section 5); no run checks them.                    *)

\* A SET takes its key for known exactly when an entry carries it: the lookups
\* say where the key is if it is in the table, and -1 if it is not.
BusquedaCierta ==
  EnProceso("SET") =>
    (Encontrada # -1 <=> \E i \in Entradas : tabla[i].clave = pedido.clave)

\* Whatever STATUS would answer for a key of the table is a value somebody
\* SET: the bytes of one value, in order and without a '\0' among them.
ValoresEnteros == \A k \in Claves : get_value(k) \in Valores \cup {Ausente}

\* A request changes the value of no key but its own: what guardarEnMem writes
\* stays inside the entries of its key.
NadieMasCambia ==
  [][\A k \in Claves :
       valoresGuardados[k] # Ausente /\ valoresGuardados'[k] \notin {valoresGuardados[k], Ausente}
         => pedido # Ausente /\ pedido.op = "SET" /\ pedido.clave = k]_vars

\* The answer to STORE tells the Coordinador that the file was written: its
\* last word is 12 only for a key of the table.
StoreDiceLaVerdad ==
  [][EnProceso("STORE") /\ pc' = "recv" =>
       (Last(respuestas').id = 12 <=> consultarTabla(pedido.clave) # -1)]_vars

\* A value is stored in the end, unless the process dies, if the free entries
\* and those of the values LRU may replace, which fit in one, are enough for it.
Reutilizables == {i \in Entradas : tabla[i].clave = vacio \/ tabla[i].tamanio <= TamanioEntradas}
ElNuevoEntra ==
  pc = "guardarEnTabla" /\ Paginas <= Cardinality(Reutilizables) ~> pc \in {"recv", "caida"}
=============================================================================
