--------------------------- MODULE PedidosProofs ----------------------------
(***************************************************************************)
(* A request from the turn to its answer, when no Instance falls: it is at *)
(* one stage, which says what every host_instance thread, every stream and *)
(* every semaphore is doing.                                               *)
(***************************************************************************)
EXTENDS DistribucionProofs, SequenceTheorems

-----------------------------------------------------------------------------
(* The list when nothing falls.                                            *)

\* The thread of the Instance at place n, and the descriptor of the list.
Hebra(n) == hilo[instances[n].name]
Linea(n) == fds[instances[n].socket]

\* The Instance at place n is up, its connection is open and is the one its
\* thread works on.
EnPie(n) ==
  /\ instances[n].is_active
  /\ Linea(n) # Libre /\ Linea(n).de = instances[n].name /\ Linea(n).abierta
  /\ Hebra(n).pc # "no" /\ Hebra(n).socket = instances[n].socket

Estable ==
  /\ caidas = 0
  /\ \A n \in Lugares : EnPie(n)
  /\ \A m, n \in Lugares : instances[m].name = instances[n].name => m = n
  /\ \A i \in Instancias : hilo[i].pc # "no" => \E n \in Lugares : instances[n].name = i
  /\ \A s \in Sockets : fds[s] # Libre =>
       \/ \E n \in Lugares : instances[n].socket = s
       \/ fds[s].de = Otro /\ fds[s].abierta /\ fds[s].hacia = <<>>

-----------------------------------------------------------------------------
(* The keys.                                                               *)

\* A key is in the dictionary of one Instance at most, and only that one can
\* have its value.
Anotada(n, k) == k \in instances[n].keys
Asignadas ==
  /\ \A n \in Lugares : instances[n].keys \subseteq Claves
  /\ \A m, n \in Lugares : \A k \in Claves : Anotada(m, k) /\ Anotada(n, k) => m = n
  /\ \A i \in Instancias, k \in Claves :
       memoria[i][k] # Nada => \E n \in Lugares : instances[n].name = i /\ Anotada(n, k)

\* What the request being served may count on.
Previsto ==
  /\ \A k \in tomadas : \E n \in Lugares : Anotada(n, k)
  /\ cliente.pc \in {"SET", "STORE"} => cliente.clave \in tomadas
  /\ cliente.pc = "elegir" => \A n \in Lugares : ~Anotada(n, cliente.clave)
  /\ cliente.op = "STORE" /\ cliente.pc \in {"STORE", "espera"} =>
       \E n \in Lugares : Anotada(n, cliente.clave) /\ memoria[instances[n].name][cliente.clave] # Nada

Mensaje ==
  /\ cliente.pc \in {"libre", "GET", "SET", "STORE", "elegir", "espera"}
  /\ cliente.op # "STATUS"
  /\ cliente.pc # "libre" => message.key = cliente.clave
  /\ cliente.pc # "libre" /\ cliente.op = "SET" =>
       message.value = cliente.valor /\ cliente.valor \in Valores
  /\ cliente.pc \in {"GET", "SET", "STORE"} => operation = cliente.op /\ cliente.op = cliente.pc
  /\ cliente.pc = "elegir" => operation = "GET" /\ cliente.op = "GET"

-----------------------------------------------------------------------------
(* The stages of a request.                                                *)

Muda(n) == Linea(n).hacia = <<>> /\ Linea(n).desde = <<>>
Ociosa(n) == instances[n].start = 0 /\ Hebra(n).pc = "start" /\ Muda(n)
Avisada(n) == instances[n].start = 1 /\ Hebra(n).pc = "start" /\ Muda(n)
Encargada(n, m) ==
  /\ instances[n].start = 0 /\ Hebra(n).pc = "respuesta" /\ Hebra(n).op = m.op
  /\ Linea(n).hacia = <<m>> /\ Linea(n).desde = <<>>
Contestada(n, m, rs) ==
  /\ instances[n].start = 0 /\ Hebra(n).op = m.op
  /\ Linea(n).hacia = <<>> /\ Linea(n).desde = rs

Demas(S) == \A m \in Lugares \ S : Ociosa(m)
SinPosts == result_instance = 0 /\ compact = 0

\* The Instance at place n is the one that was chosen.
Turno(n) == cliente.pc = "espera" /\ cliente.elegida = instances[n].name /\ Anotada(n, cliente.clave)
Pedido(op) == [op |-> op, clave |-> cliente.clave, valor |-> message.value]
Hecho(n) == cliente.op = "SET" => memoria[instances[n].name][cliente.clave] = cliente.valor
UnaSola(rs) == Len(rs) = 1 /\ rs[1].header.id = 12 /\ rs[1].de = Pedido(cliente.op)

EnCalma == cliente.pc # "espera" /\ SinPosts /\ Demas({})
Enviado(n) == Turno(n) /\ SinPosts /\ Demas({n}) /\ operation = cliente.op /\ Avisada(n)
Atendido(n) == Turno(n) /\ SinPosts /\ Demas({n}) /\ Encargada(n, Pedido(cliente.op))
Contestado(n) ==
  /\ Turno(n) /\ SinPosts /\ Demas({n}) /\ Hecho(n)
  /\ Hebra(n).pc = "respuesta"
  /\ \E rs \in Seq(Contestacion) :
       /\ Contestada(n, Pedido(cliente.op), rs)
       /\ \/ UnaSola(rs)
          \/ /\ Compactan /\ cliente.op = "SET" /\ Len(rs) = 2 /\ rs[1].header.id = 11
             /\ rs[1].de = Pedido("SET") /\ UnaSola(Tail(rs))
Compactadora(n) ==
  /\ Turno(n) /\ Compactan /\ cliente.op = "SET" /\ Hecho(n)
  /\ \E rs \in Seq(Contestacion) : Contestada(n, Pedido("SET"), rs) /\ UnaSola(rs)
Filtrado(n) ==
  /\ Compactadora(n) /\ SinPosts /\ Demas({n})
  /\ Hebra(n).pc = "filtrar" /\ Hebra(n).lista \subseteq Lugares \ {n}
OtraCompacta(o) ==
  \/ compact = 0 /\ operation = "COMPACT" /\ Avisada(o)
  \/ compact = 0 /\ Encargada(o, Pedido("COMPACT"))
  \/ /\ compact = 0 /\ Hebra(o).pc = "respuesta"
     /\ \E rs \in Seq(Contestacion) :
          Contestada(o, Pedido("COMPACT"), rs) /\ Len(rs) = 1 /\ rs[1].de = Pedido("COMPACT")
  \/ compact = 1 /\ Ociosa(o)
Compactado(n, o) ==
  /\ Compactadora(n) /\ result_instance = 0 /\ Demas({n, o})
  /\ Hebra(n).pc = "compactando" /\ Hebra(n).lista = {o}
  /\ OtraCompacta(o)
Terminado(n) ==
  Turno(n) /\ result_instance = 1 /\ compact = 0 /\ Demas({}) /\ Hecho(n)

Etapa ==
  \/ EnCalma
  \/ \E n \in Lugares :
       \/ Enviado(n) \/ Atendido(n) \/ Contestado(n) \/ Filtrado(n) \/ Terminado(n)
       \/ \E o \in Lugares \ {n} : Compactado(n, o)

-----------------------------------------------------------------------------
(* LSU: the free space.                                                    *)

\* The free space the list has for an Instance is what it has, or the one it
\* was given when it connected, or that is in the answer to a SET on its way.
Ultima(n) == Linea(n).desde[Len(Linea(n).desde)].header.len
Respondiendo(n) == Turno(n) /\ cliente.op = "SET" /\ Linea(n).desde # <<>>
EspacioCierto(n) ==
  \/ instances[n].free_space = Lugar(instances[n].name)
  \/ instances[n].free_space = 999 /\ Lugar(instances[n].name) = Capacidad
Espacios ==
  algorithm = "LSU" => \A n \in Lugares :
    IF Respondiendo(n) THEN Ultima(n) = Lugar(instances[n].name) ELSE EspacioCierto(n)

Marcha == Estable /\ Asignadas /\ Previsto /\ Mensaje /\ Etapa /\ Espacios
PInv == TInv /\ Marcha

\* No Instance falls; every request has one answer: no STORE of a key without
\* a value, no STATUS; of those that compact there are two at most.
Supuesto ==
  /\ MaxCaidas = 0
  /\ ~StoreSinValor /\ "STATUS" \notin Operaciones
  /\ Compactan => \E a, b : Instancias \subseteq {a, b}

-----------------------------------------------------------------------------
(* What a step leaves alone.                                               *)

\* The list is the same but for the start, the free space and the keys of
\* place n; of the threads and connections only those of n change.
SoloToca(n) ==
  /\ DOMAIN instances' = DOMAIN instances
  /\ \A m \in Lugares :
       /\ instances'[m].name = instances[m].name /\ instances'[m].socket = instances[m].socket
       /\ instances'[m].is_active = instances[m].is_active
  /\ \A m \in Lugares \ {n} :
       /\ instances'[m].start = instances[m].start
       /\ instances'[m].free_space = instances[m].free_space
       /\ instances'[m].keys = instances[m].keys
       /\ hilo'[instances[m].name] = hilo[instances[m].name]
       /\ fds'[instances[m].socket] = fds[instances[m].socket]
  /\ \A s \in Sockets : (\A m \in Lugares : instances[m].socket # s) => fds'[s] = fds[s]
  /\ \A i \in Instancias : (\A m \in Lugares : instances[m].name # i) => hilo'[i] = hilo[i]
  /\ Linea(n)' # Libre /\ Linea(n)'.de = Linea(n).de /\ Linea(n)'.abierta = Linea(n).abierta
  /\ Hebra(n)'.pc # "no" /\ Hebra(n)'.socket = Hebra(n).socket

\* The places have different names and descriptors.
LEMMA Lugar1 ==
  ASSUME TInv, Estable, NEW n \in Lugares
  PROVE  /\ instances[n] \in instance_t /\ instances[n].name \in Instancias
         /\ instances[n].socket \in Sockets /\ instances[n].start \in Nat
         /\ Hebra(n) \in Hilo /\ Linea(n) \in Enlace
         /\ name_is_equal(instances[n].name) = n
         /\ \A m \in Lugares \ {n} :
              instances[m].name # instances[n].name /\ instances[m].socket # instances[n].socket
<1>1. instances[n] \in instance_t
  BY Tipadas DEF Lugares
<1>2. instances[n].name \in Instancias /\ instances[n].socket \in Sockets /\ instances[n].start \in Nat
  BY <1>1 DEF instance_t
<1>3. Hebra(n) \in Hilo
  BY <1>2, Tipadas DEF Hebra
<1>4. Linea(n) \in Enlace
  BY <1>2, Tipadas DEF Linea, Estable, EnPie
<1>5. \A m \in Lugares \ {n} :
        instances[m].name # instances[n].name /\ instances[m].socket # instances[n].socket
  BY DEF Estable, EnPie, Linea
<1>6. name_is_equal(instances[n].name) = n
  <2> DEFINE S == {m \in Lugares : instances[m].name = instances[n].name}
  <2>1. S = {n}
    BY <1>5
  <2>2. Lugares \in SUBSET (Nat \ {0})
    BY Tipadas, Encontrada
  <2>3. Primero(S) # 0 /\ Primero(S) \in S
    BY <2>1, <2>2, PrimeroEsta
  <2> QED BY <2>1, <2>3 DEF name_is_equal
<1> QED BY <1>1, <1>2, <1>3, <1>4, <1>5, <1>6

LEMMA Toca ==
  ASSUME TInv, Estable, NEW n \in Lugares, DOMAIN instances' = DOMAIN instances,
         \A m \in Lugares \ {n} : instances'[m] = instances[m],
         instances'[n].name = instances[n].name, instances'[n].socket = instances[n].socket,
         instances'[n].is_active = instances[n].is_active,
         \A k \in Instancias \ {instances[n].name} : hilo'[k] = hilo[k],
         hilo'[instances[n].name].pc # "no",
         hilo'[instances[n].name].socket = hilo[instances[n].name].socket,
         \A s \in Sockets \ {instances[n].socket} : fds'[s] = fds[s],
         fds'[instances[n].socket] # Libre,
         fds'[instances[n].socket].de = fds[instances[n].socket].de,
         fds'[instances[n].socket].abierta = fds[instances[n].socket].abierta
  PROVE  SoloToca(n)
<1>1. \A m \in Lugares \ {n} :
        /\ instances[m].name \in Instancias \ {instances[n].name}
        /\ instances[m].socket \in Sockets \ {instances[n].socket}
  BY Lugar1
<1> QED BY <1>1 DEF SoloToca, Hebra, Linea

LEMMA TocaEstable ==
  ASSUME TInv, Estable, NEW n \in Lugares, SoloToca(n), UNCHANGED caidas
  PROVE  Estable'
<1>1. Lugares' = Lugares
  BY DEF Lugares, SoloToca
<1>2. \A m \in Lugares : EnPie(m)'
  <2>1. EnPie(n)'
    BY DEF SoloToca, Estable, EnPie, Hebra, Linea
  <2>2. ASSUME NEW m \in Lugares \ {n} PROVE EnPie(m)'
    BY DEF SoloToca, Estable, EnPie, Hebra, Linea
  <2> QED BY <2>1, <2>2
<1>3. \A i \in Instancias : hilo'[i].pc # "no" => \E m \in Lugares : instances'[m].name = i
  BY DEF SoloToca, Estable
<1>4. \A s \in Sockets : fds'[s] # Libre =>
       \/ \E m \in Lugares : instances'[m].socket = s
       \/ fds'[s].de = Otro /\ fds'[s].abierta /\ fds'[s].hacia = <<>>
  BY DEF SoloToca, Estable
<1>5. \A m, k \in Lugares : instances'[m].name = instances'[k].name => m = k
  BY DEF SoloToca, Estable
<1> QED BY <1>1, <1>2, <1>3, <1>4, <1>5 DEF Estable

\* The other places are as they were.
LEMMA TocaDemas ==
  ASSUME NEW n, SoloToca(n), NEW m \in Lugares, m # n
  PROVE  /\ instances'[m].start = instances[m].start /\ Hebra(m)' = Hebra(m) /\ Linea(m)' = Linea(m)
         /\ instances'[m].keys = instances[m].keys /\ instances'[m].name = instances[m].name
         /\ Ociosa(m)' <=> Ociosa(m)
<1>1. /\ instances'[m].start = instances[m].start /\ Hebra(m)' = Hebra(m) /\ Linea(m)' = Linea(m)
      /\ instances'[m].keys = instances[m].keys /\ instances'[m].name = instances[m].name
  BY DEF SoloToca, Hebra, Linea
<1>2. Ociosa(m)' <=> Ociosa(m)
  BY <1>1 DEF Ociosa, Muda
<1> QED BY <1>1, <1>2

LEMMA TocaOciosas ==
  ASSUME NEW n, SoloToca(n), NEW S, Demas(S)
  PROVE  Demas(S \cup {n})'
<1>1. Lugares' = Lugares
  BY DEF Lugares, SoloToca
<1> QED BY <1>1, TocaDemas DEF Demas

\* Whoever is at work is at its stage of the request.
LEMMA Trabaja ==
  ASSUME Etapa, NEW n \in Lugares, ~Ociosa(n)
  PROVE  \/ Enviado(n) \/ Atendido(n) \/ Contestado(n) \/ Filtrado(n)
         \/ \E o \in Lugares \ {n} : Compactado(n, o) \/ (Compactado(o, n) /\ OtraCompacta(n))
<1>1. ~EnCalma
  BY DEF EnCalma, Demas
<1>2. PICK p \in Lugares :
       \/ Enviado(p) \/ Atendido(p) \/ Contestado(p) \/ Filtrado(p) \/ Terminado(p)
       \/ \E o \in Lugares \ {p} : Compactado(p, o)
  BY <1>1 DEF Etapa
<1>3. ~Terminado(p)
  BY DEF Terminado, Demas
<1>4. CASE Enviado(p) \/ Atendido(p) \/ Contestado(p) \/ Filtrado(p)
  BY <1>4 DEF Enviado, Atendido, Contestado, Filtrado, Demas
<1>5. CASE \E o \in Lugares \ {p} : Compactado(p, o)
  BY <1>5 DEF Compactado, Demas
<1> QED BY <1>2, <1>3, <1>4, <1>5

LEMMA Unitarias ==
  ASSUME NEW T, NEW s \in Seq(T)
  PROVE  /\ \A m \in T : Append(<<>>, m) = <<m>>
         /\ Len(s) = 1 => s # <<>> /\ Head(s) = s[1] /\ Tail(s) = <<>>
         /\ Len(s) = 2 => /\ s # <<>> /\ Head(s) = s[1] /\ Tail(s) \in Seq(T) /\ Len(Tail(s)) = 1
                          /\ Tail(s)[1] = s[2]
         /\ <<>> \o s = s
<1>1. ASSUME NEW m \in T PROVE Append(<<>>, m) = <<m>>
  OBVIOUS
<1>2. ASSUME Len(s) = 1 PROVE s # <<>> /\ Head(s) = s[1] /\ Tail(s) = <<>>
  <2>1. s # <<>>
    BY <1>2, EmptySeq
  <2>2. Head(s) = s[1]
    BY <2>1
  <2>3. Tail(s) \in Seq(T) /\ Len(Tail(s)) = 0
    BY <1>2, <2>1, HeadTailProperties
  <2>4. Tail(s) = <<>>
    BY <2>3, EmptySeq
  <2> QED BY <2>1, <2>2, <2>4
<1>3. ASSUME Len(s) = 2
      PROVE  s # <<>> /\ Head(s) = s[1] /\ Tail(s) \in Seq(T) /\ Len(Tail(s)) = 1 /\ Tail(s)[1] = s[2]
  BY <1>3
<1>4. <<>> \o s = s
  OBVIOUS
<1> QED BY <1>1, <1>2, <1>3, <1>4

LEMMA Juntas ==
  ASSUME NEW T, NEW a \in T, NEW b \in T
  PROVE  <<a>> \o <<b>> = <<a, b>>
<1>1. <<a>> \in Seq(T) /\ <<b>> \in Seq(T) /\ <<a, b>> \in Seq(T) /\ Len(<<a, b>>) = 2
  OBVIOUS
<1>2. Len(<<a>> \o <<b>>) = 2 /\ <<a>> \o <<b>> \in Seq(T)
  BY <1>1, ConcatProperties
<1>3. (<<a>> \o <<b>>)[1] = a /\ (<<a>> \o <<b>>)[2] = b
  BY <1>1, ConcatProperties
<1>4. \A i \in 1..2 : (<<a>> \o <<b>>)[i] = <<a, b>>[i]
  BY <1>3
<1> QED BY <1>1, <1>2, <1>4, SeqEqual

\* A thread has a place in the list, and works on the connection the list has.
LEMMA LugarDelHilo ==
  ASSUME TInv, Estable, NEW i \in Instancias, hilo[i].pc # "no"
  PROVE  \E n \in Lugares : /\ instances[n].name = i /\ Propia(i) = n /\ hilo[i] = Hebra(n)
                            /\ hilo[i].socket = instances[n].socket /\ fds[hilo[i].socket] = Linea(n)
                            /\ Escucha(hilo[i].socket) /\ ~Cerrado(hilo[i].socket)
                            /\ fds[hilo[i].socket] # Libre
<1>1. PICK n \in Lugares : instances[n].name = i
  BY DEF Estable
<1>2. Propia(i) = n /\ hilo[i] = Hebra(n)
  BY <1>1, Lugar1 DEF Propia, Hebra
<1>3. EnPie(n)
  BY DEF Estable
<1>4. hilo[i].socket = instances[n].socket /\ fds[hilo[i].socket] = Linea(n)
  BY <1>2, <1>3 DEF EnPie, Linea
<1>5. i # Otro
  BY DistribucionAssumption
<1> QED BY <1>1, <1>2, <1>3, <1>4, <1>5 DEF EnPie, Escucha, Cerrado

\* What a step of a thread leaves as it was.
LEMMA TocaResto ==
  ASSUME PInv, NEW n \in Lugares, SoloToca(n), instances'[n].keys = instances[n].keys,
         UNCHANGED <<cliente, tomadas, memoria, message, caidas>>,
         UNCHANGED operation \/ cliente.pc = "espera"
  PROVE  /\ Estable' /\ Asignadas' /\ Previsto' /\ Mensaje' /\ Lugares' = Lugares
         /\ \A m \in Lugares : /\ Turno(m)' <=> Turno(m)
                               /\ Hecho(m)' <=> Hecho(m)
                               /\ instances'[m].name = instances[m].name
                               /\ instances'[m].keys = instances[m].keys
         /\ \A op : Pedido(op)' = Pedido(op)
<1>1. Lugares' = Lugares
  BY DEF Lugares, SoloToca
<1>2. \A m \in Lugares : instances'[m].name = instances[m].name /\ instances'[m].keys = instances[m].keys
  BY DEF SoloToca
<1>3. Estable'
  BY TocaEstable DEF PInv, Marcha
<1>4. \A m \in Lugares : \A k : Anotada(m, k)' <=> Anotada(m, k)
  BY <1>2 DEF Anotada
<1>5. Asignadas'
  BY <1>1, <1>2, <1>4 DEF PInv, Marcha, Asignadas
<1>6. Previsto'
  BY <1>1, <1>2, <1>4 DEF PInv, Marcha, Previsto
<1>7. Mensaje'
  BY DEF PInv, Marcha, Mensaje
<1> QED BY <1>1, <1>2, <1>3, <1>4, <1>5, <1>6, <1>7 DEF Turno, Hecho, Pedido

\* The free space the list has is as true as it was.
LEMMA TocaEspacios ==
  ASSUME PInv, NEW n \in Lugares, SoloToca(n), instances'[n].keys = instances[n].keys,
         UNCHANGED <<cliente, memoria, algorithm>>,
         instances'[n].free_space = instances[n].free_space,
         \/ Linea(n)'.desde = Linea(n).desde
         \/ Linea(n).desde # <<>> /\ Linea(n)'.desde # <<>> /\ Ultima(n)' = Ultima(n)
         \/ ~Turno(n) \/ cliente.op # "SET"
  PROVE  Espacios'
<1>1. Lugares' = Lugares
  BY DEF Lugares, SoloToca
<1>2. ASSUME NEW m \in Lugares
      PROVE  /\ EspacioCierto(m)' <=> EspacioCierto(m)
             /\ Turno(m)' <=> Turno(m)
             /\ Lugar(instances[m].name)' = Lugar(instances[m].name)
  <2>1. instances'[m].name = instances[m].name /\ instances'[m].keys = instances[m].keys
        /\ instances'[m].free_space = instances[m].free_space
    BY DEF SoloToca
  <2> QED BY <2>1 DEF EspacioCierto, Turno, Anotada, Lugar
<1>3. ASSUME NEW m \in Lugares
      PROVE  /\ Respondiendo(m)' <=> Respondiendo(m)
             /\ Respondiendo(m) => Ultima(m)' = Ultima(m)
  <2>1. CASE m = n
    BY <1>2, <2>1 DEF Respondiendo, Ultima
  <2>2. CASE m # n
    BY <1>2, <2>2, TocaDemas DEF Ultima, Respondiendo
  <2> QED BY <2>1, <2>2
<1>4. algorithm' = "LSU" => algorithm = "LSU"
  OBVIOUS
<1> QED BY <1>1, <1>2, <1>3, <1>4 DEF PInv, Marcha, Espacios

-----------------------------------------------------------------------------
(* The steps of a thread.                                                  *)

LEMMA Intactas ==
  ASSUME TInv, Estable, NEW n \in Lugares
  PROVE  /\ instances = [instances EXCEPT ![n] = instances[n]]
         /\ hilo = [hilo EXCEPT ![instances[n].name] = Hebra(n)]
         /\ fds = [fds EXCEPT ![instances[n].socket] = Linea(n)]
<1>1. instances = [instances EXCEPT ![n] = instances[n]]
  BY Tipadas
<1>2. hilo = [hilo EXCEPT ![instances[n].name] = Hebra(n)]
  <2>1. hilo \in [Instancias -> Hilo]
    BY DEF TInv, TypeOK
  <2> QED BY <2>1 DEF Hebra
<1>3. fds = [fds EXCEPT ![instances[n].socket] = Linea(n)]
  BY Tipadas DEF Linea
<1> QED BY <1>1, <1>2, <1>3

\* A step that changes the record of place n, the thread and the connection of its Instance.
LEMMA CambiaLugar ==
  ASSUME TInv, NEW n \in Lugares, NEW q, instances' = [instances EXCEPT ![n] = q]
  PROVE  /\ DOMAIN instances' = DOMAIN instances /\ instances'[n] = q
         /\ \A m \in Lugares \ {n} : instances'[m] = instances[m]
BY DEF Lugares

LEMMA CambiaHilo ==
  ASSUME TInv, NEW i \in Instancias, NEW r, hilo' = [hilo EXCEPT ![i] = r]
  PROVE  hilo'[i] = r /\ \A k \in Instancias \ {i} : hilo'[k] = hilo[k]
BY DEF TInv, TypeOK

LEMMA CambiaConexion ==
  ASSUME TInv, NEW s \in Sockets, NEW c, fds' = [fds EXCEPT ![s] = c]
  PROVE  fds'[s] = c /\ \A t \in Sockets \ {s} : fds'[t] = fds[t]
BY Tipadas

LEMMA DespertarMarcha ==
  ASSUME PInv, NEW i \in Instancias, Despertar(i)
  PROVE  Marcha'
<1>0. TInv /\ Estable /\ Mensaje /\ Etapa
  BY DEF PInv, Marcha
<1>1. hilo[i].pc = "start"
  BY DEF Despertar, HiloEn
<1>2. PICK n \in Lugares : /\ instances[n].name = i /\ Propia(i) = n /\ hilo[i] = Hebra(n)
                           /\ hilo[i].socket = instances[n].socket /\ fds[hilo[i].socket] = Linea(n)
                           /\ Escucha(hilo[i].socket)
  BY <1>0, <1>1, LugarDelHilo
<1> DEFINE m == [op |-> operation, clave |-> message.key, valor |-> message.value]
           q == [instances[n] EXCEPT !.start = @ - 1]
           r == [hilo[i] EXCEPT !.pc = "respuesta", !.op = operation, !.header = Enviada(operation, @)]
           c == [Linea(n) EXCEPT !.hacia = Append(@, m)]
<1>3. instances[n].start > 0 /\ instances' = [instances EXCEPT ![n] = q]
  BY <1>2 DEF Despertar
<1>4. hilo' = [hilo EXCEPT ![instances[n].name] = r]
  BY <1>2 DEF Despertar, PInv, TInv, TypeOK
<1>5. fds' = [fds EXCEPT ![instances[n].socket] = c]
  BY <1>2 DEF Despertar, Manda, Escucha
<1>6. /\ q.name = instances[n].name /\ q.socket = instances[n].socket
      /\ q.is_active = instances[n].is_active /\ q.keys = instances[n].keys
      /\ q.free_space = instances[n].free_space /\ q.start = instances[n].start - 1
  BY <1>0, Lugar1 DEF instance_t
<1>7. r.pc = "respuesta" /\ r.pc # "no" /\ r.op = operation /\ r.socket = Hebra(n).socket /\ r.lista = Hebra(n).lista
  BY <1>0, <1>2, Lugar1, ZenonT(40) DEF Hilo
<1>8. /\ c # Libre /\ c.de = Linea(n).de /\ c.abierta = Linea(n).abierta /\ c.desde = Linea(n).desde
      /\ c.hacia = Append(Linea(n).hacia, m) /\ m \in Peticion
  <2>1. Linea(n) \in Enlace
    BY <1>0, Lugar1
  <2>2. m \in Peticion
    BY <1>0, Tipadas DEF Peticion
  <2>3. c \in Enlace
    BY <2>1, <2>2, SMTT(30) DEF Enlace
  <2>4. c # Libre
    BY <2>3, LibreAssumption
  <2> QED BY <2>1, <2>2, <2>4 DEF Enlace
<1>9. UNCHANGED <<instance_pointer, semaforos, globales, cliente, tomadas, memoria, cuentas>>
  BY DEF Despertar
<1> HIDE DEF q, r, c, m
<1>10. /\ DOMAIN instances' = DOMAIN instances /\ instances'[n] = q
       /\ \A k \in Lugares \ {n} : instances'[k] = instances[k]
  BY <1>0, <1>3, CambiaLugar
<1>11. hilo'[instances[n].name] = r /\ \A k \in Instancias \ {instances[n].name} : hilo'[k] = hilo[k]
  BY <1>0, <1>4, Lugar1, CambiaHilo
<1>12. fds'[instances[n].socket] = c /\ \A s \in Sockets \ {instances[n].socket} : fds'[s] = fds[s]
  BY <1>0, <1>5, Lugar1, CambiaConexion
<1>13. SoloToca(n) /\ instances'[n] = q /\ Hebra(n)' = r /\ Linea(n)' = c
  BY <1>0, <1>6, <1>7, <1>8, <1>10, <1>11, <1>12, Toca DEF Hebra, Linea
<1>14. /\ instances'[n].start = instances[n].start - 1 /\ instances'[n].keys = instances[n].keys
       /\ instances'[n].free_space = instances[n].free_space
       /\ Hebra(n)'.pc = "respuesta" /\ Hebra(n)'.op = operation
       /\ Linea(n)'.desde = Linea(n).desde /\ Linea(n)'.hacia = Append(Linea(n).hacia, m)
  BY <1>6, <1>7, <1>8, <1>13
<1>15. cliente.pc = "espera" /\ UNCHANGED <<operation, cliente, message, tomadas, memoria, caidas, algorithm>>
       /\ UNCHANGED <<result_instance, compact>>
  <2>1. ~Ociosa(n)
    BY <1>3 DEF Ociosa
  <2>2. \E k \in Lugares : Turno(k)
    BY <1>0, <2>1, Trabaja, Zenon DEF Enviado, Atendido, Contestado, Filtrado, Compactado, Compactadora
  <2> QED BY <2>2, <1>9 DEF Turno, semaforos, globales, cuentas
<1>16. /\ Estable' /\ Asignadas' /\ Previsto' /\ Mensaje' /\ Lugares' = Lugares
       /\ \A k \in Lugares : Turno(k)' <=> Turno(k)
       /\ \A k \in Lugares : Hecho(k)' <=> Hecho(k)
       /\ \A op : Pedido(op)' = Pedido(op)
  BY <1>13, <1>14, <1>15, TocaResto
<1>17. Espacios'
  BY <1>13, <1>14, <1>15, TocaEspacios DEF Ultima
<1>18. Etapa'
  <2>1. m = Pedido(operation) /\ (Linea(n).hacia = <<>> => Linea(n)'.hacia = <<m>>)
    <3>1. message.key = cliente.clave
      BY <1>0, <1>15 DEF Mensaje
    <3>2. m = Pedido(operation)
      BY <3>1 DEF Pedido, m
    <3>3. Append(<<>>, m) = <<m>>
      BY <1>8
    <3> QED BY <3>2, <3>3, <1>14
  <2>2. CASE Enviado(n)
    <3>1. Encargada(n, Pedido(cliente.op))'
      BY <2>1, <2>2, <1>14, <1>15, <1>16 DEF Enviado, Avisada, Encargada, Muda, Pedido
    <3>2. Demas({n})'
      BY <2>2, <1>13, TocaOciosas DEF Enviado
    <3>3. Atendido(n)'
      BY <3>1, <3>2, <2>2, <1>15, <1>16 DEF Enviado, Atendido, SinPosts
    <3> QED BY <3>3, <1>16 DEF Etapa
  <2>3. ASSUME NEW p \in Lugares \ {n}, Compactado(p, n), compact = 0, operation = "COMPACT", Avisada(n)
        PROVE  Compactado(p, n)'
    <3>1. Encargada(n, Pedido("COMPACT"))'
      BY <2>1, <2>3, <1>14, <1>15, <1>16 DEF Avisada, Encargada, Muda, Pedido
    <3>2. OtraCompacta(n)'
      BY <3>1, <2>3, <1>15 DEF OtraCompacta
    <3>3. Demas({p, n})'
      BY <2>3, <1>13, TocaOciosas DEF Compactado
    <3>4. Compactadora(p)' /\ Hebra(p)' = Hebra(p)
      BY <2>3, <1>13, <1>15, <1>16, TocaDemas DEF Compactado, Compactadora, Contestada, UnaSola
    <3> QED BY <3>2, <3>3, <3>4, <2>3, <1>15 DEF Compactado
  <2>4. \/ Enviado(n)
        \/ \E p \in Lugares \ {n} : Compactado(p, n) /\ compact = 0 /\ operation = "COMPACT" /\ Avisada(n)
    <3>1. instances[n].start > 0 /\ Hebra(n).pc = "start" /\ ~Ociosa(n)
      BY <1>1, <1>2, <1>3 DEF Ociosa
    <3>2. instances[n].start # 0 /\ Hebra(n).pc # "respuesta"
      BY <3>1
    <3>3. ~Atendido(n) /\ ~Contestado(n) /\ ~Filtrado(n) /\ \A o \in Lugares \ {n} : ~Compactado(n, o)
      BY <3>2 DEF Atendido, Contestado, Filtrado, Compactado, Compactadora, Encargada, Contestada
    <3>4. OtraCompacta(n) => compact = 0 /\ operation = "COMPACT" /\ Avisada(n)
      BY <3>1, <3>2 DEF OtraCompacta, Encargada
    <3> QED BY <1>0, <3>1, <3>3, <3>4, Trabaja
  <2> QED BY <2>2, <2>3, <2>4, <1>16 DEF Etapa
<1> QED BY <1>16, <1>17, <1>18 DEF Marcha

\* A thread that waits for an answer: its stage, and the header it takes.
LEMMA Lee ==
  ASSUME PInv, NEW i \in Instancias, Espera(i), Contesta(i)
  PROVE  \E n \in Lugares :
           /\ instances[n].name = i /\ Propia(i) = n /\ hilo[i] = Hebra(n)
           /\ Linea(n).desde \in Seq(Contestacion) /\ Linea(n).desde # <<>>
           /\ Cabezal(i) = Linea(n).desde[1].header
           /\ fds' = [fds EXCEPT ![instances[n].socket] = [Linea(n) EXCEPT !.desde = Tail(@)]]
           /\ \/ Contestado(n)
              \/ /\ \E p \in Lugares \ {n} : Compactado(p, n)
                 /\ compact = 0 /\ Len(Linea(n).desde) = 1 /\ Hebra(n).op = "COMPACT"
                 /\ instances[n].start = 0 /\ Linea(n).hacia = <<>>
<1>0. TInv /\ Estable /\ Mensaje /\ Etapa
  BY DEF PInv, Marcha
<1>1. hilo[i].pc \in {"respuesta", "fin"}
  BY DEF Espera, HiloEn
<1>2. PICK n \in Lugares : /\ instances[n].name = i /\ Propia(i) = n /\ hilo[i] = Hebra(n)
                           /\ hilo[i].socket = instances[n].socket /\ fds[hilo[i].socket] = Linea(n)
                           /\ ~Cerrado(hilo[i].socket) /\ fds[hilo[i].socket] # Libre
  BY <1>0, <1>1, LugarDelHilo
<1>3. Linea(n) \in Enlace /\ Linea(n).desde \in Seq(Contestacion)
  BY <1>0, Lugar1 DEF Enlace
<1>4. ~Ociosa(n) /\ Hebra(n).pc \in {"respuesta", "fin"}
  BY <1>1, <1>2 DEF Ociosa
<1>5. \/ Atendido(n) \/ Contestado(n) \/ \E p \in Lugares \ {n} : Compactado(p, n) /\ OtraCompacta(n)
  <2>1. ~Enviado(n) /\ ~Filtrado(n) /\ \A o \in Lugares \ {n} : ~Compactado(n, o)
    BY <1>4 DEF Enviado, Avisada, Filtrado, Compactado
  <2> QED BY <1>0, <1>4, <2>1, Trabaja
<1>6. Hebra(n).pc = "respuesta"
  BY <1>4, <1>5 DEF Atendido, Contestado, Encargada, OtraCompacta, Avisada, Ociosa
<1>7. Leida(i) /\ Linea(n).desde # <<>> /\ fds' = [fds EXCEPT ![instances[n].socket].desde = Tail(@)]
  BY <1>2, <1>6 DEF Contesta, Leida
<1>8. Cabezal(i) = Linea(n).desde[1].header
  BY <1>2, <1>3, <1>7 DEF Cabezal
<1>9. fds' = [fds EXCEPT ![instances[n].socket] = [Linea(n) EXCEPT !.desde = Tail(@)]]
  BY <1>2, <1>7
<1>10. \/ Contestado(n)
       \/ /\ \E p \in Lugares \ {n} : Compactado(p, n)
          /\ compact = 0 /\ Len(Linea(n).desde) = 1 /\ Hebra(n).op = "COMPACT"
          /\ instances[n].start = 0 /\ Linea(n).hacia = <<>>
  <2>1. ~Atendido(n)
    BY <1>7 DEF Atendido, Encargada
  <2>2. ASSUME NEW p \in Lugares \ {n}, Compactado(p, n), OtraCompacta(n)
        PROVE  /\ compact = 0 /\ Len(Linea(n).desde) = 1 /\ Hebra(n).op = "COMPACT"
               /\ instances[n].start = 0 /\ Linea(n).hacia = <<>>
    <3>1. ~Avisada(n) /\ ~Encargada(n, Pedido("COMPACT")) /\ ~Ociosa(n)
      BY <1>4, <1>7 DEF Avisada, Encargada, Muda
    <3> QED BY <2>2, <3>1 DEF OtraCompacta, Contestada, Pedido
  <2> QED BY <1>5, <2>1, <2>2
<1> QED BY <1>2, <1>3, <1>7, <1>8, <1>9, <1>10

LEMMA LeeToca ==
  ASSUME TInv, Estable, NEW n \in Lugares, Linea(n).desde # <<>>,
         fds' = [fds EXCEPT ![instances[n].socket] = [Linea(n) EXCEPT !.desde = Tail(@)]],
         NEW r, hilo' = [hilo EXCEPT ![instances[n].name] = r], r.pc # "no", r.socket = Hebra(n).socket,
         DOMAIN instances' = DOMAIN instances, \A m \in Lugares \ {n} : instances'[m] = instances[m],
         instances'[n].name = instances[n].name, instances'[n].socket = instances[n].socket,
         instances'[n].is_active = instances[n].is_active
  PROVE  /\ SoloToca(n) /\ Hebra(n)' = r
         /\ Linea(n)'.desde = Tail(Linea(n).desde) /\ Linea(n)'.hacia = Linea(n).hacia
<1> DEFINE c == [Linea(n) EXCEPT !.desde = Tail(@)]
<1>1. /\ c # Libre /\ c.de = Linea(n).de /\ c.abierta = Linea(n).abierta /\ c.hacia = Linea(n).hacia
      /\ c.desde = Tail(Linea(n).desde)
  <2>1. Linea(n) \in Enlace /\ Linea(n).desde \in Seq(Contestacion)
    BY Lugar1 DEF Enlace
  <2>2. Tail(Linea(n).desde) \in Seq(Contestacion)
    BY <2>1, HeadTailProperties
  <2>3. c \in Enlace
    BY <2>1, <2>2 DEF Enlace
  <2> QED BY <2>1, <2>3, LibreAssumption DEF Enlace
<1> HIDE DEF c
<1>2. hilo'[instances[n].name] = r /\ \A k \in Instancias \ {instances[n].name} : hilo'[k] = hilo[k]
  BY Lugar1, CambiaHilo
<1>3. fds'[instances[n].socket] = c /\ \A s \in Sockets \ {instances[n].socket} : fds'[s] = fds[s]
  BY Lugar1, CambiaConexion DEF c
<1>4. SoloToca(n) /\ Hebra(n)' = r /\ Linea(n)' = c
  BY <1>1, <1>2, <1>3, Toca DEF Hebra, Linea
<1> QED BY <1>1, <1>4

LEMMA RecibirRespuestaMarcha ==
  ASSUME PInv, NEW i \in Instancias, RecibirRespuesta(i)
  PROVE  Marcha'
<1>0. TInv /\ Estable /\ Mensaje /\ Etapa /\ Espacios
  BY DEF PInv, Marcha
<1>1. Espera(i) /\ Contesta(i) /\ hilo[i].op # "COMPACT" /\ ~(hilo[i].op = "SET" /\ Cabezal(i).id = 11)
  BY DEF RecibirRespuesta
<1>2. PICK n \in Lugares :
        /\ instances[n].name = i /\ Propia(i) = n /\ hilo[i] = Hebra(n)
        /\ Linea(n).desde \in Seq(Contestacion) /\ Linea(n).desde # <<>>
        /\ Cabezal(i) = Linea(n).desde[1].header
        /\ fds' = [fds EXCEPT ![instances[n].socket] = [Linea(n) EXCEPT !.desde = Tail(@)]]
        /\ Contestado(n)
  <2>1. PICK n \in Lugares :
          /\ instances[n].name = i /\ Propia(i) = n /\ hilo[i] = Hebra(n)
          /\ Linea(n).desde \in Seq(Contestacion) /\ Linea(n).desde # <<>>
          /\ Cabezal(i) = Linea(n).desde[1].header
          /\ fds' = [fds EXCEPT ![instances[n].socket] = [Linea(n) EXCEPT !.desde = Tail(@)]]
          /\ \/ Contestado(n)
             \/ /\ \E p \in Lugares \ {n} : Compactado(p, n)
                /\ compact = 0 /\ Len(Linea(n).desde) = 1 /\ Hebra(n).op = "COMPACT"
                /\ instances[n].start = 0 /\ Linea(n).hacia = <<>>
    BY <1>1, Lee
  <2> QED BY <1>1, <2>1
<1>3. /\ Turno(n) /\ SinPosts /\ Demas({n}) /\ Hecho(n) /\ instances[n].start = 0
      /\ Hebra(n).op = cliente.op /\ cliente.op # "STATUS" /\ Linea(n).hacia = <<>>
      /\ UnaSola(Linea(n).desde)
  BY <1>0, <1>1, <1>2 DEF Contestado, Contestada, Pedido, Mensaje
<1>4. Len(Linea(n).desde) = 1 /\ Tail(Linea(n).desde) = <<>>
  BY <1>2, <1>3, Unitarias DEF UnaSola
<1> DEFINE q == IF cliente.op = "SET" /\ algorithm = "LSU"
                THEN [instances[n] EXCEPT !.free_space = Cabezal(i).len] ELSE instances[n]
           r == [hilo[i] EXCEPT !.pc = "start", !.header = Cabezal(i)]
<1>5. instances' = [instances EXCEPT ![n] = q]
  BY <1>0, <1>2, <1>3, Intactas DEF RecibirRespuesta, Terminar
<1>6. hilo' = [hilo EXCEPT ![instances[n].name] = r]
  BY <1>0, <1>2 DEF RecibirRespuesta, Tras, TInv, TypeOK
<1>7. /\ q.name = instances[n].name /\ q.socket = instances[n].socket
      /\ q.is_active = instances[n].is_active /\ q.keys = instances[n].keys /\ q.start = instances[n].start
      /\ q.free_space = IF cliente.op = "SET" /\ algorithm = "LSU" THEN Cabezal(i).len
                        ELSE instances[n].free_space
  BY <1>0, Lugar1 DEF instance_t
<1>8. r.pc = "start" /\ r.pc # "no" /\ r.socket = Hebra(n).socket
  BY <1>0, <1>2, Lugar1, ZenonT(40) DEF Hilo
<1>9. /\ UNCHANGED <<message, operation, cliente, tomadas, memoria, caidas, algorithm, compact>>
      /\ result_instance' = 1
  BY <1>2, <1>3 DEF RecibirRespuesta, Terminar, cuentas, SinPosts
<1> HIDE DEF q, r
<1>10. /\ DOMAIN instances' = DOMAIN instances /\ instances'[n] = q
       /\ \A k \in Lugares \ {n} : instances'[k] = instances[k]
  BY <1>0, <1>5, CambiaLugar
<1>11. SoloToca(n) /\ Hebra(n)' = r /\ Linea(n)'.desde = <<>> /\ Linea(n)'.hacia = <<>>
  BY <1>0, <1>2, <1>3, <1>4, <1>6, <1>7, <1>8, <1>10, LeeToca
<1>12. /\ Estable' /\ Asignadas' /\ Previsto' /\ Mensaje' /\ Lugares' = Lugares
       /\ \A k \in Lugares : /\ Turno(k)' <=> Turno(k)
                             /\ Hecho(k)' <=> Hecho(k)
                             /\ instances'[k].name = instances[k].name
  BY <1>7, <1>9, <1>10, <1>11, TocaResto
<1>13. Ociosa(n)'
  BY <1>3, <1>7, <1>8, <1>10, <1>11 DEF Ociosa, Muda
<1>14. Etapa'
  <2>1. Demas({})'
    BY <1>3, <1>11, <1>12, <1>13, TocaDemas DEF Demas
  <2>2. Terminado(n)'
    BY <1>3, <1>9, <1>12, <2>1 DEF Terminado, SinPosts
  <2> QED BY <1>12, <2>2 DEF Etapa
<1>15. Espacios'
  <2>1. CASE cliente.op = "SET" /\ algorithm = "LSU"
    <3>1. ASSUME NEW k \in Lugares
          PROVE  ~Respondiendo(k)' /\ EspacioCierto(k)'
      <4>1. Lugar(instances[k].name)' = Lugar(instances[k].name)
        BY <1>9, <1>12 DEF Lugar
      <4>2. CASE k = n
        <5>1. Respondiendo(n) /\ Ultima(n) = Lugar(instances[n].name)
          BY <1>0, <1>2, <1>3, <2>1 DEF Espacios, Respondiendo
        <5>2. instances'[n].free_space = Ultima(n)
          BY <1>2, <1>4, <1>7, <1>10, <2>1 DEF Ultima
        <5> QED BY <4>1, <4>2, <5>1, <5>2, <1>11 DEF Respondiendo, EspacioCierto
      <4>3. CASE k # n
        <5>1. ~Turno(k)
          BY <1>0, <1>3, <4>3, Lugar1 DEF Turno
        <5>2. EspacioCierto(k)
          BY <1>0, <2>1, <5>1 DEF Espacios, Respondiendo
        <5> QED BY <4>1, <4>3, <5>1, <5>2, <1>10, <1>12 DEF Respondiendo, EspacioCierto
      <4> QED BY <4>2, <4>3
    <3> QED BY <1>12, <3>1 DEF Espacios
  <2>2. CASE cliente.op # "SET"
    BY <1>7, <1>9, <1>10, <1>11, <2>2, TocaEspacios
  <2>3. CASE algorithm # "LSU"
    BY <1>9, <2>3 DEF Espacios
  <2> QED BY <2>1, <2>2, <2>3
<1> QED BY <1>12, <1>14, <1>15 DEF Marcha

LEMMA RecibirCompactadoMarcha ==
  ASSUME PInv, NEW i \in Instancias, RecibirCompactado(i)
  PROVE  Marcha'
<1>0. TInv /\ Estable /\ Mensaje /\ Etapa /\ cliente \in Cliente
  BY Tipadas DEF PInv, Marcha
<1>1. Espera(i) /\ Contesta(i) /\ hilo[i].op = "COMPACT"
  BY DEF RecibirCompactado
<1>2. PICK n \in Lugares :
        /\ instances[n].name = i /\ Propia(i) = n /\ hilo[i] = Hebra(n)
        /\ Linea(n).desde \in Seq(Contestacion) /\ Linea(n).desde # <<>>
        /\ fds' = [fds EXCEPT ![instances[n].socket] = [Linea(n) EXCEPT !.desde = Tail(@)]]
        /\ \/ Contestado(n)
           \/ /\ \E p \in Lugares \ {n} : Compactado(p, n)
              /\ compact = 0 /\ Len(Linea(n).desde) = 1 /\ Hebra(n).op = "COMPACT"
              /\ instances[n].start = 0 /\ Linea(n).hacia = <<>>
  BY <1>1, Lee
<1>3. ~Contestado(n)
  <2>1. cliente.op # "COMPACT"
    BY <1>0 DEF Cliente
  <2> QED BY <1>1, <1>2, <2>1 DEF Contestado, Contestada, Pedido
<1>4. PICK p \in Lugares \ {n} : Compactado(p, n)
  BY <1>2, <1>3
<1>5. compact = 0 /\ Tail(Linea(n).desde) = <<>> /\ instances[n].start = 0 /\ Linea(n).hacia = <<>>
  BY <1>2, <1>3, Unitarias
<1> DEFINE r == [hilo[i] EXCEPT !.pc = "start", !.header = Cabezal(i)]
<1>6. hilo' = [hilo EXCEPT ![instances[n].name] = r]
  BY <1>0, <1>2 DEF RecibirCompactado, Tras, TInv, TypeOK
<1>7. r.pc = "start" /\ r.pc # "no" /\ r.socket = Hebra(n).socket
  BY <1>0, <1>2, Lugar1, ZenonT(40) DEF Hilo
<1>8. /\ UNCHANGED <<message, operation, cliente, tomadas, memoria, caidas, algorithm, result_instance>>
      /\ UNCHANGED instances /\ compact' = 1
  BY <1>5 DEF RecibirCompactado, cuentas, listas, globales
<1> HIDE DEF r
<1>9. SoloToca(n) /\ Hebra(n)' = r /\ Linea(n)'.desde = <<>> /\ Linea(n)'.hacia = <<>>
  BY <1>0, <1>2, <1>5, <1>6, <1>7, <1>8, LeeToca
<1>10. /\ Turno(p) /\ cliente.pc = "espera" /\ ~Turno(n) /\ Demas({p, n}) /\ result_instance = 0
       /\ Hebra(p).pc = "compactando" /\ Hebra(p).lista = {n} /\ Compactadora(p)
  BY <1>0, <1>4, Lugar1 DEF Compactado, Compactadora, Turno
<1>11. /\ Estable' /\ Asignadas' /\ Previsto' /\ Mensaje' /\ Lugares' = Lugares
       /\ \A k \in Lugares : /\ Turno(k)' <=> Turno(k)
                             /\ Hecho(k)' <=> Hecho(k)
       /\ \A op : Pedido(op)' = Pedido(op)
  BY <1>8, <1>9, <1>10, TocaResto
<1>12. Espacios'
  BY <1>8, <1>9, <1>10, TocaEspacios
<1>13. Etapa'
  <2>1. OtraCompacta(n)'
    BY <1>5, <1>7, <1>8, <1>9 DEF OtraCompacta, Ociosa, Muda
  <2>2. Demas({p, n})'
    BY <1>9, <1>10, TocaOciosas
  <2>3. Compactadora(p)' /\ Hebra(p)' = Hebra(p)
    BY <1>8, <1>9, <1>10, <1>11, TocaDemas DEF Compactadora, Contestada, UnaSola
  <2>4. Compactado(p, n)'
    BY <1>8, <1>10, <2>1, <2>2, <2>3 DEF Compactado
  <2> QED BY <1>11, <2>4 DEF Etapa
<1> QED BY <1>11, <1>12, <1>13 DEF Marcha

LEMMA RecibirCompactarMarcha ==
  ASSUME PInv, NEW i \in Instancias, RecibirCompactar(i)
  PROVE  Marcha'
<1>0. TInv /\ Estable /\ Mensaje /\ Etapa
  BY DEF PInv, Marcha
<1>1. Espera(i) /\ Contesta(i) /\ hilo[i].op = "SET" /\ Cabezal(i).id = 11
  BY DEF RecibirCompactar
<1>2. PICK n \in Lugares :
        /\ instances[n].name = i /\ Propia(i) = n /\ hilo[i] = Hebra(n)
        /\ Linea(n).desde \in Seq(Contestacion) /\ Linea(n).desde # <<>>
        /\ Cabezal(i) = Linea(n).desde[1].header
        /\ fds' = [fds EXCEPT ![instances[n].socket] = [Linea(n) EXCEPT !.desde = Tail(@)]]
        /\ Contestado(n) \/ Hebra(n).op = "COMPACT"
  BY <1>1, Lee
<1>3. /\ Contestado(n) /\ Turno(n) /\ SinPosts /\ Demas({n}) /\ Hecho(n) /\ instances[n].start = 0
      /\ cliente.op = "SET" /\ Linea(n).hacia = <<>> /\ Hebra(n).op = "SET"
  BY <1>1, <1>2 DEF Contestado, Contestada, Pedido
<1>4. Compactan /\ Len(Linea(n).desde) = 2 /\ UnaSola(Tail(Linea(n).desde))
  <2>1. ~UnaSola(Linea(n).desde)
    BY <1>1, <1>2 DEF UnaSola
  <2>2. PICK rs \in Seq(Contestacion) :
          /\ Linea(n).desde = rs
          /\ \/ UnaSola(rs)
             \/ Compactan /\ Len(rs) = 2 /\ UnaSola(Tail(rs))
    BY <1>3 DEF Contestado, Contestada
  <2> QED BY <2>1, <2>2
<1>5. PICK ts \in Seq(Contestacion) :
        ts = Tail(Linea(n).desde) /\ Len(ts) = 1 /\ ts[1] = Linea(n).desde[2] /\ ts # <<>>
  <2>1. /\ Tail(Linea(n).desde) \in Seq(Contestacion) /\ Len(Tail(Linea(n).desde)) = 1
        /\ Tail(Linea(n).desde)[1] = Linea(n).desde[2]
    BY <1>2, <1>4, Unitarias
  <2>2. Tail(Linea(n).desde) # <<>>
    BY <2>1, Unitarias
  <2> QED BY <2>1, <2>2
<1> DEFINE r == [hilo[i] EXCEPT !.pc = "filtrar", !.header = Cabezal(i), !.j = 1, !.lista = {}]
<1>6. hilo' = [hilo EXCEPT ![instances[n].name] = r]
  BY <1>0, <1>2 DEF RecibirCompactar, TInv, TypeOK
<1>7. r.pc = "filtrar" /\ r.pc # "no" /\ r.socket = Hebra(n).socket /\ r.op = Hebra(n).op /\ r.lista = {}
  BY <1>0, <1>2, Lugar1, ZenonT(40) DEF Hilo
<1>8. /\ UNCHANGED <<message, operation, cliente, tomadas, memoria, caidas, algorithm>>
      /\ UNCHANGED <<instances, result_instance, compact>>
  BY DEF RecibirCompactar, cuentas, listas, globales, semaforos
<1> HIDE DEF r
<1>9. /\ SoloToca(n) /\ Hebra(n)' = r /\ Linea(n)'.desde = Tail(Linea(n).desde)
      /\ Linea(n)'.hacia = <<>>
  BY <1>0, <1>2, <1>3, <1>6, <1>7, <1>8, LeeToca
<1>10. /\ Estable' /\ Asignadas' /\ Previsto' /\ Mensaje' /\ Lugares' = Lugares
       /\ \A k \in Lugares : /\ Turno(k)' <=> Turno(k)
                             /\ Hecho(k)' <=> Hecho(k)
       /\ \A op : Pedido(op)' = Pedido(op)
  BY <1>8, <1>9, TocaResto
<1>11. Espacios'
  <2>1. Ultima(n)' = Ultima(n)
    BY <1>4, <1>5, <1>9 DEF Ultima
  <2> QED BY <1>2, <1>5, <1>8, <1>9, <2>1, TocaEspacios
<1>12. Etapa'
  <2>1. Demas({n})'
    BY <1>3, <1>9, TocaOciosas
  <2>2. Contestada(n, Pedido("SET"), ts)'
    <3>1. /\ instances'[n].start = 0 /\ Hebra(n)'.op = "SET" /\ Linea(n)'.hacia = <<>>
          /\ Linea(n)'.desde = ts
      BY <1>3, <1>5, <1>7, <1>8, <1>9
    <3> QED BY <3>1, <1>10 DEF Contestada, Pedido
  <2>3. Compactadora(n)'
    BY <1>3, <1>4, <1>5, <1>8, <1>10, <2>2 DEF Compactadora, UnaSola
  <2>4. Filtrado(n)'
    BY <1>3, <1>7, <1>8, <1>9, <2>1, <2>3 DEF Filtrado, SinPosts
  <2> QED BY <1>10, <2>4 DEF Etapa
<1> QED BY <1>10, <1>11, <1>12 DEF Marcha

\* Where a thread can be.
LEMMA LugarDeHebra ==
  ASSUME PInv, NEW n \in Lugares
  PROVE  /\ Hebra(n).pc \in {"start", "respuesta", "filtrar", "compactando"}
         /\ Hebra(n).pc = "filtrar" => Filtrado(n)
         /\ Hebra(n).pc = "compactando" => \E o \in Lugares \ {n} : Compactado(n, o)
<1>1. CASE Ociosa(n)
  BY <1>1 DEF Ociosa
<1>2. CASE ~Ociosa(n)
  <2>1. Enviado(n) => Hebra(n).pc = "start"
    BY DEF Enviado, Avisada
  <2>2. Atendido(n) \/ Contestado(n) => Hebra(n).pc = "respuesta"
    BY DEF Atendido, Contestado, Encargada
  <2>3. Filtrado(n) => Hebra(n).pc = "filtrar"
    BY DEF Filtrado
  <2>4. \A o \in Lugares \ {n} : Compactado(n, o) => Hebra(n).pc = "compactando"
    BY DEF Compactado
  <2>5. OtraCompacta(n) => Hebra(n).pc \in {"start", "respuesta"}
    BY DEF OtraCompacta, Avisada, Encargada, Ociosa
  <2> QED BY <1>2, <2>1, <2>2, <2>3, <2>4, <2>5, Trabaja DEF PInv, Marcha
<1> QED BY <1>1, <1>2

LEMMA SinFin ==
  ASSUME PInv, NEW i \in Instancias
  PROVE  ~RecibirFin(i) /\ ~DescontarHilo(i)
<1>0. TInv /\ Estable
  BY DEF PInv, Marcha
<1>1. ASSUME RecibirFin(i) PROVE FALSE
  <2>1. hilo[i].pc # "no" /\ Cerrado(hilo[i].socket)
    BY <1>1 DEF RecibirFin, HiloEn
  <2> QED BY <1>0, <2>1, LugarDelHilo
<1>2. ASSUME DescontarHilo(i) PROVE FALSE
  <2>1. hilo[i].pc = "descontar"
    BY <1>2 DEF DescontarHilo, HiloEn
  <2>2. \E n \in Lugares : hilo[i] = Hebra(n)
    BY <1>0, <2>1, LugarDelHilo
  <2> QED BY <2>1, <2>2, LugarDeHebra
<1> QED BY <1>1, <1>2

LEMMA SoloHilo ==
  ASSUME TInv, Estable, NEW n \in Lugares, UNCHANGED <<instances, fds>>,
         NEW r, hilo' = [hilo EXCEPT ![instances[n].name] = r], r.pc # "no", r.socket = Hebra(n).socket
  PROVE  SoloToca(n) /\ Hebra(n)' = r /\ Linea(n)' = Linea(n)
<1>1. hilo'[instances[n].name] = r /\ \A k \in Instancias \ {instances[n].name} : hilo'[k] = hilo[k]
  BY Lugar1, CambiaHilo
<1>2. Linea(n) # Libre
  BY DEF Estable, EnPie
<1>3. SoloToca(n)
  BY <1>1, <1>2, Toca DEF Hebra, Linea
<1> QED BY <1>1, <1>3 DEF Hebra, Linea

LEMMA FiltrarMarcha ==
  ASSUME PInv, NEW i \in Instancias, Filtrar(i)
  PROVE  Marcha'
<1>0. TInv /\ Estable
  BY DEF PInv, Marcha
<1>1. hilo[i].pc = "filtrar"
  BY DEF Filtrar, HiloEn
<1>2. PICK n \in Lugares : instances[n].name = i /\ hilo[i] = Hebra(n) /\ hilo[i].socket = instances[n].socket
  BY <1>0, <1>1, LugarDelHilo
<1>3. Filtrado(n) /\ Hebra(n).lista \subseteq Lugares \ {n}
  BY <1>1, <1>2, LugarDeHebra DEF Filtrado
<1> DEFINE j == hilo[i].j
<1>4. j \in Lugares
  <2>1. j \in Nat \ {0} /\ j <= Len(instances)
    BY <1>0, Tipadas, HiloCampos DEF Filtrar
  <2> QED BY <1>0, <2>1, Tipadas, Encontrada
<1>5. instances[j].socket # hilo[i].socket <=> j # n
  BY <1>0, <1>2, <1>4, Lugar1
<1>6. instances[j].is_active /\ test_connection(instances[j].socket)
  BY <1>0, <1>4 DEF Estable, EnPie, Linea, test_connection, Cerrado
<1>7. PICK l \in SUBSET (Lugares \ {n}) :
        hilo' = [hilo EXCEPT ![i].j = j + 1, ![i].lista = l] /\ UNCHANGED <<instances, fds>>
  <2>1. CASE j = n
    <3>1. hilo' = [hilo EXCEPT ![i].j = j + 1, ![i].lista = hilo[i].lista] /\ UNCHANGED <<instances, fds>>
      BY <1>0, <1>5, <2>1, Tipadas DEF Filtrar
    <3> QED BY <3>1, <1>2, <1>3
  <2>2. CASE j # n
    <3>1. hilo' = [hilo EXCEPT ![i].j = j + 1, ![i].lista = hilo[i].lista \cup {j}] /\ UNCHANGED <<instances, fds>>
      BY <1>0, <1>5, <1>6, <2>2, Tipadas DEF Filtrar
    <3>2. hilo[i].lista \cup {j} \in SUBSET (Lugares \ {n})
      BY <1>2, <1>3, <1>4, <2>2
    <3> QED BY <3>1, <3>2
  <2> QED BY <2>1, <2>2
<1> DEFINE r == [hilo[i] EXCEPT !.j = j + 1, !.lista = l]
<1>8. hilo' = [hilo EXCEPT ![instances[n].name] = r]
  BY <1>0, <1>2, <1>7 DEF TInv, TypeOK
<1>9. r.pc = "filtrar" /\ r.pc # "no" /\ r.socket = Hebra(n).socket /\ r.op = Hebra(n).op /\ r.lista = l
  BY <1>0, <1>1, <1>2, Lugar1, ZenonT(40) DEF Hilo
<1>10. /\ UNCHANGED <<message, operation, cliente, tomadas, memoria, caidas, algorithm>>
       /\ UNCHANGED <<instances, result_instance, compact>>
  BY <1>7 DEF Filtrar, cuentas, globales, semaforos
<1> HIDE DEF r, j
<1>11. SoloToca(n) /\ Hebra(n)' = r /\ Linea(n)' = Linea(n)
  BY <1>0, <1>7, <1>8, <1>9, SoloHilo
<1>12. /\ Estable' /\ Asignadas' /\ Previsto' /\ Mensaje' /\ Lugares' = Lugares
       /\ \A k \in Lugares : /\ Turno(k)' <=> Turno(k)
                             /\ Hecho(k)' <=> Hecho(k)
       /\ \A op : Pedido(op)' = Pedido(op)
  BY <1>10, <1>11, TocaResto
<1>13. Espacios'
  BY <1>10, <1>11, TocaEspacios
<1>14. Etapa'
  <2>1. Demas({n})'
    BY <1>3, <1>11, TocaOciosas DEF Filtrado
  <2>2. Compactadora(n)'
    BY <1>3, <1>9, <1>10, <1>11, <1>12 DEF Filtrado, Compactadora, Contestada, UnaSola
  <2>3. Filtrado(n)'
    BY <1>3, <1>9, <1>10, <1>11, <1>12, <2>1, <2>2 DEF Filtrado, SinPosts
  <2> QED BY <1>12, <2>3 DEF Etapa
<1> QED BY <1>12, <1>13, <1>14 DEF Marcha

LEMMA EsperarCompactadoMarcha ==
  ASSUME PInv, NEW i \in Instancias, EsperarCompactado(i)
  PROVE  Marcha'
<1>0. TInv /\ Estable
  BY DEF PInv, Marcha
<1>1. hilo[i].pc = "compactando" /\ compact > 0
  BY DEF EsperarCompactado, HiloEn
<1>2. PICK n \in Lugares : instances[n].name = i /\ hilo[i] = Hebra(n) /\ hilo[i].socket = instances[n].socket
  BY <1>0, <1>1, LugarDelHilo
<1>3. PICK o \in Lugares \ {n} : Compactado(n, o)
  BY <1>1, <1>2, LugarDeHebra
<1>4. compact = 1 /\ Ociosa(o)
  BY <1>1, <1>3 DEF Compactado, OtraCompacta
<1> DEFINE r == [hilo[i] EXCEPT !.pc = "respuesta"]
<1>5. hilo' = [hilo EXCEPT ![instances[n].name] = r]
  BY <1>0, <1>2 DEF EsperarCompactado, TInv, TypeOK
<1>6. r.pc = "respuesta" /\ r.pc # "no" /\ r.socket = Hebra(n).socket /\ r.op = Hebra(n).op
  BY <1>0, <1>1, <1>2, Lugar1, ZenonT(40) DEF Hilo
<1>7. /\ UNCHANGED <<message, operation, cliente, tomadas, memoria, caidas, algorithm>>
      /\ UNCHANGED <<instances, fds, result_instance>> /\ compact' = 0
  BY <1>4 DEF EsperarCompactado, cuentas, globales, listas
<1> HIDE DEF r
<1>8. SoloToca(n) /\ Hebra(n)' = r /\ Linea(n)' = Linea(n)
  BY <1>0, <1>5, <1>6, <1>7, SoloHilo
<1>9. /\ Estable' /\ Asignadas' /\ Previsto' /\ Mensaje' /\ Lugares' = Lugares
      /\ \A k \in Lugares : /\ Turno(k)' <=> Turno(k)
                            /\ Hecho(k)' <=> Hecho(k)
      /\ \A op : Pedido(op)' = Pedido(op)
  BY <1>7, <1>8, TocaResto
<1>10. Espacios'
  BY <1>7, <1>8, TocaEspacios
<1>11. Etapa'
  <2>1. Demas({n})'
    <3>1. Demas({n})
      BY <1>3, <1>4 DEF Compactado, Demas
    <3> QED BY <3>1, <1>8, TocaOciosas
  <2>2. Turno(n) /\ cliente.op = "SET" /\ Hecho(n) /\ result_instance = 0
    BY <1>3 DEF Compactado, Compactadora
  <2>3. PICK rs \in Seq(Contestacion) : Contestada(n, Pedido("SET"), rs) /\ UnaSola(rs)
    BY <1>3 DEF Compactado, Compactadora
  <2>4. Contestada(n, Pedido("SET"), rs)' /\ UnaSola(rs)'
    BY <2>3, <1>6, <1>7, <1>8, <1>9 DEF Contestada, UnaSola
  <2>5. Contestado(n)'
    BY <2>1, <2>2, <2>4, <1>6, <1>7, <1>8, <1>9 DEF Contestado, SinPosts
  <2> QED BY <1>9, <2>5 DEF Etapa
<1> QED BY <1>9, <1>10, <1>11 DEF Marcha

\* There is one other Instance to wake, when two at most compact.
LEMMA UnaOtra ==
  ASSUME PInv, Supuesto, Compactan, NEW n \in Lugares, NEW S \in SUBSET (Lugares \ {n}), NEW o \in S
  PROVE  S = {o}
<1>1. PICK a, b : Instancias \subseteq {a, b}
  BY DEF Supuesto
<1>2. ASSUME NEW m \in S, m # o PROVE FALSE
  <2>1. /\ instances[n].name \in Instancias /\ instances[m].name \in Instancias
        /\ instances[o].name \in Instancias
    BY Lugar1 DEF PInv, Marcha
  <2>2. /\ instances[m].name # instances[n].name /\ instances[o].name # instances[n].name
        /\ instances[m].name # instances[o].name
    BY <1>2 DEF PInv, Marcha, Estable
  <2> QED BY <1>1, <2>1, <2>2
<1> QED BY <1>2

LEMMA PedirCompactarMarcha ==
  ASSUME PInv, Supuesto, NEW i \in Instancias, PedirCompactar(i)
  PROVE  Marcha'
<1>0. TInv /\ Estable /\ Asignadas /\ Previsto /\ Mensaje /\ Espacios
  BY DEF PInv, Marcha
<1>1. hilo[i].pc = "filtrar"
  BY DEF PedirCompactar, HiloEn
<1>2. PICK n \in Lugares : instances[n].name = i /\ hilo[i] = Hebra(n) /\ hilo[i].socket = instances[n].socket
  BY <1>0, <1>1, LugarDelHilo
<1>3. /\ Filtrado(n) /\ Hebra(n).lista \subseteq Lugares \ {n} /\ Turno(n) /\ Compactan
      /\ cliente.op = "SET" /\ cliente.pc = "espera" /\ Hecho(n) /\ SinPosts /\ Demas({n})
  BY <1>1, <1>2, LugarDeHebra DEF Filtrado, Compactadora, Turno
<1>4. PICK rs \in Seq(Contestacion) : Contestada(n, Pedido("SET"), rs) /\ UnaSola(rs)
  BY <1>3 DEF Filtrado, Compactadora
<1>5. UNCHANGED <<message, cliente, tomadas, memoria, caidas, algorithm, result_instance, compact, fds>>
  BY DEF PedirCompactar, cuentas, semaforos
<1>6. CASE hilo[i].lista = {}
  <2> DEFINE r == [hilo[i] EXCEPT !.pc = "respuesta"]
  <2>1. hilo' = [hilo EXCEPT ![instances[n].name] = r] /\ UNCHANGED <<instances, operation>>
    BY <1>0, <1>2, <1>6 DEF PedirCompactar, TInv, TypeOK
  <2>2. r.pc = "respuesta" /\ r.pc # "no" /\ r.socket = Hebra(n).socket /\ r.op = Hebra(n).op
    BY <1>0, <1>1, <1>2, Lugar1, ZenonT(40) DEF Hilo
  <2> HIDE DEF r
  <2>3. SoloToca(n) /\ Hebra(n)' = r /\ Linea(n)' = Linea(n)
    BY <1>0, <1>5, <2>1, <2>2, SoloHilo
  <2>4. /\ Estable' /\ Asignadas' /\ Previsto' /\ Mensaje' /\ Lugares' = Lugares
        /\ \A k \in Lugares : /\ Turno(k)' <=> Turno(k)
                              /\ Hecho(k)' <=> Hecho(k)
        /\ \A op : Pedido(op)' = Pedido(op)
    BY <1>5, <2>1, <2>3, TocaResto
  <2>5. Espacios'
    BY <1>5, <2>1, <2>3, TocaEspacios
  <2>6. Demas({n})'
    <3>1. Demas({n} \cup {n})'
      BY <1>3, <2>3, TocaOciosas
    <3>2. {n} \cup {n} = {n}
      OBVIOUS
    <3> QED BY <3>1, <3>2
  <2>7. Contestada(n, Pedido("SET"), rs)' /\ UnaSola(rs)'
    BY <1>4, <1>5, <2>1, <2>2, <2>3, <2>4 DEF Contestada, UnaSola
  <2>8. Contestado(n)'
    BY <1>3, <1>5, <2>2, <2>3, <2>4, <2>6, <2>7 DEF Contestado, SinPosts
  <2>9. Etapa'
    BY <2>4, <2>8 DEF Etapa
  <2> QED BY <2>4, <2>5, <2>9 DEF Marcha
<1>7. CASE hilo[i].lista # {}
  <2>1. PICK o \in Lugares \ {n} : hilo[i].lista = {o}
    <3>1. PICK o \in hilo[i].lista : TRUE
      BY <1>7
    <3>2. hilo[i].lista = {o} /\ o \in Lugares \ {n}
      BY <1>2, <1>3, <3>1, UnaOtra
    <3> QED BY <3>2
  <2> DEFINE r == [hilo[i] EXCEPT !.pc = "compactando"]
             q == [instances[o] EXCEPT !.start = @ + 1]
  <2>2. hilo' = [hilo EXCEPT ![instances[n].name] = r] /\ operation' = "COMPACT"
    BY <1>0, <1>2, <1>7 DEF PedirCompactar, TInv, TypeOK
  <2>3. instances' = [m \in Lugares |-> IF m \in {o} THEN [instances[m] EXCEPT !.start = @ + 1]
                                        ELSE instances[m]]
    BY <1>7, <2>1 DEF PedirCompactar
  <2>4. r.pc = "compactando" /\ r.socket = Hebra(n).socket /\ r.op = Hebra(n).op /\ r.lista = {o}
    BY <1>0, <1>1, <1>2, <2>1, Lugar1, ZenonT(40) DEF Hilo
  <2>5. /\ q.name = instances[o].name /\ q.socket = instances[o].socket
        /\ q.is_active = instances[o].is_active /\ q.keys = instances[o].keys
        /\ q.free_space = instances[o].free_space /\ q.start = 1
    <3>1. instances[o].start = 0
      BY <1>3 DEF Demas, Ociosa
    <3> QED BY <3>1, <1>0, Lugar1 DEF instance_t
  <2>6. /\ Lugares' = Lugares /\ instances'[o] = q
        /\ \A m \in Lugares \ {o} : instances'[m] = instances[m]
    BY <2>3 DEF Lugares
  <2> HIDE DEF r, q
  <2>7. hilo'[instances[n].name] = r /\ \A k \in Instancias \ {instances[n].name} : hilo'[k] = hilo[k]
    BY <1>0, <2>2, Lugar1, CambiaHilo
  <2>8. \A m \in Lugares :
          /\ instances'[m].name = instances[m].name /\ instances'[m].socket = instances[m].socket
          /\ instances'[m].is_active = instances[m].is_active /\ instances'[m].keys = instances[m].keys
          /\ instances'[m].free_space = instances[m].free_space
    BY <2>5, <2>6
  <2>9. /\ \A m \in Lugares : Linea(m)' = Linea(m)
        /\ \A m \in Lugares \ {n} : Hebra(m)' = Hebra(m)
        /\ Hebra(n)' = r
    <3>1. \A m \in Lugares \ {n} : instances[m].name \in Instancias \ {instances[n].name}
      BY <1>0, Lugar1
    <3> QED BY <3>1, <1>5, <2>7, <2>8 DEF Hebra, Linea
  <2>10. Estable'
    <3>1. \A m \in Lugares : EnPie(m)'
      <4>1. \A m \in Lugares : EnPie(m)
        BY <1>0 DEF Estable
      <4>2. EnPie(n)'
        BY <4>1, <2>4, <2>8, <2>9 DEF EnPie
      <4>3. \A m \in Lugares \ {n} : EnPie(m)'
        BY <4>1, <2>8, <2>9 DEF EnPie
      <4> QED BY <4>2, <4>3
    <3>2. \A k \in Instancias : hilo'[k].pc # "no" => hilo[k].pc # "no"
      BY <1>1, <1>2, <2>7
    <3> QED BY <1>0, <1>5, <2>6, <2>8, <3>1, <3>2 DEF Estable
  <2>11. \A m \in Lugares : \A k : Anotada(m, k)' <=> Anotada(m, k)
    BY <2>8 DEF Anotada
  <2>12. Asignadas'
    BY <1>0, <1>5, <2>6, <2>8, <2>11 DEF Asignadas
  <2>13. Previsto'
    BY <1>0, <1>5, <2>6, <2>8, <2>11 DEF Previsto
  <2>14. Mensaje'
    BY <1>0, <1>3, <1>5 DEF Mensaje
  <2>15. \A m \in Lugares : (Turno(m)' <=> Turno(m)) /\ (Hecho(m)' <=> Hecho(m))
    BY <1>5, <2>8, <2>11 DEF Turno, Hecho
  <2>16. Espacios'
    <3>1. ASSUME NEW m \in Lugares
          PROVE  /\ EspacioCierto(m)' <=> EspacioCierto(m)
                 /\ Lugar(instances[m].name)' = Lugar(instances[m].name)
                 /\ Respondiendo(m)' <=> Respondiendo(m)
                 /\ Ultima(m)' = Ultima(m)
      <4>1. Lugar(instances[m].name)' = Lugar(instances[m].name)
        BY <1>5, <2>8 DEF Lugar
      <4>2. EspacioCierto(m)' <=> EspacioCierto(m)
        BY <2>8, <4>1 DEF EspacioCierto
      <4>3. Linea(m)' = Linea(m) /\ (Turno(m)' <=> Turno(m)) /\ cliente' = cliente
        BY <1>5, <2>9, <2>15
      <4>4. (Respondiendo(m)' <=> Respondiendo(m)) /\ Ultima(m)' = Ultima(m)
        BY <4>3 DEF Respondiendo, Ultima
      <4> QED BY <4>1, <4>2, <4>4
    <3>2. algorithm' = algorithm
      BY <1>5
    <3> QED BY <1>0, <2>6, <3>1, <3>2 DEF Espacios
  <2>17. Demas({n, o})'
    <3>1. ASSUME NEW m \in Lugares \ {n, o} PROVE Ociosa(m)'
      <4>1. Ociosa(m)
        BY <1>3 DEF Demas
      <4> QED BY <4>1, <2>6, <2>9 DEF Ociosa, Muda
    <3> QED BY <2>6, <3>1 DEF Demas
  <2>18. OtraCompacta(o)'
    <3>1. Ociosa(o)
      BY <1>3 DEF Demas
    <3> QED BY <3>1, <1>3, <1>5, <2>2, <2>5, <2>6, <2>9 DEF OtraCompacta, Avisada, Ociosa, Muda, SinPosts
  <2>19. Compactadora(n)'
    <3>1. Contestada(n, Pedido("SET"), rs)' /\ UnaSola(rs)'
      BY <1>4, <1>5, <2>4, <2>6, <2>9 DEF Contestada, UnaSola, Pedido
    <3> QED BY <3>1, <1>3, <1>5, <2>15 DEF Compactadora
  <2>20. Compactado(n, o)'
    BY <1>3, <1>5, <2>4, <2>9, <2>17, <2>18, <2>19 DEF Compactado, SinPosts
  <2>21. Etapa'
    BY <2>6, <2>20 DEF Etapa
  <2> QED BY <2>10, <2>12, <2>13, <2>14, <2>16, <2>21 DEF Marcha
<1> QED BY <1>6, <1>7

LEMMA HiloMarcha ==
  ASSUME PInv, Supuesto, NEW i \in Instancias, PasoHilo(i)
  PROVE  Marcha'
BY DespertarMarcha, RecibirRespuestaMarcha, RecibirCompactadoMarcha, RecibirCompactarMarcha, SinFin,
   FiltrarMarcha, PedirCompactarMarcha, EsperarCompactadoMarcha DEF PasoHilo

-----------------------------------------------------------------------------
(* The steps of the client.                                                *)

\* The lists of the places with a key.
LEMMA HallaClave ==
  ASSUME instances \in Seq(instance_t), NEW k
  PROVE  /\ find_by_key(k) # 0 => find_by_key(k) \in Lugares /\ Anotada(find_by_key(k), k)
         /\ find_by_key(k) = 0 => \A n \in Lugares : ~Anotada(n, k)
<1>1. {n \in Lugares : k \in instances[n].keys} \in SUBSET (Nat \ {0})
  BY DEF Lugares
<1> QED BY <1>1, PrimeroEsta DEF find_by_key, Anotada

LEMMA EnPieSiempre ==
  ASSUME Estable, NEW n \in Lugares
  PROVE  instances[n].is_active /\ test_connection(instances[n].socket)
BY DEF Estable, EnPie, Linea, test_connection, Cerrado

\* While nobody is at work the list has the space there is.
LEMMA EnSilencio ==
  ASSUME Espacios, Demas({})
  PROVE  /\ \A n \in Lugares : ~Respondiendo(n)
         /\ algorithm = "LSU" => \A n \in Lugares : EspacioCierto(n)
BY DEF Espacios, Respondiendo, Demas, Ociosa, Muda

LEMMA SinTurno ==
  ASSUME Etapa, cliente.pc # "espera"
  PROVE  EnCalma
<1>1. \A n \in Lugares : ~Turno(n)
  BY DEF Turno
<1> QED BY <1>1, Zenon DEF Etapa, Enviado, Atendido, Contestado, Filtrado, Terminado, Compactado, Compactadora

\* A step of the client alone, from calm to calm.
LEMMA ClienteSolo ==
  ASSUME PInv, UNCHANGED <<instances, hilo, fds, memoria, caidas, algorithm>>, Demas({}),
         cliente'.pc # "espera", SinPosts'
  PROVE  Estable' /\ Asignadas' /\ Etapa' /\ Espacios'
<1>1. Lugares' = Lugares
  BY DEF Lugares
<1>2. Estable'
  BY DEF PInv, Marcha, Estable, EnPie, Hebra, Linea, Lugares
<1>3. Asignadas'
  BY DEF PInv, Marcha, Asignadas, Anotada, Lugares
<1>4. Etapa'
  <2>1. Demas({})'
    BY <1>1 DEF Demas, Ociosa, Muda, Hebra, Linea
  <2> QED BY <2>1 DEF Etapa, EnCalma
<1>5. Espacios'
  <2>1. algorithm = "LSU" => \A n \in Lugares : EspacioCierto(n)
    BY EnSilencio DEF PInv, Marcha
  <2>2. \A n \in Lugares : ~Respondiendo(n)' /\ (EspacioCierto(n)' <=> EspacioCierto(n))
    BY DEF Respondiendo, Turno, EspacioCierto, Lugar
  <2> QED BY <1>1, <2>1, <2>2 DEF Espacios
<1> QED BY <1>2, <1>3, <1>4, <1>5

LEMMA PideMarcha ==
  ASSUME PInv, Supuesto, NEW op \in Operaciones, NEW k \in Claves, NEW v \in Valores, Pide(op, k, v)
  PROVE  Marcha'
<1>0. TInv /\ Estable /\ Asignadas /\ Previsto /\ Mensaje /\ Etapa
  BY DEF PInv, Marcha
<1>1. cliente.pc = "libre" /\ EnCalma
  BY <1>0, SinTurno DEF Pide, En
<1>2. op \in {"GET", "SET", "STORE"}
  BY DistribucionAssumption DEF Supuesto
<1>3. /\ cliente'.pc = op /\ cliente'.op = op /\ cliente'.clave = k
      /\ cliente'.valor = (IF op = "SET" THEN v ELSE Nada)
      /\ message'.key = k /\ (op = "SET" => message'.value = v) /\ operation' = op
  <2>1. cliente \in Cliente
    BY <1>0, Tipadas
  <2> QED BY <1>2, <2>1 DEF Pide, Cliente
<1>4. UNCHANGED <<instances, hilo, fds, memoria, caidas, algorithm, tomadas, result_instance, compact>>
  BY DEF Pide, listas, semaforos
<1>5. Estable' /\ Asignadas' /\ Etapa' /\ Espacios'
  BY <1>1, <1>2, <1>3, <1>4, ClienteSolo DEF EnCalma, SinPosts
<1>6. Previsto'
  <2>1. op \in {"SET", "STORE"} => k \in tomadas
    BY DEF Pide
  <2>2. op = "STORE" => \E n \in Lugares : Anotada(n, k) /\ memoria[instances[n].name][k] # Nada
    <3>1. op = "STORE" => Guardado(k) # Nada
      BY DEF Pide, Supuesto
    <3>2. Guardado(k) # Nada => find_by_key(k) # 0 /\ memoria[instances[find_by_key(k)].name][k] # Nada
      BY DEF Guardado
    <3> QED BY <1>0, <3>1, <3>2, Tipadas, HallaClave
  <2>3. Lugares' = Lugares /\ \A n, c : Anotada(n, c)' <=> Anotada(n, c)
    BY <1>4 DEF Lugares, Anotada
  <2> QED BY <1>0, <1>2, <1>3, <1>4, <2>1, <2>2, <2>3 DEF Previsto
<1>7. Mensaje'
  BY <1>2, <1>3 DEF Mensaje
<1> QED BY <1>5, <1>6, <1>7 DEF Marcha

\* The thread of the Instance chosen is woken; the key is, from now on, its.
LEMMA EnviarMarcha ==
  ASSUME PInv, cliente.pc \in {"GET", "SET", "STORE", "elegir"}, NEW n \in Lugares, NEW q,
         instances' = [instances EXCEPT ![n] = q],
         q.name = instances[n].name, q.socket = instances[n].socket,
         q.is_active = instances[n].is_active, q.free_space = instances[n].free_space,
         q.start = instances[n].start + 1, q.keys = instances[n].keys \cup {cliente.clave},
         Anotada(n, cliente.clave) \/ \A m \in Lugares : ~Anotada(m, cliente.clave),
         cliente' = [cliente EXCEPT !.pc = "espera", !.elegida = instances[n].name],
         UNCHANGED <<hilo, fds, memoria, caidas, algorithm, tomadas, result_instance, compact, message,
                     operation>>
  PROVE  Marcha'
<1>0. TInv /\ Estable /\ Asignadas /\ Previsto /\ Mensaje /\ Etapa /\ Espacios
  BY DEF PInv, Marcha
<1>1. EnCalma /\ SinPosts /\ Demas({})
  BY <1>0, SinTurno DEF EnCalma
<1>2. /\ cliente'.pc = "espera" /\ cliente'.elegida = instances[n].name /\ cliente'.op = cliente.op
      /\ cliente'.clave = cliente.clave /\ cliente'.valor = cliente.valor /\ cliente.clave \in Claves
  <2>1. cliente \in Cliente /\ cliente.clave \in Claves
    BY <1>0, Tipadas DEF TInv, ClaveDelTurno
  <2> QED BY <2>1 DEF Cliente
<1>3. /\ DOMAIN instances' = DOMAIN instances /\ Lugares' = Lugares /\ instances'[n] = q
      /\ \A m \in Lugares \ {n} : instances'[m] = instances[m]
  BY <1>0, CambiaLugar DEF Lugares
<1>4. SoloToca(n) /\ Hebra(n)' = Hebra(n) /\ Linea(n)' = Linea(n)
  <2>1. EnPie(n)
    BY <1>0 DEF Estable
  <2>2. Hebra(n)' = Hebra(n) /\ Linea(n)' = Linea(n)
    BY <1>3 DEF Hebra, Linea
  <2> QED BY <1>0, <1>3, <2>1, <2>2, Toca DEF EnPie, Hebra, Linea
<1>5. Estable'
  BY <1>0, <1>4, TocaEstable
<1>6. /\ \A m \in Lugares, k \in Claves :
           Anotada(m, k)' <=> Anotada(m, k) \/ (m = n /\ k = cliente.clave)
      /\ \A m \in Lugares : instances'[m].name = instances[m].name
  BY <1>3 DEF Anotada
<1>7. Asignadas'
  <2>1. \A m \in Lugares : instances'[m].keys \subseteq Claves
    BY <1>0, <1>2, <1>3 DEF Asignadas
  <2>2. ASSUME NEW m \in Lugares, NEW p \in Lugares, NEW k \in Claves, Anotada(m, k)', Anotada(p, k)'
        PROVE  m = p
    BY <1>0, <1>6, <2>2 DEF Asignadas
  <2>3. ASSUME NEW i \in Instancias, NEW k \in Claves, memoria'[i][k] # Nada
        PROVE  \E m \in Lugares : instances'[m].name = i /\ Anotada(m, k)'
    BY <1>0, <1>6, <2>3 DEF Asignadas
  <2> QED BY <1>3, <2>1, <2>2, <2>3 DEF Asignadas
<1>8. Previsto'
  <2>1. tomadas \subseteq Claves
    BY <1>0, Tipadas
  <2>2. \A k \in tomadas : \E m \in Lugares : Anotada(m, k)'
    BY <1>0, <1>6, <2>1 DEF Previsto
  <2>3. cliente.op = "STORE" => cliente.pc = "STORE"
    BY <1>0 DEF Mensaje
  <2>4. cliente.op = "STORE" => \E m \in Lugares :
          Anotada(m, cliente.clave)' /\ memoria[instances'[m].name][cliente.clave] # Nada
    BY <1>0, <1>2, <1>6, <2>3 DEF Previsto
  <2>5. cliente'.op = "STORE" => (\E m \in Lugares :
          Anotada(m, cliente.clave) /\ memoria[instances[m].name][cliente.clave] # Nada)'
    BY <1>2, <1>3, <2>4
  <2> QED BY <1>2, <1>3, <2>2, <2>5 DEF Previsto
<1>9. Mensaje'
  BY <1>0, <1>2 DEF Mensaje
<1>10. Enviado(n)'
  <2>1. Turno(n)'
    BY <1>2, <1>3, <1>6 DEF Turno
  <2>2. Demas({n})'
    <3>1. Demas({} \cup {n})'
      BY <1>1, <1>4, TocaOciosas
    <3>2. {} \cup {n} = {n}
      OBVIOUS
    <3> QED BY <3>1, <3>2
  <2>3. operation' = cliente'.op
    BY <1>0, <1>2 DEF Mensaje
  <2>4. Avisada(n)'
    <3>1. Ociosa(n)
      BY <1>1 DEF Demas
    <3> QED BY <3>1, <1>3, <1>4 DEF Ociosa, Avisada, Muda
  <2> QED BY <1>1, <2>1, <2>2, <2>3, <2>4 DEF Enviado, SinPosts
<1>11. Etapa'
  BY <1>3, <1>10 DEF Etapa
<1>12. Espacios'
  <2>1. algorithm = "LSU" => \A m \in Lugares : EspacioCierto(m)
    BY <1>0, <1>1, EnSilencio
  <2>2. ASSUME NEW m \in Lugares PROVE ~Respondiendo(m)' /\ (EspacioCierto(m)' <=> EspacioCierto(m))
    <3>1. Lugar(instances[m].name)' = Lugar(instances[m].name)
      BY <1>6 DEF Lugar
    <3>2. instances'[m].free_space = instances[m].free_space
      BY <1>3
    <3>3. Ociosa(m) /\ Linea(m)' = Linea(m)
      BY <1>1, <1>3, <1>4, TocaDemas DEF Demas
    <3> QED BY <1>6, <3>1, <3>2, <3>3 DEF EspacioCierto, Respondiendo, Ociosa, Muda
  <2> QED BY <1>3, <2>1, <2>2 DEF Espacios
<1> QED BY <1>5, <1>7, <1>8, <1>9, <1>11, <1>12 DEF Marcha

\* Places that are added, idle and without keys, and what is not in the list
\* change nothing for the others.
LEMMA Conserva ==
  ASSUME Marcha, NEW N, Lugares' = Lugares \cup N,
         \A n \in Lugares :
           /\ Hebra(n)' = Hebra(n) /\ Linea(n)' = Linea(n)
           /\ instances'[n].name = instances[n].name /\ instances'[n].keys = instances[n].keys
           /\ instances'[n].start = instances[n].start
           /\ instances'[n].free_space = instances[n].free_space,
         \A n \in N : Ociosa(n)' /\ EspacioCierto(n)' /\ instances'[n].keys = {},
         UNCHANGED <<memoria, algorithm, tomadas, cliente, message, operation, result_instance, compact>>
  PROVE  Asignadas' /\ Previsto' /\ Mensaje' /\ Etapa' /\ Espacios'
<1>0. Asignadas /\ Previsto /\ Mensaje /\ Etapa /\ Espacios
  BY DEF Marcha
<1>1. \A n \in Lugares : \A k : Anotada(n, k)' <=> Anotada(n, k)
  BY DEF Anotada
<1>2. \A n \in N : \A k : ~Anotada(n, k)'
  BY DEF Anotada
<1>3. Asignadas'
  <2>1. \A n \in Lugares \cup N : instances'[n].keys \subseteq Claves
    BY <1>0 DEF Asignadas
  <2>2. \A m, n \in Lugares \cup N : \A k \in Claves : Anotada(m, k)' /\ Anotada(n, k)' => m = n
    BY <1>0, <1>1, <1>2 DEF Asignadas
  <2>3. \A i \in Instancias, k \in Claves :
          memoria'[i][k] # Nada => \E n \in Lugares : instances'[n].name = i /\ Anotada(n, k)'
    BY <1>0, <1>1 DEF Asignadas
  <2> QED BY <2>1, <2>2, <2>3 DEF Asignadas
<1>4. Previsto'
  <2>1. \A k \in tomadas : \E n \in Lugares : k \in instances'[n].keys
    BY <1>0 DEF Previsto, Anotada
  <2>2. cliente.op = "STORE" /\ cliente.pc \in {"STORE", "espera"} => \E n \in Lugares :
          cliente.clave \in instances'[n].keys /\ memoria[instances'[n].name][cliente.clave] # Nada
    BY <1>0 DEF Previsto, Anotada
  <2>3. cliente.pc = "elegir" => \A n \in Lugares \cup N : cliente.clave \notin instances'[n].keys
    BY <1>0 DEF Previsto, Anotada
  <2> QED BY <1>0, <2>1, <2>2, <2>3 DEF Previsto, Anotada
<1>5. Mensaje'
  BY <1>0 DEF Mensaje
<1>6. \A n \in Lugares : /\ Turno(n)' <=> Turno(n)
                         /\ Ociosa(n)' <=> Ociosa(n)
                         /\ Avisada(n)' <=> Avisada(n)
                         /\ Hecho(n)' <=> Hecho(n)
                         /\ \A m : Encargada(n, m)' <=> Encargada(n, m)
                         /\ \A m, rs : Contestada(n, m, rs)' <=> Contestada(n, m, rs)
  BY <1>1 DEF Turno, Ociosa, Avisada, Hecho, Muda, Encargada, Contestada, Anotada
<1>7. /\ \A op : Pedido(op)' = Pedido(op)
      /\ \A rs : UnaSola(rs)' <=> UnaSola(rs)
      /\ SinPosts' <=> SinPosts
  BY DEF Pedido, UnaSola, SinPosts
<1>8. \A S : Demas(S) => Demas(S)'
  BY <1>6 DEF Demas
<1>9. \A n \in Lugares : /\ Enviado(n) => Enviado(n)'
                         /\ Terminado(n) => Terminado(n)'
  BY <1>6, <1>7, <1>8 DEF Enviado, Terminado
<1>10. \A n \in Lugares : Atendido(n) => Atendido(n)'
  BY <1>6, <1>7, <1>8 DEF Atendido, Encargada, Pedido
<1>11. \A n \in Lugares : Contestado(n) => Contestado(n)'
  BY <1>6, <1>7, <1>8 DEF Contestado, Contestada, Pedido, UnaSola
<1>12. \A n \in Lugares : Compactadora(n) => Compactadora(n)'
  BY <1>6, <1>7 DEF Compactadora, Contestada, Pedido, UnaSola
<1>13. \A n \in Lugares : Filtrado(n) => Filtrado(n)'
  BY <1>7, <1>8, <1>12 DEF Filtrado
<1>14. \A n \in Lugares : OtraCompacta(n) => OtraCompacta(n)'
  BY <1>6, <1>7 DEF OtraCompacta, Encargada, Contestada, Pedido
<1>15. \A n, o \in Lugares : Compactado(n, o) => Compactado(n, o)'
  BY <1>7, <1>8, <1>12, <1>14 DEF Compactado
<1>16. Etapa'
  <2>1. EnCalma => EnCalma'
    BY <1>7, <1>8 DEF EnCalma
  <2> QED BY <1>0, <1>9, <1>10, <1>11, <1>13, <1>15, <2>1 DEF Etapa
<1>17. Espacios'
  <2>1. \A n \in Lugares : /\ EspacioCierto(n)' <=> EspacioCierto(n)
                           /\ Respondiendo(n)' <=> Respondiendo(n)
                           /\ Ultima(n)' = Ultima(n)
                           /\ Lugar(instances[n].name)' = Lugar(instances[n].name)
    <3> SUFFICES ASSUME NEW n \in Lugares
                 PROVE  /\ EspacioCierto(n)' <=> EspacioCierto(n)
                        /\ Respondiendo(n)' <=> Respondiendo(n)
                        /\ Ultima(n)' = Ultima(n)
                        /\ Lugar(instances[n].name)' = Lugar(instances[n].name)
      OBVIOUS
    <3>1. Lugar(instances[n].name)' = Lugar(instances[n].name)
      BY DEF Lugar
    <3>2. EspacioCierto(n)' <=> EspacioCierto(n)
      BY <3>1 DEF EspacioCierto
    <3> QED BY <1>6, <3>1, <3>2 DEF Respondiendo, Ultima
  <2>2. \A n \in N : ~Respondiendo(n)'
    BY <1>2 DEF Respondiendo, Turno
  <2> QED BY <1>0, <2>1, <2>2 DEF Espacios
<1> QED BY <1>3, <1>4, <1>5, <1>16, <1>17

LEMMA QuietaMarcha ==
  ASSUME Marcha, UNCHANGED <<instances, hilo, fds, memoria, caidas, algorithm, tomadas, cliente, message,
                             operation, result_instance, compact>>
  PROVE  Marcha'
<1>1. Lugares' = Lugares \cup {}
  BY DEF Lugares
<1>2. Estable'
  BY DEF Marcha, Estable, EnPie, Hebra, Linea, Lugares
<1>3. \A n \in Lugares :
        /\ Hebra(n)' = Hebra(n) /\ Linea(n)' = Linea(n)
        /\ instances'[n].name = instances[n].name /\ instances'[n].keys = instances[n].keys
        /\ instances'[n].start = instances[n].start
        /\ instances'[n].free_space = instances[n].free_space
  BY DEF Hebra, Linea
<1>4. UNCHANGED <<memoria, algorithm, tomadas, cliente, message, operation, result_instance, compact>>
  OBVIOUS
<1>5. Asignadas' /\ Previsto' /\ Mensaje' /\ Etapa' /\ Espacios'
  <2> DEFINE N == {}
  <2>1. \A n \in N : Ociosa(n)' /\ EspacioCierto(n)' /\ instances'[n].keys = {}
    OBVIOUS
  <2>2. Lugares' = Lugares \cup N
    BY <1>1
  <2> HIDE DEF N
  <2> QED BY <1>3, <1>4, <2>1, <2>2, Conserva
<1> QED BY <1>2, <1>5 DEF Marcha

LEMMA MandarMarcha ==
  ASSUME PInv, cliente.pc \in {"GET", "SET", "STORE"}, NEW n \in Lugares, Anotada(n, cliente.clave),
         Mandar(n), UNCHANGED <<hilo, fds, memoria, caidas, algorithm, tomadas, result_instance, compact,
                                message, operation>>
  PROVE  Marcha'
<1>0. TInv /\ Estable
  BY DEF PInv, Marcha
<1> DEFINE q == [instances[n] EXCEPT !.start = @ + 1]
<1>1. instances' = [instances EXCEPT ![n] = q]
      /\ cliente' = [cliente EXCEPT !.pc = "espera", !.elegida = instances[n].name]
  BY DEF Mandar, Publicar
<1>2. /\ q.name = instances[n].name /\ q.socket = instances[n].socket
      /\ q.is_active = instances[n].is_active /\ q.keys = instances[n].keys
      /\ q.free_space = instances[n].free_space /\ q.start = instances[n].start + 1
  BY <1>0, Lugar1 DEF instance_t
<1>3. q.keys = instances[n].keys \cup {cliente.clave}
  BY <1>2 DEF Anotada
<1> HIDE DEF q
<1> QED BY <1>1, <1>2, <1>3, EnviarMarcha

LEMMA AsignarMarcha ==
  ASSUME PInv, AsignarConocida
  PROVE  Marcha'
<1>0. TInv /\ Estable /\ Mensaje
  BY DEF PInv, Marcha
<1> DEFINE n == find_by_key(message.key)
<1>1. cliente.pc = "GET" /\ message.key = cliente.clave /\ n # 0
  BY <1>0 DEF AsignarConocida, En, Mensaje
<1>2. n \in Lugares /\ Anotada(n, cliente.clave)
  BY <1>0, <1>1, Tipadas, HallaClave
<1>3. Mandar(n) /\ UNCHANGED fds
  BY <1>0, <1>2, EnPieSiempre DEF AsignarConocida
<1>4. UNCHANGED <<hilo, memoria, caidas, algorithm, tomadas, result_instance, compact, message, operation>>
  BY DEF AsignarConocida, cuentas, semaforos, globales
<1> HIDE DEF n
<1> QED BY <1>1, <1>2, <1>3, <1>4, MandarMarcha

\* A key that is taken goes to the Instance that has it.
LEMMA DestinoTiene ==
  ASSUME PInv, cliente.pc \in {"SET", "STORE"}
  PROVE  /\ Destino \in Lugares /\ Anotada(Destino, cliente.clave)
         /\ Destino # 0
<1>0. TInv /\ Estable /\ Mensaje /\ Previsto
  BY DEF PInv, Marcha
<1> DEFINE n == find_by_key(message.key)
<1>1. message.key = cliente.clave
  BY <1>0 DEF Mensaje
<1>2. \E m \in Lugares : Anotada(m, cliente.clave)
  BY <1>0 DEF Previsto
<1>3. n \in Lugares /\ Anotada(n, cliente.clave)
  BY <1>0, <1>1, <1>2, Tipadas, HallaClave
<1>4. Destino = n
  BY <1>0, <1>3, EnPieSiempre DEF Destino
<1>5. 0 \notin Lugares
  BY <1>0, Tipadas, Encontrada
<1> QED BY <1>3, <1>4, <1>5

LEMMA GuardarMarcha ==
  ASSUME PInv, GuardarEnInstancia
  PROVE  Marcha'
<1>1. cliente.pc \in {"SET", "STORE"}
  BY DEF GuardarEnInstancia, En
<1>2. Destino \in Lugares /\ Anotada(Destino, cliente.clave)
  BY <1>1, DestinoTiene
<1>3. Mandar(Destino) /\ UNCHANGED fds
  BY <1>2, EnPieSiempre DEF GuardarEnInstancia, PInv, Marcha
<1>4. UNCHANGED <<hilo, memoria, caidas, algorithm, tomadas, result_instance, compact, message, operation>>
  BY DEF GuardarEnInstancia, cuentas, semaforos, globales
<1> QED BY <1>1, <1>2, <1>3, <1>4, MandarMarcha

LEMMA ElegirMarcha ==
  ASSUME PInv, Elegir
  PROVE  Marcha'
<1>0. TInv /\ Estable /\ Mensaje /\ Previsto
  BY DEF PInv, Marcha
<1> DEFINE n == choose_instance(FALSE).elegida
           q == [instances[n] EXCEPT !.keys = @ \cup {message.key}, !.start = @ + 1]
<1>1. cliente.pc = "elegir" /\ n # 0
  BY DEF Elegir, En
<1>2. n \in Lugares
  BY <1>0, <1>1, ElegidaEnLista DEF TInv
<1>3. test_connection(instances[n].socket)
  BY <1>0, <1>2, EnPieSiempre
<1>4. /\ instances' = [instances EXCEPT ![n] = q]
      /\ cliente' = [cliente EXCEPT !.pc = "espera", !.elegida = instances[n].name] /\ UNCHANGED fds
  BY <1>3 DEF Elegir
<1>5. message.key = cliente.clave /\ \A m \in Lugares : ~Anotada(m, cliente.clave)
  BY <1>0, <1>1 DEF Mensaje, Previsto
<1>6. /\ q.name = instances[n].name /\ q.socket = instances[n].socket
      /\ q.is_active = instances[n].is_active /\ q.keys = instances[n].keys \cup {cliente.clave}
      /\ q.free_space = instances[n].free_space /\ q.start = instances[n].start + 1
  BY <1>0, <1>2, <1>5, Lugar1 DEF instance_t
<1>7. UNCHANGED <<hilo, memoria, caidas, algorithm, tomadas, result_instance, compact, message, operation>>
  BY DEF Elegir, cuentas, globales
<1> HIDE DEF n, q
<1> QED BY <1>1, <1>2, <1>4, <1>5, <1>6, <1>7, EnviarMarcha

LEMMA TomarMarcha ==
  ASSUME PInv, TomarInstancia
  PROVE  Marcha'
<1>0. TInv /\ Estable /\ Mensaje /\ Previsto /\ Etapa
  BY DEF PInv, Marcha
<1>1. cliente.pc = "GET" /\ message.key = cliente.clave /\ operation = "GET" /\ cliente.op = "GET"
  BY <1>0 DEF TomarInstancia, En, Mensaje
<1>2. \A m \in Lugares : ~Anotada(m, cliente.clave)
  <2>1. find_by_key(cliente.clave) # 0 => FALSE
    <3>1. find_by_key(cliente.clave) # 0 => ~instances[find_by_key(cliente.clave)].is_active
      BY <1>1 DEF TomarInstancia, En
    <3> QED BY <1>0, <3>1, Tipadas, HallaClave, EnPieSiempre
  <2> QED BY <1>0, <2>1, Tipadas, HallaClave
<1>3. /\ cliente'.pc = "elegir" /\ cliente'.op = "GET" /\ cliente'.clave = cliente.clave
  <2>1. cliente \in Cliente
    BY <1>0, Tipadas
  <2> QED BY <1>1, <2>1 DEF TomarInstancia, Va, Cliente
<1>4. UNCHANGED <<instances, hilo, fds, memoria, caidas, algorithm, tomadas, result_instance, compact, message,
                  operation>>
  BY DEF TomarInstancia, listas, cuentas, globales
<1>5. Estable' /\ Asignadas' /\ Etapa' /\ Espacios'
  BY <1>0, <1>1, <1>3, <1>4, ClienteSolo, SinTurno DEF EnCalma, SinPosts
<1>6. Previsto'
  <2>1. Lugares' = Lugares /\ \A m, c : c \in instances'[m].keys <=> Anotada(m, c)
    BY <1>4 DEF Lugares, Anotada
  <2> QED BY <1>0, <1>2, <1>3, <1>4, <2>1 DEF Previsto, Anotada
<1>7. Mensaje'
  BY <1>0, <1>1, <1>3, <1>4 DEF Mensaje
<1> QED BY <1>5, <1>6, <1>7 DEF Marcha

\* When result_instance has been posted, everybody is done.
LEMMA QuienTermina ==
  ASSUME PInv, Confirmar
  PROVE  \E n \in Lugares : Terminado(n)
<1>1. result_instance # 0 /\ ~EnCalma
  BY DEF Confirmar, EnCalma, En
<1>2. \A p : ~Enviado(p) /\ ~Atendido(p) /\ ~Contestado(p) /\ ~Filtrado(p) /\ \A o : ~Compactado(p, o)
  BY <1>1 DEF Enviado, Atendido, Contestado, Filtrado, Compactado, SinPosts
<1>3. Etapa
  BY DEF PInv, Marcha
<1> QED BY <1>1, <1>2, <1>3 DEF Etapa

LEMMA ConfirmarMarcha ==
  ASSUME PInv, Confirmar
  PROVE  Marcha'
<1>0. TInv /\ Estable /\ Mensaje /\ Previsto /\ Etapa
  BY DEF PInv, Marcha
<1>1. PICK n \in Lugares : Terminado(n)
  BY QuienTermina
<1>2. Turno(n) /\ result_instance = 1 /\ compact = 0 /\ Demas({})
  BY <1>1 DEF Terminado
<1>3. /\ cliente' = Ocioso /\ result_instance' = 0 /\ tomadas' \subseteq tomadas \cup {cliente.clave}
      /\ UNCHANGED <<instances, hilo, fds, memoria, caidas, algorithm, compact, message, operation>>
  BY <1>2 DEF Confirmar, listas, cuentas, globales
<1>4. cliente'.pc = "libre" /\ cliente'.op = "GET"
  BY <1>3 DEF Ocioso
<1>5. Estable' /\ Asignadas' /\ Etapa' /\ Espacios'
  BY <1>2, <1>3, <1>4, ClienteSolo DEF SinPosts
<1>6. Previsto'
  <2>1. Anotada(n, cliente.clave)
    BY <1>2 DEF Turno
  <2>2. Lugares' = Lugares /\ \A m, c : c \in instances'[m].keys <=> Anotada(m, c)
    BY <1>3 DEF Lugares, Anotada
  <2> QED BY <1>0, <1>3, <1>4, <2>1, <2>2 DEF Previsto, Anotada
<1>7. Mensaje'
  BY <1>4 DEF Mensaje
<1> QED BY <1>5, <1>6, <1>7 DEF Marcha

LEMMA ClienteMarcha ==
  ASSUME PInv, PasoCliente
  PROVE  Marcha'
<1>0. Marcha /\ Mensaje
  BY DEF PInv, Marcha
<1>1. ~Abortar
  BY <1>0, DestinoTiene DEF Abortar, En, Mensaje
<1>2. ~ConsultarEstado /\ ~SimularAsignacion /\ ~DescontarCliente
  BY <1>0 DEF Mensaje, ConsultarEstado, SimularAsignacion, DescontarCliente, En
<1>3. ASSUME SinElegida PROVE Marcha'
  BY <1>0, <1>3, QuietaMarcha DEF SinElegida, listas, globales, cuentas, semaforos
<1> QED BY <1>1, <1>2, <1>3, AsignarMarcha, TomarMarcha, ElegirMarcha, GuardarMarcha, ConfirmarMarcha
        DEF PasoCliente

-----------------------------------------------------------------------------
(* The steps of the peers.                                                 *)

LEMMA AgregarMarcha ==
  ASSUME PInv, NEW i \in Instancias, AgregarInstancia(i)
  PROVE  Marcha'
<1>0. TInv /\ Estable /\ Asignadas
  BY DEF PInv, Marcha
<1> DEFINE s == Min(Cerrados)
           l == Append(instances, Nueva(i, s))
           r == [SinHilo EXCEPT !.pc = "start", !.socket = s]
<1>1. s \in Sockets /\ fds[s] = Libre
  BY Aceptada DEF AgregarInstancia
<1>2. /\ fds' = [fds EXCEPT ![s] = Conexion(i)] /\ instances' = assign_letters(l)
      /\ hilo' = [hilo EXCEPT ![i] = r]
      /\ UNCHANGED <<memoria, algorithm, tomadas, cliente, message, operation, result_instance, compact,
                     caidas>>
  BY DEF AgregarInstancia, globales, cuentas
<1>3. r.pc = "start" /\ r.socket = s
  BY DEF SinHilo
<1>4. Nueva(i, s) \in instance_t
  BY <1>1 DEF Nueva, instance_t, Sockets
<1> HIDE DEF s, r
<1>5. PICK m \in Nat :
        /\ l \in Seq(instance_t) /\ DOMAIN l = Lugares \cup {m} /\ m \notin Lugares
        /\ l[m] = Nueva(i, s) /\ \A n \in Lugares : l[n] = instances[n]
  <2> DEFINE k == Len(instances) + 1
  <2>1. /\ k \in Nat /\ l \in Seq(instance_t) /\ DOMAIN l = Lugares \cup {k} /\ k \notin Lugares
        /\ l[k] = Nueva(i, s) /\ \A n \in Lugares : l[n] = instances[n]
    BY <1>0, <1>4, Tipadas DEF Lugares
  <2> QED BY <2>1
<1> HIDE DEF l
<1>6. /\ Lugares' = Lugares \cup {m}
      /\ \A n \in Lugares \cup {m} :
           /\ instances'[n].name = l[n].name /\ instances'[n].socket = l[n].socket
           /\ instances'[n].is_active = l[n].is_active /\ instances'[n].free_space = l[n].free_space
           /\ instances'[n].keys = l[n].keys /\ instances'[n].start = l[n].start
  BY <1>2, <1>5, ListaConLetras DEF Lugares
<1>7. /\ instances'[m].name = i /\ instances'[m].socket = s /\ instances'[m].is_active
      /\ instances'[m].free_space = 999 /\ instances'[m].keys = {} /\ instances'[m].start = 0
  BY <1>5, <1>6 DEF Nueva
<1>8. \A n \in Lugares :
        /\ instances'[n].name = instances[n].name /\ instances'[n].socket = instances[n].socket
        /\ instances'[n].is_active = instances[n].is_active /\ instances'[n].keys = instances[n].keys
        /\ instances'[n].start = instances[n].start
        /\ instances'[n].free_space = instances[n].free_space
  BY <1>5, <1>6
<1>9. hilo'[i] = r /\ \A k \in Instancias \ {i} : hilo'[k] = hilo[k]
  BY <1>0, <1>2, CambiaHilo
<1>10. fds'[s] = Conexion(i) /\ \A t \in Sockets \ {s} : fds'[t] = fds[t]
  BY <1>0, <1>1, <1>2, CambiaConexion
<1>11. \A n \in Lugares : instances[n].name \in Instancias \ {i} /\ instances[n].socket \in Sockets \ {s}
  <2>1. Propia(i) = 0
    BY DEF AgregarInstancia
  <2>2. {n \in Lugares : instances[n].name = i} \in SUBSET (Nat \ {0})
    BY <1>0, Tipadas, Encontrada
  <2>3. \A n \in Lugares : instances[n].name # i
    BY <2>1, <2>2, PrimeroEsta DEF Propia, name_is_equal
  <2> QED BY <1>0, <1>1, <2>3, Lugar1 DEF Estable, EnPie, Linea
<1>12. \A n \in Lugares : Hebra(n)' = Hebra(n) /\ Linea(n)' = Linea(n)
  BY <1>8, <1>9, <1>10, <1>11 DEF Hebra, Linea
<1>13. Hebra(m)' = r /\ Linea(m)' = Conexion(i)
  BY <1>7, <1>9, <1>10 DEF Hebra, Linea
<1>14. /\ Conexion(i) # Libre /\ Conexion(i).de = i /\ Conexion(i).abierta
       /\ Conexion(i).hacia = <<>> /\ Conexion(i).desde = <<>>
  BY ConexionEsEnlace, LibreAssumption DEF Conexion
<1>15. Estable'
  <2>1. EnPie(m)'
    BY <1>3, <1>7, <1>13, <1>14 DEF EnPie
  <2>2. \A n \in Lugares : EnPie(n)'
    BY <1>0, <1>8, <1>12 DEF Estable, EnPie
  <2>3. \A n, k \in Lugares \cup {m} : instances'[n].name = instances'[k].name => n = k
    BY <1>0, <1>7, <1>8, <1>11 DEF Estable
  <2>4. \A k \in Instancias : hilo'[k].pc # "no" => \E n \in Lugares \cup {m} : instances'[n].name = k
    BY <1>0, <1>7, <1>8, <1>9 DEF Estable
  <2>5. \A t \in Sockets : fds'[t] # Libre =>
          \/ \E n \in Lugares \cup {m} : instances'[n].socket = t
          \/ fds'[t].de = Otro /\ fds'[t].abierta /\ fds'[t].hacia = <<>>
    BY <1>0, <1>7, <1>8, <1>10 DEF Estable
  <2> QED BY <1>0, <1>2, <1>6, <2>1, <2>2, <2>3, <2>4, <2>5 DEF Estable
<1>16. Ociosa(m)' /\ EspacioCierto(m)'
  <2>1. Ociosa(m)'
    BY <1>3, <1>7, <1>13, <1>14 DEF Ociosa, Muda
  <2>2. Lugar(i)' = Capacidad
    <3>1. {k \in Claves : memoria'[i][k] # Nada} = {}
      BY <1>0, <1>2, <1>11 DEF Asignadas
    <3>2. Cardinality({k \in Claves : memoria'[i][k] # Nada}) = 0
      BY <3>1, FS_EmptySet, Zenon
    <3>3. Lugar(i)' = Capacidad - Cardinality({k \in Claves : memoria'[i][k] # Nada})
      BY DEF Lugar
    <3>4. Capacidad \in Nat
      BY DistribucionAssumption
    <3> QED BY <3>2, <3>3, <3>4
  <2> QED BY <1>7, <2>1, <2>2 DEF EspacioCierto
<1>17. Asignadas' /\ Previsto' /\ Mensaje' /\ Etapa' /\ Espacios'
  <2> DEFINE N == {m}
  <2>1. /\ \A n \in N : Ociosa(n)' /\ EspacioCierto(n)' /\ instances'[n].keys = {}
        /\ Lugares' = Lugares \cup N
    BY <1>6, <1>7, <1>16
  <2> HIDE DEF N
  <2> QED BY <1>2, <1>8, <1>12, <2>1, Conserva DEF PInv
<1> QED BY <1>15, <1>17 DEF Marcha

LEMMA ConectaOtroMarcha ==
  ASSUME PInv, ConectaOtro
  PROVE  Marcha'
<1>0. TInv /\ Estable
  BY DEF PInv, Marcha
<1> DEFINE s == Min(Cerrados)
<1>1. s \in Sockets /\ fds[s] = Libre
  BY Aceptada DEF ConectaOtro
<1>2. /\ fds' = [fds EXCEPT ![s] = Conexion(Otro)]
      /\ UNCHANGED <<memoria, algorithm, tomadas, cliente, message, operation, result_instance, compact>>
      /\ UNCHANGED <<instances, hilo, caidas>>
  BY DEF ConectaOtro, globales, listas, semaforos
<1> HIDE DEF s
<1>3. fds'[s] = Conexion(Otro) /\ \A t \in Sockets \ {s} : fds'[t] = fds[t]
  BY <1>0, <1>1, <1>2, CambiaConexion
<1>4. \A n \in Lugares : instances[n].socket \in Sockets \ {s}
  BY <1>0, <1>1, Lugar1 DEF Estable, EnPie, Linea
<1>5. \A n \in Lugares :
        /\ Hebra(n)' = Hebra(n) /\ Linea(n)' = Linea(n)
        /\ instances'[n].name = instances[n].name /\ instances'[n].keys = instances[n].keys
        /\ instances'[n].start = instances[n].start
        /\ instances'[n].free_space = instances[n].free_space
  BY <1>2, <1>3, <1>4 DEF Hebra, Linea
<1>6. Lugares' = Lugares
  BY <1>2 DEF Lugares
<1>7. Estable'
  <2>1. \A n \in Lugares : EnPie(n)'
    BY <1>0, <1>2, <1>5 DEF Estable, EnPie
  <2>2. Conexion(Otro).de = Otro /\ Conexion(Otro).abierta /\ Conexion(Otro).hacia = <<>>
    BY DEF Conexion
  <2>3. \A t \in Sockets : fds'[t] # Libre =>
          \/ \E n \in Lugares : instances[n].socket = t
          \/ fds'[t].de = Otro /\ fds'[t].abierta /\ fds'[t].hacia = <<>>
    BY <1>0, <1>3, <2>2 DEF Estable
  <2> QED BY <1>0, <1>2, <1>6, <2>1, <2>3 DEF Estable
<1>8. Asignadas' /\ Previsto' /\ Mensaje' /\ Etapa' /\ Espacios'
  <2> DEFINE N == {}
  <2>1. /\ \A n \in N : Ociosa(n)' /\ EspacioCierto(n)' /\ instances'[n].keys = {}
        /\ Lugares' = Lugares \cup N
    BY <1>6
  <2> HIDE DEF N
  <2> QED BY <1>2, <1>5, <2>1, Conserva DEF PInv
<1> QED BY <1>7, <1>8 DEF Marcha

LEMMA NoVuelve ==
  ASSUME PInv, NEW i \in Instancias
  PROVE  ~VuelveInstancia(i)
<1>0. TInv /\ Estable
  BY DEF PInv, Marcha
<1>1. ASSUME VuelveInstancia(i) PROVE FALSE
  <2>1. Propia(i) # 0 /\ Conectada(i) = {}
    BY <1>1 DEF VuelveInstancia
  <2>2. {n \in Lugares : instances[n].name = i} \in SUBSET (Nat \ {0})
    BY <1>0, Tipadas, Encontrada
  <2>3. PICK n \in Lugares : instances[n].name = i
    BY <2>1, <2>2, PrimeroEsta DEF Propia, name_is_equal
  <2>4. EnPie(n) /\ instances[n].socket \in Sockets
    BY <1>0, Lugar1 DEF Estable
  <2> QED BY <2>1, <2>3, <2>4 DEF EnPie, Linea, Conectada
<1> QED BY <1>1

\* What an Instance does with the request it has, and says.
Atiende(i, s) ==
  \/ /\ Pedida(s).op = "SET"
     /\ \E R \in SUBSET Ocupadas(i), avisa \in BOOLEAN : (avisa => Compactan) /\ DiceSet(i, s, R, avisa)
  \/ /\ UNCHANGED memoria
     /\ \/ Pedida(s).op \in {"GET", "COMPACT"} /\ Dice(s, <<Respuesta(12, 0, Pedida(s))>>)
        \/ /\ Pedida(s).op = "STORE"
           /\ Pedida(s).clave \in Claves /\ memoria[i][Pedida(s).clave] # Nada =>
                Dice(s, <<Respuesta(12, 0, Pedida(s))>>)
        \/ Pedida(s).op = "STATUS"

LEMMA SirveAtiende ==
  ASSUME NEW i \in Instancias, Sirve(i)
  PROVE  \E s \in Conectada(i) : fds[s].hacia # <<>> /\ Atiende(i, s)
<1> DEFINE tiene(s) == Pedida(s).clave \in Claves /\ memoria[i][Pedida(s).clave] # Nada
<1>1. PICK s \in Conectada(i) :
        /\ fds[s].hacia # <<>>
        /\ \/ /\ Pedida(s).op = "SET"
              /\ \E R \in SUBSET Ocupadas(i), avisa \in {FALSE, Compactan /\ ~tiene(s)} : DiceSet(i, s, R, avisa)
           \/ /\ UNCHANGED memoria
              /\ Pedida(s).op \in {"GET", "COMPACT"} /\ Dice(s, <<Respuesta(12, 0, Pedida(s))>>)
           \/ /\ UNCHANGED memoria
              /\ Pedida(s).op = "STORE" /\ (tiene(s) => Dice(s, <<Respuesta(12, 0, Pedida(s))>>))
           \/ UNCHANGED memoria /\ Pedida(s).op = "STATUS"
  BY ZenonT(60) DEF Sirve, Ocupadas, Pedida, Dice, DiceSet
<1>2. \A avisa \in {FALSE, Compactan /\ ~tiene(s)} : avisa \in BOOLEAN /\ (avisa => Compactan)
  OBVIOUS
<1> HIDE DEF tiene
<1>3. Atiende(i, s)
  BY <1>1, <1>2, Zenon DEF Atiende, tiene
<1> QED BY <1>1, <1>3

\* A request in a stream is the one that is being served, or a compaction.
LEMMA QuienTiene ==
  ASSUME PInv, NEW n \in Lugares, Linea(n).hacia # <<>>
  PROVE  /\ Linea(n).desde = <<>>
         /\ \/ Atendido(n) /\ Linea(n).hacia = <<Pedido(cliente.op)>>
            \/ /\ \E p \in Lugares \ {n} : Compactado(p, n)
               /\ Encargada(n, Pedido("COMPACT")) /\ compact = 0
<1>1. ~Muda(n) /\ ~Ociosa(n)
  BY DEF Muda, Ociosa
<1>2. /\ ~Enviado(n) /\ ~Contestado(n) /\ ~Filtrado(n)
      /\ \A o \in Lugares \ {n} : ~Compactado(n, o)
  BY <1>1 DEF Enviado, Avisada, Contestado, Contestada, Filtrado, Compactado, Compactadora
<1>3. OtraCompacta(n) => Encargada(n, Pedido("COMPACT")) /\ compact = 0
  BY <1>1 DEF OtraCompacta, Avisada, Contestada
<1>4. Atendido(n) \/ \E p \in Lugares \ {n} : Compactado(p, n) /\ OtraCompacta(n)
  BY <1>1, <1>2, Trabaja DEF PInv, Marcha
<1>5. CASE Atendido(n)
  BY <1>5 DEF Atendido, Encargada
<1>6. CASE \E p \in Lugares \ {n} : Compactado(p, n) /\ OtraCompacta(n)
  <2>1. Linea(n).desde = <<>>
    BY <1>3, <1>6 DEF Encargada
  <2> QED BY <1>3, <1>6, <2>1
<1> QED BY <1>4, <1>5, <1>6

\* Only who is asked something answers.
LEMMA QuienSirve ==
  ASSUME PInv, NEW i \in Instancias, Sirve(i)
  PROVE  \E n \in Lugares :
           /\ instances[n].name = i /\ Atiende(i, instances[n].socket)
           /\ Linea(n).desde = <<>>
           /\ \/ Atendido(n) /\ Linea(n).hacia = <<Pedido(cliente.op)>>
              \/ /\ \E p \in Lugares \ {n} : Compactado(p, n)
                 /\ Encargada(n, Pedido("COMPACT")) /\ compact = 0
<1>0. TInv /\ Estable
  BY DEF PInv, Marcha
<1>1. PICK s \in Conectada(i) : fds[s].hacia # <<>> /\ Atiende(i, s)
  BY SirveAtiende
<1>2. s \in Sockets /\ fds[s] # Libre /\ fds[s].de = i /\ i # Otro
  BY <1>1, DistribucionAssumption DEF Conectada
<1>3. PICK n \in Lugares : instances[n].socket = s
  BY <1>0, <1>1, <1>2 DEF Estable
<1>4. EnPie(n) /\ instances[n].name = i /\ Linea(n) = fds[s]
  BY <1>0, <1>2, <1>3 DEF Estable, EnPie, Linea
<1> QED BY <1>1, <1>3, <1>4, QuienTiene

LEMMA Responde ==
  ASSUME TInv, Estable, NEW n \in Lugares, NEW m, Linea(n).hacia = <<m>>, Linea(n).desde = <<>>,
         NEW rs \in Seq(Contestacion), Dice(instances[n].socket, rs), UNCHANGED <<instances, hilo>>
  PROVE  SoloToca(n) /\ Hebra(n)' = Hebra(n) /\ Linea(n)'.hacia = <<>> /\ Linea(n)'.desde = rs
<1> DEFINE c == [Linea(n) EXCEPT !.hacia = Tail(@), !.desde = @ \o rs]
<1>1. Linea(n) \in Enlace /\ Linea(n).hacia \in Seq(Peticion) /\ EnPie(n)
  BY Lugar1 DEF Enlace, Estable
<1>2. Tail(Linea(n).hacia) = <<>> /\ Linea(n).desde \o rs = rs
  <2>1. Len(Linea(n).hacia) = 1
    OBVIOUS
  <2> QED BY <1>1, <2>1, Unitarias
<1>3. c \in Enlace /\ c.de = Linea(n).de /\ c.abierta = Linea(n).abierta /\ c.hacia = <<>> /\ c.desde = rs
  <2>1. <<>> \in Seq(Peticion)
    OBVIOUS
  <2> QED BY <1>1, <1>2, <2>1 DEF Enlace
<1>4. fds' = [fds EXCEPT ![instances[n].socket] = c]
  BY DEF Dice, Linea
<1> HIDE DEF c
<1>5. fds'[instances[n].socket] = c /\ \A s \in Sockets \ {instances[n].socket} : fds'[s] = fds[s]
  BY <1>4, Lugar1, CambiaConexion
<1>6. c # Libre
  BY <1>3, LibreAssumption
<1>7. SoloToca(n)
  BY <1>1, <1>3, <1>5, <1>6, Toca DEF EnPie, Hebra, Linea
<1> QED BY <1>3, <1>5, <1>7 DEF Hebra, Linea

LEMMA Respuestas ==
  ASSUME NEW m \in Peticion, NEW len \in Nat
  PROVE  /\ \A id \in Nat : /\ Respuesta(id, len, m) \in Contestacion
                            /\ Respuesta(id, len, m).de = m
                            /\ Respuesta(id, len, m).header.id = id
                            /\ Respuesta(id, len, m).header.len = len
         /\ <<Respuesta(12, len, m)>> \in Seq(Contestacion)
<1>1. ASSUME NEW id \in Nat
      PROVE  /\ Respuesta(id, len, m) \in Contestacion
             /\ Respuesta(id, len, m).de = m
             /\ Respuesta(id, len, m).header.id = id
             /\ Respuesta(id, len, m).header.len = len
  BY DEF Respuesta, Cabecera, Contestacion, Encabezado
<1> QED BY <1>1

\* A GET or a STORE is answered once.
LEMMA SirveUna ==
  ASSUME PInv, NEW n \in Lugares, Atendido(n), Linea(n).hacia = <<Pedido(cliente.op)>>,
         Linea(n).desde = <<>>, cliente.op # "SET",
         Dice(instances[n].socket, <<Respuesta(12, 0, Pedido(cliente.op))>>),
         UNCHANGED <<instances, hilo, memoria, cliente, message, operation, tomadas, caidas, algorithm,
                     result_instance, compact>>
  PROVE  Marcha'
<1>0. TInv /\ Estable
  BY DEF PInv, Marcha
<1>1. Pedido(cliente.op) \in Peticion
  <2>1. Linea(n) \in Enlace
    BY <1>0, Lugar1
  <2> QED BY <2>1 DEF Enlace
<1>2. PICK rs \in Seq(Contestacion) :
        /\ rs = <<Respuesta(12, 0, Pedido(cliente.op))>>
        /\ Len(rs) = 1 /\ rs[1].header.id = 12 /\ rs[1].de = Pedido(cliente.op)
  <2> DEFINE e == Respuesta(12, 0, Pedido(cliente.op))
  <2>1. e \in Contestacion /\ e.de = Pedido(cliente.op) /\ e.header.id = 12
    BY <1>1, Respuestas
  <2> HIDE DEF e
  <2>2. <<e>> \in Seq(Contestacion) /\ Len(<<e>>) = 1 /\ <<e>>[1] = e
    BY <2>1
  <2> QED BY <2>1, <2>2 DEF e
<1>3. SoloToca(n) /\ Hebra(n)' = Hebra(n) /\ Linea(n)'.hacia = <<>> /\ Linea(n)'.desde = rs
  BY <1>0, <1>2, Responde
<1>4. /\ Estable' /\ Asignadas' /\ Previsto' /\ Mensaje' /\ Lugares' = Lugares
      /\ \A k \in Lugares : /\ Turno(k)' <=> Turno(k)
                            /\ Hecho(k)' <=> Hecho(k)
      /\ \A op : Pedido(op)' = Pedido(op)
  BY <1>3, TocaResto
<1>5. Espacios'
  BY <1>3, TocaEspacios
<1>6. Demas({n})'
  <2>1. Demas({n})
    BY DEF Atendido
  <2>2. Demas({n} \cup {n})'
    BY <1>3, <2>1, TocaOciosas
  <2>3. {n} \cup {n} = {n}
    OBVIOUS
  <2> QED BY <2>2, <2>3
<1>7. Contestada(n, Pedido(cliente.op), rs)' /\ UnaSola(rs)' /\ Hebra(n)'.pc = "respuesta"
  BY <1>2, <1>3, <1>4 DEF Atendido, Encargada, Contestada, UnaSola, Pedido
<1>8. Contestado(n)'
  BY <1>4, <1>6, <1>7 DEF Atendido, Contestado, Hecho, SinPosts
<1>9. Etapa'
  BY <1>4, <1>8 DEF Etapa
<1> QED BY <1>4, <1>5, <1>9 DEF Marcha

\* The end of a compaction.
LEMMA SirveCompactar ==
  ASSUME PInv, NEW n \in Lugares, NEW p \in Lugares \ {n}, Compactado(p, n),
         Encargada(n, Pedido("COMPACT")), compact = 0,
         Dice(instances[n].socket, <<Respuesta(12, 0, Pedido("COMPACT"))>>),
         UNCHANGED <<instances, hilo, memoria, cliente, message, operation, tomadas, caidas, algorithm,
                     result_instance, compact>>
  PROVE  Marcha'
<1>0. TInv /\ Estable
  BY DEF PInv, Marcha
<1>1. /\ Linea(n).hacia = <<Pedido("COMPACT")>> /\ Linea(n).desde = <<>>
      /\ Pedido("COMPACT") \in Peticion
  <2>1. Linea(n) \in Enlace
    BY <1>0, Lugar1
  <2>2. Linea(n).hacia = <<Pedido("COMPACT")>> /\ Linea(n).desde = <<>>
    BY DEF Encargada
  <2>3. Linea(n).hacia \in Seq(Peticion)
    BY <2>1 DEF Enlace
  <2> QED BY <2>2, <2>3
<1>2. PICK rs \in Seq(Contestacion) :
        /\ rs = <<Respuesta(12, 0, Pedido("COMPACT"))>> /\ Len(rs) = 1 /\ rs[1].de = Pedido("COMPACT")
  <2> DEFINE e == Respuesta(12, 0, Pedido("COMPACT"))
  <2>1. e \in Contestacion /\ e.de = Pedido("COMPACT")
    BY <1>1, Respuestas
  <2> HIDE DEF e
  <2>2. <<e>> \in Seq(Contestacion) /\ Len(<<e>>) = 1 /\ <<e>>[1] = e
    BY <2>1
  <2> QED BY <2>1, <2>2 DEF e
<1>3. SoloToca(n) /\ Hebra(n)' = Hebra(n) /\ Linea(n)'.hacia = <<>> /\ Linea(n)'.desde = rs
  BY <1>0, <1>1, <1>2, Responde
<1>4. /\ Estable' /\ Asignadas' /\ Previsto' /\ Mensaje' /\ Lugares' = Lugares
      /\ \A k \in Lugares : /\ Turno(k)' <=> Turno(k)
                            /\ Hecho(k)' <=> Hecho(k)
      /\ \A op : Pedido(op)' = Pedido(op)
  BY <1>3, TocaResto
<1>5. ~Turno(n)
  BY <1>0, Lugar1 DEF Compactado, Compactadora, Turno
<1>6. Espacios'
  BY <1>3, <1>5, TocaEspacios
<1>7. OtraCompacta(n)'
  <2>1. Contestada(n, Pedido("COMPACT"), rs)' /\ Hebra(n)'.pc = "respuesta"
    BY <1>3, <1>4 DEF Encargada, Contestada, Pedido
  <2> QED BY <1>2, <1>4, <2>1 DEF OtraCompacta
<1>8. Demas({p, n})'
  <2>1. Demas({p, n} \cup {n})'
    BY <1>3, TocaOciosas DEF Compactado
  <2>2. {p, n} \cup {n} = {p, n}
    OBVIOUS
  <2> QED BY <2>1, <2>2
<1>9. Compactadora(p)' /\ Hebra(p)' = Hebra(p)
  BY <1>3, <1>4, TocaDemas DEF Compactado, Compactadora, Contestada, UnaSola, Pedido
<1>10. Compactado(p, n)'
  BY <1>7, <1>8, <1>9 DEF Compactado
<1>11. Etapa'
  BY <1>4, <1>10 DEF Etapa
<1> QED BY <1>4, <1>6, <1>11 DEF Marcha

\* A SET: the value is there when the answer is, with the room that is left.
LEMMA SirveSet ==
  ASSUME PInv, NEW n \in Lugares, Atendido(n), Linea(n).hacia = <<Pedido(cliente.op)>>,
         Linea(n).desde = <<>>, cliente.op = "SET",
         NEW R \in SUBSET Ocupadas(instances[n].name), NEW avisa \in BOOLEAN, avisa => Compactan,
         DiceSet(instances[n].name, instances[n].socket, R, avisa),
         UNCHANGED <<instances, hilo, cliente, message, operation, tomadas, caidas, algorithm,
                     result_instance, compact>>
  PROVE  Marcha'
<1>0. TInv /\ Estable /\ Asignadas /\ Previsto /\ Mensaje /\ Espacios
  BY DEF PInv, Marcha
<1>1. Turno(n) /\ SinPosts /\ Demas({n}) /\ Encargada(n, Pedido("SET"))
  BY DEF Atendido
<1>2. /\ instances[n].name \in Instancias /\ cliente.clave \in Claves /\ cliente.valor \in Valores
      /\ message.value = cliente.valor /\ Anotada(n, cliente.clave) /\ cliente.pc = "espera"
  BY <1>0, <1>1, Lugar1 DEF TInv, ClaveDelTurno, Mensaje, Turno
<1>3. PICK m \in Peticion : /\ m = Pedido("SET") /\ Pedida(instances[n].socket) = m
                           /\ m.clave = cliente.clave /\ m.valor = cliente.valor /\ m.op = "SET"
  <2>1. Linea(n).hacia \in Seq(Peticion) /\ Linea(n).hacia = <<Pedido("SET")>>
    BY <1>0, Lugar1 DEF Enlace
  <2>2. Pedido("SET") \in Peticion /\ Pedida(instances[n].socket) = Pedido("SET")
    BY <2>1 DEF Pedida, Linea
  <2> QED BY <1>2, <2>2 DEF Pedido
<1> DEFINE Quedan == (Ocupadas(instances[n].name) \ R) \cup {m.clave}
<1>4. PICK lugar \in Nat : lugar = Capacidad - Cardinality(Quedan)
  BY <1>0, <1>2, <1>3, GuardaCabe DEF DiceSet
<1> DEFINE final == Respuesta(12, lugar, m)
           aviso == Respuesta(11, 0, m)
<1>5. final \in Contestacion /\ final.de = m /\ final.header.id = 12 /\ final.header.len = lugar
      /\ aviso \in Contestacion /\ aviso.de = m /\ aviso.header.id = 11
  BY Respuestas, SMTT(30)
<1>6. PICK rs \in Seq(Contestacion) :
        /\ Dice(instances[n].socket, rs)
        /\ rs # <<>> /\ rs[Len(rs)] = final
        /\ \/ rs = <<final>>
           \/ Compactan /\ rs = <<aviso, final>>
  <2>1. Dice(instances[n].socket, (IF avisa THEN <<aviso>> ELSE <<>>) \o <<final>>)
    BY <1>3, <1>4 DEF DiceSet
  <2> HIDE DEF final, aviso
  <2>2. CASE avisa
    <3>1. <<aviso>> \o <<final>> = <<aviso, final>>
      BY <1>5, Juntas
    <3>2. /\ <<aviso, final>> \in Seq(Contestacion) /\ <<aviso, final>> # <<>>
          /\ <<aviso, final>>[Len(<<aviso, final>>)] = final
      BY <1>5
    <3> QED BY <2>1, <2>2, <3>1, <3>2
  <2>3. CASE ~avisa
    <3>1. <<>> \o <<final>> = <<final>> /\ <<final>> \in Seq(Contestacion)
      BY <1>5
    <3>2. <<final>> # <<>> /\ <<final>>[Len(<<final>>)] = final
      BY <1>5
    <3> QED BY <2>1, <2>3, <3>1, <3>2
  <2> QED BY <2>2, <2>3
<1> HIDE DEF final, aviso, Quedan
<1>7. SoloToca(n) /\ Hebra(n)' = Hebra(n) /\ Linea(n)'.hacia = <<>> /\ Linea(n)'.desde = rs
  BY <1>0, <1>6, Responde
<1>8. Lugares' = Lugares /\ \A k \in Lugares : Turno(k)' <=> Turno(k)
  BY DEF Lugares, Turno, Anotada
<1>9. Estable'
  BY <1>0, <1>7, TocaEstable
<1>10. memoria' = [memoria EXCEPT ![instances[n].name] = Guarda(instances[n].name, m, R)]
       /\ memoria \in [Instancias -> [Claves -> Valores \cup {Nada}]]
  BY <1>0, <1>3 DEF DiceSet, TInv, TypeOK
<1>11. /\ \A i \in Instancias \ {instances[n].name} : memoria'[i] = memoria[i]
       /\ \A k \in Claves : memoria'[instances[n].name][k] =
            IF k = cliente.clave THEN cliente.valor
            ELSE IF k \in R THEN Nada ELSE memoria[instances[n].name][k]
  BY <1>2, <1>3, <1>10 DEF Guarda
<1>12. Asignadas'
  <2>1. ASSUME NEW i \in Instancias, NEW k \in Claves, memoria'[i][k] # Nada
        PROVE  \E p \in Lugares : instances[p].name = i /\ Anotada(p, k)
    BY <1>0, <1>2, <1>11, <2>1 DEF Asignadas
  <2>2. \A p, k : Anotada(p, k)' <=> Anotada(p, k)
    BY DEF Anotada
  <2> QED BY <1>0, <1>8, <2>1, <2>2 DEF Asignadas
<1>13. Previsto'
  BY <1>0, <1>2, <1>8 DEF Previsto, Anotada
<1>14. Mensaje'
  BY <1>0 DEF Mensaje
<1>15. Hecho(n)'
  BY <1>2, <1>11 DEF Hecho
<1>16. Contestado(n)'
  <2>1. Demas({n})'
    <3>1. Demas({n} \cup {n})'
      BY <1>1, <1>7, TocaOciosas
    <3>2. {n} \cup {n} = {n}
      OBVIOUS
    <3> QED BY <3>1, <3>2
  <2>2. \A op : Pedido(op)' = Pedido(op)
    BY DEF Pedido
  <2>3. Contestada(n, Pedido("SET"), rs)' /\ Hebra(n)'.pc = "respuesta"
    BY <1>1, <1>7, <1>3, <2>2 DEF Contestada, Encargada, Pedido
  <2>4. \/ UnaSola(rs)'
        \/ Compactan /\ Len(rs) = 2 /\ rs[1].header.id = 11 /\ rs[1].de = m /\ UnaSola(Tail(rs))'
    <3>1. CASE rs = <<final>>
      <4>1. Len(rs) = 1 /\ rs[1] = final
        BY <3>1
      <4> QED BY <1>3, <1>5, <2>2, <4>1 DEF UnaSola
    <3>2. CASE Compactan /\ rs = <<aviso, final>>
      <4>1. Len(rs) = 2 /\ rs[1] = aviso /\ Tail(rs) = <<final>>
        BY <3>2
      <4>2. Len(<<final>>) = 1 /\ <<final>>[1] = final
        OBVIOUS
      <4>3. UnaSola(<<final>>)'
        BY <1>3, <1>5, <2>2, <4>2 DEF UnaSola
      <4> QED BY <1>5, <3>2, <4>1, <4>3, SMTT(30)
    <3> QED BY <1>6, <3>1, <3>2
  <2>5. UnaSola(Tail(rs))' <=> UnaSola(Tail(rs))
    BY <2>2 DEF UnaSola
  <2> QED BY <1>1, <1>3, <1>8, <1>15, <2>1, <2>2, <2>3, <2>4, <2>5 DEF Contestado, SinPosts
<1>17. Etapa'
  BY <1>8, <1>16 DEF Etapa
<1>18. Espacios'
  <2>1. Lugar(instances[n].name)' = lugar
    <3>1. {k \in Claves : memoria'[instances[n].name][k] # Nada} = Quedan
      BY <1>2, <1>3, <1>11, DistribucionAssumption, SMTT(30) DEF Quedan, Ocupadas
    <3> QED BY <1>4, <3>1 DEF Lugar
  <2>2. Ultima(n)' = Lugar(instances[n].name)' /\ Respondiendo(n)'
    BY <1>1, <1>5, <1>6, <1>7, <1>8, <2>1 DEF Ultima, Respondiendo
  <2>3. ASSUME NEW p \in Lugares, p # n, algorithm = "LSU"
        PROVE  EspacioCierto(p)' /\ ~Respondiendo(p)'
    <3>1. instances[p].name # instances[n].name /\ instances[p].name \in Instancias
      BY <1>0, <2>3, Lugar1
    <3>2. ~Turno(p)
      BY <1>1, <3>1 DEF Turno
    <3>3. EspacioCierto(p)
      BY <1>0, <2>3, <3>2 DEF Espacios, Respondiendo
    <3>4. Lugar(instances[p].name)' = Lugar(instances[p].name)
      <4>1. memoria'[instances[p].name] = memoria[instances[p].name]
        BY <1>11, <3>1
      <4> QED BY <4>1 DEF Lugar
    <3> QED BY <1>8, <3>2, <3>3, <3>4 DEF EspacioCierto, Respondiendo
  <2> QED BY <1>8, <2>2, <2>3 DEF Espacios
<1> QED BY <1>9, <1>12, <1>13, <1>14, <1>17, <1>18 DEF Marcha

LEMMA SirveMarcha ==
  ASSUME PInv, NEW i \in Instancias, Sirve(i)
  PROVE  Marcha'
<1>0. TInv /\ Estable /\ Asignadas /\ Previsto /\ Mensaje
  BY DEF PInv, Marcha
<1>1. UNCHANGED <<instances, hilo, cliente, message, operation, tomadas, caidas, algorithm, result_instance,
                  compact>>
  BY SirveMarco DEF listas, semaforos, globales, cuentas
<1>2. PICK n \in Lugares :
        /\ instances[n].name = i /\ Atiende(i, instances[n].socket)
        /\ Linea(n).desde = <<>>
        /\ \/ Atendido(n) /\ Linea(n).hacia = <<Pedido(cliente.op)>>
           \/ /\ \E p \in Lugares \ {n} : Compactado(p, n)
              /\ Encargada(n, Pedido("COMPACT")) /\ compact = 0
  BY QuienSirve
<1>3. CASE Atendido(n) /\ Linea(n).hacia = <<Pedido(cliente.op)>>
  <2>1. Pedida(instances[n].socket) = Pedido(cliente.op)
    BY <1>3 DEF Pedida, Linea
  <2>2. Pedido(cliente.op).op = cliente.op /\ Pedido(cliente.op).clave = cliente.clave
    BY DEF Pedido
  <2>3. cliente.op # "STATUS"
    BY <1>0 DEF Mensaje
  <2>4. CASE cliente.op = "SET"
    <3>1. PICK R \in SUBSET Ocupadas(i), avisa \in BOOLEAN :
            (avisa => Compactan) /\ DiceSet(i, instances[n].socket, R, avisa)
      BY <1>2, <2>1, <2>2, <2>4 DEF Atiende
    <3> QED BY <1>1, <1>2, <1>3, <2>4, <3>1, SirveSet
  <2>5. CASE cliente.op # "SET"
    <3>1. cliente.op = "STORE" => cliente.clave \in Claves /\ memoria[i][cliente.clave] # Nada
      BY <1>0, <1>2, <1>3 DEF Atendido, Turno, Previsto, Asignadas, TInv, ClaveDelTurno
    <3>2. /\ Dice(instances[n].socket, <<Respuesta(12, 0, Pedido(cliente.op))>>)
          /\ UNCHANGED memoria
      BY <1>2, <2>1, <2>2, <2>3, <2>5, <3>1 DEF Atiende
    <3> QED BY <1>1, <1>2, <1>3, <2>5, <3>2, SirveUna
  <2> QED BY <2>4, <2>5
<1>4. CASE (\E p \in Lugares \ {n} : Compactado(p, n)) /\ Encargada(n, Pedido("COMPACT")) /\ compact = 0
  <2>1. Pedida(instances[n].socket) = Pedido("COMPACT") /\ Pedido("COMPACT").op = "COMPACT"
    BY <1>4 DEF Encargada, Pedida, Linea, Pedido
  <2>2. Dice(instances[n].socket, <<Respuesta(12, 0, Pedido("COMPACT"))>>) /\ UNCHANGED memoria
    BY <1>2, <2>1 DEF Atiende
  <2> QED BY <1>1, <1>4, <2>2, SirveCompactar
<1> QED BY <1>2, <1>3, <1>4

-----------------------------------------------------------------------------
(* The invariant.                                                          *)

LEMMA InicioPInv == Init => PInv
<1> SUFFICES ASSUME Init PROVE PInv
  OBVIOUS
<1>1. TInv
  BY InicioTInv
<1>2. Lugares = {}
  BY DEF Init, Lugares
<1>3. /\ cliente.pc = "libre" /\ cliente.op = "GET"
      /\ \A i \in Instancias : hilo[i].pc = "no" /\ \A k \in Claves : memoria[i][k] = Nada
      /\ \A s \in Sockets : fds[s] = Libre
  BY DEF Init, Ocioso, SinHilo, SinMemoria
<1>4. Estable
  BY <1>2, <1>3 DEF Estable, Init
<1>5. Asignadas /\ Previsto /\ Mensaje
  BY <1>2, <1>3 DEF Asignadas, Previsto, Mensaje, Init
<1>6. Etapa
  BY <1>2, <1>3 DEF Etapa, EnCalma, SinPosts, Demas, Init
<1>7. Espacios
  BY <1>2 DEF Espacios
<1> QED BY <1>1, <1>4, <1>5, <1>6, <1>7 DEF PInv, Marcha

LEMMA PasoPInv ==
  ASSUME Supuesto
  PROVE  PInv /\ [Next]_vars => PInv'
<1> SUFFICES ASSUME PInv, [Next]_vars PROVE PInv'
  OBVIOUS
<1>1. TInv'
  BY PasoTInv DEF PInv
<1>2. Marcha'
  <2>1. CASE UNCHANGED vars
    BY <2>1, QuietaMarcha DEF vars, PInv, listas, semaforos, globales, cuentas
  <2>2. CASE Next
    <3>1. \A i \in Instancias : ~Cae(i)
      BY DEF Cae, Supuesto, PInv, Marcha, Estable
    <3> QED BY <2>2, <3>1, PideMarcha, ClienteMarcha, HiloMarcha, AgregarMarcha, NoVuelve, SirveMarcha,
               ConectaOtroMarcha DEF Next
  <2> QED BY <2>1, <2>2
<1> QED BY <1>1, <1>2 DEF PInv

LEMMA SiemprePInv ==
  ASSUME Supuesto
  PROVE  Spec => []PInv
<1>1. PInv /\ [Next]_vars => PInv'
  BY PasoPInv
<1> QED BY <1>1, InicioPInv, PTL DEF Spec

-----------------------------------------------------------------------------
(* Requests and answers.                                                   *)

LEMMA PInvEnDestino == PInv => PedidoEnDestino
<1> SUFFICES ASSUME PInv, NEW s \in Sockets, fds[s] # Libre, NEW x \in DOMAIN fds[s].hacia,
                    fds[s].hacia[x].op # "COMPACT"
             PROVE  /\ cliente.pc = "espera" /\ fds[s].de = cliente.elegida
                    /\ fds[s].hacia[x].clave = cliente.clave
  BY DEF PedidoEnDestino
<1>1. Estable
  BY DEF PInv, Marcha
<1>2. fds[s].hacia # <<>>
  OBVIOUS
<1>3. PICK n \in Lugares : instances[n].socket = s
  BY <1>1, <1>2 DEF Estable
<1>4. Linea(n) = fds[s] /\ fds[s].de = instances[n].name
  BY <1>1, <1>3 DEF Estable, EnPie, Linea
<1>5. \/ Atendido(n) /\ fds[s].hacia = <<Pedido(cliente.op)>>
      \/ fds[s].hacia = <<Pedido("COMPACT")>>
  BY <1>2, <1>4, QuienTiene DEF Encargada
<1>6. CASE Atendido(n) /\ fds[s].hacia = <<Pedido(cliente.op)>>
  <2>1. fds[s].hacia[x] = Pedido(cliente.op)
    BY <1>6
  <2> QED BY <1>4, <1>6, <2>1 DEF Atendido, Turno, Pedido
<1>7. CASE fds[s].hacia = <<Pedido("COMPACT")>>
  <2>1. fds[s].hacia[x] = Pedido("COMPACT")
    BY <1>7
  <2> QED BY <2>1 DEF Pedido
<1> QED BY <1>5, <1>6, <1>7

\* An answer in a stream is to the request that its thread waits on.
LEMMA QuienContesto ==
  ASSUME PInv, NEW n \in Lugares, Hebra(n).pc = "respuesta", Linea(n).desde # <<>>
  PROVE  \/ Hebra(n).op = cliente.op /\ Linea(n).desde[1].de = Pedido(cliente.op)
         \/ Hebra(n).op = "COMPACT" /\ Linea(n).desde[1].de = Pedido("COMPACT")
<1>1. ~Muda(n) /\ ~Ociosa(n)
  BY DEF Muda, Ociosa
<1>2. /\ ~Enviado(n) /\ ~Atendido(n) /\ ~Filtrado(n)
      /\ \A o \in Lugares \ {n} : ~Compactado(n, o)
  BY <1>1 DEF Enviado, Avisada, Atendido, Encargada, Filtrado, Compactado
<1>3. Contestado(n) \/ OtraCompacta(n)
  BY <1>1, <1>2, Trabaja DEF PInv, Marcha
<1>4. CASE Contestado(n)
  BY <1>4 DEF Contestado, Contestada, UnaSola, Pedido
<1>5. CASE OtraCompacta(n)
  <2>1. ~Avisada(n) /\ ~Encargada(n, Pedido("COMPACT"))
    BY <1>1 DEF Avisada, Encargada
  <2> QED BY <1>1, <1>5, <2>1 DEF OtraCompacta, Contestada, Pedido
<1> QED BY <1>3, <1>4, <1>5

LEMMA PInvRespuesta == PInv => RespuestaDelPedido
<1> SUFFICES ASSUME PInv, NEW i \in Instancias, Leida(i)
             PROVE  /\ Head(fds[hilo[i].socket].desde).de.op = hilo[i].op
                    /\ hilo[i].op # "COMPACT" => Head(fds[hilo[i].socket].desde).de.clave = cliente.clave
  BY DEF RespuestaDelPedido
<1>0. TInv /\ Estable
  BY DEF PInv, Marcha
<1>1. hilo[i].pc = "respuesta" /\ fds[hilo[i].socket].desde # <<>>
  BY DEF Leida
<1>2. PICK n \in Lugares : hilo[i] = Hebra(n) /\ fds[hilo[i].socket] = Linea(n)
  BY <1>0, <1>1, LugarDelHilo
<1>3. Linea(n).desde \in Seq(Contestacion)
  BY <1>0, Lugar1 DEF Enlace
<1>4. Head(Linea(n).desde) = Linea(n).desde[1]
  BY <1>1, <1>2, <1>3
<1>5. \/ Hebra(n).op = cliente.op /\ Linea(n).desde[1].de = Pedido(cliente.op)
      \/ Hebra(n).op = "COMPACT" /\ Linea(n).desde[1].de = Pedido("COMPACT")
  BY <1>1, <1>2, QuienContesto
<1> QED BY <1>2, <1>4, <1>5 DEF Pedido

LEMMA PInvUna == PInv => UnaRespuestaPorPedido
<1> SUFFICES ASSUME PInv
             PROVE  /\ result_instance > 0 => cliente.pc = "espera" /\ result_instance = 1
                    /\ cliente.pc = "libre" => Trabajando = {}
  BY DEF UnaRespuestaPorPedido
<1>0. Etapa
  BY DEF PInv, Marcha
<1>1. \A n \in Lugares :
        /\ Enviado(n) \/ Atendido(n) \/ Contestado(n) \/ Filtrado(n) => result_instance = 0
        /\ Terminado(n) => cliente.pc = "espera" /\ result_instance = 1
        /\ \A o \in Lugares \ {n} : Compactado(n, o) => result_instance = 0
  BY DEF Enviado, Atendido, Contestado, Filtrado, Terminado, Compactado, SinPosts, Turno
<1>2. EnCalma => result_instance = 0
  BY DEF EnCalma, SinPosts
<1>3. result_instance > 0 => cliente.pc = "espera" /\ result_instance = 1
  BY <1>0, <1>1, <1>2 DEF Etapa
<1>4. ASSUME cliente.pc = "libre" PROVE Trabajando = {}
  BY <1>0, <1>4, SinTurno DEF EnCalma, Demas, Ociosa, Hebra, Trabajando
<1> QED BY <1>3, <1>4

\* A request on its way is at the Instance that was chosen for it, with the key
\* of the turn: host_instance reads operation and message when it wakes up, and
\* they are still those of the request it was woken for.
THEOREM EnDestino ==
  ASSUME Supuesto
  PROVE  Spec => []PedidoEnDestino
BY SiemprePInv, PInvEnDestino, PTL

\* The header that a host_instance thread takes for its answer was sent in
\* answer to its request, compactions included.
THEOREM RespuestaPropia ==
  ASSUME Supuesto
  PROVE  Spec => []RespuestaDelPedido
BY SiemprePInv, PInvRespuesta, PTL

\* result_instance is posted once for each request; when the ESI has been
\* answered no host_instance thread is at work.
THEOREM UnaPorPedido ==
  ASSUME Supuesto
  PROVE  Spec => []UnaRespuestaPorPedido
BY SiemprePInv, PInvUna, PTL

-----------------------------------------------------------------------------
(* What a step may do.                                                     *)

\* Only the client itself and a new request change the turn.
LEMMA MueveElTurno ==
  ASSUME PInv, Supuesto, Next, cliente' # cliente
  PROVE  PasoCliente \/ \E op \in Operaciones, k \in Claves, v \in Valores : Pide(op, k, v)
<1>1. ASSUME NEW i \in Instancias, PasoHilo(i) PROVE cliente' = cliente
  BY <1>1 DEF PasoHilo, Despertar, RecibirRespuesta, RecibirCompactado, RecibirCompactar, RecibirFin,
     DescontarHilo, Filtrar, PedirCompactar, EsperarCompactado
<1>2. ASSUME NEW i \in Instancias, AgregarInstancia(i) \/ VuelveInstancia(i) \/ Cae(i) PROVE cliente' = cliente
  BY <1>2 DEF AgregarInstancia, VuelveInstancia, Cae
<1>3. ConectaOtro => cliente' = cliente
  BY DEF ConectaOtro
<1> QED BY <1>1, <1>2, <1>3, SirveMarco DEF Next

LEMMA PasoConfirmado ==
  ASSUME PInv, Confirmar, cliente.op = "SET"
  PROVE  \E i \in Instancias : memoria[i][cliente.clave] = cliente.valor
<1>1. PICK n \in Lugares : Terminado(n)
  BY QuienTermina
<1>2. memoria[instances[n].name][cliente.clave] = cliente.valor
  BY <1>1 DEF Terminado, Hecho
<1>3. instances[n].name \in Instancias
  BY Lugar1 DEF PInv, Marcha
<1> QED BY <1>2, <1>3

\* The Instance with the key holds its value.
LEMMA PasoStore ==
  ASSUME PInv, Supuesto, Next, cliente.pc = "STORE", cliente'.pc = "espera"
  PROVE  memoria[cliente'.elegida][cliente.clave] # Nada
<1>0. TInv /\ Estable /\ Asignadas /\ Previsto /\ Mensaje
  BY DEF PInv, Marcha
<1>1. PasoCliente
  <2>1. cliente' # cliente /\ cliente.pc # "libre"
    OBVIOUS
  <2> QED BY <2>1, MueveElTurno DEF Pide, En
<1>2. GuardarEnInstancia
  <2>1. ~Abortar
    <3>1. Abortar => cliente' = Ocioso
      BY DEF Abortar
    <3> QED BY <3>1, OciosoEsCliente
  <2>2. ~AsignarConocida /\ ~TomarInstancia /\ ~Elegir /\ ~Confirmar
    BY DEF AsignarConocida, TomarInstancia, Elegir, Confirmar, En
  <2>3. ~ConsultarEstado /\ ~SimularAsignacion /\ ~SinElegida /\ ~DescontarCliente
    BY DEF ConsultarEstado, SimularAsignacion, SinElegida, DescontarCliente, En
  <2> QED BY <1>1, <2>1, <2>2, <2>3 DEF PasoCliente
<1>3. Destino \in Lugares /\ Anotada(Destino, cliente.clave)
  BY DestinoTiene
<1>4. Mandar(Destino)
  BY <1>2, <1>3, EnPieSiempre, <1>0 DEF GuardarEnInstancia
<1>5. cliente'.elegida = instances[Destino].name
  <2>1. cliente \in Cliente
    BY <1>0, Tipadas
  <2> QED BY <1>4, <2>1 DEF Mandar, Cliente
<1>6. cliente.op = "STORE" /\ cliente.clave \in Claves
  BY <1>0 DEF Mensaje, TInv, ClaveDelTurno
<1>7. PICK n \in Lugares : Anotada(n, cliente.clave) /\ memoria[instances[n].name][cliente.clave] # Nada
  BY <1>0, <1>6 DEF Previsto
<1>8. n = Destino
  BY <1>0, <1>3, <1>6, <1>7 DEF Asignadas
<1> QED BY <1>5, <1>7, <1>8

\* With the free space as it is when nobody is at work, the one with the most
\* has the most room.
LEMMA PasoLsu ==
  ASSUME PInv, Supuesto, Next, Capacidad <= 999, algorithm = "LSU", cliente.pc = "elegir",
         cliente'.pc = "espera", NEW m \in Activos(instances)
  PROVE  Lugar(instances[m].name) <= Lugar(cliente'.elegida)
<1>0. TInv /\ Estable /\ Espacios /\ Etapa
  BY DEF PInv, Marcha
<1>1. PasoCliente
  BY MueveElTurno DEF Pide, En
<1>2. Elegir
  BY <1>1 DEF PasoCliente, AsignarConocida, TomarInstancia, GuardarEnInstancia, ConsultarEstado,
     SimularAsignacion, SinElegida, DescontarCliente, Confirmar, En, Abortar, Ocioso
<1> DEFINE n == choose_instance(FALSE).elegida
<1>3. n \in Lugares
  BY <1>0, <1>2, ElegidaEnLista DEF TInv, Elegir
<1>4. cliente'.elegida = instances[n].name
  <2>1. cliente \in Cliente
    BY <1>0, Tipadas
  <2> QED BY <1>0, <1>2, <1>3, <2>1, EnPieSiempre DEF Elegir, Cliente
<1>5. instances[m].free_space <= instances[n].free_space
  <2>1. choose_instance(FALSE) = choose_by_space(FALSE)
    BY DEF choose_instance
  <2> QED BY <1>0, <2>1, Tipadas, LsuEnLista DEF TInv, TypeOK
<1> HIDE DEF n
<1>6. m \in Lugares
  BY DEF Activos, Lugares
<1>7. EspacioCierto(m) /\ EspacioCierto(n)
  BY <1>0, <1>3, <1>6, SinTurno, EnSilencio DEF EnCalma
<1>8. \A p \in Lugares : Lugar(instances[p].name) \in Int /\ Lugar(instances[p].name) <= Capacidad
  <2> SUFFICES ASSUME NEW p \in Lugares
               PROVE  Lugar(instances[p].name) \in Int /\ Lugar(instances[p].name) <= Capacidad
    OBVIOUS
  <2>1. instances[p].name \in Instancias
    BY <1>0, Lugar1
  <2>2. IsFiniteSet(Ocupadas(instances[p].name))
    BY <1>0, <2>1 DEF TInv, Caben
  <2> QED BY <2>2, FS_CardinalityType, DistribucionAssumption DEF Lugar, Ocupadas
<1> QED BY <1>3, <1>4, <1>5, <1>6, <1>7, <1>8, DistribucionAssumption DEF EspacioCierto

LEMMA PasoCompactaron ==
  ASSUME PInv, NEW i \in Instancias, EsperarCompactado(i), NEW m \in hilo[i].lista
  PROVE  instances[m].start = 0 /\ hilo[instances[m].name].pc = "start"
<1>1. hilo[i].pc = "compactando" /\ compact > 0
  BY DEF EsperarCompactado, HiloEn
<1>2. PICK n \in Lugares : instances[n].name = i /\ hilo[i] = Hebra(n) /\ hilo[i].socket = instances[n].socket
  BY <1>1, LugarDelHilo DEF PInv, Marcha
<1>3. PICK o \in Lugares \ {n} : Compactado(n, o)
  BY <1>1, <1>2, LugarDeHebra
<1>4. compact = 1 /\ Ociosa(o) /\ hilo[i].lista = {o}
  BY <1>1, <1>2, <1>3 DEF Compactado, OtraCompacta
<1> QED BY <1>4 DEF Ociosa, Hebra

\* operation_set answers the ESI when the Instance has the value.
THEOREM Confirmado ==
  ASSUME Supuesto
  PROVE  Spec => ConfirmadoGuardado
<1>1. PInv /\ [Next]_vars =>
        [cliente.op = "SET" /\ Confirmar =>
           \E i \in Instancias : memoria[i][cliente.clave] = cliente.valor]_vars
  BY PasoConfirmado
<1> QED BY <1>1, SiemprePInv, PTL DEF Spec, ConfirmadoGuardado

\* save_on_instance sends a STORE to the Instance that has the key and its value.
THEOREM StoreAcierta ==
  ASSUME Supuesto
  PROVE  Spec => StoreDondeEsta
<1>1. PInv /\ [Next]_vars =>
        [cliente.pc = "STORE" /\ cliente'.pc = "espera" =>
           \/ memoria[cliente'.elegida][cliente.clave] # Nada
           \/ \A i \in Instancias : memoria[i][cliente.clave] = Nada]_vars
  BY PasoStore
<1> QED BY <1>1, SiemprePInv, PTL DEF Spec, StoreDondeEsta

\* LSU: the free_space of the list is good enough to choose by, as long as the
\* 999 an Instance starts with is not less than what it can hold.
THEOREM LsuAcierta ==
  ASSUME Supuesto, Capacidad <= 999
  PROVE  Spec => LsuEligeMasLugar
<1>1. PInv /\ [Next]_vars =>
        [algorithm = "LSU" /\ cliente.pc = "elegir" /\ cliente'.pc = "espera" =>
           \A n \in Activos(instances) : Lugar(instances[n].name) <= Lugar(cliente'.elegida)]_vars
  BY PasoLsu
<1> QED BY <1>1, SiemprePInv, PTL DEF Spec, LsuEligeMasLugar

\* initiate_compactation goes on when the Instance it woke has compacted.
THEOREM CompactaronTodos ==
  ASSUME Supuesto
  PROVE  Spec => TodosCompactaron
<1>1. PInv /\ [Next]_vars =>
        [SinVueltas /\ SocketsDistintos => \A i \in Instancias : EsperarCompactado(i) =>
           \A n \in hilo[i].lista : instances[n].start = 0 /\ hilo[instances[n].name].pc = "start"]_vars
  BY PasoCompactaron
<1> QED BY <1>1, SiemprePInv, PTL DEF Spec, TodosCompactaron

-----------------------------------------------------------------------------
(* All the Instances together are one store.                               *)

\* What the store has for each key.
Guardados == [k \in Claves |-> Guardado(k)]

\* The value of a key is the one that an Instance holds, and one at most does.
UnDueno ==
  \A k \in Claves :
    /\ Guardado(k) # Nada => \E i \in Instancias : memoria[i][k] = Guardado(k)
    /\ \A i \in Instancias : memoria[i][k] # Nada =>
         /\ Guardado(k) = memoria[i][k]
         /\ \A j \in Instancias : memoria[j][k] # Nada => j = i

LEMMA QueGuarda == PInv => UnDueno
<1> SUFFICES ASSUME PInv, NEW k \in Claves
             PROVE  /\ Guardado(k) # Nada => \E i \in Instancias : memoria[i][k] = Guardado(k)
                    /\ \A i \in Instancias : memoria[i][k] # Nada =>
                         /\ Guardado(k) = memoria[i][k]
                         /\ \A j \in Instancias : memoria[j][k] # Nada => j = i
  BY DEF UnDueno
<1>0. TInv /\ Estable /\ Asignadas
  BY DEF PInv, Marcha
<1>1. instances \in Seq(instance_t)
  BY <1>0, Tipadas
<1>2. ASSUME Guardado(k) # Nada PROVE \E i \in Instancias : memoria[i][k] = Guardado(k)
  <2>1. find_by_key(k) # 0 /\ Guardado(k) = memoria[instances[find_by_key(k)].name][k]
    BY <1>2 DEF Guardado
  <2>2. instances[find_by_key(k)].name \in Instancias
    BY <1>0, <1>1, <2>1, HallaClave, Lugar1
  <2> QED BY <2>1, <2>2
<1>3. ASSUME NEW i \in Instancias, memoria[i][k] # Nada
      PROVE  /\ Guardado(k) = memoria[i][k]
             /\ \A j \in Instancias : memoria[j][k] # Nada => j = i
  <2>1. PICK n \in Lugares : instances[n].name = i /\ Anotada(n, k)
    BY <1>0, <1>3 DEF Asignadas
  <2>2. find_by_key(k) # 0 /\ find_by_key(k) \in Lugares /\ Anotada(find_by_key(k), k)
    BY <1>1, <2>1, HallaClave
  <2>3. find_by_key(k) = n
    BY <1>0, <2>1, <2>2 DEF Asignadas
  <2>4. Guardado(k) = memoria[i][k]
    BY <2>1, <2>2, <2>3 DEF Guardado
  <2>5. ASSUME NEW j \in Instancias, memoria[j][k] # Nada PROVE j = i
    <3>1. PICK p \in Lugares : instances[p].name = j /\ Anotada(p, k)
      BY <1>0, <2>5 DEF Asignadas
    <3> QED BY <1>0, <2>1, <3>1 DEF Asignadas
  <2> QED BY <2>4, <2>5
<1> QED BY <1>2, <1>3

LEMMA GuardadosQuedan ==
  ASSUME PInv, PInv', UNCHANGED memoria
  PROVE  Guardados' = Guardados /\ \A k \in Claves : Guardado(k)' = Guardado(k)
<1>1. UnDueno /\ UnDueno'
  <2>1. (PInv => UnDueno)'
    BY QueGuarda, PTL
  <2> QED BY <2>1, QueGuarda
<1>2. ASSUME NEW k \in Claves PROVE Guardado(k)' = Guardado(k)
  BY <1>1 DEF UnDueno
<1> QED BY <1>2 DEF Guardados

LEMMA AlmacenInicia ==
  ASSUME Init
  PROVE  Tienda!Init
<1>1. \A k \in Claves : Guardado(k) = Nada
  <2>1. \A k \in Claves, i \in Instancias : memoria[i][k] = Nada
    BY DEF Init, SinMemoria
  <2> QED BY <2>1, InicioPInv, QueGuarda DEF UnDueno
<1>2. EnCurso = Nada
  BY DEF EnCurso, Init, Ocioso
<1> QED BY <1>1, <1>2 DEF Tienda!Init

\* What the store has been asked to keep and has not got.
Pendientes ==
  /\ cliente.op # "SET" \/ cliente.pc = "libre" => EnCurso = Nada
  /\ \A k \in Claves : cliente.clave = k /\ cliente.op = "SET" /\ cliente.pc # "libre" =>
       EnCurso = IF Guardado(k) = Nada THEN [clave |-> k, valor |-> cliente.valor] ELSE Nada

LEMMA QueFalta == Pendientes
BY DEF Pendientes, EnCurso

\* A step that leaves the values and the request in service alone.
LEMMA EnCursoQueda ==
  ASSUME PInv, PInv', UNCHANGED memoria, cliente'.op = cliente.op, cliente'.clave = cliente.clave,
         cliente'.valor = cliente.valor, cliente'.pc = "libre" <=> cliente.pc = "libre"
  PROVE  Guardados' = Guardados /\ EnCurso' = EnCurso
<1>1. Guardados' = Guardados /\ \A k \in Claves : Guardado(k)' = Guardado(k)
  BY GuardadosQuedan
<1>2. Pendientes /\ Pendientes'
  BY QueFalta, PTL
<1>3. cliente.pc # "libre" => cliente.clave \in Claves
  BY DEF PInv, TInv, ClaveDelTurno
<1>4. CASE cliente.op # "SET" \/ cliente.pc = "libre"
  BY <1>1, <1>2, <1>4 DEF Pendientes
<1>5. CASE cliente.op = "SET" /\ cliente.pc # "libre"
  <2>1. PICK k \in Claves : k = cliente.clave
    BY <1>3, <1>5
  <2> QED BY <1>1, <1>2, <1>5, <2>1 DEF Pendientes
<1> QED BY <1>1, <1>4, <1>5

\* A SET of a key without a value is asked of the store when the turn begins.
LEMMA AlmacenPide ==
  ASSUME PInv, PInv', NEW op \in Operaciones, NEW k \in Claves, NEW v \in Valores, Pide(op, k, v)
  PROVE  /\ Guardados' = Guardados /\ EnCurso = Nada
         /\ EnCurso' = Nada \/ (Guardado(k) = Nada /\ EnCurso' = [clave |-> k, valor |-> v])
<1>1. Guardados' = Guardados /\ Guardado(k)' = Guardado(k)
  BY GuardadosQuedan DEF Pide
<1>2. Pendientes /\ Pendientes'
  BY QueFalta, PTL
<1>3. cliente.pc = "libre" /\ cliente'.clave = k /\ cliente'.op = op /\ (op = "SET" => cliente'.valor = v)
  <2>1. cliente \in Cliente
    BY Tipadas DEF PInv
  <2> QED BY <2>1 DEF Pide, En, Cliente
<1> QED BY <1>1, <1>2, <1>3 DEF Pendientes

LEMMA AlmacenCliente ==
  ASSUME PInv, PInv', PasoCliente
  PROVE  Guardados' = Guardados /\ EnCurso' = EnCurso
<1>0. TInv /\ Estable /\ Mensaje /\ cliente \in Cliente
  BY Tipadas DEF PInv, Marcha
<1>1. ~Abortar
  BY <1>0, DestinoTiene DEF Abortar, En, Mensaje
<1>2. ~ConsultarEstado /\ ~SimularAsignacion /\ ~DescontarCliente
  BY <1>0 DEF Mensaje, ConsultarEstado, SimularAsignacion, DescontarCliente, En
<1>3. CASE Confirmar
  <2>1. Guardados' = Guardados
    BY <1>3, GuardadosQuedan DEF Confirmar
  <2>2. Pendientes /\ Pendientes' /\ UnDueno
    BY QueFalta, QueGuarda, PTL
  <2>3. cliente'.pc = "libre"
    BY <1>3, OciosoEsCliente DEF Confirmar
  <2>4. cliente.op = "SET" /\ cliente.pc # "libre" => Guardado(cliente.clave) # Nada
    <3>1. SUFFICES ASSUME cliente.op = "SET", cliente.pc # "libre" PROVE Guardado(cliente.clave) # Nada
      OBVIOUS
    <3>2. cliente.clave \in Claves /\ cliente.valor \in Valores
      BY <1>0, <3>1 DEF TInv, ClaveDelTurno, Mensaje
    <3>3. \E i \in Instancias : memoria[i][cliente.clave] = cliente.valor
      BY <1>3, <3>1, PasoConfirmado
    <3> QED BY <2>2, <3>2, <3>3, DistribucionAssumption DEF UnDueno
  <2>5. EnCurso = Nada
    <3>1. cliente.pc # "libre" => cliente.clave \in Claves
      BY <1>0 DEF TInv, ClaveDelTurno
    <3> QED BY <2>2, <2>4, <3>1 DEF Pendientes
  <2> QED BY <2>1, <2>2, <2>3, <2>5 DEF Pendientes
<1>4. CASE SinElegida
  BY <1>4, EnCursoQueda DEF SinElegida
<1>5. CASE TomarInstancia
  <2>1. cliente'.pc = "elegir" /\ cliente.pc # "libre" /\ UNCHANGED memoria /\ cliente'.op = cliente.op
        /\ cliente'.clave = cliente.clave /\ cliente'.valor = cliente.valor
    BY <1>0, <1>5 DEF TomarInstancia, En, Va, Cliente
  <2> QED BY <2>1, EnCursoQueda
<1>6. CASE AsignarConocida \/ Elegir \/ GuardarEnInstancia
  <2>1. cliente.pc # "libre" /\ UNCHANGED memoria
    BY <1>6 DEF AsignarConocida, Elegir, GuardarEnInstancia, En
  <2>2. /\ cliente'.pc # "libre" /\ cliente'.op = cliente.op /\ cliente'.clave = cliente.clave
        /\ cliente'.valor = cliente.valor
    BY <1>0, <1>6 DEF AsignarConocida, Elegir, GuardarEnInstancia, Mandar, Perdida, Cliente
  <2> QED BY <2>1, <2>2, EnCursoQueda
<1> QED BY <1>1, <1>2, <1>3, <1>4, <1>5, <1>6 DEF PasoCliente

\* A SET is kept: a key with a value gets the new one, one without a value is
\* kept and others may be replaced.
LEMMA AlmacenGuarda ==
  ASSUME PInv, PInv', NEW n \in Lugares, Atendido(n), Linea(n).hacia = <<Pedido(cliente.op)>>,
         cliente.op = "SET", NEW R \in SUBSET Ocupadas(instances[n].name), NEW avisa,
         DiceSet(instances[n].name, instances[n].socket, R, avisa), UNCHANGED cliente
  PROVE  \E k \in Claves, v \in Valores :
           /\ EnCurso' = Nada
           /\ \/ EnCurso = Nada /\ Guardado(k) # Nada /\ Guardados' = [Guardados EXCEPT ![k] = v]
              \/ /\ EnCurso = [clave |-> k, valor |-> v] /\ k \notin R
                 /\ \A c \in R : c \in Claves /\ Guardado(c) # Nada
                 /\ Guardados' = [c \in Claves |-> IF c = k THEN v ELSE IF c \in R THEN Nada ELSE Guardado(c)]
<1>0. TInv /\ Estable /\ Asignadas /\ Mensaje /\ Turno(n)
  BY DEF PInv, Marcha, Atendido
<1>1. PICK i \in Instancias : i = instances[n].name
  BY <1>0, Lugar1
<1>2. PICK k \in Claves, v \in Valores :
        k = cliente.clave /\ v = cliente.valor /\ v = message.value /\ v # Nada /\ Anotada(n, k)
  BY <1>0, DistribucionAssumption DEF TInv, ClaveDelTurno, Mensaje, Turno
<1>3. Pedida(instances[n].socket) = [op |-> "SET", clave |-> k, valor |-> v]
  BY <1>2 DEF Pedida, Linea, Pedido
<1>4. /\ k \notin R
      /\ memoria[i][k] # Nada => R = {}
  BY <1>1, <1>2, <1>3 DEF DiceSet
<1>5. /\ \A c \in Claves : memoria'[i][c] = IF c = k THEN v ELSE IF c \in R THEN Nada ELSE memoria[i][c]
      /\ \A j \in Instancias \ {i}, c \in Claves : memoria'[j][c] = memoria[j][c]
  <2>1. memoria' = [memoria EXCEPT ![i] = Guarda(i, [op |-> "SET", clave |-> k, valor |-> v], R)]
    BY <1>1, <1>3 DEF DiceSet
  <2>2. memoria \in [Instancias -> [Claves -> Valores \cup {Nada}]]
    BY <1>0 DEF TInv, TypeOK
  <2> QED BY <2>1, <2>2 DEF Guarda
<1>6. UnDueno /\ UnDueno' /\ Pendientes /\ Pendientes'
  <2>1. (PInv => UnDueno)' /\ Pendientes'
    BY QueGuarda, QueFalta, PTL
  <2> QED BY <2>1, QueGuarda, QueFalta
<1>7. \A j \in Instancias, c \in Claves : memoria[j][c] # Nada /\ Anotada(n, c) => j = i
  BY <1>0, <1>1 DEF Asignadas
<1>8. R \in SUBSET Claves /\ \A c \in R : memoria[i][c] # Nada /\ Guardado(c) = memoria[i][c]
  BY <1>1, <1>6 DEF Ocupadas, UnDueno
<1>9. Guardado(k) = memoria[i][k]
  BY <1>1, <1>2, <1>6, <1>7 DEF UnDueno
<1>10. \A c \in Claves : Guardado(c)' = IF c = k THEN v ELSE IF c \in R THEN Nada ELSE Guardado(c)
  <2> SUFFICES ASSUME NEW c \in Claves
               PROVE  Guardado(c)' = IF c = k THEN v ELSE IF c \in R THEN Nada ELSE Guardado(c)
    OBVIOUS
  <2>1. CASE c = k
    BY <1>2, <1>5, <1>6, <2>1 DEF UnDueno
  <2>2. CASE c # k /\ c \in R
    <3>1. \A j \in Instancias : memoria'[j][c] = Nada
      BY <1>5, <1>6, <1>8, <2>2 DEF UnDueno
    <3> QED BY <1>6, <2>2, <3>1 DEF UnDueno
  <2>3. CASE c # k /\ c \notin R
    <3>1. \A j \in Instancias : memoria'[j][c] = memoria[j][c]
      BY <1>5, <2>3
    <3> QED BY <1>6, <2>3, <3>1 DEF UnDueno
  <2> QED BY <2>1, <2>2, <2>3
<1>11. cliente.pc # "libre" /\ cliente.clave = k /\ cliente.valor = v
  BY <1>0, <1>2 DEF Turno
<1>12. EnCurso' = Nada
  <2>1. Guardado(k)' # Nada
    BY <1>2, <1>10
  <2> QED BY <1>6, <1>11, <2>1 DEF Pendientes
<1>13. Guardados' = [c \in Claves |-> IF c = k THEN v ELSE IF c \in R THEN Nada ELSE Guardado(c)]
  BY <1>10 DEF Guardados
<1>14. CASE Guardado(k) # Nada
  <2>1. EnCurso = Nada
    BY <1>6, <1>11, <1>14 DEF Pendientes
  <2>2. R = {}
    BY <1>4, <1>9, <1>14
  <2>3. Guardados' = [Guardados EXCEPT ![k] = v]
    BY <1>13, <2>2 DEF Guardados
  <2> QED BY <1>12, <1>14, <2>1, <2>3
<1>15. CASE Guardado(k) = Nada
  <2>1. EnCurso = [clave |-> k, valor |-> v]
    BY <1>6, <1>11, <1>15 DEF Pendientes
  <2> QED BY <1>4, <1>8, <1>12, <1>13, <2>1
<1> QED BY <1>14, <1>15

LEMMA AlmacenSirve ==
  ASSUME PInv, PInv', NEW i \in Instancias, Sirve(i)
  PROVE  [Tienda!Next]_<<Guardados, EnCurso>>
<1>0. Mensaje
  BY DEF PInv, Marcha
<1>1. UNCHANGED cliente
  BY SirveMarco
<1>2. PICK n \in Lugares :
        /\ instances[n].name = i /\ Atiende(i, instances[n].socket)
        /\ \/ Atendido(n) /\ Linea(n).hacia = <<Pedido(cliente.op)>>
           \/ Encargada(n, Pedido("COMPACT"))
  BY QuienSirve
<1>3. CASE UNCHANGED memoria
  BY <1>1, <1>3, EnCursoQueda
<1>4. CASE memoria' # memoria
  <2>1. Pedida(instances[n].socket).op = "SET"
    BY <1>2, <1>4 DEF Atiende
  <2>2. Atendido(n) /\ Linea(n).hacia = <<Pedido(cliente.op)>> /\ cliente.op = "SET"
    BY <1>2, <2>1 DEF Encargada, Pedida, Linea, Pedido
  <2>3. PICK R \in SUBSET Ocupadas(i), avisa \in BOOLEAN : DiceSet(i, instances[n].socket, R, avisa)
    BY <1>2, <1>4 DEF Atiende
  <2>4. PICK k \in Claves, v \in Valores :
          /\ EnCurso' = Nada
          /\ \/ EnCurso = Nada /\ Guardado(k) # Nada /\ Guardados' = [Guardados EXCEPT ![k] = v]
             \/ /\ EnCurso = [clave |-> k, valor |-> v] /\ k \notin R
                /\ \A c \in R : c \in Claves /\ Guardado(c) # Nada
                /\ Guardados' = [c \in Claves |-> IF c = k THEN v ELSE IF c \in R THEN Nada ELSE Guardado(c)]
    BY <1>1, <1>2, <2>2, <2>3, AlmacenGuarda
  <2>5. CASE EnCurso = Nada /\ Guardado(k) # Nada /\ Guardados' = [Guardados EXCEPT ![k] = v]
    <3>1. Tienda!Cambiar(k, v)
      BY <2>4, <2>5 DEF Tienda!Cambiar, Guardados
    <3> QED BY <3>1 DEF Tienda!Next
  <2>6. CASE /\ EnCurso = [clave |-> k, valor |-> v] /\ k \notin R
             /\ \A c \in R : c \in Claves /\ Guardado(c) # Nada
             /\ Guardados' = [c \in Claves |-> IF c = k THEN v ELSE IF c \in R THEN Nada ELSE Guardado(c)]
    <3>1. EnCurso # Nada /\ EnCurso.clave = k /\ EnCurso.valor = v
      BY <2>6, DistribucionAssumption
    <3>2. R \in SUBSET (Tienda!Presentes \ {k})
      BY <2>6 DEF Tienda!Presentes
    <3>3. Guardados' = [Tienda!Sin(R) EXCEPT ![k] = v]
      BY <2>6 DEF Tienda!Sin, Guardados
    <3>4. Tienda!Guardar
      BY <2>4, <3>1, <3>2, <3>3 DEF Tienda!Guardar, Guardados
    <3> QED BY <3>4 DEF Tienda!Next
  <2> QED BY <2>4, <2>5, <2>6
<1> QED BY <1>3, <1>4

\* Every step of the Coordinador and the Instances is one of the store's, or none.
LEMMA AlmacenPaso ==
  ASSUME PInv, PInv', Supuesto, Next
  PROVE  [Tienda!Next]_<<Guardados, EnCurso>>
<1>1. ASSUME NEW op \in Operaciones, NEW k \in Claves, NEW v \in Valores, Pide(op, k, v)
      PROVE  [Tienda!Next]_<<Guardados, EnCurso>>
  <2>1. CASE EnCurso' = Nada
    BY <1>1, <2>1, AlmacenPide
  <2>2. CASE Guardado(k) = Nada /\ EnCurso' = [clave |-> k, valor |-> v]
    <3>1. Tienda!Pedir(k, v)
      BY <1>1, <2>2, AlmacenPide DEF Tienda!Pedir, Guardados
    <3> QED BY <3>1 DEF Tienda!Next
  <2> QED BY <1>1, <2>1, <2>2, AlmacenPide
<1>2. CASE PasoCliente
  BY <1>2, AlmacenCliente
<1>3. ASSUME NEW i \in Instancias, Sirve(i) PROVE [Tienda!Next]_<<Guardados, EnCurso>>
  BY <1>3, AlmacenSirve
<1>4. ASSUME UNCHANGED <<cliente, memoria>> PROVE UNCHANGED <<Guardados, EnCurso>>
  BY <1>4, EnCursoQueda
<1>5. ASSUME NEW i \in Instancias, PasoHilo(i) \/ AgregarInstancia(i) \/ VuelveInstancia(i)
      PROVE  UNCHANGED <<cliente, memoria>>
  BY <1>5 DEF PasoHilo, Despertar, RecibirRespuesta, RecibirCompactado, RecibirCompactar, RecibirFin,
     DescontarHilo, Filtrar, PedirCompactar, EsperarCompactado, AgregarInstancia, VuelveInstancia
<1>6. \A i \in Instancias : ~Cae(i)
  BY DEF Cae, Supuesto, PInv, Marcha, Estable
<1>7. CASE ConectaOtro
  BY <1>4, <1>7 DEF ConectaOtro
<1> QED BY <1>1, <1>2, <1>3, <1>4, <1>5, <1>6, <1>7 DEF Next

\* All the Instances together are one store: it gives for a key the last value
\* set, or none when the Instance replaced it.
THEOREM UnSoloAlmacen ==
  ASSUME Supuesto
  PROVE  Spec => EsUnAlmacen
<1>1. Init => Tienda!Init
  BY AlmacenInicia
<1>2. PInv /\ PInv' /\ [Next]_vars => [Tienda!Next]_(Tienda!vars)
  <2> SUFFICES ASSUME PInv, PInv', [Next]_vars PROVE [Tienda!Next]_(Tienda!vars)
    OBVIOUS
  <2>1. CASE Next
    BY <2>1, AlmacenPaso DEF Tienda!vars, Guardados
  <2>2. CASE UNCHANGED vars
    BY <2>2, EnCursoQueda DEF vars, Tienda!vars, Guardados
  <2> QED BY <2>1, <2>2
<1> QED BY <1>1, <1>2, SiemprePInv, PTL DEF Spec, EsUnAlmacen, Tienda!Spec
=============================================================================
