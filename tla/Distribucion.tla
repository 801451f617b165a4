---------------------------- MODULE Distribucion ----------------------------
(***************************************************************************)
(* The Coordinador's side of the Instances: the list of Instances, the     *)
(* choice of one for a key (EL, LSU, KE), one host_instance thread per     *)
(* Instance, connections that break and come back, and compaction.  The    *)
(* requests come one at a time, as the Planificador hands out the turns.   *)
(* Sockets are descriptors of the Coordinador: a number that is closed is  *)
(* given to the next connection.                                           *)
(***************************************************************************)
EXTENDS Letras, Sequences, FiniteSets, FiniteSetsExt, SequencesExt

CONSTANTS
  Instancias,    \* the Instance processes, each with its own name
  Claves, Valores,
  Letra,         \* Letra[k]: the first character of k, in upper case
  Nada,          \* no value, no key, no Instance
  Libre, Otro,   \* a descriptor that is closed, the peer of one that is an ESI's
  Algoritmos,    \* the values of AlgoritmoDistribucion to explore
  Operaciones,   \* the operations to explore
  Capacidad,     \* how many keys fit in an Instance
  LargoClave,    \* strlen(key) + 1, which the header of a SET carries
  StoreSinValor, \* whether a STORE may be of a key without a value
  Compactan,     \* whether a SET may make its Instance compact (11)
  MaxSocket,     \* bound: descriptors
  MaxPosts,      \* bound: compactions asked of an Instance that does not compact
  MaxPedidos, MaxCaidas, MaxVueltas, MaxOtros  \* bounds: requests, deaths, returns, other clients

ASSUME DistribucionAssumption ==
  /\ Letra \in [Claves -> Nat]
  /\ Algoritmos \subseteq {"EL", "LSU", "KE"}
  /\ Operaciones \subseteq {"GET", "SET", "STORE", "STATUS"}
  /\ Capacidad \in Nat \ {0} /\ LargoClave \in Nat \ {0}
  /\ Compactan \in BOOLEAN /\ StoreSinValor \in BOOLEAN
  /\ MaxSocket \in Nat /\ MaxPedidos \in Nat /\ MaxCaidas \in Nat /\ MaxOtros \in Nat
  /\ MaxPosts \in Nat /\ MaxVueltas \in Nat
  /\ Otro \notin Instancias
  /\ Nada \notin Claves \cup Valores \cup [clave : Claves, valor : Valores]

Sockets == 1..MaxSocket

VARIABLES
  algorithm,
  instances,         \* the list: one record for each name ever seen
  instance_pointer,  \* 0-based, as list_get counts
  one_instance, result_instance, compact,  \* semaphores
  operation, message, has_value,           \* globals the threads talk through
  cliente,           \* the thread that serves the ESI's turn or STATUS
  tomadas,           \* keys the ESIs have got and not stored
  hilo,              \* hilo[i]: the host_instance thread of i
  fds,               \* fds[s]: the connection behind descriptor s
  memoria,           \* memoria[i]: the values process i holds
  vivo,              \* whether the Coordinador runs
  pedidos, caidas, vueltas, otros

listas == <<instances, instance_pointer>>
semaforos == <<one_instance, result_instance, compact>>
globales == <<operation, message, has_value>>
cuentas == <<algorithm, pedidos, caidas, vueltas, otros>>
vars == <<listas, semaforos, globales, cliente, tomadas, hilo, fds, memoria, vivo, cuentas>>

SinMemoria == [k \in Claves |-> Nada]
SinHilo == [pc |-> "no", socket |-> 0, op |-> "GET", header |-> [id |-> 0, len |-> 0],
            sigue |-> "", j |-> 1, lista |-> {}]
Ocioso == [pc |-> "libre", clave |-> Nada, valor |-> Nada, op |-> "GET", sigue |-> "",
           elegida |-> Nada]
Conexion(i) == [de |-> i, abierta |-> TRUE, hacia |-> <<>>, desde |-> <<>>]

Init ==
  /\ algorithm \in Algoritmos
  /\ instances = <<>> /\ instance_pointer = 0
  /\ one_instance = 0 /\ result_instance = 0 /\ compact = 0
  /\ operation = "GET" /\ message = [key |-> Nada, value |-> Nada] /\ has_value = FALSE
  /\ cliente = Ocioso /\ tomadas = {}
  /\ hilo = [i \in Instancias |-> SinHilo]
  /\ fds = [s \in Sockets |-> Libre]
  /\ memoria = [i \in Instancias |-> SinMemoria]
  /\ vivo = TRUE /\ pedidos = 0 /\ caidas = 0 /\ vueltas = 0 /\ otros = 0

-----------------------------------------------------------------------------
(* The list.                                                               *)

\* list_get on the elements of S in order: how many come before n, and the one
\* with p before it.
Orden(S, n) == Cardinality({m \in S : m < n})
Enesimo(S, p) == CHOOSE n \in S : Orden(S, n) = p

\* 0 stands for NULL.
Primero(S) == IF S = {} THEN 0 ELSE Min(S)
Lugares == DOMAIN instances
Activos(l) == {n \in DOMAIN l : l[n].is_active}

name_is_equal(i) == Primero({n \in Lugares : instances[n].name = i})
socket_is_equal(s) == Primero({n \in Lugares : instances[n].socket = s})
find_by_key(k) == Primero({n \in Lugares : k \in instances[n].keys})
find_by_key_and_active(k) ==
  Primero({n \in Lugares : k \in instances[n].keys /\ instances[n].is_active})

\* With no active Instance the division by their number kills the process.
SinDivisor(l) == algorithm = "KE" /\ Activos(l) = {}

\* Mutant: the letters are divided among all, active or not.
assign_letters_todas(l) ==
  IF algorithm # "KE" THEN l
  ELSE [p \in DOMAIN l |->
         IF l[p].is_active
         THEN [l[p] EXCEPT !.letter_min = letter_min(p - 1, Len(l)),
                           !.letter_max = letter_max(p - 1, Len(l))]
         ELSE l[p]]

assign_letters(l) ==
  LET n == Cardinality(Activos(l))
      j(p) == Orden(Activos(l), p)
  IN IF algorithm # "KE" THEN l
     ELSE [p \in DOMAIN l |->
            IF l[p].is_active
            THEN [l[p] EXCEPT !.letter_min = letter_min(j(p), n), !.letter_max = letter_max(j(p), n)]
            ELSE l[p]]

\* EL: list_get(instance_pointer), then on to the first active one, but only
\* to the end of the list; the pointer ends behind the one returned.
choose_by_counter(simulate) ==
  LET a == instance_pointer + 1
      desde == IF simulate THEN a ELSE a + 1
      siguientes == {n \in Lugares : n >= desde /\ instances[n].is_active}
      ultimo == Len(instances)
      elegida == CASE instances[a].is_active -> a
                   [] ~instances[a].is_active /\ siguientes # {} -> Min(siguientes)
                   [] OTHER -> IF desde <= ultimo THEN ultimo ELSE a
      puntero == CASE instances[a].is_active -> desde - 1
                   [] ~instances[a].is_active /\ siguientes # {} -> Min(siguientes)
                   [] OTHER -> ultimo
  IN IF instances = <<>> THEN [elegida |-> 0, puntero |-> a]
     ELSE [elegida |-> elegida, puntero |-> IF puntero >= ultimo THEN 0 ELSE puntero]

\* Mutant: the least free space comes first.
choose_by_space_ascendente(simulate) ==
  LET activos == Activos(instances)
      espacio == Min({instances[n].free_space : n \in activos})
  IN [elegida |-> IF activos = {} THEN 0
                  ELSE Min({n \in activos : instances[n].free_space = espacio}),
      puntero |-> instance_pointer]

\* LSU: the active Instances with the most free space, in turns.  Sorting
\* keeps the order of equals.
choose_by_space(simulate) ==
  LET espacio == Max({instances[n].free_space : n \in Activos(instances)})
      iguales == {n \in Activos(instances) : instances[n].free_space = espacio}
      p == IF instance_pointer >= Cardinality(iguales) THEN 0 ELSE instance_pointer
  IN IF Activos(instances) = {} THEN [elegida |-> 0, puntero |-> instance_pointer]
     ELSE [elegida |-> Enesimo(iguales, p), puntero |-> IF simulate THEN p ELSE p + 1]

find_by_letter(letra) ==
  Primero({n \in Lugares : instances[n].letter_min <= letra /\ letra <= instances[n].letter_max})

choose_instance(simulate) ==
  CASE algorithm = "EL" -> choose_by_counter(simulate)
    [] algorithm = "LSU" -> choose_by_space(simulate)
    [] algorithm = "KE" -> [elegida |-> find_by_letter(Letra[message.key]),
                            puntero |-> instance_pointer]

-----------------------------------------------------------------------------
(* Connections.                                                            *)

Cerrado(s) == fds[s] # Libre /\ ~fds[s].abierta /\ fds[s].desde = <<>>

\* test_connection: only an orderly end counts; a closed descriptor is OK.
test_connection(s) == ~Cerrado(s)

\* disconnect_socket closes the descriptor and marks the Instance it finds
\* with it; the semaphore is taken in a step of its own.
Desconectar(s) ==
  LET n == socket_is_equal(s)
  IN /\ fds' = [fds EXCEPT ![s] = Libre]
     /\ instances' = (IF n = 0 THEN instances
                      ELSE [instances EXCEPT ![n].is_active = FALSE, ![n].letter_min = 0,
                                             ![n].letter_max = 0])

\* Mutants: the semaphore is not waited for; it is not taken.
DescontarSinEsperar ==
  /\ one_instance' = one_instance - 1
  /\ instances' = (IF SinDivisor(instances) THEN instances ELSE assign_letters(instances))
  /\ vivo' = ~SinDivisor(instances)

DescontarSinTomar ==
  /\ instances' = (IF SinDivisor(instances) THEN instances ELSE assign_letters(instances))
  /\ vivo' = ~SinDivisor(instances)
  /\ UNCHANGED one_instance

\* sem_wait(&one_instance); assign_letters().
Descontar ==
  /\ one_instance > 0
  /\ one_instance' = one_instance - 1
  /\ instances' = (IF SinDivisor(instances) THEN instances ELSE assign_letters(instances))
  /\ vivo' = ~SinDivisor(instances)

\* Mutant: every Instance is woken.
PublicarATodas(n) ==
  instances' = [m \in Lugares |-> [instances[m] EXCEPT !.start = @ + 1]]

Publicar(n) == instances' = [instances EXCEPT ![n].start = @ + 1]

-----------------------------------------------------------------------------
(* Whoever serves the turn: operation_get, _set, _store and _status once   *)
(* the Planificador has agreed.                                            *)

En(pc) == vivo /\ cliente.pc = pc
Va(pc) == cliente' = [cliente EXCEPT !.pc = pc]

\* The value of a key is the one held by the Instance that find_by_key returns.
Guardado(k) ==
  LET n == find_by_key(k) IN IF n = 0 THEN Nada ELSE memoria[instances[n].name][k]

Pide(op, k, v) ==
  /\ En("libre") /\ pedidos < MaxPedidos
  /\ op \in {"SET", "STORE"} => k \in tomadas
  /\ op = "STORE" /\ ~StoreSinValor => Guardado(k) # Nada
  /\ op = "GET" => k \notin tomadas
  /\ pedidos' = pedidos + 1
  /\ message' = [key |-> k, value |-> IF op = "SET" THEN v ELSE message.value]
  /\ operation' = (IF op = "STATUS" THEN operation ELSE op)
  /\ cliente' = [cliente EXCEPT !.pc = op, !.clave = k, !.op = op, !.elegida = Nada,
                                !.valor = IF op = "SET" THEN v ELSE Nada]
  /\ UNCHANGED <<listas, semaforos, has_value, tomadas, hilo, fds, memoria, vivo, algorithm,
                 caidas, vueltas, otros>>

\* The start of the Instance is posted.
Mandar(n) ==
  /\ Publicar(n)
  /\ cliente' = [cliente EXCEPT !.pc = "espera", !.elegida = instances[n].name]

\* The connection of the Instance turns out to have ended; the thread goes on
\* at sigue once one_instance has been taken.
Perdida(n, sigue) ==
  /\ Desconectar(instances[n].socket)
  /\ cliente' = [cliente EXCEPT !.pc = "descontar", !.sigue = sigue]

\* assign_instance: the first Instance with the key, if it is active ...
AsignarConocida ==
  LET n == find_by_key(message.key)
  IN
  /\ En("GET") /\ n # 0 /\ instances[n].is_active
  /\ \/ test_connection(instances[n].socket) /\ Mandar(n) /\ UNCHANGED fds
     \/ ~test_connection(instances[n].socket) /\ Perdida(n, "tomar")
  /\ UNCHANGED <<instance_pointer, semaforos, globales, tomadas, hilo, memoria, vivo, cuentas>>

\* ... or else one that choose_instance returns, chosen holding one_instance.
TomarInstancia ==
  LET n == find_by_key(message.key)
  IN
  /\ \/ En("tomar")
     \/ En("GET") /\ (n # 0 => ~instances[n].is_active)
  /\ one_instance > 0
  /\ one_instance' = one_instance - 1
  /\ Va("elegir")
  /\ UNCHANGED <<listas, result_instance, compact, globales, tomadas, hilo, fds, memoria, vivo,
                 cuentas>>

Elegir ==
  LET e == choose_instance(FALSE)
      n == e.elegida
  IN
  /\ En("elegir") /\ n # 0
  /\ instance_pointer' = e.puntero
  /\ \/ /\ test_connection(instances[n].socket)
        /\ instances' = [instances EXCEPT ![n].keys = @ \cup {message.key}, ![n].start = @ + 1]
        /\ cliente' = [cliente EXCEPT !.pc = "espera", !.elegida = instances[n].name]
        /\ one_instance' = one_instance + 1
        /\ UNCHANGED fds
     \/ /\ ~test_connection(instances[n].socket)
        /\ Perdida(n, "elegir")
        /\ UNCHANGED one_instance
  /\ UNCHANGED <<result_instance, compact, globales, tomadas, hilo, memoria, vivo, cuentas>>

\* Mutant: the Instance that connected last, whatever keys it has.
DestinoUltimo == IF Activos(instances) = {} THEN 0 ELSE Max(Activos(instances))

\* save_on_instance: the first Instance with the key or, if that one is down,
\* the first active one with it.
Destino ==
  LET n == find_by_key(message.key)
  IN IF instances[n].is_active THEN n ELSE find_by_key_and_active(message.key)

GuardarEnInstancia ==
  /\ En("SET") \/ En("STORE")
  /\ Destino # 0
  /\ \/ test_connection(instances[Destino].socket) /\ Mandar(Destino) /\ UNCHANGED fds
     \/ ~test_connection(instances[Destino].socket) /\ Perdida(Destino, "abortar")
  /\ UNCHANGED <<instance_pointer, semaforos, globales, tomadas, hilo, memoria, vivo, cuentas>>

\* abort_esi: its keys are of no use to anybody any more.
Abortar ==
  /\ \/ En("abortar")
     \/ (En("SET") \/ En("STORE")) /\ Destino = 0
  /\ tomadas' = tomadas \ {cliente.clave}
  /\ cliente' = Ocioso
  /\ UNCHANGED <<listas, semaforos, globales, hilo, fds, memoria, vivo, cuentas>>

\* operation_status asks the Instance of the key, if it is active ...
ConsultarEstado ==
  LET n == find_by_key(message.key)
  IN
  /\ En("STATUS") /\ n # 0 /\ instances[n].is_active
  /\ \/ test_connection(instances[n].socket) /\ Mandar(n) /\ operation' = "STATUS"
        /\ UNCHANGED fds
     \/ ~test_connection(instances[n].socket) /\ Perdida(n, "simular") /\ UNCHANGED operation
  /\ UNCHANGED <<instance_pointer, semaforos, message, has_value, tomadas, hilo, memoria, vivo,
                 cuentas>>

\* ... or else names the Instance that would get the key.
SimularAsignacion ==
  LET n == find_by_key(message.key)
      e == choose_instance(TRUE)
  IN
  /\ \/ En("simular")
     \/ En("STATUS") /\ (n # 0 => ~instances[n].is_active)
  /\ e.elegida # 0
  /\ instance_pointer' = e.puntero
  /\ cliente' = Ocioso
  /\ UNCHANGED <<instances, semaforos, globales, tomadas, hilo, fds, memoria, vivo, cuentas>>

\* The list is empty, choose_by_space finds no active Instance, find_by_letter
\* none for the letter: the pointer that comes back is used.
SinElegida ==
  LET n == find_by_key(message.key)
  IN
  /\ \/ En("elegir") \/ En("simular")
     \/ En("STATUS") /\ (n # 0 => ~instances[n].is_active)
  /\ choose_instance(FALSE).elegida = 0
  /\ vivo' = FALSE
  /\ UNCHANGED <<listas, semaforos, globales, cliente, tomadas, hilo, fds, memoria, cuentas>>

DescontarCliente ==
  /\ En("descontar")
  /\ Descontar
  /\ Va(cliente.sigue)
  /\ UNCHANGED <<instance_pointer, result_instance, compact, globales, tomadas, hilo, fds, memoria,
                 cuentas>>

\* Mutant: the answer is not waited for.
ConfirmarSinEsperar ==
  /\ En("espera")
  /\ tomadas' = CASE cliente.op = "GET" -> tomadas \cup {cliente.clave}
                  [] cliente.op = "STORE" -> tomadas \ {cliente.clave}
                  [] OTHER -> tomadas
  /\ cliente' = Ocioso
  /\ UNCHANGED <<listas, semaforos, globales, hilo, fds, memoria, vivo, cuentas>>

\* sem_wait(&result_instance), and the ESI or the Planificador is answered.
Confirmar ==
  /\ En("espera") /\ result_instance > 0
  /\ result_instance' = result_instance - 1
  /\ tomadas' = CASE cliente.op = "GET" -> tomadas \cup {cliente.clave}
                  [] cliente.op = "STORE" -> tomadas \ {cliente.clave}
                  [] OTHER -> tomadas
  /\ cliente' = Ocioso
  /\ UNCHANGED <<listas, one_instance, compact, globales, hilo, fds, memoria, vivo, cuentas>>

PasoCliente ==
  \/ AsignarConocida \/ TomarInstancia \/ Elegir \/ GuardarEnInstancia \/ Abortar
  \/ ConsultarEstado \/ SimularAsignacion \/ SinElegida \/ DescontarCliente \/ Confirmar

-----------------------------------------------------------------------------
(* host_instance.                                                          *)

HiloEn(i, pc) == vivo /\ hilo[i].pc = pc
Propia(i) == name_is_equal(i)
Cabecera(id, len) == [id |-> id, len |-> len]

\* What a case of the switch leaves in header before it reads the answer.
Enviada(op, vieja) ==
  CASE op = "GET" -> Cabecera(13, LargoClave - 1)
    [] op = "SET" -> Cabecera(12, LargoClave)
    [] op = "STORE" -> Cabecera(14, LargoClave - 1)
    [] OTHER -> vieja

\* send() on the thread's own descriptor.  After the peer has gone the data is
\* lost or the process dies of SIGPIPE; on a closed descriptor it is lost; what
\* an ESI is sent by mistake is not looked into.
Escucha(s) == fds[s] # Libre /\ fds[s].abierta /\ fds[s].de # Otro
Manda(s, m) ==
  \/ /\ Escucha(s)
     /\ fds' = [fds EXCEPT ![s].hacia = Append(@, m)]
     /\ UNCHANGED vivo
  \/ /\ ~Escucha(s)
     /\ UNCHANGED <<fds, vivo>>
  \/ /\ fds[s] # Libre /\ ~fds[s].abierta
     /\ vivo' = FALSE
     /\ UNCHANGED fds

\* sem_wait(&start), then the globals are read and the request is sent.
Despertar(i) ==
  LET n == Propia(i)
  IN
  /\ HiloEn(i, "start") /\ instances[n].start > 0
  /\ instances' = [instances EXCEPT ![n].start = @ - 1]
  /\ Manda(hilo[i].socket, [op |-> operation, clave |-> message.key, valor |-> message.value])
  /\ hilo' = [hilo EXCEPT ![i].pc = "respuesta", ![i].op = operation,
                          ![i].header = Enviada(operation, @)]
  /\ UNCHANGED <<instance_pointer, semaforos, globales, cliente, tomadas, memoria, cuentas>>

\* The answer to GET, SET, STORE and STATUS is passed on.  A SET updates the
\* free space (LSU); 13 has an empty key and its value is not read.
Terminar(i, header) ==
  LET n == Propia(i)
      op == hilo[i].op
      valor == header.id = 13
  IN
  /\ result_instance' = result_instance + 1
  /\ instances' = (IF op = "SET" /\ algorithm = "LSU"
                   THEN [instances EXCEPT ![n].free_space = header.len] ELSE instances)
  /\ message' = (IF op = "STATUS" /\ valor THEN [message EXCEPT !.key = Nada] ELSE message)
  /\ has_value' = (IF op = "STATUS" THEN valor ELSE has_value)

Tras(i, pc, header) == hilo' = [hilo EXCEPT ![i].pc = pc, ![i].header = header]

\* recv() of a header: the next thing in the stream, or the old header again
\* when the descriptor is closed (-1) or the peer has gone (0).  After "fin" it
\* has been read already.
Espera(i) == HiloEn(i, "respuesta") \/ HiloEn(i, "fin")
Leida(i) ==
  LET c == fds[hilo[i].socket]
  IN hilo[i].pc = "respuesta" /\ c # Libre /\ c.desde # <<>>
Cabezal(i) == IF Leida(i) THEN Head(fds[hilo[i].socket].desde).header ELSE hilo[i].header
Contesta(i) ==
  LET s == hilo[i].socket
  IN \/ Leida(i) /\ fds' = [fds EXCEPT ![s].desde = Tail(@)]
     \/ hilo[i].pc = "respuesta" /\ fds[s] = Libre /\ UNCHANGED fds
     \/ hilo[i].pc = "respuesta" /\ hilo[i].op \notin {"SET", "COMPACT"} /\ Cerrado(s)
        /\ UNCHANGED fds
     \/ hilo[i].pc = "fin" /\ UNCHANGED fds

\* Mutant: 11 is taken for the answer to SET.
RecibirRespuestaSinCompactar(i) ==
  /\ Espera(i) /\ hilo[i].op # "COMPACT"
  /\ Contesta(i)
  /\ Terminar(i, Cabezal(i))
  /\ Tras(i, "start", Cabezal(i))
  /\ UNCHANGED <<instance_pointer, one_instance, compact, operation, cliente, tomadas, memoria,
                 vivo, cuentas>>

RecibirRespuesta(i) ==
  LET pideCompactar == hilo[i].op = "SET" /\ Cabezal(i).id = 11
  IN
  /\ Espera(i) /\ hilo[i].op # "COMPACT" /\ ~pideCompactar
  /\ Contesta(i)
  /\ Terminar(i, Cabezal(i))
  /\ Tras(i, "start", Cabezal(i))
  /\ UNCHANGED <<instance_pointer, one_instance, compact, operation, cliente, tomadas, memoria,
                 vivo, cuentas>>

\* Mutants: the end of a compaction is not posted; it is posted as a result.
RecibirCompactadoSinPost(i) ==
  /\ Espera(i) /\ hilo[i].op = "COMPACT"
  /\ Contesta(i)
  /\ Tras(i, "start", Cabezal(i))
  /\ UNCHANGED <<listas, semaforos, globales, cliente, tomadas, memoria, vivo, cuentas>>

RecibirCompactadoComoResultado(i) ==
  /\ Espera(i) /\ hilo[i].op = "COMPACT"
  /\ Contesta(i)
  /\ compact' = compact + 1
  /\ result_instance' = result_instance + 1
  /\ Tras(i, "start", Cabezal(i))
  /\ UNCHANGED <<listas, one_instance, globales, cliente, tomadas, memoria, vivo, cuentas>>

RecibirCompactado(i) ==
  /\ Espera(i) /\ hilo[i].op = "COMPACT"
  /\ Contesta(i)
  /\ compact' = compact + 1
  /\ Tras(i, "start", Cabezal(i))
  /\ UNCHANGED <<listas, one_instance, result_instance, globales, cliente, tomadas, memoria, vivo,
                 cuentas>>

\* 11: the others must compact first, process_message_header.
RecibirCompactar(i) ==
  /\ Espera(i) /\ hilo[i].op = "SET" /\ Cabezal(i).id = 11
  /\ Contesta(i)
  /\ hilo' = [hilo EXCEPT ![i].pc = "filtrar", ![i].header = Cabezal(i), ![i].j = 1,
                          ![i].lista = {}]
  /\ UNCHANGED <<listas, semaforos, globales, cliente, tomadas, memoria, vivo, cuentas>>

\* SET and COMPACT notice that the Instance has gone.
RecibirFin(i) ==
  /\ HiloEn(i, "respuesta") /\ hilo[i].op \in {"SET", "COMPACT"}
  /\ Cerrado(hilo[i].socket)
  /\ Desconectar(hilo[i].socket)
  /\ hilo' = [hilo EXCEPT ![i].pc = IF socket_is_equal(hilo[i].socket) = 0 THEN "fin"
                                    ELSE "descontar",
                          ![i].sigue = "fin"]
  /\ UNCHANGED <<instance_pointer, semaforos, globales, cliente, tomadas, memoria, vivo, cuentas>>

DescontarHilo(i) ==
  /\ HiloEn(i, "descontar")
  /\ Descontar
  /\ hilo' = [hilo EXCEPT ![i].pc = hilo[i].sigue]
  /\ UNCHANGED <<instance_pointer, result_instance, compact, globales, cliente, tomadas, fds,
                 memoria, cuentas>>

\* initiate_compactation goes through the list: the other Instances that are
\* active and connected.  For an inactive one the filter returns nothing: it
\* may be taken or not.
Filtrar(i) ==
  LET j == hilo[i].j
      q == instances[j]
      otra == q.socket # hilo[i].socket
      Pasa(incluye) == hilo' = [hilo EXCEPT ![i].j = j + 1,
                                            ![i].lista = IF incluye THEN @ \cup {j} ELSE @]
  IN
  /\ HiloEn(i, "filtrar") /\ j <= Len(instances)
  /\ \/ ~otra /\ Pasa(FALSE) /\ UNCHANGED <<fds, instances>>
     \/ /\ otra /\ ~q.is_active
        /\ \E incluye \in BOOLEAN : Pasa(incluye)
        /\ UNCHANGED <<fds, instances>>
     \/ /\ otra /\ q.is_active /\ test_connection(q.socket)
        /\ Pasa(TRUE)
        /\ UNCHANGED <<fds, instances>>
     \/ /\ otra /\ q.is_active /\ ~test_connection(q.socket)
        /\ Desconectar(q.socket)
        /\ hilo' = [hilo EXCEPT ![i].j = j + 1, ![i].pc = "descontar", ![i].sigue = "filtrar"]
  /\ UNCHANGED <<instance_pointer, semaforos, globales, cliente, tomadas, memoria, vivo, cuentas>>

\* All of them are woken; sem_init with a negative number changes nothing, so
\* one post is enough to go on.  With nobody to wake the thread just reads on.
PedirCompactar(i) ==
  /\ HiloEn(i, "filtrar") /\ hilo[i].j > Len(instances)
  /\ \/ /\ hilo[i].lista = {}
        /\ hilo' = [hilo EXCEPT ![i].pc = "respuesta"]
        /\ UNCHANGED <<operation, instances>>
     \/ /\ hilo[i].lista # {}
        /\ \A n \in hilo[i].lista : instances[n].start < MaxPosts
        /\ hilo' = [hilo EXCEPT ![i].pc = "compactando"]
        /\ operation' = "COMPACT"
        /\ instances' = [n \in Lugares |->
                          IF n \in hilo[i].lista THEN [instances[n] EXCEPT !.start = @ + 1]
                          ELSE instances[n]]
  /\ UNCHANGED <<instance_pointer, semaforos, message, has_value, cliente, tomadas, fds, memoria,
                 vivo, cuentas>>

\* Mutant: the others are woken but not waited for.
NoEsperarCompactado(i) ==
  /\ HiloEn(i, "compactando")
  /\ hilo' = [hilo EXCEPT ![i].pc = "respuesta"]
  /\ UNCHANGED <<listas, semaforos, globales, cliente, tomadas, fds, memoria, vivo, cuentas>>

EsperarCompactado(i) ==
  /\ HiloEn(i, "compactando") /\ compact > 0
  /\ compact' = compact - 1
  /\ hilo' = [hilo EXCEPT ![i].pc = "respuesta"]
  /\ UNCHANGED <<listas, one_instance, result_instance, globales, cliente, tomadas, fds, memoria,
                 vivo, cuentas>>

PasoHilo(i) ==
  \/ Despertar(i) \/ RecibirRespuesta(i) \/ RecibirCompactado(i) \/ RecibirCompactar(i)
  \/ RecibirFin(i) \/ DescontarHilo(i) \/ Filtrar(i) \/ PedirCompactar(i) \/ EsperarCompactado(i)

-----------------------------------------------------------------------------
(* The peers.                                                              *)

Conectada(i) == {s \in Sockets : fds[s] # Libre /\ fds[s].de = i /\ fds[s].abierta}
Cerrados == {s \in Sockets : fds[s] = Libre}

Nueva(i, s) ==
  [name |-> i, socket |-> s, is_active |-> TRUE, free_space |-> 999, letter_min |-> 0,
   letter_max |-> 0, keys |-> {}, start |-> 0]

\* A process connects, for the first time: accept, host_instance,
\* add_instance_to_list and sem_post(&one_instance).
AgregarInstancia(i) ==
  LET s == Min(Cerrados)
  IN
  /\ vivo /\ Conectada(i) = {} /\ Cerrados # {} /\ Propia(i) = 0
  /\ fds' = [fds EXCEPT ![s] = Conexion(i)]
  /\ instances' = assign_letters(Append(instances, Nueva(i, s)))
  /\ hilo' = [hilo EXCEPT ![i] = [SinHilo EXCEPT !.pc = "start", !.socket = s]]
  /\ one_instance' = one_instance + 1
  /\ UNCHANGED <<instance_pointer, result_instance, compact, globales, cliente, tomadas, memoria,
                 vivo, cuentas>>

\* It comes back after a fall: the list gets the new descriptor, the thread
\* that brought it exits, and the old thread keeps the old one.
VuelveInstancia(i) ==
  LET s == Min(Cerrados)
      n == Propia(i)
  IN
  /\ vivo /\ vueltas < MaxVueltas /\ Conectada(i) = {} /\ Cerrados # {} /\ n # 0
  /\ vueltas' = vueltas + 1
  /\ fds' = [fds EXCEPT ![s] = Conexion(i)]
  /\ instances' = assign_letters([instances EXCEPT ![n].socket = s, ![n].is_active = TRUE])
  /\ one_instance' = one_instance + 1
  /\ UNCHANGED <<instance_pointer, result_instance, compact, globales, cliente, tomadas, hilo,
                 memoria, vivo, algorithm, pedidos, caidas, otros>>

ConectaOtro ==
  LET s == Min(Cerrados)
  IN
  /\ vivo /\ Cerrados # {} /\ otros < MaxOtros
  /\ otros' = otros + 1
  /\ fds' = [fds EXCEPT ![s] = Conexion(Otro)]
  /\ UNCHANGED <<listas, semaforos, globales, cliente, tomadas, hilo, memoria, vivo, algorithm,
                 pedidos, caidas, vueltas>>

Cae(i) ==
  /\ caidas < MaxCaidas
  /\ caidas' = caidas + 1
  /\ \E s \in Conectada(i) :
       fds' = [fds EXCEPT ![s].abierta = FALSE, ![s].hacia = <<>>]
  /\ memoria' = [memoria EXCEPT ![i] = SinMemoria]
  /\ UNCHANGED <<listas, semaforos, globales, cliente, tomadas, hilo, vivo, algorithm, pedidos,
                 vueltas, otros>>

\* An Instance serves a request, as Instancia does: SET may replace keys when
\* it is full and may announce a compaction first; STORE of a key it has not
\* answers twice; STATUS sends the value behind its header.
Respuesta(id, len, m) == [header |-> Cabecera(id, len), de |-> m]
Guarda(i, m, R) ==
  [k \in Claves |-> IF k = m.clave THEN m.valor ELSE IF k \in R THEN Nada ELSE memoria[i][k]]

Sirve(i) ==
  \E s \in Conectada(i) :
    LET m == Head(fds[s].hacia)
        tiene == m.clave \in Claves /\ memoria[i][m.clave] # Nada
        ocupadas == {k \in Claves : memoria[i][k] # Nada}
        llena == Cardinality(ocupadas) = Capacidad
        Dice(rs) == fds' = [fds EXCEPT ![s].hacia = Tail(@), ![s].desde = @ \o rs]
        Ok(len) == Respuesta(12, len, m)
    IN
    /\ fds[s].hacia # <<>>
    /\ \/ /\ m.op = "SET"
          /\ \E R \in SUBSET ocupadas, avisa \in {FALSE, Compactan /\ ~tiene} :
               /\ m.clave \notin R
               /\ IF llena /\ ~tiene THEN Cardinality(R) = 1 ELSE R = {}
               /\ memoria' = [memoria EXCEPT ![i] = Guarda(i, m, R)]
               /\ Dice((IF avisa THEN <<Respuesta(11, 0, m)>> ELSE <<>>) \o
                       <<Ok(Capacidad - Cardinality((ocupadas \ R) \cup {m.clave}))>>)
       \/ /\ m.op \in {"GET", "COMPACT"}
          /\ Dice(<<Ok(0)>>)
          /\ UNCHANGED memoria
       \/ /\ m.op = "STORE"
          /\ Dice(IF tiene THEN <<Ok(0)>> ELSE <<Respuesta(15, 0, m), Ok(0)>>)
          /\ UNCHANGED memoria
       \/ /\ m.op = "STATUS"
          /\ Dice(IF tiene THEN <<Respuesta(13, 0, m), Respuesta(0, 0, m)>>
                  ELSE <<Respuesta(19, 0, m)>>)
          /\ UNCHANGED memoria
    /\ UNCHANGED <<listas, semaforos, globales, cliente, tomadas, hilo, vivo, cuentas>>

Next ==
  \/ \E op \in Operaciones, k \in Claves, v \in Valores : Pide(op, k, v)
  \/ PasoCliente
  \/ \E i \in Instancias :
       PasoHilo(i) \/ AgregarInstancia(i) \/ VuelveInstancia(i) \/ Cae(i) \/ Sirve(i)
  \/ ConectaOtro

Spec == Init /\ [][Next]_vars

Justicia ==
  /\ WF_vars(PasoCliente)
  /\ \A i \in Instancias : WF_vars(PasoHilo(i)) /\ WF_vars(Sirve(i))

SpecJusta == Spec /\ Justicia

\* The records.
instance_t == [name : Instancias, socket : Sockets, is_active : BOOLEAN, free_space : Nat,
               letter_min : Nat, letter_max : Nat, keys : SUBSET (Claves \cup {Nada}), start : Nat]
Peticion == [op : {"GET", "SET", "STORE", "STATUS", "COMPACT"}, clave : Claves \cup {Nada},
             valor : Valores \cup {Nada}]
Encabezado == [id : Nat, len : Nat]
Contestacion == [header : Encabezado, de : Peticion]
Enlace == [de : Instancias \cup {Otro}, abierta : BOOLEAN, hacia : Seq(Peticion),
           desde : Seq(Contestacion)]
ASSUME LibreAssumption == Libre \notin Enlace

Cliente == [pc : {"libre", "GET", "SET", "STORE", "STATUS", "tomar", "elegir", "simular",
                  "abortar", "descontar", "espera"},
            clave : Claves \cup {Nada}, valor : Valores \cup {Nada},
            op : {"GET", "SET", "STORE", "STATUS"},
            sigue : {"", "tomar", "elegir", "simular", "abortar"},
            elegida : Instancias \cup {Nada}]
Hilo == [pc : {"no", "start", "respuesta", "fin", "filtrar", "compactando", "descontar"},
         socket : Nat, op : {"GET", "SET", "STORE", "STATUS", "COMPACT"}, header : Encabezado,
         sigue : {"", "fin", "filtrar"}, j : Nat \ {0}, lista : SUBSET Nat]

TypeOK ==
  /\ algorithm \in Algoritmos
  /\ instances \in Seq(instance_t)
  /\ instance_pointer \in Nat
  /\ one_instance \in Nat /\ result_instance \in Nat /\ compact \in Nat
  /\ operation \in {"GET", "SET", "STORE", "STATUS", "COMPACT"}
  /\ message \in [key : Claves \cup {Nada}, value : Valores \cup {Nada}]
  /\ has_value \in BOOLEAN
  /\ cliente \in Cliente
  /\ tomadas \subseteq Claves
  /\ hilo \in [Instancias -> Hilo]
  /\ fds \in [Sockets -> {Libre} \cup Enlace]
  /\ memoria \in [Instancias -> [Claves -> Valores \cup {Nada}]]
  /\ vivo \in BOOLEAN

-----------------------------------------------------------------------------
(* Requests and answers.                                                   *)

\* A request that is on its way went to the Instance chosen for it: what
\* host_instance reads in operation and message when it wakes up, and the
\* descriptor it writes to, are still those of the request it was woken for.
PedidoEnDestino ==
  \A s \in Sockets : fds[s] # Libre =>
    \A n \in DOMAIN fds[s].hacia :
      LET m == fds[s].hacia[n]
      IN m.op # "COMPACT" =>
           cliente.pc = "espera" /\ fds[s].de = cliente.elegida /\ m.clave = cliente.clave

\* The header a host_instance thread takes for the answer was sent in answer to
\* its request, not to an earlier one.
RespuestaDelPedido ==
  \A i \in Instancias : Leida(i) =>
    LET de == Head(fds[hilo[i].socket].desde).de
    IN de.op = hilo[i].op /\ (de.op # "COMPACT" => de.clave = cliente.clave)

\* The post of result_instance is for the request that waits for it, whatever
\* falls or compacts meanwhile: no answer is left over for the next request and
\* the thread of no other Instance is still at work on an old one.
SinVueltas == vueltas = 0
Trabajando ==
  {n \in Lugares : instances[n].start > 0 \/ hilo[instances[n].name].pc # "start"}
UnaRespuestaPorPedido ==
  vivo /\ SinVueltas =>
    /\ result_instance > 0 => cliente.pc = "espera" /\ result_instance = 1
    /\ cliente.pc = "libre" => Trabajando = {}

\* An ESI is told that its SET went well only when an Instance holds the value.
ConfirmadoGuardado ==
  [][cliente.op = "SET" /\ Confirmar =>
       \E i \in Instancias : memoria[i][cliente.clave] = cliente.valor]_vars

\* STORE is sent to an Instance that holds the key, if a connected one does.
StoreDondeEsta ==
  [][cliente.pc = "STORE" /\ cliente'.pc = "espera" =>
       \/ memoria[cliente'.elegida][cliente.clave] # Nada
       \/ \A i \in Instancias : memoria[i][cliente.clave] = Nada]_vars

\* All the Instances together are one store.
EnCurso ==
  IF cliente.op = "SET" /\ cliente.pc # "libre" /\ Guardado(cliente.clave) = Nada
  THEN [clave |-> cliente.clave, valor |-> cliente.valor] ELSE Nada
Tienda == INSTANCE Almacen WITH valores <- [k \in Claves |-> Guardado(k)],
                                pedido <- EnCurso, Ausente <- Nada
EsUnAlmacen == Tienda!Spec

\* Every request is answered, once an Instance has connected.
TodoPedidoTermina == cliente.pc # "libre" /\ instances # <<>> ~> cliente.pc = "libre"

-----------------------------------------------------------------------------
(* Choosing.                                                               *)

\* LSU: no connected Instance has more room than the one chosen, although
\* free_space is what the last SET of each reported.
Lugar(i) == Capacidad - Cardinality({k \in Claves : memoria[i][k] # Nada})
LsuEligeMasLugar ==
  [][algorithm = "LSU" /\ cliente.pc = "elegir" /\ cliente'.pc = "espera" =>
       \A n \in Activos(instances) : Lugar(instances[n].name) <= Lugar(cliente'.elegida)]_vars

\* KE: while no fall is half dealt with, every letter has an active Instance.
Descontando ==
  (IF cliente.pc = "descontar" THEN 1 ELSE 0)
    + Cardinality({i \in Instancias : hilo[i].pc = "descontar"})
LetrasCubiertas ==
  algorithm = "KE" /\ Descontando = 0 /\ Activos(instances) # {} =>
    \A letra \in Primera..(Primera + CantLetras - 1) :
      find_by_letter(letra) \in Activos(instances)

\* While no descriptor was given twice and no Instance has come back,
\* one_instance counts the active Instances, but for the one assign_instance
\* holds while it chooses and those that disconnect_instance_in_list is about
\* to take off.
SocketsDistintos ==
  \A m, n \in Lugares : instances[m].socket = instances[n].socket => m = n
CuentaInstancias ==
  vivo /\ SocketsDistintos /\ SinVueltas =>
    one_instance = Cardinality(Activos(instances)) + Descontando
      - (IF cliente.pc = "elegir" \/ (cliente.pc = "descontar" /\ cliente.sigue = "elegir")
         THEN 1 ELSE 0)

-----------------------------------------------------------------------------
(* Compaction.                                                             *)

\* The Instance that asked goes on when the others it woke have compacted, or
\* have fallen.
TodosCompactaron ==
  [][SinVueltas /\ SocketsDistintos => \A i \in Instancias : EsperarCompactado(i) =>
       \A n \in hilo[i].lista : instances[n].start = 0 /\ hilo[instances[n].name].pc = "start"]_vars

-----------------------------------------------------------------------------
(* What the code's comments say and the code does not do: TLC refutes each *)
(* of these (README.md, section 5); no run checks them.                    *)

\* The Instance chosen for a key is one of the active ones.
EligeActiva ==
  [][cliente.pc = "elegir" /\ cliente'.pc = "espera" =>
       instances[name_is_equal(cliente'.elegida)].is_active]_vars

\* Simulating an assignment decides nothing for the next one.
SimularNoAsigna ==
  [][cliente.op = "STATUS" => instance_pointer' = instance_pointer]_vars

\* STATUS says the value the Instance of the key holds, as operation_status
\* reads it in message->value.
EstadoCierto ==
  [][cliente.op = "STATUS" /\ Confirmar /\ has_value =>
       message.value = memoria[cliente.elegida][cliente.clave]]_vars

\* When the Coordinador closes a connection, the Instance behind it goes out of
\* the list of the active ones.
CaidaBienAnotada ==
  [][\A s \in Sockets : fds[s] # Libre /\ fds'[s] = Libre /\ fds[s].de \in Instancias =>
       ~instances'[name_is_equal(fds[s].de)].is_active]_vars

\* The thread of an active Instance talks to the socket the list has for it.
HiloConSuSocket ==
  \A n \in Activos(instances) : hilo[instances[n].name].socket = instances[n].socket

\* The Instance that asked for a compaction is not asked for one itself.
NoSePideASiMisma ==
  [][\A i \in Instancias : PedirCompactar(i) =>
       \A n \in hilo[i].lista : instances[n].name # i]_vars
=============================================================================
