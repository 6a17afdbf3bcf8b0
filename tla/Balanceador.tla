------------------------------ MODULE Balanceador ------------------------------
(***************************************************************************)
(* The load balancer (Balanceador.cpp) while it is serving: the registry   *)
(* of web servers, the thread that listens for their broadcast datagrams,  *)
(* one thread per accepted request, and the operator who changes the       *)
(* balancing method.  Start-up and Ctrl-C are left out.                    *)
(*                                                                         *)
(* A step is what one thread does between two points where another thread  *)
(* can be seen: a critical section of mutex_servidores, or an access to    *)
(* the registry outside any lock.  mutex_servidores is a variable because  *)
(* one critical section, the search of ROUND_ROBIN_PESOS, is a loop.       *)
(* mutex_roundRobin is only ever held together with it, so it shows        *)
(* nothing more.  mutex_clientes is never held across a step.              *)
(*                                                                         *)
(* Indices are those of the code, from 0: slot i of the vector is          *)
(* buffer[i + 1].                                                          *)
(***************************************************************************)
EXTENDS Integers, Sequences, FiniteSets

CONSTANTS
    Servidores,       \* web servers, each standing for its "ip/port" string
    Hilos,            \* request threads; each serves one request of one client
    Metodos,          \* the methods the operator may type (0 .. 3)
    CargasMaximas,    \* what getNumeroRandom(5, 10) may return
    TiposDeAviso,     \* the datagrams web servers send: of {"S/C", "S/D"}
    CursorInicial,    \* what the never initialised roundRobin_Actual may hold
    Nadie             \* no thread, no server, no datagram

ROUND_ROBIN       == 0
ROUND_ROBIN_PESOS == 1
DIRECCION_CLIENTE == 2
CONEXIONES_ACTIVA == 3

ASSUME ConstantesAssumption ==
    /\ Metodos \subseteq 0 .. 3
    /\ CargasMaximas \subseteq Nat /\ CargasMaximas # {}
    /\ TiposDeAviso \subseteq {"S/C", "S/D"}
    /\ CursorInicial \subseteq Int /\ CursorInicial # {}
    /\ Nadie \notin Hilos /\ Nadie \notin Servidores

VARIABLES
    buffer,             \* the slots of the vector's storage written so far
    tam,                \* servidores.size()
    roundRobin_Actual,  \* cursor of ROUND_ROBIN
    servidoresActuales, \* stats.servidoresActuales
    algoritmoBalanceo,
    clientes,           \* the clients the vector clientes holds
    mutex_servidores,   \* who holds it, or Nadie
    proceso,            \* "sano", "danado" (wrote outside the vector) or "caido"
    pc,                 \* [Hilos -> where in hilo_Cliente]
    indice,             \* [Hilos -> indice_ip]
    destino,            \* [Hilos -> server whose ip was read for conectar]
    pcES,               \* where hilo_Escuchador_Servidores is
    datagrama,          \* the datagram it is handling
    posicion            \* what buscarServidor returned to eliminarServidor

\* History variables: no action depends on them.
VARIABLES
    tocados,            \* requests whose server a change of the registry took away
    vuelta              \* slots ROUND_ROBIN dealt in this lap, since that change

registro == <<buffer, tam, servidoresActuales>>
historia == <<tocados, vuelta>>
memoria  == <<registro, roundRobin_Actual, algoritmoBalanceo, clientes, proceso, historia>>
hilos    == <<pc, indice, destino>>
listener == <<pcES, datagrama, posicion>>
vars     == <<memoria, mutex_servidores, hilos, listener>>

ServidorRegistrado ==
    [comparador : Servidores, carga_actual : Int, carga_maxima : CargasMaximas]

Datagramas == [tipo : TiposDeAviso, id : Servidores]

-------------------------------------------------------------------------------
(* The vector.  An index that is out of range but inside the storage finds *)
(* the bytes the last owner of the slot left there.                        *)

EnBuffer(i)  == i >= 0 /\ i < Len(buffer)
Ranura(i)    == buffer[i + 1]
Vivas        == 0 .. tam - 1
Registrados  == {Ranura(i).comparador : i \in Vivas}
Sobrecargado(i) == Ranura(i).carga_actual > Ranura(i).carga_maxima
Libre        == mutex_servidores = Nadie

MasCarga(i, n) == [buffer EXCEPT ![i + 1].carga_actual = @ + n]

\* buscarServidor(s) returns i: the first slot with that comparador, or -1.
BuscarServidor(s, i) ==
    \/ i = -1 /\ s \notin Registrados
    \/ /\ i \in Vivas /\ Ranura(i).comparador = s
       /\ \A j \in 0 .. i - 1 : Ranura(j).comparador # s

\* buscarServidorConMenorCarga() returns i: the first slot with the least load.
BuscarServidorConMenorCarga(i) ==
    \/ i = -1 /\ tam = 0
    \/ /\ i \in Vivas
       /\ \A j \in Vivas : \/ Ranura(i).carga_actual < Ranura(j).carga_actual
                          \/ (Ranura(i).carga_actual = Ranura(j).carga_actual /\ i <= j)

\* push_back: into the slot after the last live one, growing if there is none.
PushBack(s) ==
    IF tam < Len(buffer) THEN [buffer EXCEPT ![tam + 1] = s]
                         ELSE Append(buffer, s)

\* Mutant: the slot after p is erased instead.
EraseSiguiente(p) ==
    [k \in 1 .. Len(buffer) |->
        IF k > p + 1 /\ k < tam THEN buffer[k + 1] ELSE buffer[k]]

\* erase at position p: the slots behind it move one place forward; the slot
\* that leaves the range keeps its bytes.
Erase(p) ==
    [k \in 1 .. Len(buffer) |->
        IF k > p /\ k < tam THEN buffer[k + 1] ELSE buffer[k]]

-------------------------------------------------------------------------------
Init ==
    /\ buffer = <<>> /\ tam = 0 /\ servidoresActuales = 0
    /\ roundRobin_Actual \in CursorInicial
    /\ algoritmoBalanceo = ROUND_ROBIN
    /\ clientes = {}
    /\ mutex_servidores = Nadie
    /\ proceso = "sano"
    /\ pc = [h \in Hilos |-> "nuevo"]
    /\ indice = [h \in Hilos |-> 0]
    /\ destino = [h \in Hilos |-> Nadie]
    /\ pcES = "recibir" /\ datagrama = Nadie /\ posicion = -1
    /\ tocados = {} /\ vuelta = {}

-------------------------------------------------------------------------------
(* hilo_Cliente                                                            *)

Ir(h, de, a) == pc[h] = de /\ pc' = [pc EXCEPT ![h] = a]

\* hilo_Escuchador_Clientes accepts a connection and starts its thread.
Aceptar(h) ==
    /\ Ir(h, "nuevo", "revisar")
    /\ UNCHANGED <<memoria, mutex_servidores, indice, destino, listener>>

\* switch(algoritmoBalanceo.load())
Seguir(h) ==
    \/ algoritmoBalanceo = ROUND_ROBIN       /\ Ir(h, "revisar", "rr")
    \/ algoritmoBalanceo = ROUND_ROBIN_PESOS /\ Ir(h, "revisar", "pesos")
    \/ algoritmoBalanceo = DIRECCION_CLIENTE /\ Ir(h, "revisar", "direccion")
    \/ algoritmoBalanceo = CONEXIONES_ACTIVA /\ Ir(h, "revisar", "conexiones")

\* Mutant: the registry is not tested for being empty.
RevisarSinMirar(h) ==
    /\ Seguir(h)
    /\ UNCHANGED <<memoria, mutex_servidores, indice, destino, listener>>

\* The unlocked servidores.empty(): an empty registry is answered with a 503,
\* else the thread follows the method in force.
Revisar(h) ==
    /\ \/ tam = 0 /\ Ir(h, "revisar", "rechazada")
       \/ tam # 0 /\ Seguir(h)
    /\ UNCHANGED <<memoria, mutex_servidores, indice, destino, listener>>

\* Mutants: the cursor wraps one too late, or is not written back.
SiguienteTarde   == IF roundRobin_Actual + 1 > tam \/ roundRobin_Actual + 1 < 0
                    THEN 0 ELSE roundRobin_Actual + 1
SiguienteQuieto  == roundRobin_Actual

\* value >= servidores.size() compares an int with a size_t, so that a negative
\* value starts again at 0 too.
SiguienteCursor  == IF roundRobin_Actual + 1 >= tam \/ roundRobin_Actual + 1 < 0
                    THEN 0 ELSE roundRobin_Actual + 1

\* The cursor as it stands is the choice; what is kept in range is its successor.
RoundRobin(h) ==
    /\ Libre /\ Ir(h, "rr", "sumar")
    /\ indice' = [indice EXCEPT ![h] = roundRobin_Actual]
    /\ roundRobin_Actual' = SiguienteCursor
    /\ vuelta' = {roundRobin_Actual} \union (IF Vivas \subseteq vuelta THEN {} ELSE vuelta)
    /\ UNCHANGED <<registro, algoritmoBalanceo, clientes, proceso, tocados,
                   mutex_servidores, destino, listener>>

\* ROUND_ROBIN_PESOS takes the lock and keeps it through its search.
PesosEntrar(h) ==
    /\ Libre /\ Ir(h, "pesos", "girar")
    /\ mutex_servidores' = h
    /\ indice' = [indice EXCEPT ![h] = 0]
    /\ UNCHANGED <<memoria, destino, listener>>

PesosAvanzar(h) ==
    /\ pc[h] = "girar" /\ Sobrecargado(indice[h])
    /\ indice' = [indice EXCEPT ![h] = IF @ + 1 >= tam THEN 0 ELSE @ + 1]
    /\ UNCHANGED <<memoria, mutex_servidores, pc, destino, listener>>

\* Mutant: the search ends and the lock is kept.
PesosElegirSinSoltar(h) ==
    /\ Ir(h, "girar", "sumar") /\ ~Sobrecargado(indice[h])
    /\ UNCHANGED <<memoria, mutex_servidores, indice, destino, listener>>

PesosElegir(h) ==
    /\ Ir(h, "girar", "sumar") /\ ~Sobrecargado(indice[h])
    /\ mutex_servidores' = Nadie
    /\ UNCHANGED <<memoria, indice, destino, listener>>

\* buscarCliente compares the addresses of inet_ntoa's one static buffer, which
\* are equal whatever the clients are: any registered client will do.
EncuentraCliente == clientes # {}

\* buscarCliente is called by hilo_Cliente and once more by agregarCliente.
BuscarCliente(h) ==
    /\ \/ EncuentraCliente  /\ Ir(h, "direccion", "sumar")
       \/ ~EncuentraCliente /\ Ir(h, "direccion", "agregar")
       \/ EncuentraCliente  /\ Ir(h, "agregar", "sumar")
       \/ ~EncuentraCliente /\ Ir(h, "agregar", "asociar")
    /\ UNCHANGED <<memoria, mutex_servidores, indice, destino, listener>>

\* The server tied to the client is &servidores[rand() % size], which nobody
\* reads afterwards: indice_ip stays 0.  With no server left it is rand() % 0.
Asociar(h) ==
    /\ \/ /\ tam # 0 /\ Ir(h, "asociar", "sumar")
          /\ clientes' = clientes \union {h}
          /\ UNCHANGED proceso
       \/ /\ tam = 0 /\ pc[h] = "asociar"
          /\ proceso' = "caido"
          /\ UNCHANGED <<pc, clientes>>
    /\ UNCHANGED <<registro, roundRobin_Actual, algoritmoBalanceo, historia,
                   mutex_servidores, indice, destino, listener>>

ConexionesActiva(h) ==
    /\ Libre /\ Ir(h, "conexiones", "sumar")
    /\ \E i \in {-1} \union Vivas :
          BuscarServidorConMenorCarga(i) /\ indice' = [indice EXCEPT ![h] = i]
    /\ UNCHANGED <<memoria, mutex_servidores, destino, listener>>

\* servidores[indice_ip].carga_actual++.  At -1 that int is the size field of
\* the heap chunk; elsewhere outside the storage it is a stray write.
Sumar(h) ==
    /\ Libre /\ Ir(h, "sumar", "conectar")
    /\ \/ EnBuffer(indice[h]) /\ buffer' = MasCarga(indice[h], 1) /\ UNCHANGED proceso
       \/ ~EnBuffer(indice[h]) /\ proceso' = "danado" /\ UNCHANGED buffer
       \/ ~EnBuffer(indice[h]) /\ indice[h] # -1 /\ proceso' = "caido" /\ UNCHANGED buffer
    /\ UNCHANGED <<tam, servidoresActuales, roundRobin_Actual, algoritmoBalanceo,
                   clientes, historia, mutex_servidores, indice, destino, listener>>

\* Both arguments of conectar are read without the lock, one after the other.
LeerIp(h) ==
    /\ Ir(h, "conectar", "puerto")
    /\ destino' = [destino EXCEPT ![h] =
                      IF EnBuffer(indice[h]) THEN Ranura(indice[h]).comparador ELSE Nadie]
    /\ UNCHANGED <<memoria, mutex_servidores, indice, listener>>

\* connect may fail for any target, and succeeds only if the ip and the port are
\* those of one server.  The failure branch returns without taking the unit of
\* load back.
Conectar(h) ==
    /\ \/ Ir(h, "puerto", "fallida")
       \/ /\ EnBuffer(indice[h]) /\ destino[h] = Ranura(indice[h]).comparador
          /\ Ir(h, "puerto", "reenviar")
    /\ destino' = [destino EXCEPT ![h] = Nadie]
    /\ UNCHANGED <<memoria, mutex_servidores, indice, listener>>

\* The request is forwarded until one read shows its final blank line.  If the
\* client closes before that, read returns 0 for ever and so the loop runs.
Reenviar(h) ==
    /\ Ir(h, "reenviar", "responder")
    /\ UNCHANGED <<memoria, mutex_servidores, indice, destino, listener>>

ClienteCorta(h) ==
    /\ Ir(h, "reenviar", "atascada")
    /\ UNCHANGED <<memoria, mutex_servidores, indice, destino, listener>>

\* The response is relayed until the server closes its end (or dies).
Responder(h) ==
    /\ Ir(h, "responder", "restar")
    /\ UNCHANGED <<memoria, mutex_servidores, indice, destino, listener>>

\* Mutant: the unit of load is kept.
RestarOlvidado(h) ==
    /\ Libre /\ Ir(h, "restar", "servida")
    /\ UNCHANGED <<memoria, mutex_servidores, indice, destino, listener>>

\* servidores[indice_ip].carga_actual--, whichever server is in that slot now.
Restar(h) ==
    /\ Libre /\ Ir(h, "restar", "servida")
    /\ buffer' = MasCarga(indice[h], -1)
    /\ UNCHANGED <<tam, servidoresActuales, roundRobin_Actual, algoritmoBalanceo,
                   clientes, proceso, historia, mutex_servidores, indice, destino, listener>>

Seleccionar(h) ==
    \/ RoundRobin(h) \/ PesosEntrar(h) \/ PesosAvanzar(h) \/ PesosElegir(h)
    \/ BuscarCliente(h) \/ Asociar(h) \/ ConexionesActiva(h)

hilo_Cliente(h) ==
    \/ Revisar(h) \/ Seleccionar(h) \/ Sumar(h) \/ LeerIp(h) \/ Conectar(h)
    \/ Reenviar(h) \/ Responder(h) \/ Restar(h)

-------------------------------------------------------------------------------
(* hilo_Escuchador_Servidores                                              *)

\* recibirDatagram.  Web servers announce themselves when they please and the
\* network loses, delays and repeats datagrams: any one may be the next.
RecibirDatagram(d) ==
    /\ pcES = "recibir"
    /\ datagrama' = d
    /\ pcES' = IF d.tipo = "S/C" THEN "buscarAgregar" ELSE "buscarEliminar"
    /\ UNCHANGED <<memoria, mutex_servidores, hilos, posicion>>

Volver == pcES' = "recibir" /\ datagrama' = Nadie

\* Where a request has seen a server and not chosen one, and where it counts in
\* the load of the one it chose.
Elige  == {"rr", "pesos", "girar", "direccion", "agregar", "asociar", "conexiones"}
Cuenta == {"conectar", "puerto", "reenviar", "atascada", "responder", "restar", "fallida"}

\* A change of the registry that empties it, or puts another server, or none,
\* into the slots from p on, catches these requests.
Alcanzados(p) ==
    {h \in Hilos : \/ pc[h] \in Cuenta /\ indice[h] >= p
                   \/ pc[h] \in Elige /\ tam' = 0}

\* Mutant: a repeated announcement is not noticed.
BuscarAgregarNunca ==
    /\ Libre /\ pcES = "buscarAgregar"
    /\ pcES' = "insertar"
    /\ UNCHANGED <<memoria, mutex_servidores, hilos, datagrama, posicion>>

\* agregarServidor, first critical section.
BuscarAgregar ==
    /\ Libre /\ pcES = "buscarAgregar"
    /\ \/ BuscarServidor(datagrama.id, -1) /\ pcES' = "insertar" /\ UNCHANGED datagrama
       \/ (\E i \in Vivas : BuscarServidor(datagrama.id, i)) /\ Volver
    /\ UNCHANGED <<memoria, mutex_servidores, hilos, posicion>>

\* agregarServidor, second critical section.  Growing a vector whose heap
\* header was overwritten may abort the process.
Insertar ==
    /\ Libre /\ pcES = "insertar"
    /\ \E c \in CargasMaximas :
          buffer' = PushBack([comparador |-> datagrama.id, carga_actual |-> 0,
                              carga_maxima |-> c])
    /\ tam' = tam + 1
    /\ pcES' = "avisar"
    /\ tocados' = tocados \union {h \in Hilos : pc[h] \in Cuenta /\ indice[h] = tam}
    /\ vuelta' = {}
    /\ \/ UNCHANGED proceso
       \/ proceso = "danado" /\ proceso' = "caido"
    /\ UNCHANGED <<servidoresActuales, roundRobin_Actual, algoritmoBalanceo, clientes,
                   mutex_servidores, hilos, datagrama, posicion>>

\* stats.servidoresActuales++, then avisarServidores(false), whose "B/C/" and
\* whose new broadcast socket only the web servers notice.
AvisarServidores ==
    /\ pcES = "avisar"
    /\ servidoresActuales' = servidoresActuales + 1
    /\ Volver
    /\ UNCHANGED <<buffer, tam, roundRobin_Actual, algoritmoBalanceo, clientes, proceso,
                   historia, mutex_servidores, hilos, posicion>>

\* eliminarServidor, first critical section.
BuscarEliminar ==
    /\ Libre /\ pcES = "buscarEliminar"
    /\ \/ /\ \E i \in Vivas : BuscarServidor(datagrama.id, i) /\ posicion' = i
          /\ pcES' = "borrar" /\ UNCHANGED datagrama
       \/ BuscarServidor(datagrama.id, -1) /\ Volver /\ UNCHANGED posicion
    /\ UNCHANGED <<memoria, mutex_servidores, hilos>>

\* eliminarServidor, second critical section, and the counter.
Borrar ==
    /\ Libre /\ pcES = "borrar"
    /\ buffer' = Erase(posicion)
    /\ tam' = tam - 1
    /\ servidoresActuales' = servidoresActuales - 1
    /\ posicion' = -1
    /\ tocados' = tocados \union Alcanzados(posicion)
    /\ vuelta' = {}
    /\ Volver
    /\ UNCHANGED <<roundRobin_Actual, algoritmoBalanceo, clientes, proceso,
                   mutex_servidores, hilos>>

hilo_Escuchador_Servidores ==
    \/ \E d \in Datagramas : RecibirDatagram(d)
    \/ BuscarAgregar \/ Insertar \/ AvisarServidores \/ BuscarEliminar \/ Borrar

\* hilo_Input: "metodo <n>".
SetAlgoritmoBalanceo(m) ==
    /\ algoritmoBalanceo' = m
    /\ UNCHANGED <<registro, roundRobin_Actual, clientes, proceso, historia,
                   mutex_servidores, hilos, listener>>

-------------------------------------------------------------------------------
Next ==
    /\ proceso # "caido"
    /\ \/ \E h \in Hilos : Aceptar(h) \/ hilo_Cliente(h) \/ ClienteCorta(h)
       \/ hilo_Escuchador_Servidores
       \/ \E m \in Metodos : SetAlgoritmoBalanceo(m)

Spec == Init /\ [][Next]_vars

\* Every thread that can run is eventually scheduled, and a server eventually
\* closes the connection it accepted.  Nothing is assumed of clients (Aceptar,
\* ClienteCorta, and the read without a timeout that Reenviar waits in), of the
\* operator, or of the datagrams.
FairSpec ==
    /\ Spec
    /\ \A h \in Hilos : WF_vars(proceso # "caido" /\ hilo_Cliente(h) /\ pc[h] # "reenviar")
    /\ WF_vars(proceso # "caido" /\ hilo_Escuchador_Servidores /\ pcES # "recibir")

-------------------------------------------------------------------------------
(* Properties                                                              *)

Finales == {"rechazada", "fallida", "servida"}

\* Threads that have chosen a server.
Eligio == Cuenta \union {"sumar", "servida"}

Pcs == {"nuevo", "revisar", "rechazada"} \union Elige \union Eligio

\* Type invariant: the storage of the vector covers its live part, and every
\* index, counter and program point is of its kind.
TypeOK ==
    /\ buffer \in Seq(ServidorRegistrado)
    /\ tam \in 0 .. Len(buffer)
    /\ servidoresActuales \in Int
    /\ roundRobin_Actual \in Int
    /\ algoritmoBalanceo \in 0 .. 3
    /\ clientes \subseteq Hilos
    /\ mutex_servidores \in Hilos \union {Nadie}
    /\ proceso \in {"sano", "danado", "caido"}
    /\ pc \in [Hilos -> Pcs]
    /\ indice \in [Hilos -> Int]
    /\ destino \in [Hilos -> Servidores \union {Nadie}]
    /\ pcES \in {"recibir", "buscarAgregar", "insertar", "avisar", "buscarEliminar", "borrar"}
    /\ datagrama \in Datagramas \union {Nadie}
    /\ posicion \in Int
    /\ tocados \subseteq Hilos
    /\ vuelta \subseteq Int

\* The -1 of CONEXIONES_ACTIVA, which only a registry emptied since the request
\* saw a server in it gives; and the requests with any other index outside.
SinServidor(h) == indice[h] = -1 /\ h \in tocados
Fuera(h) == pc[h] \in Eligio \union {"girar"} /\ ~EnBuffer(indice[h]) /\ ~SinServidor(h)

\* hilo_Cliente uses its index after letting go of the lock it computed it
\* under, and the registry may have shrunk: the index may be past the end of
\* the vector, yet it does not leave the storage of the vector.  The exceptions
\* are the -1 above, and one request at most, that which is given the value the
\* cursor was never initialised with.
IndiceEnBuffer ==
    \A h, g \in Hilos : Fuera(h) /\ Fuera(g) => h = g /\ indice[h] \in CursorInicial

\* agregarServidor looks a server up in one critical section and appends it in
\* another; still no server is ever registered twice.
RegistroSinDuplicados ==
    \A i, j \in Vivas : Ranura(i).comparador = Ranura(j).comparador => i = j

\* The "SERVIDORES CONECTADOS" counter, kept outside the lock, is the size of
\* the registry whenever the listener is waiting for a datagram.
EstadisticaCuadra == pcES = "recibir" => servidoresActuales = tam

\* Each request caught by a change of the registry between its choice and the
\* end of its connection puts the load of any one server out by at most one, up
\* or down, and for good.  Nothing else does: but for those, the load of a server
\* is the number of its requests in progress plus those whose connection failed.
CargaCuadra ==
    proceso = "sano" => \A i \in Vivas :
        LET suyas == Cardinality({h \in Hilos : pc[h] \in Cuenta /\ indice[h] = i})
            error == Cardinality(tocados)
        IN  Ranura(i).carga_actual \in suyas - error .. suyas + error

\* The balancer writes outside its vector, or divides by the size of an empty
\* one, only for a request that was given the value the cursor was never
\* initialised with, or that had seen a server when the last one left.
ProcesoSano ==
    proceso # "sano" =>
        \/ \E h \in Hilos : pc[h] \in Eligio /\ indice[h] \in CursorInicial \ {0}
        \/ \E h \in tocados :
              (pc[h] \in Eligio /\ indice[h] = -1) \/ (pc[h] = "asociar" /\ tam = 0)

\* ROUND_ROBIN deals in turn between two changes of the registry: each request
\* but the first is given a live slot, and none is given twice in a lap, before
\* every other live slot has been given once.  The first one may be given what
\* the change left in the cursor.
ReparteEnOrden ==
    [][\A h \in Hilos : pc[h] = "rr" /\ pc'[h] = "sumar" /\ vuelta # {} /\ tam # 0 =>
          indice'[h] \in Vivas /\ (indice'[h] \in vuelta => Vivas \subseteq vuelta)]_vars

\* The slot a thread chose keeps denoting the same server until the thread has
\* given its unit of load back.  It does not: a departure shifts the slots.
IndiceEstable ==
    [][\A h \in Hilos : pc[h] \in Eligio \ Finales /\ pc'[h] \in Eligio /\ EnBuffer(indice[h])
          => Ranura(indice[h])'.comparador = Ranura(indice[h]).comparador]_vars

\* The search of ROUND_ROBIN_PESOS goes round for ever: every slot it looks at is
\* overloaded (slot 0 even in an empty registry), and no load can change, as that
\* takes the mutex the search holds.
Atascado ==
    mutex_servidores # Nadie /\ \A i \in Vivas \union {0} : Sobrecargado(i)

Detenido == proceso = "caido" \/ Atascado

\* Every accepted request gets to its end or waits for its client, unless the
\* client cut it short, the process dies, or the search goes round for ever.
SolicitudTermina ==
    \A h \in Hilos :
        pc[h] \notin {"nuevo", "reenviar"} ~>
            pc[h] \in Finales \union {"reenviar", "atascada"} \/ Detenido

\* The listener always gets back to listening, under the same conditions.
AvisoAtendido == []<>(pcES = "recibir" \/ Detenido)

\* The mutex that the requests and the listener share holds nobody up for ever
\* in any other way than the search of ROUND_ROBIN_PESOS does.
TodosAvanzan == SolicitudTermina /\ AvisoAtendido

\* The abstract registry of a state: the live part of the vector, and the
\* announcement that the listener has not carried out yet.
registradosBar == [k \in 1 .. tam |-> buffer[k].comparador]
avisoBar       == IF pcES \in {"recibir", "avisar"} THEN Nadie ELSE datagrama

R == INSTANCE Registro WITH registrados <- registradosBar, aviso <- avisoBar

\* The registry behaves as an ordered set whose announcements are atomic.
EsRegistro == R!Spec
===============================================================================
