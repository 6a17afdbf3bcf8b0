------------------------------ MODULE Descriptores ------------------------------
(***************************************************************************)
(* The file descriptors of the serving balancer.  A Socket (Socket.cpp)    *)
(* owns a number, not a file: cerrar() and the destructor both call        *)
(* close(id), and a number that is free is given to the next socket() or   *)
(* accept() of any thread.  The model keeps the table of the process and   *)
(* the numbers the Socket objects hold: the one of the HTTP listener, the  *)
(* one of the broadcast socket, which avisarServidores replaces, and the   *)
(* two of every request.                                                   *)
(*                                                                         *)
(* What is chosen and sent is in Balanceador; here a step is one system    *)
(* call on a descriptor.                                                   *)
(***************************************************************************)
EXTENDS Integers, FiniteSets

CONSTANTS
    Hilos,            \* request threads
    MaxDescriptores,  \* how many descriptors the process may have open
    MaxAltas          \* bound: how many new servers are announced

ASSUME DescriptoresAssumption ==
    MaxDescriptores \in Nat /\ MaxDescriptores >= 2 /\ MaxAltas \in Nat

VARIABLES
    tabla,         \* [1 .. MaxDescriptores -> what is open there]
    idCliente,     \* [Hilos -> socket_cliente->id]
    idServidor,    \* [Hilos -> socket_servidor->id]
    reservado,     \* the number accept took on entry, or -1
    idBroadcast,   \* escuchador_broadcast->id
    pcH,           \* [Hilos -> where in hilo_Cliente]
    pcEC,          \* where in Socket::aceptar the thread of clients is
    pcES,          \* where in avisarServidores the thread of servers is
    altas          \* servers announced so far

hilos == <<idCliente, idServidor, pcH>>
vars  == <<tabla, hilos, reservado, idBroadcast, pcEC, pcES, altas>>

Numeros == 1 .. MaxDescriptores
idHttp  == 1     \* escuchador_http->id: vincularPuertos opens it first

Libre       == [que |-> "libre"]
Http        == [que |-> "http"]
Broadcast   == [que |-> "broadcast"]
Sobrante    == [que |-> "sobrante"]
Reservado   == [que |-> "reservado"]
Cliente(h)  == [que |-> "cliente", hilo |-> h]
Servidor(h) == [que |-> "servidor", hilo |-> h]

Archivos == {Libre, Http, Broadcast, Sobrante, Reservado}
                \union {Cliente(h) : h \in Hilos} \union {Servidor(h) : h \in Hilos}

\* socket() and accept() give the lowest free number, or fail with -1.
Menor(n) ==
    \/ n = -1 /\ \A d \in Numeros : tabla[d] # Libre
    \/ n \in Numeros /\ tabla[n] = Libre /\ \A d \in 1 .. n - 1 : tabla[d] # Libre

Abre(n, x) == tabla' = [d \in Numeros |-> IF d = n THEN x ELSE tabla[d]]

\* Mutant: the number is not given back.
CerrarNada(n) == tabla' = tabla

\* Socket::cerrar: whatever is open under the number is closed.  A number that
\* accept has reserved has no file yet, and close refuses it.
Cerrar(n) ==
    tabla' = [d \in Numeros |-> IF d = n /\ tabla[d] # Reservado THEN Libre ELSE tabla[d]]

Init ==
    /\ tabla = [d \in Numeros |-> IF d = idHttp THEN Http
                                  ELSE IF d = 2 THEN Broadcast ELSE Libre]
    /\ idCliente = [h \in Hilos |-> -1] /\ idServidor = [h \in Hilos |-> -1]
    /\ reservado = -1 /\ idBroadcast = 2
    /\ pcH = [h \in Hilos |-> "nuevo"]
    /\ pcEC = "construir" /\ pcES = "leer"
    /\ altas = 0

-------------------------------------------------------------------------------
(* hilo_Escuchador_Clientes                                                *)

\* A client connects: the kernel completes the connection by itself.
Llegar(h) ==
    /\ pcH[h] = "nuevo" /\ pcH' = [pcH EXCEPT ![h] = "pendiente"]
    /\ UNCHANGED <<tabla, idCliente, idServidor, reservado, idBroadcast, pcEC, pcES, altas>>

\* aceptar builds the object, whose constructor opens a descriptor of its own.
Construir ==
    /\ pcEC = "construir" /\ pcEC' = "reservar"
    /\ \E n \in Numeros \union {-1} : Menor(n) /\ Abre(n, Sobrante)
    /\ UNCHANGED <<hilos, reservado, idBroadcast, pcES, altas>>

\* accept takes a number and waits.  With none left it fails, aceptar returns
\* nullptr and the thread calls it again.
Reservar ==
    /\ pcEC = "reservar"
    /\ \E n \in Numeros \union {-1} :
          /\ Menor(n) /\ Abre(n, Reservado) /\ reservado' = n
          /\ pcEC' = IF n = -1 THEN "construir" ELSE "aceptar"
    /\ UNCHANGED <<hilos, idBroadcast, pcES, altas>>

\* Mutant: the new Socket is given the id of the listener.
AceptarConIdPropio(h) ==
    /\ pcEC = "aceptar" /\ pcEC' = "construir"
    /\ pcH[h] = "pendiente" /\ pcH' = [pcH EXCEPT ![h] = "revisar"]
    /\ Abre(reservado, Cliente(h))
    /\ idCliente' = [idCliente EXCEPT ![h] = idHttp]
    /\ reservado' = -1
    /\ UNCHANGED <<idServidor, idBroadcast, pcES, altas>>

\* accept returns, and asignarID stores its number over the one of the
\* constructor, which nobody knows any more.
Aceptar(h) ==
    /\ pcEC = "aceptar" /\ pcEC' = "construir"
    /\ pcH[h] = "pendiente" /\ pcH' = [pcH EXCEPT ![h] = "revisar"]
    /\ Abre(reservado, Cliente(h))
    /\ idCliente' = [idCliente EXCEPT ![h] = reservado]
    /\ reservado' = -1
    /\ UNCHANGED <<idServidor, idBroadcast, pcES, altas>>

hilo_Escuchador_Clientes == Construir \/ Reservar \/ \E h \in Hilos : Aceptar(h)

-------------------------------------------------------------------------------
(* hilo_Cliente                                                            *)

Ir(h, de, a) == pcH[h] = de /\ pcH' = [pcH EXCEPT ![h] = a]

\* With no server registered the socket is closed and its object never deleted.
Rechazar(h) ==
    /\ Ir(h, "revisar", "fin")
    /\ Cerrar(idCliente[h])
    /\ idCliente' = [idCliente EXCEPT ![h] = -1]
    /\ UNCHANGED <<idServidor, reservado, idBroadcast, pcEC, pcES, altas>>

NuevoSocket(h) ==
    /\ Ir(h, "revisar", "conectar")
    /\ \E n \in Numeros \union {-1} :
          /\ Menor(n) /\ Abre(n, Servidor(h))
          /\ idServidor' = [idServidor EXCEPT ![h] = n]
    /\ UNCHANGED <<idCliente, reservado, idBroadcast, pcEC, pcES, altas>>

\* connect fails, or the request is forwarded and its response relayed.  Both
\* paths close the two sockets; only after a response is there a line to log in
\* between the two calls of cerrar and the two of delete.
Conectar(h) ==
    /\ \/ Ir(h, "conectar", "cerrarCliente")
       \/ idServidor[h] # -1 /\ Ir(h, "conectar", "relevar")
    /\ UNCHANGED <<tabla, idCliente, idServidor, reservado, idBroadcast, pcEC, pcES, altas>>

Relevar(h) ==
    /\ Ir(h, "relevar", "cerrarCliente")
    /\ UNCHANGED <<tabla, idCliente, idServidor, reservado, idBroadcast, pcEC, pcES, altas>>

\* socket_cliente->cerrar()
CerrarCliente(h) ==
    /\ Ir(h, "cerrarCliente", "cerrarServidor")
    /\ Cerrar(idCliente[h])
    /\ UNCHANGED <<idCliente, idServidor, reservado, idBroadcast, pcEC, pcES, altas>>

\* socket_servidor->cerrar()
CerrarServidor(h) ==
    /\ Ir(h, "cerrarServidor", "borrarCliente")
    /\ Cerrar(idServidor[h])
    /\ UNCHANGED <<idCliente, idServidor, reservado, idBroadcast, pcEC, pcES, altas>>

\* delete socket_cliente: the destructor closes the same number again.
BorrarCliente(h) ==
    /\ Ir(h, "borrarCliente", "borrarServidor")
    /\ Cerrar(idCliente[h])
    /\ UNCHANGED <<idCliente, idServidor, reservado, idBroadcast, pcEC, pcES, altas>>

\* delete socket_servidor
BorrarServidor(h) ==
    /\ Ir(h, "borrarServidor", "fin")
    /\ Cerrar(idServidor[h])
    /\ idCliente' = [idCliente EXCEPT ![h] = -1]
    /\ idServidor' = [idServidor EXCEPT ![h] = -1]
    /\ UNCHANGED <<reservado, idBroadcast, pcEC, pcES, altas>>

hilo_Cliente(h) ==
    \/ Rechazar(h) \/ NuevoSocket(h) \/ Conectar(h) \/ Relevar(h)
    \/ CerrarCliente(h) \/ CerrarServidor(h) \/ BorrarCliente(h) \/ BorrarServidor(h)

-------------------------------------------------------------------------------
(* hilo_Escuchador_Servidores, in avisarServidores(false)                  *)

\* recvfrom is entered on the socket bound to the broadcast port, and brings the
\* announcement of a new server.  On any other socket none ever comes.
RecibirAnuncio ==
    /\ pcES = "leer" /\ altas < MaxAltas
    /\ idBroadcast \in Numeros /\ tabla[idBroadcast] = Broadcast
    /\ pcES' = "avisar" /\ altas' = altas + 1
    /\ UNCHANGED <<tabla, hilos, reservado, idBroadcast, pcEC>>

\* The old socket is closed, that is, whatever its number leads to by now.
CerrarBroadcast ==
    /\ pcES = "avisar" /\ pcES' = "abrir"
    /\ Cerrar(idBroadcast)
    /\ UNCHANGED <<hilos, reservado, idBroadcast, pcEC, altas>>

\* new Socket(false, false), bound again; the old object is never deleted.
AbrirBroadcast ==
    /\ pcES = "abrir" /\ pcES' = "leer"
    /\ \E n \in Numeros \union {-1} : Menor(n) /\ idBroadcast' = n /\ Abre(n, Broadcast)
    /\ UNCHANGED <<hilos, reservado, pcEC, altas>>

Next ==
    \/ \E h \in Hilos : Llegar(h) \/ hilo_Cliente(h)
    \/ hilo_Escuchador_Clientes
    \/ RecibirAnuncio \/ CerrarBroadcast \/ AbrirBroadcast

Spec == Init /\ [][Next]_vars

-------------------------------------------------------------------------------
(* Properties                                                              *)

\* Where the number of a thread's socket is in use by that thread.
UsaCliente(h)  == pcH[h] \in {"revisar", "conectar", "relevar"}
UsaServidor(h) == pcH[h] \in {"conectar", "relevar"} /\ idServidor[h] # -1

\* Type invariant: every number is free, open to one file or reserved, and the
\* numbers that the sockets hold are numbers or -1.
TypeOK ==
    /\ tabla \in [Numeros -> Archivos]
    /\ idCliente \in [Hilos -> Numeros \union {-1}]
    /\ idServidor \in [Hilos -> Numeros \union {-1}]
    /\ reservado \in Numeros \union {-1} /\ idBroadcast \in Numeros \union {-1}
    /\ pcH \in [Hilos -> {"nuevo", "pendiente", "revisar", "conectar", "relevar",
                          "cerrarCliente", "cerrarServidor", "borrarCliente",
                          "borrarServidor", "fin"}]
    /\ pcEC \in {"construir", "reservar", "aceptar"} /\ pcES \in {"leer", "avisar", "abrir"}
    /\ altas \in 0 .. MaxAltas

\* However often sockets are closed twice, the listener of clients stays open:
\* its number is never free, so no request ever holds it.
HttpAbierto == tabla[idHttp] = Http

\* A connection never outlives its request: whatever is open for a thread is
\* under the number its Socket holds, and the thread has yet to close it.
ConexionConDueno ==
    \A d \in Numeros, h \in Hilos :
        /\ tabla[d] = Cliente(h) =>
              d = idCliente[h] /\ pcH[h] \in {"revisar", "conectar", "relevar", "cerrarCliente"}
        /\ tabla[d] = Servidor(h) =>
              d = idServidor[h]
              /\ pcH[h] \in {"conectar", "relevar", "cerrarCliente", "cerrarServidor"}

\* Every request has one connection of its own: no thread closes the socket of
\* another, so the number a thread uses is that of its own connection.  The code
\* does not keep it (README, section 6): no run checks it.
CadaUnoLoSuyo ==
    \A h \in Hilos :
        /\ UsaCliente(h)  => tabla[idCliente[h]] = Cliente(h)
        /\ UsaServidor(h) => tabla[idServidor[h]] = Servidor(h)
===============================================================================
