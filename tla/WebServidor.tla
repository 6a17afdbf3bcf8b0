----------------------------- MODULE WebServidor -----------------------------
(***************************************************************************)
(* How web servers and the balancer find and leave each other:             *)
(* src/src/WebServidor.cpp together with the listener of servers of        *)
(* src/src/Balanceador.cpp.                                                *)
(*                                                                         *)
(* A web server is three processes that share two flags: the first one,    *)
(* pcM, forks the other two and waits for the end; the announcer, pcA,     *)
(* sends "S/C", waits for "B/C" and then serves requests; the listener,    *)
(* pcE, waits for "B/D".  The broadcast socket of the constructor is       *)
(* shared by the three, but the announcer replaces its own twice, and only *)
(* the listener reads the first one.                                       *)
(*                                                                         *)
(* The balancer's registry is Registro, which Balanceador implements.  It  *)
(* too replaces its socket whenever it greets, and what was queued in the  *)
(* old one, or arrives in between, is gone.                                *)
(*                                                                         *)
(* Of a datagram that only matters once, "B/C" and "B/D", it is enough to  *)
(* know that one is queued.  A signal stops its target at once.  The       *)
(* processes that serve requests are left out.                             *)
(***************************************************************************)
EXTENDS Integers, Sequences

CONSTANTS
    Servidores,    \* web servers, by address and port
    Nadie,         \* no announcement
    MaxBuzon,      \* bound on the datagrams queued in the balancer's socket
    MaxPerdidas,   \* bound on the datagrams that the network loses
    MaxArranques   \* bound on how often a program is started

ASSUME WebAssumption ==
    /\ MaxBuzon \in Nat \ {0} /\ MaxPerdidas \in Nat /\ MaxArranques \in Nat
    /\ Nadie \notin [tipo : {"S/C", "S/D"}, id : Servidores]

VARIABLES
    pcM, pcA, pcE,   \* the three processes of each server
    ejecutandose,    \* shared flag: the server goes on
    conectado,       \* shared flag: a balancer answered
    hayBC,           \* a "B/C" is queued in the announcer's socket
    hayBD,           \* a "B/D" is queued in the shared socket
    pcB,             \* the balancer's listener of servers
    cerrando,        \* the balancer was told to end
    buzon,           \* datagrams queued in the balancer's socket
    registrados,     \* the balancer's registry, as in Registro
    aviso,           \* the announcement it is dealing with, as in Registro
    perdidas,        \* datagrams lost by the network, or not sent in a crash
    arranques,       \* programs started
    ultimo           \* the last announcement of each server that the present
                     \* balancer has or will read, "nada" if there is none or
                     \* the last one was lost

procesos   == <<pcM, pcA, pcE>>
banderas   == <<ejecutandose, conectado>>
colas      == <<hayBC, hayBD>>
balanceador == <<pcB, cerrando, registrados, aviso>>
vars == <<procesos, banderas, colas, balanceador, buzon, perdidas, arranques, ultimo>>

R == INSTANCE Registro

Avisos == R!Avisos

PcM == {"fuera", "crear", "crear2", "instalar", "esperar", "destruir", "terminado", "abortado"}
PcA == {"fuera", "abrir", "anunciar", "leer", "abrir2", "anunciar2", "marcar", "atender"}
PcE == {"fuera", "escuchar"}
PcB == {"apagado", "recibir", "tratar", "cerrar", "abrir", "enviar"}

Init ==
    /\ pcM = [s \in Servidores |-> "fuera"]
    /\ pcA = [s \in Servidores |-> "fuera"]
    /\ pcE = [s \in Servidores |-> "fuera"]
    /\ ejecutandose = [s \in Servidores |-> FALSE]
    /\ conectado = [s \in Servidores |-> FALSE]
    /\ hayBC = [s \in Servidores |-> FALSE] /\ hayBD = [s \in Servidores |-> FALSE]
    /\ pcB = "apagado" /\ cerrando = FALSE
    /\ buzon = <<>> /\ R!Init
    /\ perdidas = 0 /\ arranques = 0
    /\ ultimo = [s \in Servidores |-> "nada"]

-------------------------------------------------------------------------------
(* The network                                                             *)

Perder == perdidas < MaxPerdidas /\ perdidas' = perdidas + 1

\* Whether the balancer has a socket that it will read again.
Vinculado == pcB \notin {"apagado", "abrir"} /\ ~cerrando

\* A server announces itself to whatever balancer there is.
Anunciar(s, tipo) ==
    \/ /\ Vinculado /\ Len(buzon) < MaxBuzon
       /\ buzon' = Append(buzon, [tipo |-> tipo, id |-> s])
       /\ ultimo' = [ultimo EXCEPT ![s] = tipo]
       /\ UNCHANGED perdidas
    \/ /\ ~Vinculado
       /\ ultimo' = [ultimo EXCEPT ![s] = "nada"]
       /\ UNCHANGED <<buzon, perdidas>>
    \/ /\ Vinculado /\ Perder
       /\ ultimo' = [ultimo EXCEPT ![s] = "nada"]
       /\ UNCHANGED buzon

\* The announcer reads "B/C" from its first own socket, the listener "B/D"
\* from the one that the constructor bound.
Leen(tipo) ==
    IF tipo = "B/C" THEN {s \in Servidores : pcA[s] \in {"anunciar", "leer"}}
                    ELSE {s \in Servidores : pcM[s] \in {"crear", "crear2"} \/ pcE[s] = "escuchar"}

\* A datagram of the balancer reaches every socket, but for one that may be lost.
Difundir(tipo) ==
    \E L \in {{}} \union {{s} : s \in Leen(tipo)} :
        /\ IF L = {} THEN UNCHANGED perdidas ELSE Perder
        /\ LET llega == Leen(tipo) \ L
           IN  IF tipo = "B/C"
               THEN /\ hayBC' = [s \in Servidores |-> hayBC[s] \/ s \in llega]
                    /\ UNCHANGED hayBD
               ELSE /\ hayBD' = [s \in Servidores |-> hayBD[s] \/ s \in llega]
                    /\ UNCHANGED hayBC

-------------------------------------------------------------------------------
(* The web server                                                          *)

Contar == arranques < MaxArranques /\ arranques' = arranques + 1

\* The constructor sets the flags and binds the shared socket.  A server is not
\* started again beside an announcer of its own that was left behind.
Arrancar(s) ==
    /\ pcM[s] \in {"fuera", "terminado", "abortado"} /\ pcA[s] = "fuera" /\ Contar
    /\ pcM' = [pcM EXCEPT ![s] = "crear"]
    /\ ejecutandose' = [ejecutandose EXCEPT ![s] = TRUE]
    /\ conectado' = [conectado EXCEPT ![s] = FALSE]
    /\ UNCHANGED <<pcA, pcE, colas, balanceador, buzon, perdidas, ultimo>>

CrearAnunciador(s) ==
    /\ pcM[s] = "crear"
    /\ pcM' = [pcM EXCEPT ![s] = "crear2"] /\ pcA' = [pcA EXCEPT ![s] = "abrir"]
    /\ UNCHANGED pcE

CrearEscucha(s) ==
    /\ pcM[s] = "crear2"
    /\ pcM' = [pcM EXCEPT ![s] = "instalar"] /\ pcE' = [pcE EXCEPT ![s] = "escuchar"]
    /\ UNCHANGED pcA

\* A fork that fails ends the process that called it, whose exit(1) kills nobody
\* and says no good-bye: the first process leaves the announcer it may have
\* behind, and an announcer, who forks for each request, leaves the other two.
FallarFork(s) ==
    /\ \/ pcM[s] = "crear" /\ pcM' = [pcM EXCEPT ![s] = "fuera"] /\ UNCHANGED pcA
       \/ pcM[s] = "crear2" /\ pcM' = [pcM EXCEPT ![s] = "abortado"] /\ UNCHANGED pcA
       \/ pcA[s] = "atender" /\ pcA' = [pcA EXCEPT ![s] = "fuera"] /\ UNCHANGED pcM
    /\ hayBD' = [hayBD EXCEPT ![s] = @ /\ pcM'[s] = pcM[s]]
    /\ UNCHANGED <<pcE, banderas, hayBC, balanceador, buzon, perdidas, arranques, ultimo>>

\* Only now does the first process handle the signal of Ctrl-C.
InstalarControlador(s) ==
    /\ pcM[s] = "instalar"
    /\ pcM' = [pcM EXCEPT ![s] = "esperar"]
    /\ UNCHANGED <<pcA, pcE>>

\* Mutant: the loop over the processes stops one short.
MatarSoloPrimero(s) ==
    /\ pcA' = [pcA EXCEPT ![s] = "fuera"] /\ UNCHANGED pcE
    /\ hayBC' = [hayBC EXCEPT ![s] = FALSE] /\ UNCHANGED hayBD

\* The other two processes die, and what was queued in their sockets is gone.
Matar(s) ==
    /\ pcA' = [pcA EXCEPT ![s] = "fuera"] /\ pcE' = [pcE EXCEPT ![s] = "fuera"]
    /\ hayBC' = [hayBC EXCEPT ![s] = FALSE] /\ hayBD' = [hayBD EXCEPT ![s] = FALSE]

\* Mutant: the end is only noticed by a server that is connected.
MatarSiConectado(s) ==
    /\ pcM[s] = "esperar" /\ ~ejecutandose[s] /\ conectado[s]
    /\ pcM' = [pcM EXCEPT ![s] = "destruir"]
    /\ Matar(s)
    /\ UNCHANGED <<banderas, balanceador, buzon, perdidas, arranques, ultimo>>

\* The first process leaves its loop, kills the other two and closes the socket.
MatarProcesos(s) ==
    /\ pcM[s] = "esperar" /\ ~ejecutandose[s]
    /\ pcM' = [pcM EXCEPT ![s] = "destruir"]
    /\ Matar(s)
    /\ UNCHANGED <<banderas, balanceador, buzon, perdidas, arranques, ultimo>>

\* Mutant: the destructor announces the server with avisarBalanceadores(false).
DestruirSaludando(s) ==
    /\ pcM[s] = "destruir"
    /\ pcM' = [pcM EXCEPT ![s] = "terminado"]
    /\ IF conectado[s] THEN Anunciar(s, "S/C") ELSE UNCHANGED <<buzon, perdidas, ultimo>>
    /\ UNCHANGED <<pcA, pcE, banderas, colas, balanceador, arranques>>

\* The destructor says good-bye only if a balancer had answered.
Destruir(s) ==
    /\ pcM[s] = "destruir"
    /\ pcM' = [pcM EXCEPT ![s] = "terminado"]
    /\ IF conectado[s] THEN Anunciar(s, "S/D") ELSE UNCHANGED <<buzon, perdidas, ultimo>>
    /\ UNCHANGED <<pcA, pcE, banderas, colas, balanceador, arranques>>

Principal(s) ==
    \/ /\ CrearAnunciador(s) \/ CrearEscucha(s) \/ InstalarControlador(s)
       /\ UNCHANGED <<banderas, colas, balanceador, buzon, perdidas, arranques, ultimo>>
    \/ MatarProcesos(s)
    \/ Destruir(s)

\* Ctrl-C reaches the three processes; only the first one may handle it.
CtrlC(s) ==
    /\ pcM[s] \notin {"fuera", "terminado", "abortado"}
    /\ Matar(s)
    /\ \/ /\ pcM[s] \in {"crear", "crear2", "instalar"}
          /\ pcM' = [pcM EXCEPT ![s] = "fuera"]
          /\ UNCHANGED ejecutandose
       \/ /\ pcM[s] \in {"esperar", "destruir"}
          /\ ejecutandose' = [ejecutandose EXCEPT ![s] = FALSE]
          /\ UNCHANGED pcM
    /\ UNCHANGED <<conectado, balanceador, buzon, perdidas, arranques, ultimo>>

IrA(s, de, a) == pcA[s] = de /\ pcA' = [pcA EXCEPT ![s] = a] /\ UNCHANGED <<pcM, pcE>>

\* avisarBalanceadores: a new socket, with nothing queued, and an "S/C".
AbrirSocket(s) ==
    /\ IrA(s, "abrir", "anunciar") \/ IrA(s, "abrir2", "anunciar2")
    /\ hayBC' = [hayBC EXCEPT ![s] = FALSE]
    /\ UNCHANGED <<banderas, hayBD, buzon, perdidas, ultimo>>

\* Mutant: a server that was answered does not announce itself again.
AvisarUnaVez(s) ==
    /\ \/ IrA(s, "anunciar", "leer") /\ Anunciar(s, "S/C")
       \/ IrA(s, "anunciar2", "marcar") /\ UNCHANGED <<buzon, perdidas, ultimo>>
    /\ UNCHANGED <<banderas, colas>>

AvisarBalanceadores(s) ==
    /\ IrA(s, "anunciar", "leer") \/ IrA(s, "anunciar2", "marcar")
    /\ Anunciar(s, "S/C")
    /\ UNCHANGED <<banderas, colas>>

RecibirBC(s) ==
    /\ IrA(s, "leer", "abrir2") /\ hayBC[s]
    /\ UNCHANGED <<banderas, colas, buzon, perdidas, ultimo>>

MarcarConectado(s) ==
    /\ IrA(s, "marcar", "atender")
    /\ conectado' = [conectado EXCEPT ![s] = TRUE]
    /\ UNCHANGED <<ejecutandose, colas, buzon, perdidas, ultimo>>

Anunciador(s) ==
    /\ AbrirSocket(s) \/ AvisarBalanceadores(s) \/ RecibirBC(s) \/ MarcarConectado(s)
    /\ UNCHANGED <<balanceador, arranques>>

\* The listener reads nothing before the server is connected, and never leaves.
RecibirBD(s) ==
    /\ pcE[s] = "escuchar" /\ conectado[s] /\ hayBD[s]
    /\ hayBD' = [hayBD EXCEPT ![s] = FALSE]
    /\ ejecutandose' = [ejecutandose EXCEPT ![s] = FALSE]
    /\ UNCHANGED <<procesos, conectado, hayBC, balanceador, buzon, perdidas, arranques, ultimo>>

-------------------------------------------------------------------------------
(* The balancer                                                            *)

\* Binds its sockets, and greets before any thread of its own runs.
ArrancarBalanceador ==
    /\ pcB = "apagado" /\ Contar
    /\ pcB' = "cerrar" /\ cerrando' = FALSE
    /\ registrados' = <<>> /\ aviso' = Nadie /\ buzon' = <<>>
    /\ ultimo' = [s \in Servidores |-> "nada"]
    /\ UNCHANGED <<procesos, banderas, colas, perdidas>>

RecibirAviso ==
    /\ pcB = "recibir" /\ ~cerrando /\ buzon # <<>>
    /\ R!Recibir(Head(buzon)) /\ buzon' = Tail(buzon)
    /\ pcB' = "tratar"
    /\ UNCHANGED <<colas, cerrando, perdidas, ultimo>>

\* Mutant: position 0 taken for not found, so that the first server never leaves.
TratarMenosPrimero ==
    /\ pcB = "tratar"
    /\ \E s \in Servidores :
          \/ R!Alta(s) /\ pcB' = "cerrar"
          \/ (R!Baja(s) \/ R!Ignorar(s)) /\ (R!Esta(s) => registrados[1] # s) /\ pcB' = "recibir"
          \/ /\ aviso = [tipo |-> "S/D", id |-> s] /\ R!Esta(s) /\ registrados[1] = s
             /\ aviso' = Nadie /\ pcB' = "recibir" /\ UNCHANGED registrados
    /\ UNCHANGED <<colas, cerrando, buzon, perdidas, ultimo>>

\* agregarServidor and eliminarServidor: only a new server is greeted.
TratarAviso ==
    /\ pcB = "tratar"
    /\ \E s \in Servidores :
          \/ R!Alta(s) /\ pcB' = "cerrar"
          \/ (R!Baja(s) \/ R!Ignorar(s)) /\ pcB' = "recibir"
    /\ UNCHANGED <<colas, cerrando, buzon, perdidas, ultimo>>

\* avisarServidores: what was queued in the old socket is gone.
CerrarSocket ==
    /\ pcB = "cerrar" /\ pcB' = "abrir"
    /\ buzon' = <<>>
    /\ ultimo' = [s \in Servidores |->
                     IF \E k \in DOMAIN buzon : buzon[k].id = s THEN "nada" ELSE ultimo[s]]
    /\ UNCHANGED <<colas, cerrando, registrados, aviso, perdidas>>

AbrirNuevo ==
    /\ pcB = "abrir" /\ pcB' = "enviar"
    /\ UNCHANGED <<colas, cerrando, registrados, aviso, buzon, perdidas, ultimo>>

AvisarServidores ==
    /\ pcB = "enviar" /\ pcB' = "recibir"
    /\ Difundir("B/C")
    /\ UNCHANGED <<cerrando, registrados, aviso, buzon, ultimo>>

\* Told to end, the listener ends once it is done with its announcement.
Terminar ==
    /\ pcB = "recibir" /\ cerrando /\ pcB' = "apagado"
    /\ UNCHANGED <<colas, cerrando, registrados, aviso, buzon, perdidas, ultimo>>

EscuchadorServidores ==
    /\ \/ RecibirAviso \/ TratarAviso \/ Terminar
       \/ CerrarSocket \/ AbrirNuevo \/ AvisarServidores
    /\ UNCHANGED <<procesos, banderas, arranques>>

\* Ctrl-C: another thread sends "B/D" and closes the socket.  While the balancer
\* starts, nothing handles the signal yet and Ctrl-C is a crash.
Arrancando == pcB \in {"cerrar", "abrir", "enviar"} /\ registrados = <<>>

CtrlCBalanceador ==
    /\ pcB # "apagado" /\ ~Arrancando /\ ~cerrando
    /\ cerrando' = TRUE /\ buzon' = <<>>
    /\ Difundir("B/D")
    /\ ultimo' = [s \in Servidores |-> "nada"]
    /\ UNCHANGED <<procesos, banderas, pcB, registrados, aviso, arranques>>

\* The process is killed, or dies of a signal: nobody is told, as if its "B/D"
\* had been lost.
CaerBalanceador ==
    /\ pcB # "apagado" /\ pcB' = "apagado" /\ Perder
    /\ buzon' = <<>> /\ ultimo' = [s \in Servidores |-> "nada"]
    /\ UNCHANGED <<procesos, banderas, colas, cerrando, registrados, aviso, arranques>>

-------------------------------------------------------------------------------

Next ==
    \/ \E s \in Servidores :
          \/ Arrancar(s) \/ Principal(s) \/ FallarFork(s) \/ CtrlC(s)
          \/ Anunciador(s) \/ RecibirBD(s)
    \/ ArrancarBalanceador \/ EscuchadorServidores \/ CtrlCBalanceador \/ CaerBalanceador

Spec == Init /\ [][Next]_vars

\* Every process and thread that can run does; a fork need not fail.
FairSpec ==
    /\ Spec
    /\ \A s \in Servidores :
          WF_vars(Principal(s)) /\ WF_vars(Anunciador(s)) /\ WF_vars(RecibirBD(s))
    /\ WF_vars(EscuchadorServidores)

-------------------------------------------------------------------------------
(* Properties                                                              *)

\* Type invariant: processes, flags, queues and announcements are of their kind,
\* and the balancer has an announcement in hand exactly while it deals with it.
TypeOK ==
    /\ pcM \in [Servidores -> PcM] /\ pcA \in [Servidores -> PcA] /\ pcE \in [Servidores -> PcE]
    /\ ejecutandose \in [Servidores -> BOOLEAN] /\ conectado \in [Servidores -> BOOLEAN]
    /\ hayBC \in [Servidores -> BOOLEAN] /\ hayBD \in [Servidores -> BOOLEAN]
    /\ pcB \in PcB /\ cerrando \in BOOLEAN
    /\ buzon \in Seq(Avisos) /\ Len(buzon) <= MaxBuzon
    /\ registrados \in Seq(Servidores) /\ aviso \in Avisos \union {Nadie}
    /\ pcB # "apagado" => (pcB = "tratar" <=> aviso # Nadie)
    /\ perdidas \in 0 .. MaxPerdidas /\ arranques \in 0 .. MaxArranques
    /\ ultimo \in [Servidores -> {"nada", "S/C", "S/D"}]

\* No process of a server outlives its first process, but for one: when its
\* second fork fails, the announcer goes on alone.
SinHuerfanos ==
    \A s \in Servidores :
        /\ pcM[s] \in {"fuera", "terminado"} => pcA[s] = "fuera" /\ pcE[s] = "fuera"
        /\ pcM[s] = "abortado" => pcE[s] = "fuera"

\* Whether s is registered once the balancer has dealt with all it has received.
Pendientes(s) == {k \in DOMAIN buzon : buzon[k].id = s}
Quedara(s) ==
    \/ \E k \in Pendientes(s) : buzon[k].tipo = "S/C" /\ \A j \in Pendientes(s) : j <= k
    \/ /\ Pendientes(s) = {}
       /\ \/ aviso = [tipo |-> "S/C", id |-> s]
          \/ R!Esta(s) /\ aviso # [tipo |-> "S/D", id |-> s]

\* The last announcement of a server, if it was not lost, decides whether the
\* balancer ends up with it, whatever it and the others announced before.
UltimoAvisoManda ==
    \A s \in Servidores : /\ ultimo[s] = "S/C" => Quedara(s)
                          /\ ultimo[s] = "S/D" => ~Quedara(s)

\* A server that was connected and has closed is not left in the registry,
\* unless its good-bye was lost.
DespedidaLlega ==
    \A s \in Servidores : pcM[s] = "terminado" /\ conectado[s] => ultimo[s] # "S/C"

\* A server that closed in the way it announces as safe is not registered once
\* the balancer waits with nothing to read, unless an announcement was lost.  The
\* code does not keep it (README, section 6): no run checks it.
CierreSeguro ==
    \A s \in Servidores :
        pcM[s] = "terminado" /\ pcB = "recibir" /\ buzon = <<>> => ~R!Esta(s) \/ ultimo[s] = "nada"

\* Once a server is told to end, by Ctrl-C or by the balancer, all of it ends.
TerminaSiSeLePide == \A s \in Servidores : (pcM[s] = "esperar" /\ ~ejecutandose[s]) ~> pcM[s] = "terminado"

\* A server that goes on, with a balancer that goes on, ends up registered, in
\* whatever order they were started, if nothing is lost, it is the only one and
\* no balancer greets it after its good-bye.
EnMarcha(s) == pcM[s] = "esperar" /\ ejecutandose[s] /\ pcB # "apagado" /\ ~cerrando
Solo(s)     ==
    /\ perdidas = 0 /\ ~(cerrando /\ pcB = "enviar")
    /\ \A t \in Servidores \ {s} : pcM[t] = "fuera"

LlegaARegistrarse ==
    \A s \in Servidores : []Solo(s) /\ <>[]EnMarcha(s) => <>[]R!Esta(s)
===============================================================================
