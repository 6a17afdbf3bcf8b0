-------------------------------- MODULE NachosRed --------------------------------
(****************************************************************************)
(* The post office of NachOS (network/post.cc) over the network device       *)
(* (machine/network.cc) and UNIX datagrams (machine/sysdep.cc), with the     *)
(* synchronised list of each mailbox (threads/synchlist.h), and the          *)
(* conversation of network/nettest.cc between machines that start, are       *)
(* stopped with Ctrl-C and start again.                                      *)
(*                                                                           *)
(* Each machine has two threads, main and the postal worker, and one         *)
(* processor, that a thread leaves when it has to wait.  Interrupts come when *)
(* a semaphore is done with (SetLevel lets those that are pending in).  With *)
(* the option -p the processor changes hands between any two accesses to     *)
(* what is shared.                                                           *)
(* historia, tomados and pisado are for the properties.                      *)
(****************************************************************************)
EXTENDS Integers, Sequences

CONSTANTS
    Maquinas,
    lejos,              \* the machine each one is told to write to (-o)
    Nada,
    ConP,               \* the machines that may be started with -p
    MaxArranques,       \* bound: starts of each machine, by machine
    MaxPerdidas         \* bound: packets the network loses

Hilos == {"main", "worker"}
Buzones == {0, 1}       \* of the ten there are, the two that MailTest uses

\* A packet: PacketHeader and MailHeader, and the start of the machine that sent
\* it and of the one it answers, which stand for what the message says.
Paquetes == [de : Maquinas, a : Maquinas, to : Buzones, from : {1}, vez : Nat, acuse : Nat]

ASSUME RedAssumption ==
    /\ lejos \in [Maquinas -> Maquinas] /\ ConP \subseteq Maquinas
    /\ MaxArranques \in [Maquinas -> Nat] /\ MaxPerdidas \in Nat
    /\ Nada \notin Paquetes

VARIABLES
    estado,         \* "apagada", "viva", "parada", "cortada", "abortada"
    preemptive,     \* started with -p
    arranques,      \* starts of the machine so far
    fase,           \* of MailTest: the number of the next Send or Receive, 5 at the end
    pc,
    cola,           \* datagrams in the socket
    inHdr, inbox,   \* the packet in the device: its header, or Nada, and its contents
    messageAvailable, messageSent,      \* values of the semaphores
    porEnviar,      \* NetworkSendDone interrupts pending
    hdrT, buffer,   \* what the postal worker has in hand
    messages,       \* list of each mailbox
    lock,           \* value of the semaphore of each mailbox's lock
    holdingThread,  \* of each mailbox's lock
    historia,       \* what reached the socket since the machine started
    tomados,        \* what main took from each mailbox
    pisado,         \* since its last start, a packet was written over while the worker copied it
    perdidas        \* packets lost by the network so far

dispositivo == <<cola, inHdr, inbox, messageAvailable, messageSent, porEnviar>>
correo == <<hdrT, buffer, messages, lock, holdingThread>>
registro == <<historia, tomados, pisado>>
maquina == <<estado, preemptive, arranques>>
vars == <<maquina, fase, pc, dispositivo, correo, registro, perdidas>>

Pon(f, m, x) == [f EXCEPT ![m] = x]
Ir(m, t, p) == pc' = [pc EXCEPT ![m][t] = p]

\* Between these points and the ones before there is no SetLevel.
Medio == {"copiar", "poner", "sacar", "anadir", "V"}

\* Where a thread may have left the processor, or not have had it yet.
Fuera == {"esperar", "esperarEnvio", "P", "fin"}

\* The processor of the machine may run t, or an interrupt.
Turno(m, t) ==
    /\ estado[m] = "viva"
    /\ preemptive[m] \/ \A u \in Hilos \ {t} : pc[m][u] \in Fuera
Interrumpe(m) ==
    /\ estado[m] = "viva"
    /\ preemptive[m] \/ \A u \in Hilos : pc[m][u] \notin Medio

\* The memory of the machine, as a program finds it, and its socket, empty.
Vacia(m) ==
    /\ fase' = Pon(fase, m, 1) /\ cola' = Pon(cola, m, <<>>) /\ historia' = Pon(historia, m, <<>>)
    /\ inHdr' = Pon(inHdr, m, Nada) /\ inbox' = Pon(inbox, m, Nada)
    /\ hdrT' = Pon(hdrT, m, Nada) /\ buffer' = Pon(buffer, m, Nada)
    /\ messageAvailable' = Pon(messageAvailable, m, 0) /\ messageSent' = Pon(messageSent, m, 0)
    /\ porEnviar' = Pon(porEnviar, m, 0)
    /\ messages' = Pon(messages, m, [b \in Buzones |-> <<>>])
    /\ lock' = Pon(lock, m, [b \in Buzones |-> 1])
    /\ holdingThread' = Pon(holdingThread, m, [b \in Buzones |-> Nada])
    /\ UNCHANGED perdidas

\* The machine ends, well or badly.
Cierra(m, como) ==
    /\ estado' = Pon(estado, m, como) /\ pc' = Pon(pc, m, [t \in Hilos |-> "fin"])
    /\ preemptive' = Pon(preemptive, m, FALSE)
    /\ Vacia(m) /\ UNCHANGED <<arranques, tomados, pisado>>

-----------------------------------------------------------------------------
(* Start and end.                                                           *)

Init ==
    /\ estado = [m \in Maquinas |-> "apagada"] /\ arranques = [m \in Maquinas |-> 0]
    /\ preemptive = [m \in Maquinas |-> FALSE]
    /\ fase = [m \in Maquinas |-> 1] /\ pc = [m \in Maquinas |-> [t \in Hilos |-> "fin"]]
    /\ cola = [m \in Maquinas |-> <<>>] /\ historia = cola
    /\ inHdr = [m \in Maquinas |-> Nada] /\ inbox = inHdr /\ hdrT = inHdr /\ buffer = inHdr
    /\ messageAvailable = [m \in Maquinas |-> 0] /\ messageSent = messageAvailable
    /\ porEnviar = messageAvailable
    /\ messages = [m \in Maquinas |-> [b \in Buzones |-> <<>>]] /\ tomados = messages
    /\ lock = [m \in Maquinas |-> [b \in Buzones |-> 1]]
    /\ holdingThread = [m \in Maquinas |-> [b \in Buzones |-> Nada]]
    /\ pisado = [m \in Maquinas |-> FALSE] /\ perdidas = 0

\* Initialize, the constructors of PostOffice and Network, and main up to
\* MailTest.  The name of the socket is taken again from whoever had it.
Arrancar(m) ==
    /\ estado[m] # "viva" /\ arranques[m] < MaxArranques[m]
    /\ \E p \in BOOLEAN : (p => m \in ConP) /\ preemptive' = Pon(preemptive, m, p)
    /\ estado' = Pon(estado, m, "viva") /\ arranques' = Pon(arranques, m, arranques[m] + 1)
    /\ pc' = Pon(pc, m, [main |-> "mandar", worker |-> "esperar"])
    /\ tomados' = Pon(tomados, m, [b \in Buzones |-> <<>>]) /\ pisado' = Pon(pisado, m, FALSE)
    /\ Vacia(m)

\* Ctrl-C: Cleanup.
Cortar(m) == estado[m] = "viva" /\ Cierra(m, "cortada")

-----------------------------------------------------------------------------
(* The network device.                                                      *)

\* Network::CheckPktAvail: a packet is read only when the one before has been
\* taken, and the post office is told.
\* Mutant: a packet is read whenever there is one.
HayCabidaSiempre(m) == TRUE
HayCabida(m) == inHdr[m] = Nada

CheckPktAvail(m) ==
    /\ Interrumpe(m) /\ HayCabida(m) /\ cola[m] # <<>>
    /\ inHdr' = Pon(inHdr, m, Head(cola[m])) /\ inbox' = Pon(inbox, m, Head(cola[m]))
    /\ cola' = Pon(cola, m, Tail(cola[m]))
    /\ messageAvailable' = Pon(messageAvailable, m, messageAvailable[m] + 1)
    /\ pisado' = Pon(pisado, m, pisado[m] \/ pc[m]["worker"] = "copiar")
    /\ UNCHANGED <<maquina, fase, pc, messageSent, porEnviar, correo, historia, tomados, perdidas>>

\* Network::SendDone and PostOffice::PacketSent.
\* Mutant: only the packets that went out are told of.
AvisadosAlSalir(m) == IF cola[lejos[m]] # <<>> THEN messageSent[m] + 1 ELSE messageSent[m]
Avisados(m) == messageSent[m] + 1

SendDone(m) ==
    /\ Interrumpe(m) /\ porEnviar[m] > 0
    /\ porEnviar' = Pon(porEnviar, m, porEnviar[m] - 1)
    /\ messageSent' = Pon(messageSent, m, Avisados(m))
    /\ UNCHANGED <<maquina, fase, pc, cola, inHdr, inbox, messageAvailable, correo, registro, perdidas>>

-----------------------------------------------------------------------------
(* main: MailTest.                                                          *)

\* The mailbox of the Receive of each phase.
BuzonDe(m) == IF fase[m] = 2 THEN 0 ELSE 1

\* What MailTest sends: its own message, or the answer to the one it has read.
Primero(m) == [de |-> m, a |-> lejos[m], to |-> 0, from |-> 1, vez |-> arranques[m], acuse |-> 0]
Acuse(m, p) == [de |-> m, a |-> p.de, to |-> p.from, from |-> 1, vez |-> arranques[m], acuse |-> p.vez]
Paquete(m) == IF fase[m] = 1 THEN Primero(m) ELSE Acuse(m, tomados[m][0][1])

\* PostOffice::Send and Network::Send: the interrupt is scheduled, and the packet
\* is lost or sent.  sendLock is only ever taken by this thread.
Mandar(m) ==
    /\ Turno(m, "main") /\ pc[m]["main"] = "mandar"
    /\ porEnviar' = Pon(porEnviar, m, porEnviar[m] + 1)
    /\ Ir(m, "main", "esperarEnvio")
    /\ LET p == Paquete(m) IN
       \/ /\ perdidas < MaxPerdidas /\ perdidas' = perdidas + 1
          /\ UNCHANGED <<cola, historia>>
       \/ /\ estado[p.a] = "viva"
          /\ cola' = Pon(cola, p.a, Append(cola[p.a], p))
          /\ historia' = Pon(historia, p.a, Append(historia[p.a], p))
          /\ UNCHANGED perdidas
    /\ UNCHANGED <<maquina, fase, inHdr, inbox, messageAvailable, messageSent, correo, tomados, pisado>>

\* Where nobody listens sendto fails, and SendToSocket aborts (sysdep.cc:350).
MandarANadie(m) ==
    /\ Turno(m, "main") /\ pc[m]["main"] = "mandar"
    /\ estado[Paquete(m).a] # "viva"
    /\ Cierra(m, "abortada")

\* messageSent->P() returns.
EsperarEnvio(m) ==
    /\ Turno(m, "main") /\ pc[m]["main"] = "esperarEnvio" /\ messageSent[m] > 0
    /\ messageSent' = Pon(messageSent, m, messageSent[m] - 1)
    /\ fase' = Pon(fase, m, fase[m] + 1) /\ Ir(m, "main", "abrir")
    /\ UNCHANGED <<maquina, cola, inHdr, inbox, messageAvailable, porEnviar, correo, registro, perdidas>>

\* SynchList::Remove, in the lock or past it.
Sacar(m) ==
    /\ Turno(m, "main") /\ pc[m]["main"] = "sacar"
    /\ LET b == BuzonDe(m) IN
       /\ messages[m][b] # <<>>
       /\ messages' = [messages EXCEPT ![m][b] = Tail(@)]
       /\ tomados' = [tomados EXCEPT ![m][b] = Append(@, Head(messages[m][b]))]
    /\ Ir(m, "main", "V")
    /\ UNCHANGED <<maquina, fase, dispositivo, hdrT, buffer, lock, holdingThread, historia, pisado, perdidas>>

\* On an empty list Condition::Wait calls Sleep with interrupts on, and its
\* ASSERT ends NachOS (synch.cc:178, thread.cc:220).
\* Mutant: the last Receive does not wait for anything.
SacarSinEsperar(m) ==
    /\ Turno(m, "main") /\ pc[m]["main"] = "sacar"
    /\ messages[m][BuzonDe(m)] = <<>>
    /\ IF fase[m] = 4
       THEN /\ Ir(m, "main", "V")
            /\ UNCHANGED <<maquina, fase, dispositivo, hdrT, buffer, messages, lock, holdingThread, registro, perdidas>>
       ELSE Cierra(m, "abortada")
SacarDeVacio(m) ==
    /\ Turno(m, "main") /\ pc[m]["main"] = "sacar"
    /\ messages[m][BuzonDe(m)] = <<>>
    /\ Cierra(m, "abortada")

\* After the second Receive, Interrupt::Halt.
Parar(m) == Turno(m, "main") /\ pc[m]["main"] = "parar" /\ Cierra(m, "parada")

-----------------------------------------------------------------------------
(* The lock of a mailbox: Lock::Acquire and Release (synch.cc:134-151).       *)

BuzonDeHilo(m, t) == IF t = "main" THEN BuzonDe(m) ELSE buffer[m].to
Dentro(t) == IF t = "main" THEN "sacar" ELSE "anadir"

\* Where Release leads to: main goes on with MailTest.
Despues(m, t) ==
    IF t = "worker" THEN Ir(m, t, "esperar") /\ UNCHANGED fase
    ELSE fase' = Pon(fase, m, fase[m] + 1) /\ Ir(m, t, IF fase[m] = 2 THEN "mandar" ELSE "parar")

\* With another thread noted, Acquire does nothing.  With none, P: at once if the
\* semaphore is free, later if it is taken or, with -p, somebody gets in between.
Acquire(m, t) ==
    /\ Turno(m, t) /\ pc[m][t] = (IF t = "main" THEN "abrir" ELSE "poner")
    /\ LET b == BuzonDeHilo(m, t) IN
       \/ holdingThread[m][b] # Nada /\ Ir(m, t, Dentro(t)) /\ UNCHANGED lock
       \/ /\ holdingThread[m][b] = Nada /\ lock[m][b] > 0 /\ ~preemptive[m]
          /\ lock' = [lock EXCEPT ![m][b] = 0] /\ Ir(m, t, "tomar")
       \/ /\ holdingThread[m][b] = Nada /\ (lock[m][b] = 0 \/ preemptive[m])
          /\ Ir(m, t, "P") /\ UNCHANGED lock
    /\ UNCHANGED <<maquina, fase, dispositivo, hdrT, buffer, messages, holdingThread, registro, perdidas>>

PLock(m, t) ==
    /\ Turno(m, t) /\ pc[m][t] = "P"
    /\ LET b == BuzonDeHilo(m, t) IN lock[m][b] > 0 /\ lock' = [lock EXCEPT ![m][b] = 0]
    /\ Ir(m, t, "tomar")
    /\ UNCHANGED <<maquina, fase, dispositivo, hdrT, buffer, messages, holdingThread, registro, perdidas>>

Tomar(m, t) ==
    /\ Turno(m, t) /\ pc[m][t] = "tomar"
    /\ holdingThread' = [holdingThread EXCEPT ![m][BuzonDeHilo(m, t)] = t]
    /\ Ir(m, t, Dentro(t))
    /\ UNCHANGED <<maquina, fase, dispositivo, hdrT, buffer, messages, lock, registro, perdidas>>

\* Release, whether called by Signal or by Remove, does something only for the
\* thread that is noted; and what it notes after its V is that nobody is.
VLock(m, t) ==
    /\ Turno(m, t) /\ pc[m][t] = "V"
    /\ LET b == BuzonDeHilo(m, t) IN
       IF holdingThread[m][b] = t
       THEN lock' = [lock EXCEPT ![m][b] = @ + 1] /\ Ir(m, t, "soltar") /\ UNCHANGED fase
       ELSE UNCHANGED lock /\ Despues(m, t)
    /\ UNCHANGED <<maquina, dispositivo, hdrT, buffer, messages, holdingThread, registro, perdidas>>

Soltar(m, t) ==
    /\ Turno(m, t) /\ pc[m][t] = "soltar"
    /\ holdingThread' = [holdingThread EXCEPT ![m][BuzonDeHilo(m, t)] = Nada]
    /\ Despues(m, t)
    /\ UNCHANGED <<maquina, dispositivo, hdrT, buffer, messages, lock, registro, perdidas>>

-----------------------------------------------------------------------------
(* The postal worker: PostOffice::PostalDelivery.                            *)

\* messageAvailable->P() returns, and Network::Receive marks the device free
\* before it copies its packet.  In between nobody else touches the device.
EsperarAviso(m) ==
    /\ Turno(m, "worker") /\ pc[m]["worker"] = "esperar" /\ messageAvailable[m] > 0
    /\ messageAvailable' = Pon(messageAvailable, m, messageAvailable[m] - 1)
    /\ hdrT' = Pon(hdrT, m, inHdr[m]) /\ inHdr' = Pon(inHdr, m, Nada)
    /\ Ir(m, "worker", "copiar")
    /\ UNCHANGED <<maquina, fase, cola, inbox, messageSent, porEnviar, buffer, messages,
                   lock, holdingThread, registro, perdidas>>
Copiar(m) ==
    /\ Turno(m, "worker") /\ pc[m]["worker"] = "copiar"
    /\ buffer' = Pon(buffer, m, IF hdrT[m] = Nada THEN buffer[m] ELSE [inbox[m] EXCEPT !.de = hdrT[m].de])
    /\ Ir(m, "worker", "poner")
    /\ UNCHANGED <<maquina, fase, dispositivo, hdrT, messages, lock, holdingThread, registro, perdidas>>

\* SynchList::Append in the mailbox; nobody is ever asleep in its condition.
Anadir(m) ==
    /\ Turno(m, "worker") /\ pc[m]["worker"] = "anadir"
    /\ messages' = [messages EXCEPT ![m][buffer[m].to] = Append(@, buffer[m])]
    /\ Ir(m, "worker", "V")
    /\ UNCHANGED <<maquina, fase, dispositivo, hdrT, buffer, lock, holdingThread, registro, perdidas>>

-----------------------------------------------------------------------------

Hilo(m, t) == Acquire(m, t) \/ PLock(m, t) \/ Tomar(m, t) \/ VLock(m, t) \/ Soltar(m, t)
MailTest(m) ==
    \/ Mandar(m) \/ MandarANadie(m) \/ EsperarEnvio(m) \/ Sacar(m) \/ SacarDeVacio(m) \/ Parar(m)
    \/ Hilo(m, "main")
PostalDelivery(m) == EsperarAviso(m) \/ Copiar(m) \/ Anadir(m) \/ Hilo(m, "worker")
Dispositivo(m) == CheckPktAvail(m) \/ SendDone(m)

Next == \E m \in Maquinas :
    Arrancar(m) \/ Cortar(m) \/ CheckPktAvail(m) \/ SendDone(m) \/ MailTest(m) \/ PostalDelivery(m)

Spec == Init /\ [][Next]_vars

\* Idle advances the clock to the next interrupt, and a thread that is ready
\* gets the processor in its turn.  Nothing is assumed of who starts a machine.
FairSpec ==
    /\ Spec
    /\ \A m \in Maquinas : WF_vars(MailTest(m)) /\ WF_vars(PostalDelivery(m)) /\ WF_vars(Dispositivo(m))

-----------------------------------------------------------------------------
(* Properties.                                                              *)

\* The packets addressed to a mailbox, in order: SelectSeq, as a function of the
\* length, which can be reasoned about.
Para(s, b) ==
    LET P[i \in 0 .. Len(s)] ==
            IF i = 0 THEN <<>> ELSE IF s[i].to = b THEN Append(P[i - 1], s[i]) ELSE P[i - 1]
    IN  P[Len(s)]

\* Of what the worker has taken from the device, what is not in a mailbox yet.
EnMano(m) ==
    CASE pc[m]["worker"] = "copiar" -> <<inbox[m]>>
      [] pc[m]["worker"] \in {"poner", "P", "tomar", "anadir"} -> <<buffer[m]>>
      [] OTHER -> <<>>
EnEspera(m) == IF inHdr[m] = Nada THEN <<>> ELSE <<inHdr[m]>>

\* Through one packet of buffer, a semaphore and two threads, every packet that
\* reaches the socket of a machine gets to its mailbox once and in order.  What
\* breaks it takes -p: a poll between the two statements of Network::Receive
\* (network.cc:132-134) puts a packet over the one being copied.
EntregaFiel ==
    \A m \in Maquinas :
        /\ estado[m] = "viva" /\ pisado[m] => preemptive[m]
        /\ estado[m] = "viva" /\ ~pisado[m] =>
             \A b \in Buzones :
                Para(historia[m], b) = tomados[m][b] \o messages[m][b]
                                         \o Para(EnMano(m) \o EnEspera(m) \o cola[m], b)

\* A machine that stops of its own accord has an answer to its message, given by
\* a machine that had read it: a lost packet, an early end or the lock of the
\* mailboxes never let MailTest finish otherwise, as long as nothing is started
\* twice.  Where a packet was written over, with -p, the worker joins the header
\* of one with the mailbox of another, and the answer goes to a third machine.
AcuseCierto ==
    \A m \in Maquinas :
        estado[m] = "parada" /\ (\A x \in Maquinas : arranques[x] = 1 /\ ~pisado[x]) =>
        \E i \in DOMAIN tomados[lejos[m]][0] : tomados[lejos[m]][0][i] = Primero(m)

\* A machine that is started ends, well or badly: it is never left waiting for
\* the network, for a mailbox or for a lock.
Termina == \A m \in Maquinas : estado[m] = "viva" ~> estado[m] # "viva"
================================================================================
