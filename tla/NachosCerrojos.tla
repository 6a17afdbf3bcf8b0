----------------------------- MODULE NachosCerrojos -----------------------------
(***************************************************************************)
(* What synch.cc builds on semaphores, Lock, Mutex and Barrier, and the    *)
(* disk (SynchDisk over Disk) that relies on a Lock, used by threads of    *)
(* NachosHilos.  Every step here is one of its steps, with the state of    *)
(* these objects added.                                                    *)
(*                                                                         *)
(* A thread of Lectores reads or writes sectors as often as it likes, one  *)
(* of Citados waits at a barrier, and both finish.  The methods run with   *)
(* interrupts on, so that every access to shared memory is a point where   *)
(* the thread may be switched out (-rs, -p).                               *)
(***************************************************************************)
EXTENDS NachosHilos

CONSTANTS
    Cerrojo,           \* the semaphore of synchDisk->lock
    Contador, Barrera, \* the semaphores of the two mutexes of a barrier
    Disco,             \* synchDisk->semaphore, which DiskRequestDone V's
    Lectores, Citados, \* the threads that use the disk, and the barrier
    Cuantos,           \* how many threads the barrier holds back
    TitularInicial,    \* what the never initialised holdingThread of a Lock may be
    Desconocido        \* an address that is no thread's

Mutexes == {Contador, Barrera}

PuntosCerrojos ==
    {"programa", "pasada", "Acquire", "Acquire.P", "Acquire.titular", "peticion", "activar",
     "programar", "esperar", "Release", "Release.V", "Release.titular", "Lock", "Lock.P",
     "contar", "descontar", "leer", "Unlock", "Unlock.V", "Unlock.titular", "mirar"}

ASSUME CerrojosAssumption ==
    /\ Disco \notin Mutexes \union {Cerrojo} /\ Cerrojo \notin Mutexes /\ Contador # Barrera
    /\ Semaforos = {Cerrojo, Contador, Barrera, Disco} /\ Dispositivos = {Disco}
    /\ ValorInicial = [s \in Semaforos |-> IF s = Disco THEN 0 ELSE 1]
    /\ Puntos = PuntosCerrojos /\ Inicio = "programa"
    /\ Lectores \subseteq Hilos /\ Citados \subseteq Hilos /\ Cuantos \in Nat
    /\ TitularInicial \subseteq {Nulo, Desconocido} /\ Desconocido \notin Hilos \union {Nulo}

VARIABLES
    titular,     \* holdingThread of the lock and of each mutex
    mutex,       \* [Hilos -> the mutex whose Lock or Unlock it is in]
    counter,     \* of the barrier
    leido,       \* [Hilos -> the value of counter it has read]
    active,      \* of the disk
    abortado     \* an ASSERT failed

objetos == <<titular, mutex, counter, leido, active, abortado>>
varsC   == <<vars, objetos>>

InitC ==
    /\ Init
    /\ \E t \in TitularInicial :
          titular = [s \in Mutexes \union {Cerrojo} |-> IF s = Cerrojo THEN t ELSE Nulo]
    /\ mutex = [h \in Hilos |-> Contador]
    /\ counter = Cuantos /\ leido = [h \in Hilos |-> 0]
    /\ active = FALSE /\ abortado = FALSE

En(p) == pc[currentThread] = p

\* A call of the kernel, or none, between two points.
De(p, Llamar) == En(p) /\ Llamar /\ UNCHANGED objetos

SerTitular(s, h) == titular' = [titular EXCEPT ![s] = h]

-------------------------------------------------------------------------------
(* Lock                                                                    *)

\* Acquire does nothing at all if some thread, this one included, is noted.
Acquire ==
    \/ titular[Cerrojo] = Nulo /\ De("Acquire", Avanzar("Acquire.P"))
    \/ titular[Cerrojo] # Nulo /\ De("Acquire", Avanzar("peticion"))
    \/ De("Acquire.P", P(Cerrojo, "Acquire.titular"))
    \/ /\ En("Acquire.titular") /\ Avanzar("peticion")
       /\ SerTitular(Cerrojo, currentThread)
       /\ UNCHANGED <<mutex, counter, leido, active, abortado>>

\* Mutant: isHeldByCurrentThread is not asked.
ReleaseSinMirar ==
    \/ De("Release", Avanzar("Release.V"))
    \/ De("Release.V", V(Cerrojo, "Release.titular"))
    \/ /\ En("Release.titular") /\ Avanzar("programa")
       /\ SerTitular(Cerrojo, Nulo)
       /\ UNCHANGED <<mutex, counter, leido, active, abortado>>

\* The holder is forgotten only after V, when another thread may be noted already.
Release ==
    \/ titular[Cerrojo] = currentThread /\ De("Release", Avanzar("Release.V"))
    \/ titular[Cerrojo] # currentThread /\ De("Release", Avanzar("programa"))
    \/ De("Release.V", V(Cerrojo, "Release.titular"))
    \/ /\ En("Release.titular") /\ Avanzar("programa")
       /\ SerTitular(Cerrojo, Nulo)
       /\ UNCHANGED <<mutex, counter, leido, active, abortado>>

-------------------------------------------------------------------------------
(* SynchDisk and Disk                                                      *)

\* ReadRequest and WriteRequest transfer at once, and the interrupt comes later.
Peticion ==
    \/ ~active /\ De("peticion", Avanzar("activar"))
    \/ /\ En("peticion") /\ active /\ EnPrograma
       /\ abortado' = TRUE
       /\ UNCHANGED <<vars, titular, mutex, counter, leido, active>>
    \/ /\ En("activar") /\ Avanzar("programar")
       /\ active' = TRUE
       /\ UNCHANGED <<titular, mutex, counter, leido, abortado>>
    \/ De("programar", Schedule(Disco, "esperar"))

ReadSector ==
    \/ currentThread \in Lectores /\ De("programa", Avanzar("Acquire"))
    \/ Acquire
    \/ Peticion
    \/ De("esperar", P(Disco, "Release")) \/ Release

\* Mutant: the handler forgets the V.
HandleInterruptSinV ==
    /\ pending[Disco] > 0 /\ EnPrograma
    /\ pending' = [pending EXCEPT ![Disco] = @ - 1]
    /\ active' = FALSE
    /\ UNCHANGED <<planificador, threadToBeDestroyed, semaforos, pc, luego, espera,
                   titular, mutex, counter, leido, abortado>>

HandleInterrupt ==
    /\ CheckIfDue(Disco)
    /\ active' = FALSE
    /\ UNCHANGED <<titular, mutex, counter, leido, abortado>>

-------------------------------------------------------------------------------
(* Mutex and Barrier                                                       *)

\* Lock of mutex s, called at point p: the thread notes itself before it waits.
Lock(p, s) ==
    /\ En(p) /\ Avanzar("Lock.P")
    /\ SerTitular(s, currentThread)
    /\ mutex' = [mutex EXCEPT ![currentThread] = s]
    /\ UNCHANGED <<counter, leido, active, abortado>>

MutexLock ==
    LET s == mutex[currentThread]
    IN  De("Lock.P", P(s, IF s = Contador THEN "contar" ELSE "leer"))

MutexUnlock ==
    LET s == mutex[currentThread] IN
    \/ titular[s] = currentThread /\ De("Unlock", Avanzar("Unlock.V"))
    \/ titular[s] # currentThread /\ De("Unlock", Avanzar("Unlock.titular"))
    \/ De("Unlock.V", V(s, "Unlock.titular"))
    \/ /\ En("Unlock.titular")
       /\ Avanzar(IF s = Contador THEN "Lock" ELSE "mirar")
       /\ SerTitular(s, Nulo)
       /\ UNCHANGED <<mutex, counter, leido, active, abortado>>

LeerCounter(p, q) ==
    /\ En(p) /\ Avanzar(q)
    /\ leido' = [leido EXCEPT ![currentThread] = counter]
    /\ UNCHANGED <<titular, mutex, counter, active, abortado>>

\* counter-- reads and then writes.
Descontar ==
    /\ En("descontar") /\ Avanzar("Unlock")
    /\ counter' = leido[currentThread] - 1
    /\ leido' = [leido EXCEPT ![currentThread] = 0]
    /\ UNCHANGED <<titular, mutex, active, abortado>>

\* Mutant: the loop ends one arrival too early.
MirarDeMenos ==
    \/ leido[currentThread] > 1 /\ De("mirar", Avanzar("Lock"))
    \/ leido[currentThread] <= 1 /\ De("mirar", Avanzar("pasada"))

\* while (WaitMutex() > 0) {}
Mirar ==
    \/ leido[currentThread] > 0 /\ De("mirar", Avanzar("Lock"))
    \/ leido[currentThread] <= 0 /\ De("mirar", Avanzar("pasada"))

BarrierWait ==
    \/ currentThread \in Citados /\ Lock("programa", Contador)
    \/ Lock("Lock", Barrera)
    \/ MutexLock \/ MutexUnlock
    \/ LeerCounter("contar", "descontar") \/ Descontar
    \/ LeerCounter("leer", "Unlock") \/ Mirar

-------------------------------------------------------------------------------
\* Any point may be the end of a time slice.
Turno == \E p \in Puntos : De(p, Yield(p))

Arrancar == currentThread = Principal /\ \E h \in Hilos : De("programa", Fork(h, "programa"))

NextC ==
    /\ ~abortado
    /\ \/ ReadSector \/ BarrierWait \/ Turno \/ Arrancar
       \/ De("pasada", Finish)
       \/ currentThread \notin Citados /\ De("programa", Finish)
       \/ (Reanudar \/ DejarOcio \/ Halt) /\ UNCHANGED objetos
       \/ HandleInterrupt

SpecC == InitC /\ [][NextC]_varsC

-------------------------------------------------------------------------------
(* Properties                                                              *)

\* Type invariant of the locks, the disk and the barrier.
TypeOKC ==
    /\ titular \in [Mutexes \union {Cerrojo} -> Hilos \union {Nulo} \union TitularInicial]
    /\ mutex \in [Hilos -> Mutexes]
    /\ counter \in Int /\ leido \in [Hilos -> Int]
    /\ active \in BOOLEAN /\ abortado \in BOOLEAN

\* Where in its program a thread is, wherever the processor is.
Punto(h) == IF pc[h] \in {"Yield", "P"} THEN luego[h] ELSE pc[h]

EnDisco == {"peticion", "activar", "programar", "esperar"}

\* The threads that got through the P of a lock or mutex and can still V it.
Dueno(h, s) ==
    /\ ~(pc[h] = "P" /\ espera[h] = s)
    /\ \/ /\ s = Cerrojo
          /\ \/ Punto(h) \in {"Acquire.titular", "Release.V"}
             \/ titular[s] = h /\ Punto(h) \in EnDisco \union {"Release"}
       \/ /\ s \in Mutexes /\ mutex[h] = s
          /\ Punto(h) \in {"contar", "descontar", "leer", "Unlock", "Unlock.V"}

\* Although holdingThread is read and written outside any protection, nobody V's
\* a lock or mutex that is not its own: it is held by one thread at most, and
\* free only while nobody holds it.
UnSoloDueno ==
    \A s \in Mutexes \union {Cerrojo} :
        /\ value[s] <= 1
        /\ \A g, h \in Hilos : Dueno(g, s) /\ Dueno(h, s) => g = h
        /\ (\E h \in Hilos : Dueno(h, s)) => value[s] = 0

\* Threads that have counted themselves.
Llegados ==
    {h \in Citados :
        \/ Punto(h) \in {"leer", "mirar", "pasada", "Lock", "Finish", "borrado"}
        \/ Punto(h) = "Lock.P" /\ mutex[h] = Barrera
        \/ Punto(h) \in {"Unlock", "Unlock.V", "Unlock.titular"}}

\* No thread passes the barrier before the last of them has arrived.
BarreraCerrada ==
    (\E h \in Citados : Punto(h) \in {"pasada", "Finish", "borrado"}) =>
        Cardinality(Llegados) >= Cuantos

\* The threads that still have to wait for a completion of the disk.
EsperaDisco(h) == Punto(h) = "esperar" \/ (pc[h] = "P" /\ espera[h] = Disco)

\* Nobody waits for the disk in vain, and no completion is left over for a later
\* request: although the lock lets several requests through, there is one
\* interrupt, pending or delivered, for every thread that still has to wait.
UnaCompletadaPorEspera ==
    pending[Disco] + value[Disco] = Cardinality({h \in Hilos : EsperaDisco(h)})

\* The ASSERT of Disk: only one request at a time, which is what SynchDisk has a
\* lock for.  The code does not keep it (README, section 6): no run checks it.
UnaPeticion == ~abortado

===============================================================================
