------------------------------ MODULE NachosHilos ------------------------------
(***************************************************************************)
(* The NachOS kernel below every other part of it: threads (thread.cc),    *)
(* the scheduler, semaphores (synch.cc) and the interrupt simulation, on   *)
(* one simulated processor.                                                *)
(*                                                                         *)
(* What the threads do with these is not fixed: at a point of its program  *)
(* the running thread may make any kernel call and go on at any point, and *)
(* modules for locks and devices restrict that.                            *)
(*                                                                         *)
(* While level is IntOff nothing but the running thread acts.  While it is *)
(* IntOn the running thread may be interrupted anywhere: by handlers that  *)
(* are due (OneTick), by a time slice (-rs), or by the monitor of -p, which *)
(* makes the thread call Yield between any two machine instructions.  So a *)
(* step is one call with interrupts off, from SetLevel to SetLevel, or up  *)
(* to the switch it makes; the thread switched to finishes its own call.   *)
(***************************************************************************)
EXTENDS Integers, Sequences, FiniteSets, Functions

CONSTANTS
    Hilos,            \* Thread objects
    Principal,        \* the thread "main"
    Semaforos,
    Dispositivos,     \* the semaphores that a device's interrupt handler V's
    ValorInicial,     \* [Semaforos -> initialValue]
    Puntos,           \* points of the threads' programs
    Inicio,           \* the one every thread starts at
    MaxValor,         \* bound: no program raises a semaphore above this
    Nulo

Internos == {"nuevo", "ThreadRoot", "P", "Yield", "Finish", "borrado"}

ASSUME HilosAssumption ==
    /\ Principal \in Hilos /\ Nulo \notin Hilos /\ IsFiniteSet(Hilos)
    /\ Dispositivos \subseteq Semaforos
    /\ ValorInicial \in [Semaforos -> Nat]
    /\ Inicio \in Puntos /\ Puntos \intersect Internos = {}

VARIABLES
    currentThread,
    readyList,
    status,                \* [Hilos -> JUST_CREATED, RUNNING, READY, BLOCKED]
    threadToBeDestroyed,
    level,                 \* IntOn or IntOff
    machineStatus,         \* SystemMode, IdleMode, or Halted
    pending,               \* [Dispositivos -> requests whose interrupt is due later]
    value, queue,          \* of each semaphore
    pc,                    \* a point of the program, or where in the kernel
    luego,                 \* where the program goes on after the call it is in
    espera                 \* the semaphore of the P it is in

planificador == <<currentThread, readyList, status, level, machineStatus>>
semaforos    == <<value, queue>>
vars == <<planificador, threadToBeDestroyed, pending, semaforos, pc, luego, espera>>

-------------------------------------------------------------------------------
Init ==
    /\ currentThread = Principal /\ readyList = <<>>
    /\ status = [h \in Hilos |-> IF h = Principal THEN "RUNNING" ELSE "JUST_CREATED"]
    /\ threadToBeDestroyed = Nulo
    /\ level = "IntOn" /\ machineStatus = "SystemMode"
    /\ pending = [d \in Dispositivos |-> 0]
    /\ value = ValorInicial /\ queue = [s \in Semaforos |-> <<>>]
    /\ pc = [h \in Hilos |-> IF h = Principal THEN Inicio ELSE "nuevo"]
    /\ luego = [h \in Hilos |-> Inicio]
    /\ espera = [h \in Hilos |-> Nulo]

\* Where the running thread can act on its own.
EnPrograma == machineStatus = "SystemMode" /\ level = "IntOn" /\ pc[currentThread] \in Puntos

Ir(p) == pc' = [pc EXCEPT ![currentThread] = p]

\* A piece of its program without kernel calls.
Avanzar(p) ==
    /\ EnPrograma /\ Ir(p)
    /\ UNCHANGED <<planificador, threadToBeDestroyed, pending, semaforos, luego, espera>>

-------------------------------------------------------------------------------
(* Scheduler::Run, Thread::Yield, Thread::Sleep                            *)

\* FindNextToRun and Run.  st is status with the old thread's already changed.
Run(lista, st) ==
    /\ currentThread' = Head(lista) /\ readyList' = Tail(lista)
    /\ status' = [st EXCEPT ![Head(lista)] = "RUNNING"]
    /\ machineStatus' = "SystemMode" /\ level' = "IntOff"

\* With no thread ready the processor idles, still as currentThread.
Sleep ==
    LET st == [status EXCEPT ![currentThread] = "BLOCKED"]
    IN  \/ readyList # <<>> /\ Run(readyList, st)
        \/ /\ readyList = <<>>
           /\ status' = st /\ machineStatus' = "IdleMode" /\ level' = "IntOff"
           /\ UNCHANGED <<currentThread, readyList>>

\* Mutant: the thread that yields goes to the front of the ready list.
YieldAlFrente(p) ==
    /\ EnPrograma /\ readyList # <<>>
    /\ currentThread' = Head(readyList)
    /\ readyList' = <<currentThread>> \o Tail(readyList)
    /\ status' = [status EXCEPT ![currentThread] = "READY", ![Head(readyList)] = "RUNNING"]
    /\ level' = "IntOff" /\ UNCHANGED machineStatus
    /\ luego' = [luego EXCEPT ![currentThread] = p] /\ Ir("Yield")
    /\ UNCHANGED <<threadToBeDestroyed, pending, semaforos, espera>>

\* Called by the program, or for it by a time slice (and then p is where it was).
\* With no other thread ready it only moves on.
Yield(p) ==
    /\ EnPrograma
    /\ \/ /\ readyList # <<>>
          /\ Run(Append(readyList, currentThread), [status EXCEPT ![currentThread] = "READY"])
          /\ luego' = [luego EXCEPT ![currentThread] = p] /\ Ir("Yield")
       \/ readyList = <<>> /\ Ir(p) /\ UNCHANGED <<planificador, luego>>
    /\ UNCHANGED <<threadToBeDestroyed, pending, semaforos, espera>>

\* Fork of a thread that has not been forked, by the running one.
Fork(h, p) ==
    /\ EnPrograma /\ pc[h] = "nuevo"
    /\ readyList' = Append(readyList, h)
    /\ status' = [status EXCEPT ![h] = "READY"]
    /\ pc' = [pc EXCEPT ![h] = "ThreadRoot", ![currentThread] = p]
    /\ UNCHANGED <<currentThread, level, machineStatus, threadToBeDestroyed, pending,
                   semaforos, luego, espera>>

\* The thread cannot free the stack it is on: the next one is to do it.
Finish ==
    /\ EnPrograma
    /\ threadToBeDestroyed' = currentThread
    /\ Ir("Finish") /\ Sleep
    /\ UNCHANGED <<pending, semaforos, luego, espera>>

-------------------------------------------------------------------------------
(* Semaphore::P and Semaphore::V                                           *)

Tomar(s)  == value' = [value EXCEPT ![s] = @ - 1] /\ UNCHANGED queue
Encolar(s) == queue' = [queue EXCEPT ![s] = Append(@, currentThread)] /\ UNCHANGED value

P(s, p) ==
    /\ EnPrograma
    /\ \/ value[s] # 0 /\ Tomar(s) /\ Ir(p) /\ UNCHANGED <<planificador, luego, espera>>
       \/ /\ value[s] = 0 /\ Encolar(s) /\ Sleep /\ Ir("P")
          /\ luego' = [luego EXCEPT ![currentThread] = p]
          /\ espera' = [espera EXCEPT ![currentThread] = s]
    /\ UNCHANGED <<threadToBeDestroyed, pending>>

\* Mutant: a waiter is woken only if the semaphore was at 0.
DespertarSiCero(s) ==
    /\ value' = [value EXCEPT ![s] = @ + 1]
    /\ \/ /\ queue[s] # <<>> /\ value[s] = 0
          /\ queue' = [queue EXCEPT ![s] = Tail(@)]
          /\ readyList' = Append(readyList, Head(queue[s]))
          /\ status' = [status EXCEPT ![Head(queue[s])] = "READY"]
       \/ (queue[s] = <<>> \/ value[s] # 0) /\ UNCHANGED <<queue, readyList, status>>

\* Mutant: the waiter that is woken stays in the queue.
DespertarSinQuitar(s) ==
    /\ value' = [value EXCEPT ![s] = @ + 1]
    /\ \/ /\ queue[s] # <<>> /\ UNCHANGED queue
          /\ readyList' = Append(readyList, Head(queue[s]))
          /\ status' = [status EXCEPT ![Head(queue[s])] = "READY"]
       \/ queue[s] = <<>> /\ UNCHANGED <<queue, readyList, status>>

\* The body of V: the first waiter becomes ready, and it will look at the value again.
Despertar(s) ==
    /\ value' = [value EXCEPT ![s] = @ + 1]
    /\ \/ /\ queue[s] # <<>>
          /\ queue' = [queue EXCEPT ![s] = Tail(@)]
          /\ readyList' = Append(readyList, Head(queue[s]))
          /\ status' = [status EXCEPT ![Head(queue[s])] = "READY"]
       \/ queue[s] = <<>> /\ UNCHANGED <<queue, readyList, status>>

V(s, p) ==
    /\ EnPrograma /\ value[s] < MaxValor
    /\ Despertar(s) /\ Ir(p)
    /\ UNCHANGED <<currentThread, level, machineStatus, threadToBeDestroyed, pending,
                   luego, espera>>

-------------------------------------------------------------------------------
(* The thread that was switched to finishes the call it was in             *)

\* Scheduler::Run after SWITCH: the carcass of a finished thread is deleted.
Borrado(f) ==
    [h \in Hilos |-> IF h = threadToBeDestroyed THEN "borrado" ELSE f[h]]

\* The call that was interrupted returns to the program.
Volver ==
    /\ pc' = Borrado([pc EXCEPT ![currentThread] = luego[currentThread]])
    /\ luego' = [luego EXCEPT ![currentThread] = Inicio]

\* A thread that never ran does not come out of SWITCH inside Run.
ThreadRoot ==
    /\ pc[currentThread] = "ThreadRoot"
    /\ Ir(Inicio)
    /\ level' = "IntOn"
    /\ UNCHANGED <<currentThread, readyList, status, machineStatus, threadToBeDestroyed,
                   semaforos, luego, espera>>

FinYield ==
    /\ pc[currentThread] = "Yield" /\ Volver
    /\ threadToBeDestroyed' = Nulo
    /\ level' = "IntOn"
    /\ UNCHANGED <<currentThread, readyList, status, machineStatus, semaforos, espera>>

\* Mutant: threadToBeDestroyed is not reset.
FinPSinAnular ==
    /\ pc[currentThread] = "P" /\ value[espera[currentThread]] # 0 /\ Volver
    /\ Tomar(espera[currentThread])
    /\ espera' = [espera EXCEPT ![currentThread] = Nulo]
    /\ level' = "IntOn"
    /\ UNCHANGED <<currentThread, readyList, status, machineStatus, threadToBeDestroyed>>

\* P looks at the value again: another thread may have taken it meanwhile.
FinP ==
    LET s == espera[currentThread] IN
    /\ pc[currentThread] = "P"
    /\ threadToBeDestroyed' = Nulo
    /\ \/ /\ value[s] # 0 /\ Tomar(s) /\ Volver
          /\ espera' = [espera EXCEPT ![currentThread] = Nulo]
          /\ level' = "IntOn"
          /\ UNCHANGED <<currentThread, readyList, status, machineStatus>>
       \/ /\ value[s] = 0 /\ Encolar(s) /\ Sleep
          /\ pc' = Borrado(pc) /\ UNCHANGED <<luego, espera>>

Reanudar ==
    /\ machineStatus = "SystemMode" /\ level = "IntOff"
    /\ ThreadRoot \/ FinYield \/ FinP
    /\ UNCHANGED pending

-------------------------------------------------------------------------------
(* Interrupt                                                               *)

\* A device is asked for something: Interrupt::Schedule of its handler.
Schedule(d, p) ==
    /\ EnPrograma /\ pending[d] + value[d] < MaxValor
    /\ pending' = [pending EXCEPT ![d] = @ + 1]
    /\ Ir(p)
    /\ UNCHANGED <<planificador, threadToBeDestroyed, semaforos, luego, espera>>

\* CheckIfDue, from OneTick or from Idle.  Only the times say which is due first.
CheckIfDue(d) ==
    /\ pending[d] > 0
    /\ EnPrograma \/ machineStatus = "IdleMode"
    /\ pending' = [pending EXCEPT ![d] = @ - 1]
    /\ Despertar(d)
    /\ UNCHANGED <<currentThread, level, machineStatus, threadToBeDestroyed, pc, luego, espera>>

\* The loop of Sleep finds that a handler made a thread ready.
DejarOcio ==
    /\ machineStatus = "IdleMode" /\ readyList # <<>>
    /\ Run(readyList, status)
    /\ UNCHANGED <<threadToBeDestroyed, pending, semaforos, pc, luego, espera>>

\* Idle with nothing pending but the timer: "Assuming the program completed".
Halt ==
    /\ machineStatus = "IdleMode" /\ readyList = <<>>
    /\ \A d \in Dispositivos : pending[d] = 0
    /\ machineStatus' = "Halted"
    /\ UNCHANGED <<currentThread, readyList, status, level, threadToBeDestroyed, pending,
                   semaforos, pc, luego, espera>>

-------------------------------------------------------------------------------
Llamada(p) ==
    \/ Avanzar(p) \/ Yield(p) \/ \E h \in Hilos : Fork(h, p)
    \/ \E s \in Semaforos : P(s, p)
    \/ \E s \in Semaforos \ Dispositivos : V(s, p)
    \/ \E d \in Dispositivos : Schedule(d, p)

Next ==
    \/ \E p \in Puntos : Llamada(p)
    \/ Finish \/ Reanudar \/ DejarOcio \/ Halt
    \/ \E d \in Dispositivos : CheckIfDue(d)

Spec == Init /\ [][Next]_vars

\* The clock of the simulation advances whenever a thread makes a call, so a
\* pending interrupt fires and, with -rs, time slices come again and again.
\* Nothing is assumed of what threads call.
FairSpec ==
    /\ Spec
    /\ WF_vars(Reanudar) /\ WF_vars(DejarOcio)
    /\ \A d \in Dispositivos : WF_vars(CheckIfDue(d))
    /\ WF_vars(readyList # <<>> /\ \E p \in Puntos : Yield(p))

-------------------------------------------------------------------------------
(* Properties                                                              *)

\* Type invariant of the kernel: current thread, ready list, semaphores,
\* interrupt level and pending interrupts are of their kind.
TypeOK ==
    /\ currentThread \in Hilos /\ readyList \in Seq(Hilos)
    /\ status \in [Hilos -> {"JUST_CREATED", "RUNNING", "READY", "BLOCKED"}]
    /\ threadToBeDestroyed \in Hilos \union {Nulo}
    /\ level \in {"IntOn", "IntOff"}
    /\ machineStatus \in {"SystemMode", "IdleMode", "Halted"}
    /\ pending \in [Dispositivos -> Nat]
    /\ value \in [Semaforos -> Nat] /\ queue \in [Semaforos -> Seq(Hilos)]
    /\ pc \in [Hilos -> Puntos \union Internos]
    /\ luego \in [Hilos -> Puntos]
    /\ espera \in [Hilos -> Semaforos \union {Nulo}]

\* The list a thread is on is decided by its status alone, whatever order the
\* calls, interrupts and switches come in: it is never on two lists, nor twice
\* on one, nor running and on one.
CadaHiloEnUnSitio ==
    /\ IsInjective(readyList) /\ \A s \in Semaforos : IsInjective(queue[s])
    /\ \A h \in Hilos :
          /\ h \in Range(readyList) <=> status[h] = "READY"
          /\ \A s \in Semaforos : h \in Range(queue[s]) <=>
                status[h] = "BLOCKED" /\ pc[h] = "P" /\ espera[h] = s
          /\ status[h] = "RUNNING" <=> machineStatus = "SystemMode" /\ h = currentThread

\* A thread is deleted once, after it finished: it is not running, nothing will
\* make it run, and threadToBeDestroyed never names a thread deleted before.
MuertoNoVuelve ==
    /\ \A h \in Hilos : pc[h] \in {"Finish", "borrado"} => status[h] = "BLOCKED"
    /\ threadToBeDestroyed # Nulo => pc[threadToBeDestroyed] = "Finish"

\* Threads a V has woken that have not looked at the value yet.
Despertados(s) == {h \in Hilos : pc[h] = "P" /\ espera[h] = s /\ status[h] # "BLOCKED"}

\* P and V lose no wake-up: while threads are queued, every unit of the semaphore
\* has a woken thread coming for it, although any running thread may overtake it.
SinDespertarPerdido ==
    \A s \in Semaforos : queue[s] # <<>> => value[s] <= Cardinality(Despertados(s))

\* The processor never idles, nor halts "assuming the program completed", while a
\* thread is queued on a semaphore that has a unit for it.
ParadaJustificada ==
    machineStatus # "SystemMode" /\ readyList = <<>> =>
        \A s \in Semaforos : queue[s] # <<>> => value[s] = 0

\* No thread stays in P for ever while the semaphore stays positive.
NadieEsperaConValor ==
    \A h \in Hilos, s \in Semaforos :
        []<>~(pc[h] = "P" /\ espera[h] = s /\ value[s] > 0)
===============================================================================
