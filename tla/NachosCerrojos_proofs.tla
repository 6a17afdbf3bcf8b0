------------------------- MODULE NachosCerrojos_proofs -------------------------
(***************************************************************************)
(* First, theorems about threads, scheduler and semaphores (NachosHilos),  *)
(* for any set of threads, semaphores and programs: those proofs use none  *)
(* of the constants or assumptions of NachosCerrojos.  Then theorems about *)
(* NachosCerrojos, for any threads, any readers and any size of the        *)
(* barrier: it only takes steps of NachosHilos, so that all the theorems   *)
(* before hold of it; no lock or mutex is ever V'd by a thread that does   *)
(* not hold it; the completions of the disk match the threads that wait    *)
(* for them; and nobody passes the barrier before the last thread has      *)
(* arrived.                                                                *)
(***************************************************************************)
EXTENDS NachosCerrojos, SequenceTheorems, FiniteSetTheorems, TLAPS

\* A set of points of the kernel, expanded wherever points are compared.
USE DEF Internos

-------------------------------------------------------------------------------
(* Lists of threads                                                        *)

\* What Append does to a list without repetitions.
LEMMA ListaAppend ==
    ASSUME NEW q \in Seq(Hilos), NEW x \in Hilos
    PROVE  /\ Append(q, x) \in Seq(Hilos) /\ Append(q, x) # <<>>
           /\ Range(Append(q, x)) = Range(q) \union {x}
           /\ IsInjective(q) /\ x \notin Range(q) => IsInjective(Append(q, x))
<1>1. /\ Append(q, x) \in Seq(Hilos) /\ Len(Append(q, x)) = Len(q) + 1
      /\ \A i \in 1 .. Len(q) : Append(q, x)[i] = q[i]
      /\ Append(q, x)[Len(q) + 1] = x
  OBVIOUS
<1>2. /\ DOMAIN Append(q, x) = 1 .. Len(q) + 1 /\ DOMAIN q = 1 .. Len(q)
      /\ Len(q) \in Nat
  BY <1>1
<1>3. Range(Append(q, x)) = Range(q) \union {x}
  <2>1. \A y : y \in Range(q) => y \in Range(Append(q, x))
    BY <1>1, <1>2 DEF Range
  <2>2. x \in Range(Append(q, x))
    BY <1>1, <1>2 DEF Range
  <2>3. \A y : y \in Range(Append(q, x)) => y \in Range(q) \/ y = x
    BY <1>1, <1>2 DEF Range
  <2> QED BY <2>1, <2>2, <2>3
<1>4. IsInjective(q) /\ x \notin Range(q) => IsInjective(Append(q, x))
  BY <1>1, <1>2 DEF Range, IsInjective
<1> QED BY <1>1, <1>3, <1>4

\* What Remove does to a list without repetitions.
LEMMA ListaRemove ==
    ASSUME NEW q \in Seq(Hilos), q # <<>>
    PROVE  /\ Head(q) \in Hilos /\ Tail(q) \in Seq(Hilos)
           /\ Head(q) \in Range(q)
           /\ IsInjective(q) => /\ Range(Tail(q)) = Range(q) \ {Head(q)}
                                /\ IsInjective(Tail(q))
<1>1. /\ Len(q) \in Nat /\ Len(q) # 0 /\ DOMAIN q = 1 .. Len(q)
      /\ Head(q) = q[1] /\ Tail(q) \in Seq(Hilos) /\ Len(Tail(q)) = Len(q) - 1
      /\ DOMAIN Tail(q) = 1 .. Len(q) - 1
      /\ \A i \in 1 .. Len(q) - 1 : Tail(q)[i] = q[i + 1]
  OBVIOUS
<1>2. Head(q) \in Hilos /\ Head(q) \in Range(q)
  BY <1>1 DEF Range
<1>3. ASSUME IsInjective(q)
      PROVE  Range(Tail(q)) = Range(q) \ {Head(q)} /\ IsInjective(Tail(q))
  <2>1. \A y : y \in Range(Tail(q)) => y \in Range(q) /\ y # Head(q)
    BY <1>1, <1>3 DEF Range, IsInjective
  <2>2. \A y : y \in Range(q) /\ y # Head(q) => y \in Range(Tail(q))
    <3>1. SUFFICES ASSUME NEW i \in 1 .. Len(q), q[i] # q[1]
                   PROVE  q[i] \in Range(Tail(q))
      BY <1>1 DEF Range
    <3>2. i - 1 \in 1 .. Len(q) - 1 /\ Tail(q)[i - 1] = q[i]
      BY <1>1, <3>1
    <3> QED BY <1>1, <3>2 DEF Range
  <2>3. IsInjective(Tail(q))
    BY <1>1, <1>3 DEF IsInjective
  <2> QED BY <2>1, <2>2, <2>3
<1> QED BY <1>1, <1>2, <1>3

-------------------------------------------------------------------------------
(* The invariant                                                           *)

Estados  == {"JUST_CREATED", "RUNNING", "READY", "BLOCKED"}
EnNucleo == {"ThreadRoot", "Yield", "P"}

\* The ready list holds the READY threads, and the running one is RUNNING.
ListoInv ==
    IsInjective(readyList) /\ \A h \in Hilos : h \in Range(readyList) <=> status[h] = "READY"

CorreInv ==
    \A h \in Hilos : status[h] = "RUNNING" <=> machineStatus = "SystemMode" /\ h = currentThread

EnCola(h, s) == status[h] = "BLOCKED" /\ pc[h] = "P" /\ espera[h] = s

ColaInv ==
    \A s \in Semaforos : /\ IsInjective(queue[s])
                         /\ \A h \in Hilos : h \in Range(queue[s]) <=> EnCola(h, s)

\* What a thread is doing follows from its status, and what may happen next
\* from the interrupt level.
ControlHilo(h) ==
    /\ status[h] = "READY" => pc[h] \in EnNucleo
    /\ status[h] = "JUST_CREATED" <=> pc[h] = "nuevo"
    /\ pc[h] \in Puntos => status[h] = "RUNNING"
    /\ pc[h] \in {"ThreadRoot", "Yield"} => status[h] \in {"READY", "RUNNING"}
    /\ pc[h] = "P" => espera[h] \in Semaforos

Control ==
    /\ machineStatus = "SystemMode" /\ level = "IntOn" => pc[currentThread] \in Puntos
    /\ machineStatus = "SystemMode" /\ level = "IntOff" => pc[currentThread] \in EnNucleo
    /\ machineStatus # "SystemMode" => level = "IntOff"
    /\ \A h \in Hilos : ControlHilo(h)

Sitios == ListoInv /\ CorreInv /\ ColaInv
Inv == TypeOK /\ Sitios /\ Control /\ MuertoNoVuelve /\ SinDespertarPerdido

\* The two ways to say that each thread is in one place agree.
LEMMA SitiosEs == Sitios <=> CadaHiloEnUnSitio
BY DEF Sitios, CadaHiloEnUnSitio, ListoInv, CorreInv, ColaInv, EnCola

\* The invariant holds initially.
LEMMA Inicial == Init => Inv
<1> SUFFICES ASSUME Init PROVE Inv
  OBVIOUS
<1>1. TypeOK
  BY HilosAssumption DEF Init, TypeOK
<1>2. Range(<<>>) = {} /\ IsInjective(<<>>)
  BY DEF Range, IsInjective
<1>3. Sitios
  BY <1>2, HilosAssumption DEF Init, Sitios, ListoInv, CorreInv, ColaInv, EnCola
<1>4. Control
  BY HilosAssumption DEF Init, Control, ControlHilo, EnNucleo
<1>5. MuertoNoVuelve
  BY HilosAssumption DEF Init, MuertoNoVuelve
<1>6. SinDespertarPerdido
  BY DEF Init, SinDespertarPerdido
<1> QED
  BY <1>1, <1>3, <1>4, <1>5, <1>6 DEF Inv

-------------------------------------------------------------------------------
(* Switches                                                                *)

\* Run takes the first ready thread, which is none that ran before.
LEMMA RunLema ==
    ASSUME NEW lista \in Seq(Hilos), lista # <<>>, IsInjective(lista),
           NEW st \in [Hilos -> Estados],
           \A h \in Hilos : h \in Range(lista) <=> st[h] = "READY",
           \A h \in Hilos : st[h] # "RUNNING",
           Run(lista, st)
    PROVE  /\ currentThread' \in Hilos /\ st[currentThread'] = "READY"
           /\ readyList' \in Seq(Hilos) /\ status' \in [Hilos -> Estados]
           /\ machineStatus' = "SystemMode" /\ level' = "IntOff"
           /\ \A h \in Hilos : status'[h] = IF h = currentThread' THEN "RUNNING" ELSE st[h]
           /\ ListoInv' /\ CorreInv'
<1>1. /\ Head(lista) \in Hilos /\ Tail(lista) \in Seq(Hilos) /\ Head(lista) \in Range(lista)
      /\ Range(Tail(lista)) = Range(lista) \ {Head(lista)} /\ IsInjective(Tail(lista))
  BY ListaRemove
<1>2. /\ currentThread' = Head(lista) /\ readyList' = Tail(lista)
      /\ status' = [st EXCEPT ![Head(lista)] = "RUNNING"]
      /\ machineStatus' = "SystemMode" /\ level' = "IntOff"
  BY DEF Run
<1>3. \A h \in Hilos : status'[h] = IF h = currentThread' THEN "RUNNING" ELSE st[h]
  BY <1>1, <1>2
<1>4. currentThread' \in Hilos /\ st[currentThread'] = "READY"
  BY <1>1, <1>2
<1>5. status' \in [Hilos -> Estados]
  BY <1>1, <1>2 DEF Estados
<1>6. ListoInv'
  BY <1>1, <1>2, <1>3 DEF ListoInv
<1>7. CorreInv'
  BY <1>2, <1>3 DEF CorreInv
<1> QED
  BY <1>1, <1>2, <1>3, <1>4, <1>5, <1>6, <1>7

\* Sleep blocks the running thread and nobody else.
LEMMA SleepLema ==
    ASSUME Inv, machineStatus = "SystemMode", Sleep
    PROVE  /\ currentThread' \in Hilos
           /\ readyList' \in Seq(Hilos) /\ status' \in [Hilos -> Estados]
           /\ machineStatus' \in {"SystemMode", "IdleMode"} /\ level' = "IntOff"
           /\ machineStatus' = "SystemMode" =>
                 status[currentThread'] = "READY" /\ currentThread' # currentThread
           /\ status'[currentThread] = "BLOCKED"
           /\ \A h \in Hilos : h # currentThread => status'[h] = status[h] \/
                 (status[h] = "READY" /\ status'[h] = "RUNNING")
           /\ ListoInv' /\ CorreInv'
<1> DEFINE st == [status EXCEPT ![currentThread] = "BLOCKED"]
<1>1. currentThread \in Hilos /\ readyList \in Seq(Hilos) /\ st \in [Hilos -> Estados]
  BY DEF Inv, TypeOK, Estados
<1>2. \A h \in Hilos : st[h] = IF h = currentThread THEN "BLOCKED" ELSE status[h]
  BY DEF Inv, TypeOK
<1>3. \A h \in Hilos : st[h] # "RUNNING"
  BY <1>2 DEF Inv, Sitios, CorreInv
<1>4. IsInjective(readyList) /\ \A h \in Hilos : h \in Range(readyList) <=> st[h] = "READY"
  BY <1>1, <1>2 DEF Inv, Sitios, CorreInv, ListoInv
<1>5. \/ readyList # <<>> /\ Run(readyList, st)
      \/ /\ readyList = <<>> /\ status' = st /\ machineStatus' = "IdleMode" /\ level' = "IntOff"
         /\ UNCHANGED <<currentThread, readyList>>
  BY DEF Sleep
<1> HIDE DEF st
<1>6. CASE readyList # <<>> /\ Run(readyList, st)
  <2>1. /\ currentThread' \in Hilos /\ st[currentThread'] = "READY"
        /\ readyList' \in Seq(Hilos) /\ status' \in [Hilos -> Estados]
        /\ machineStatus' = "SystemMode" /\ level' = "IntOff"
        /\ \A h \in Hilos : status'[h] = IF h = currentThread' THEN "RUNNING" ELSE st[h]
        /\ ListoInv' /\ CorreInv'
    BY <1>1, <1>3, <1>4, <1>6, RunLema
  <2>2. currentThread' # currentThread /\ status[currentThread'] = "READY"
    BY <1>1, <1>2, <2>1
  <2> QED
    BY <1>1, <1>2, <2>1, <2>2
<1>7. CASE /\ readyList = <<>> /\ status' = st /\ machineStatus' = "IdleMode" /\ level' = "IntOff"
           /\ UNCHANGED <<currentThread, readyList>>
  <2>1. ListoInv'
    BY <1>4, <1>7 DEF ListoInv
  <2>2. CorreInv'
    BY <1>3, <1>7 DEF CorreInv
  <2> QED
    BY <1>1, <1>2, <1>7, <2>1, <2>2
<1> QED
  BY <1>5, <1>6, <1>7

-------------------------------------------------------------------------------
(* Semaphores                                                              *)

\* Sets of threads are finite and have a size.
LEMMA Finito ==
    ASSUME NEW T \in SUBSET Hilos
    PROVE  IsFiniteSet(T) /\ Cardinality(T) \in Nat
BY HilosAssumption, FS_Subset, FS_CardinalityType

\* Whoever neither queues nor is woken leaves the queues in order, and a unit
\* taken from a semaphore cannot lose a wake-up.
LEMMA MismasColas ==
    ASSUME Inv, queue' = queue,
           \A s \in Semaforos : value[s]' <= value[s],
           TypeOK',
           \A h \in Hilos, s \in Semaforos :
              /\ EnCola(h, s)' <=> EnCola(h, s)
              /\ h \in Despertados(s)' <=> h \in Despertados(s)
    PROVE  ColaInv' /\ SinDespertarPerdido'
<1>1. ColaInv'
  BY DEF Inv, Sitios, ColaInv
<1>2. ASSUME NEW s \in Semaforos, queue'[s] # <<>>
      PROVE  value'[s] <= Cardinality(Despertados(s)')
  <2>1. Despertados(s)' = Despertados(s)
    BY DEF Despertados
  <2>2. value[s] <= Cardinality(Despertados(s))
    BY <1>2 DEF Inv, SinDespertarPerdido
  <2>3. Cardinality(Despertados(s)) \in Nat /\ value[s] \in Nat /\ value'[s] \in Nat
    <3>1. Despertados(s) \in SUBSET Hilos
      BY DEF Despertados
    <3> QED
      BY <3>1, Finito DEF Inv, TypeOK
  <2> QED
    BY <2>1, <2>2, <2>3
<1>3. SinDespertarPerdido'
  BY <1>2 DEF SinDespertarPerdido
<1> QED
  BY <1>1, <1>3

\* A thread that finds the semaphore at 0 queues and sleeps.
LEMMA EncolarLema ==
    ASSUME Inv, machineStatus = "SystemMode", NEW s \in Semaforos, value[s] = 0,
           Encolar(s), Sleep,
           pc'[currentThread] = "P", espera'[currentThread] = s,
           pc[currentThread] = "P" => espera[currentThread] = s,
           \A h \in Hilos : h # currentThread =>
              (pc'[h] = "P" <=> pc[h] = "P") /\ espera'[h] = espera[h]
    PROVE  /\ queue' \in [Semaforos -> Seq(Hilos)]
           /\ ColaInv' /\ SinDespertarPerdido'
<1> DEFINE c == currentThread
<1>1. c \in Hilos /\ status[c] = "RUNNING" /\ \A t \in Semaforos : c \notin Range(queue[t])
  BY DEF Inv, TypeOK, Sitios, CorreInv, ColaInv, EnCola
<1>2. /\ queue' = [queue EXCEPT ![s] = Append(queue[s], c)] /\ value' = value
      /\ queue \in [Semaforos -> Seq(Hilos)]
  BY DEF Encolar, Inv, TypeOK
<1>3. /\ Append(queue[s], c) \in Seq(Hilos)
      /\ Range(Append(queue[s], c)) = Range(queue[s]) \union {c}
      /\ IsInjective(Append(queue[s], c))
  BY <1>1, <1>2, ListaAppend DEF Inv, Sitios, ColaInv
<1>4. /\ queue' \in [Semaforos -> Seq(Hilos)] /\ queue'[s] = Append(queue[s], c)
      /\ \A t \in Semaforos : t # s => queue'[t] = queue[t]
  BY <1>2, <1>3
<1>5. /\ status'[c] = "BLOCKED"
      /\ \A h \in Hilos : h # c => status'[h] = status[h] \/
            (status[h] = "READY" /\ status'[h] = "RUNNING")
  BY SleepLema
<1>6. \A h \in Hilos, t \in Semaforos : EnCola(h, t)' <=> EnCola(h, t) \/ (h = c /\ t = s)
  BY <1>1, <1>5 DEF EnCola
<1>7. \A h \in Hilos, t \in Semaforos : t # s =>
         (h \in Despertados(t)' <=> h \in Despertados(t))
  <2>1. SUFFICES ASSUME NEW h \in Hilos, NEW t \in Semaforos, t # s
                 PROVE  h \in Despertados(t)' <=> h \in Despertados(t)
    OBVIOUS
  <2>2. CASE h = c
    BY <2>1, <2>2, <1>5 DEF Despertados
  <2>3. CASE h # c
    BY <2>3, <1>5 DEF Despertados
  <2> QED
    BY <2>2, <2>3
<1>8. ColaInv'
  <2>1. SUFFICES ASSUME NEW t \in Semaforos
                 PROVE  /\ IsInjective(queue'[t])
                        /\ \A h \in Hilos : h \in Range(queue'[t]) <=> EnCola(h, t)'
    BY DEF ColaInv
  <2>2. CASE t = s
    BY <1>1, <1>3, <1>4, <1>6, <2>2 DEF Inv, Sitios, ColaInv
  <2>3. CASE t # s
    BY <1>4, <1>6, <2>3 DEF Inv, Sitios, ColaInv
  <2> QED
    BY <2>2, <2>3
<1>9. SinDespertarPerdido'
  <2>1. SUFFICES ASSUME NEW t \in Semaforos, queue'[t] # <<>>
                 PROVE  value'[t] <= Cardinality(Despertados(t)')
    BY DEF SinDespertarPerdido
  <2>2. CASE t = s
    <3>1. Despertados(t)' \in SUBSET Hilos
      BY DEF Despertados
    <3>2. Cardinality(Despertados(t)') \in Nat
      BY <3>1, Finito
    <3> QED
      BY <1>2, <2>2, <3>2
  <2>3. CASE t # s
    <3>1. Despertados(t)' = Despertados(t)
      BY <1>7, <2>3 DEF Despertados
    <3> QED
      BY <1>2, <1>4, <2>1, <2>3, <3>1 DEF Inv, SinDespertarPerdido
  <2> QED
    BY <2>2, <2>3
<1> QED
  BY <1>4, <1>8, <1>9

\* V takes the first waiter from the queue to the ready list.
LEMMA DespertarLema ==
    ASSUME Inv, NEW s \in Semaforos, Despertar(s),
           UNCHANGED <<currentThread, machineStatus, espera>>,
           \A h \in Hilos : pc'[h] = "P" <=> pc[h] = "P"
    PROVE  /\ value' \in [Semaforos -> Nat] /\ queue' \in [Semaforos -> Seq(Hilos)]
           /\ readyList' \in Seq(Hilos) /\ status' \in [Hilos -> Estados]
           /\ \A h \in Hilos : status'[h] = status[h] \/
                 (status[h] = "BLOCKED" /\ pc[h] = "P" /\ status'[h] = "READY")
           /\ Sitios' /\ SinDespertarPerdido'
<1>0. /\ value \in [Semaforos -> Nat] /\ queue \in [Semaforos -> Seq(Hilos)]
      /\ readyList \in Seq(Hilos) /\ status \in [Hilos -> Estados]
  BY DEF Inv, TypeOK, Estados
<1>1. value' = [value EXCEPT ![s] = @ + 1]
  BY DEF Despertar
<1>2. value' \in [Semaforos -> Nat] /\ \A t \in Semaforos : t # s => value'[t] = value[t]
  BY <1>0, <1>1
<1>3. CASE queue[s] = <<>> /\ UNCHANGED <<queue, readyList, status>>
  <2>1. Sitios'
    BY <1>3 DEF Inv, Sitios, ListoInv, CorreInv, ColaInv, EnCola
  <2>2. SinDespertarPerdido'
    <3>1. SUFFICES ASSUME NEW t \in Semaforos, queue'[t] # <<>>
                   PROVE  value'[t] <= Cardinality(Despertados(t)')
      BY DEF SinDespertarPerdido
    <3>2. t # s
      BY <1>3, <3>1
    <3>3. Despertados(t)' = Despertados(t)
      BY <1>3 DEF Despertados
    <3> QED
      BY <1>2, <1>3, <3>1, <3>2, <3>3 DEF Inv, SinDespertarPerdido
  <2> QED
    BY <1>0, <1>2, <1>3, <2>1, <2>2
<1>4. CASE /\ queue[s] # <<>>
           /\ queue' = [queue EXCEPT ![s] = Tail(@)]
           /\ readyList' = Append(readyList, Head(queue[s]))
           /\ status' = [status EXCEPT ![Head(queue[s])] = "READY"]
  <2> DEFINE w == Head(queue[s])
  <2>1. /\ w \in Hilos /\ Tail(queue[s]) \in Seq(Hilos) /\ w \in Range(queue[s])
        /\ Range(Tail(queue[s])) = Range(queue[s]) \ {w} /\ IsInjective(Tail(queue[s]))
    BY <1>0, <1>4, ListaRemove DEF Inv, Sitios, ColaInv
  <2>2. EnCola(w, s) /\ status[w] = "BLOCKED" /\ w \notin Range(readyList)
    BY <2>1 DEF Inv, Sitios, ColaInv, ListoInv, EnCola
  <2>3. /\ readyList' \in Seq(Hilos) /\ Range(readyList') = Range(readyList) \union {w}
        /\ IsInjective(readyList')
    BY <1>0, <1>4, <2>1, <2>2, ListaAppend DEF Inv, Sitios, ListoInv
  <2>4. /\ status' \in [Hilos -> Estados]
        /\ \A h \in Hilos : status'[h] = IF h = w THEN "READY" ELSE status[h]
    BY <1>0, <1>4, <2>1 DEF Estados
  <2>5. /\ queue' \in [Semaforos -> Seq(Hilos)] /\ queue'[s] = Tail(queue[s])
        /\ \A t \in Semaforos : t # s => queue'[t] = queue[t]
    BY <1>0, <1>4, <2>1
  <2> HIDE DEF w
  <2>6. ListoInv'
    BY <2>3, <2>4 DEF Inv, Sitios, ListoInv
  <2>7. CorreInv'
    BY <2>2, <2>4 DEF Inv, Sitios, CorreInv
  <2>8. \A h \in Hilos, t \in Semaforos : EnCola(h, t)' <=> EnCola(h, t) /\ h # w
    BY <2>4 DEF EnCola
  <2>9. ColaInv'
    <3>1. SUFFICES ASSUME NEW t \in Semaforos
                   PROVE  /\ IsInjective(queue'[t])
                          /\ \A h \in Hilos : h \in Range(queue'[t]) <=> EnCola(h, t)'
      BY DEF ColaInv
    <3>2. CASE t = s
      BY <2>1, <2>5, <2>8, <3>2 DEF Inv, Sitios, ColaInv
    <3>3. CASE t # s
      <4>1. ~EnCola(w, t)
        BY <2>2, <3>3 DEF EnCola
      <4> QED
        BY <2>5, <2>8, <3>3, <4>1 DEF Inv, Sitios, ColaInv
    <3> QED
      BY <3>2, <3>3
  <2>10. SinDespertarPerdido'
    <3>1. SUFFICES ASSUME NEW t \in Semaforos, queue'[t] # <<>>
                   PROVE  value'[t] <= Cardinality(Despertados(t)')
      BY DEF SinDespertarPerdido
    <3>2. CASE t = s
      <4>1. Despertados(s)' = Despertados(s) \union {w} /\ w \notin Despertados(s)
        BY <2>1, <2>2, <2>4 DEF Despertados, EnCola
      <4>2. Despertados(s) \in SUBSET Hilos
        BY DEF Despertados
      <4>3. Cardinality(Despertados(s)') = Cardinality(Despertados(s)) + 1
        BY <4>1, <4>2, Finito, FS_AddElement
      <4>4. value[s] <= Cardinality(Despertados(s))
        BY <1>4 DEF Inv, SinDespertarPerdido
      <4>5. value'[s] = value[s] + 1 /\ value[s] \in Nat
        BY <1>0, <1>1
      <4> QED
        BY <3>2, <4>2, <4>3, <4>4, <4>5, Finito
    <3>3. CASE t # s
      <4>1. Despertados(t)' = Despertados(t)
        BY <2>2, <2>4, <3>3 DEF Despertados, EnCola
      <4> QED
        BY <1>2, <2>5, <3>1, <3>3, <4>1 DEF Inv, SinDespertarPerdido
    <3> QED
      BY <3>2, <3>3
  <2>11. \A h \in Hilos : status'[h] = status[h] \/
            (status[h] = "BLOCKED" /\ pc[h] = "P" /\ status'[h] = "READY")
    BY <2>2, <2>4 DEF EnCola
  <2> QED
    BY <1>2, <2>3, <2>4, <2>5, <2>6, <2>7, <2>9, <2>10, <2>11 DEF Sitios
<1> QED
  BY <1>3, <1>4 DEF Despertar

-------------------------------------------------------------------------------
(* Every step preserves the invariant                                      *)

\* A thread whose own state does not move stays where its status says, though
\* it be switched to or woken.
LEMMA OtroHilo ==
    ASSUME Inv, NEW h \in Hilos, pc'[h] = pc[h], espera'[h] = espera[h],
           \/ status'[h] = status[h]
           \/ status[h] = "READY" /\ status'[h] = "RUNNING"
           \/ status[h] = "BLOCKED" /\ pc[h] = "P" /\ status'[h] = "READY"
    PROVE  /\ ControlHilo(h)'
           /\ pc[h] \in {"Finish", "borrado"} => status'[h] = "BLOCKED"
BY HilosAssumption DEF Inv, Control, ControlHilo, EnNucleo, MuertoNoVuelve

\* What a thread at a point of its program is.
LEMMA EnProgramaLema ==
    ASSUME Inv, EnPrograma
    PROVE  /\ currentThread \in Hilos /\ status[currentThread] = "RUNNING"
           /\ pc[currentThread] \in Puntos /\ pc[currentThread] \notin Internos
           /\ machineStatus = "SystemMode" /\ level = "IntOn"
           /\ \A h \in Hilos : h # currentThread => status[h] # "RUNNING" /\ pc[h] \notin Puntos
BY HilosAssumption DEF Inv, TypeOK, EnPrograma, Sitios, CorreInv, Control, ControlHilo

\* The running thread moves on in its program, and at most takes units.
LEMMA MoverLema ==
    ASSUME Inv, EnPrograma, NEW p \in Puntos, Ir(p),
           UNCHANGED <<planificador, threadToBeDestroyed, queue, luego, espera>>,
           pending' \in [Dispositivos -> Nat], value' \in [Semaforos -> Nat],
           \A s \in Semaforos : value[s]' <= value[s]
    PROVE  Inv'
<1> DEFINE c == currentThread
<1>0. /\ c \in Hilos /\ status[c] = "RUNNING" /\ pc[c] \in Puntos /\ pc[c] \notin Internos
      /\ machineStatus = "SystemMode" /\ level = "IntOn" /\ p \notin Internos
  BY EnProgramaLema, HilosAssumption
<1>1. \A h \in Hilos : pc'[h] = IF h = c THEN p ELSE pc[h]
  BY <1>0 DEF Ir, Inv, TypeOK
<1>2. TypeOK'
  <2>1. pc' \in [Hilos -> Puntos \union Internos]
    BY <1>0 DEF Ir, Inv, TypeOK
  <2> QED
    BY <2>1 DEF Inv, TypeOK, planificador
<1>3. Control'
  BY <1>0, <1>1 DEF Inv, Control, ControlHilo, EnNucleo, planificador
<1>4. MuertoNoVuelve'
  BY <1>0, <1>1 DEF Inv, TypeOK, MuertoNoVuelve, planificador
<1>5. \A h \in Hilos, s \in Semaforos : /\ EnCola(h, s)' <=> EnCola(h, s)
                                        /\ h \in Despertados(s)' <=> h \in Despertados(s)
  BY <1>0, <1>1 DEF EnCola, Despertados, planificador
<1>6. ColaInv' /\ SinDespertarPerdido'
  BY <1>2, <1>5, MismasColas
<1>7. ListoInv' /\ CorreInv'
  BY DEF Inv, Sitios, ListoInv, CorreInv, planificador
<1> QED
  BY <1>2, <1>3, <1>4, <1>6, <1>7 DEF Inv, Sitios

\* Moving on in the program keeps the invariant.
LEMMA PasoAvanzar ==
    ASSUME Inv, NEW p \in Puntos, Avanzar(p)
    PROVE  Inv'
<1>1. /\ EnPrograma /\ Ir(p) /\ pending' = pending /\ value' = value
      /\ UNCHANGED <<planificador, threadToBeDestroyed, queue, luego, espera>>
  BY DEF Avanzar, semaforos
<1>2. pending' \in [Dispositivos -> Nat] /\ value' \in [Semaforos -> Nat]
      /\ \A s \in Semaforos : value[s]' <= value[s]
  BY <1>1 DEF Inv, TypeOK
<1> QED
  BY <1>1, <1>2, MoverLema

\* Yield up to the switch keeps the invariant.
LEMMA PasoYield ==
    ASSUME Inv, NEW p \in Puntos, Yield(p)
    PROVE  Inv'
<1> DEFINE c == currentThread
<1>0. /\ c \in Hilos /\ status[c] = "RUNNING" /\ pc[c] \in Puntos /\ pc[c] \notin Internos
      /\ machineStatus = "SystemMode" /\ level = "IntOn" /\ p \notin Internos
      /\ \A h \in Hilos : h # c => status[h] # "RUNNING" /\ pc[h] \notin Puntos
  BY EnProgramaLema, HilosAssumption DEF Yield
<1>1. CASE /\ readyList # <<>>
           /\ Run(Append(readyList, c), [status EXCEPT ![c] = "READY"])
           /\ luego' = [luego EXCEPT ![c] = p] /\ Ir("Yield")
  <2> DEFINE lista == Append(readyList, c)
             st == [status EXCEPT ![c] = "READY"]
  <2>1. /\ lista \in Seq(Hilos) /\ lista # <<>> /\ IsInjective(lista)
        /\ Range(lista) = Range(readyList) \union {c}
    BY <1>0, ListaAppend DEF Inv, TypeOK, Sitios, ListoInv
  <2>2. /\ st \in [Hilos -> Estados]
        /\ \A h \in Hilos : st[h] = IF h = c THEN "READY" ELSE status[h]
    BY <1>0 DEF Inv, TypeOK, Estados
  <2>3. /\ \A h \in Hilos : h \in Range(lista) <=> st[h] = "READY"
        /\ \A h \in Hilos : st[h] # "RUNNING"
    BY <1>0, <2>1, <2>2 DEF Inv, Sitios, ListoInv
  <2>4. Run(lista, st)
    BY <1>1
  <2> HIDE DEF lista, st
  <2>5. /\ currentThread' \in Hilos /\ st[currentThread'] = "READY"
        /\ readyList' \in Seq(Hilos) /\ status' \in [Hilos -> Estados]
        /\ machineStatus' = "SystemMode" /\ level' = "IntOff"
        /\ \A h \in Hilos : status'[h] = IF h = currentThread' THEN "RUNNING" ELSE st[h]
        /\ ListoInv' /\ CorreInv'
    BY <2>1, <2>2, <2>3, <2>4, RunLema
  <2>6. \A h \in Hilos : pc'[h] = IF h = c THEN "Yield" ELSE pc[h]
    BY <1>0, <1>1 DEF Ir, Inv, TypeOK
  <2>7. UNCHANGED <<threadToBeDestroyed, pending, semaforos, espera>>
    BY DEF Yield
  <2>8. TypeOK'
    <3>1. pc' \in [Hilos -> Puntos \union Internos] /\ luego' \in [Hilos -> Puntos]
      BY <1>0, <1>1 DEF Ir, Inv, TypeOK
    <3> QED
      BY <2>5, <2>7, <3>1 DEF Inv, TypeOK, Estados, semaforos
  <2>9. Control'
    <3>1. pc'[currentThread'] \in EnNucleo
      BY <1>0, <2>2, <2>5, <2>6 DEF Inv, Control, ControlHilo, EnNucleo
    <3>2. ASSUME NEW h \in Hilos PROVE ControlHilo(h)'
      <4>1. CASE h = c
        BY <1>0, <2>2, <2>5, <2>6, <4>1, HilosAssumption DEF ControlHilo, EnNucleo
      <4>2. CASE h # c
        <5>1. st[h] = status[h] /\ pc'[h] = pc[h] /\ espera'[h] = espera[h]
          BY <2>2, <2>6, <2>7, <4>2
        <5>2. status'[h] = status[h] \/ (status[h] = "READY" /\ status'[h] = "RUNNING")
          BY <2>5, <5>1
        <5> QED
          BY <5>1, <5>2, OtroHilo
      <4> QED
        BY <4>1, <4>2
    <3> QED
      BY <2>5, <3>1, <3>2 DEF Control
  <2>10. MuertoNoVuelve'
    BY <1>0, <2>2, <2>5, <2>6, <2>7 DEF Inv, TypeOK, MuertoNoVuelve
  <2>11. \A h \in Hilos, s \in Semaforos : /\ EnCola(h, s)' <=> EnCola(h, s)
                                           /\ h \in Despertados(s)' <=> h \in Despertados(s)
    BY <1>0, <2>2, <2>5, <2>6, <2>7 DEF EnCola, Despertados
  <2>12. queue' = queue /\ \A s \in Semaforos : value[s]' <= value[s]
    BY <2>7 DEF semaforos, Inv, TypeOK
  <2>13. ColaInv' /\ SinDespertarPerdido'
    BY <2>8, <2>11, <2>12, MismasColas
  <2> QED
    BY <2>5, <2>8, <2>9, <2>10, <2>13 DEF Inv, Sitios
<1>2. CASE readyList = <<>> /\ Ir(p) /\ UNCHANGED <<planificador, luego>>
  <2>1. UNCHANGED <<planificador, luego, threadToBeDestroyed, pending, semaforos, espera>>
    BY <1>2 DEF Yield
  <2> QED
    <3>1. EnPrograma /\ Ir(p) /\ value' \in [Semaforos -> Nat] /\ pending' \in [Dispositivos -> Nat]
          /\ queue' = queue /\ \A s \in Semaforos : value[s]' <= value[s]
      BY <1>2, <2>1 DEF Yield, Inv, TypeOK, semaforos
    <3> QED
      BY <2>1, <3>1, MoverLema
<1> QED
  BY <1>1, <1>2 DEF Yield

\* Fork keeps the invariant: the new thread is ready, once.
LEMMA PasoFork ==
    ASSUME Inv, NEW h \in Hilos, NEW p \in Puntos, Fork(h, p)
    PROVE  Inv'
<1> DEFINE c == currentThread
<1>0. /\ c \in Hilos /\ status[c] = "RUNNING" /\ pc[c] \in Puntos /\ pc[c] \notin Internos
      /\ machineStatus = "SystemMode" /\ level = "IntOn" /\ p \notin Internos
      /\ \A g \in Hilos : g # c => status[g] # "RUNNING" /\ pc[g] \notin Puntos
  BY EnProgramaLema, HilosAssumption DEF Fork
<1>1. /\ pc[h] = "nuevo" /\ readyList' = Append(readyList, h)
      /\ status' = [status EXCEPT ![h] = "READY"]
      /\ pc' = [pc EXCEPT ![h] = "ThreadRoot", ![c] = p]
      /\ UNCHANGED <<currentThread, level, machineStatus, threadToBeDestroyed, pending,
                     queue, value, luego, espera>>
  BY DEF Fork, semaforos
<1>2. h # c /\ status[h] = "JUST_CREATED" /\ h \notin Range(readyList)
  BY <1>0, <1>1 DEF Inv, Control, ControlHilo, Sitios, ListoInv
<1>3. \A g \in Hilos :
         /\ pc'[g] = IF g = h THEN "ThreadRoot" ELSE IF g = c THEN p ELSE pc[g]
         /\ status'[g] = IF g = h THEN "READY" ELSE status[g]
  BY <1>0, <1>1, <1>2 DEF Inv, TypeOK
<1>4. /\ readyList' \in Seq(Hilos) /\ IsInjective(readyList')
      /\ Range(readyList') = Range(readyList) \union {h}
  BY <1>1, <1>2, ListaAppend DEF Inv, TypeOK, Sitios, ListoInv
<1>5. TypeOK'
  <2>1. pc' \in [Hilos -> Puntos \union Internos] /\ status' \in [Hilos -> Estados]
    BY <1>0, <1>1 DEF Inv, TypeOK, Estados
  <2> QED
    BY <1>1, <1>4, <2>1 DEF Inv, TypeOK, Estados
<1>6. ListoInv' /\ CorreInv'
  BY <1>0, <1>1, <1>2, <1>3, <1>4 DEF Inv, Sitios, ListoInv, CorreInv
<1>7. \A g \in Hilos, s \in Semaforos : /\ EnCola(g, s)' <=> EnCola(g, s)
                                        /\ g \in Despertados(s)' <=> g \in Despertados(s)
  <2>1. SUFFICES ASSUME NEW g \in Hilos, NEW s \in Semaforos
                 PROVE  /\ EnCola(g, s)' <=> EnCola(g, s)
                        /\ g \in Despertados(s)' <=> g \in Despertados(s)
    OBVIOUS
  <2>2. /\ pc'[g] = "P" <=> pc[g] = "P"
        /\ pc[g] = "P" => status'[g] = status[g]
    <3>1. p # "P" /\ pc[c] # "P" /\ pc[h] # "P"
      BY <1>0, <1>1
    <3>2. CASE g = h
      BY <1>3, <3>1, <3>2
    <3>3. CASE g # h
      BY <1>3, <3>1, <3>3
    <3> QED
      BY <3>2, <3>3
  <2> QED
    BY <1>1, <2>2 DEF EnCola, Despertados
<1>8. ColaInv' /\ SinDespertarPerdido'
  <2>1. queue' = queue /\ \A s \in Semaforos : value[s]' <= value[s]
    BY <1>1 DEF Inv, TypeOK
  <2> QED
    BY <1>5, <1>7, <2>1, MismasColas
<1>9. Control'
  <2>1. ASSUME NEW g \in Hilos PROVE ControlHilo(g)'
    <3>1. CASE g = h
      BY <1>3, <3>1, HilosAssumption DEF ControlHilo, EnNucleo
    <3>2. CASE g = c
      BY <1>0, <1>2, <1>3, <3>2 DEF ControlHilo, EnNucleo
    <3>3. CASE g # h /\ g # c
      BY <1>1, <1>3, <3>3, OtroHilo
    <3> QED
      BY <3>1, <3>2, <3>3
  <2> QED
    BY <1>0, <1>1, <1>2, <1>3, <2>1 DEF Control
<1>10. MuertoNoVuelve'
  BY <1>0, <1>1, <1>2, <1>3 DEF Inv, TypeOK, MuertoNoVuelve
<1> QED
  BY <1>5, <1>6, <1>8, <1>9, <1>10 DEF Inv, Sitios

\* What blocks the running thread, wherever it is, and leaves the others alone.
LEMMA DormirLema ==
    ASSUME Inv, machineStatus = "SystemMode", Sleep,
           UNCHANGED pending, value' = value, queue' \in [Semaforos -> Seq(Hilos)],
           threadToBeDestroyed' \in Hilos \union {Nulo},
           luego' \in [Hilos -> Puntos], espera' \in [Hilos -> Semaforos \union {Nulo}],
           pc' \in [Hilos -> Puntos \union Internos],
           \/ pc'[currentThread] = "P" /\ espera'[currentThread] \in Semaforos
           \/ pc'[currentThread] = "Finish",
           \A h \in Hilos : h # currentThread =>
              /\ espera'[h] = espera[h]
              /\ \/ pc'[h] = pc[h]
                 \/ pc[h] = "Finish" /\ pc'[h] = "borrado" /\ h # threadToBeDestroyed',
           threadToBeDestroyed' # Nulo => pc'[threadToBeDestroyed'] = "Finish",
           ColaInv', SinDespertarPerdido'
    PROVE  Inv'
<1> DEFINE c == currentThread
<1>0. c \in Hilos /\ status[c] = "RUNNING" /\ pc[c] \notin {"Finish", "borrado"}
  BY DEF Inv, TypeOK, Sitios, CorreInv, MuertoNoVuelve
<1>1. /\ currentThread' \in Hilos
      /\ readyList' \in Seq(Hilos) /\ status' \in [Hilos -> Estados]
      /\ machineStatus' \in {"SystemMode", "IdleMode"} /\ level' = "IntOff"
      /\ machineStatus' = "SystemMode" =>
            status[currentThread'] = "READY" /\ currentThread' # c
      /\ status'[c] = "BLOCKED"
      /\ \A h \in Hilos : h # c => status'[h] = status[h] \/
            (status[h] = "READY" /\ status'[h] = "RUNNING")
      /\ ListoInv' /\ CorreInv'
  BY SleepLema
<1>2. TypeOK'
  BY <1>1 DEF Inv, TypeOK, Estados
<1>3. ASSUME NEW h \in Hilos
      PROVE  ControlHilo(h)' /\ (pc'[h] \in {"Finish", "borrado"} => status'[h] = "BLOCKED")
  <2>1. CASE h = c
    BY <1>1, <2>1, HilosAssumption DEF ControlHilo, EnNucleo
  <2>2. CASE h # c /\ pc'[h] = pc[h]
    BY <1>1, <2>2, OtroHilo
  <2>3. CASE h # c /\ pc[h] = "Finish" /\ pc'[h] = "borrado"
    <3>1. status[h] = "BLOCKED"
      BY <2>3 DEF Inv, MuertoNoVuelve
    <3>2. status'[h] = "BLOCKED"
      BY <1>1, <2>3, <3>1
    <3> QED
      BY <2>3, <3>2, HilosAssumption DEF ControlHilo, EnNucleo
  <2> QED
    BY <2>1, <2>2, <2>3
<1>4. machineStatus' = "SystemMode" => pc'[currentThread'] \in EnNucleo
  <2>1. SUFFICES ASSUME machineStatus' = "SystemMode"
                 PROVE  pc'[currentThread'] \in EnNucleo
    OBVIOUS
  <2>2. status[currentThread'] = "READY" /\ currentThread' # c /\ currentThread' \in Hilos
    BY <1>1, <2>1
  <2>3. pc[currentThread'] \in EnNucleo
    BY <2>2 DEF Inv, Control, ControlHilo
  <2> QED
    BY <2>2, <2>3 DEF EnNucleo
<1>5. Control' /\ MuertoNoVuelve'
  BY <1>1, <1>3, <1>4 DEF Control, MuertoNoVuelve
<1> QED
  BY <1>1, <1>2, <1>5 DEF Inv, Sitios

\* Finish keeps the invariant: the carcass waits for whoever runs next.
LEMMA PasoFinish ==
    ASSUME Inv, Finish
    PROVE  Inv'
<1> DEFINE c == currentThread
<1>0. /\ c \in Hilos /\ status[c] = "RUNNING" /\ pc[c] \in Puntos /\ pc[c] \notin Internos
      /\ machineStatus = "SystemMode" /\ level = "IntOn"
  BY EnProgramaLema DEF Finish
<1>1. /\ threadToBeDestroyed' = c /\ Sleep
      /\ UNCHANGED <<pending, value, queue, luego, espera>>
  BY DEF Finish, semaforos
<1>2. /\ \A h \in Hilos : pc'[h] = IF h = c THEN "Finish" ELSE pc[h]
      /\ pc' \in [Hilos -> Puntos \union Internos]
  BY <1>0 DEF Finish, Ir, Inv, TypeOK
<1>3. /\ status'[c] = "BLOCKED"
      /\ currentThread' \in Hilos
      /\ readyList' \in Seq(Hilos) /\ status' \in [Hilos -> Estados]
      /\ machineStatus' \in {"SystemMode", "IdleMode"} /\ level' = "IntOff"
      /\ \A h \in Hilos : h # c => status'[h] = status[h] \/
            (status[h] = "READY" /\ status'[h] = "RUNNING")
  BY <1>0, <1>1, SleepLema
<1>4. \A h \in Hilos, s \in Semaforos : /\ EnCola(h, s)' <=> EnCola(h, s)
                                        /\ h \in Despertados(s)' <=> h \in Despertados(s)
  BY <1>0, <1>1, <1>2, <1>3 DEF EnCola, Despertados
<1>5. TypeOK'
  BY <1>0, <1>1, <1>2, <1>3 DEF Inv, TypeOK, Estados
<1>6. queue' = queue /\ \A s \in Semaforos : value[s]' <= value[s]
  BY <1>1 DEF Inv, TypeOK
<1>7. ColaInv' /\ SinDespertarPerdido'
  BY <1>4, <1>5, <1>6, MismasColas
<1> QED
  BY <1>0, <1>1, <1>2, <1>5, <1>7, DormirLema DEF TypeOK

\* P keeps the invariant: whoever sleeps is in one queue.
LEMMA PasoP ==
    ASSUME Inv, NEW s \in Semaforos, NEW p \in Puntos, P(s, p)
    PROVE  Inv'
<1> DEFINE c == currentThread
<1>0. /\ c \in Hilos /\ status[c] = "RUNNING" /\ pc[c] \in Puntos /\ pc[c] \notin Internos
      /\ machineStatus = "SystemMode" /\ level = "IntOn" /\ EnPrograma
  BY EnProgramaLema DEF P
<1>1. CASE value[s] # 0 /\ Tomar(s) /\ Ir(p) /\ UNCHANGED <<planificador, luego, espera>>
  <2>1. /\ value' = [value EXCEPT ![s] = @ - 1] /\ value \in [Semaforos -> Nat]
        /\ UNCHANGED <<queue, planificador, threadToBeDestroyed, luego, espera, pending>>
    BY <1>1 DEF Tomar, P, Inv, TypeOK
  <2>2. \A t \in Semaforos : value[t] \in Nat /\ value[s] # 0
    BY <1>1, <2>1
  <2>3. value' \in [Semaforos -> Nat] /\ \A t \in Semaforos : value[t]' <= value[t]
    BY <2>1, <2>2
  <2>4. pending' \in [Dispositivos -> Nat]
    BY <2>1 DEF Inv, TypeOK
  <2> QED
    BY <1>0, <1>1, <2>1, <2>3, <2>4, MoverLema
<1>2. CASE /\ value[s] = 0 /\ Encolar(s) /\ Sleep /\ Ir("P")
           /\ luego' = [luego EXCEPT ![c] = p]
           /\ espera' = [espera EXCEPT ![c] = s]
  <2>1. /\ UNCHANGED <<threadToBeDestroyed, pending>> /\ value' = value
        /\ value[s] = 0 /\ Encolar(s) /\ Sleep
    BY <1>2 DEF P, Encolar
  <2>2. /\ pc' \in [Hilos -> Puntos \union Internos] /\ luego' \in [Hilos -> Puntos]
        /\ espera' \in [Hilos -> Semaforos \union {Nulo}]
        /\ pc'[c] = "P" /\ espera'[c] = s
        /\ \A h \in Hilos : h # c => pc'[h] = pc[h] /\ espera'[h] = espera[h]
    BY <1>0, <1>2 DEF Ir, Inv, TypeOK
  <2>3. pc[c] # "P"
    BY <1>0
  <2>4. /\ queue' \in [Semaforos -> Seq(Hilos)]
        /\ ColaInv' /\ SinDespertarPerdido'
    BY <1>0, <2>1, <2>2, <2>3, EncolarLema
  <2>5. /\ threadToBeDestroyed' \in Hilos \union {Nulo}
        /\ threadToBeDestroyed' # Nulo => pc'[threadToBeDestroyed'] = "Finish"
    <3>1. threadToBeDestroyed \in Hilos \union {Nulo} /\ pc[c] # "Finish"
          /\ (threadToBeDestroyed # Nulo => pc[threadToBeDestroyed] = "Finish")
      BY <1>0 DEF Inv, TypeOK, MuertoNoVuelve
    <3> QED
      BY <2>1, <2>2, <3>1
  <2> QED
    BY <1>0, <2>1, <2>2, <2>4, <2>5, DormirLema
<1> QED
  BY <1>1, <1>2 DEF P

\* V, by the running thread or by an interrupt handler.
LEMMA DespertarInv ==
    ASSUME Inv, NEW s \in Semaforos, Despertar(s),
           UNCHANGED <<currentThread, level, machineStatus, threadToBeDestroyed, luego, espera>>,
           pending' \in [Dispositivos -> Nat],
           \/ pc' = pc
           \/ EnPrograma /\ \E p \in Puntos : Ir(p)
    PROVE  Inv'
<1> DEFINE c == currentThread
<1>0. c \in Hilos /\ pc' \in [Hilos -> Puntos \union Internos]
  BY DEF Inv, TypeOK, Ir
<1>1. \A h \in Hilos : pc'[h] = pc[h] \/ /\ h = c /\ pc[h] \in Puntos /\ pc'[h] \in Puntos
                                         /\ status[h] = "RUNNING" /\ machineStatus = "SystemMode"
                                         /\ level = "IntOn"
  <2>1. CASE pc' = pc
    BY <2>1
  <2>2. CASE EnPrograma /\ \E p \in Puntos : Ir(p)
    <3>1. PICK p \in Puntos : pc' = [pc EXCEPT ![c] = p]
      BY <2>2 DEF Ir
    <3> QED
      BY <1>0, <2>2, <3>1, EnProgramaLema DEF Inv, TypeOK
  <2> QED
    BY <2>1, <2>2
<1>2. \A h \in Hilos : pc'[h] = "P" <=> pc[h] = "P"
  BY <1>1, HilosAssumption
<1>3. /\ value' \in [Semaforos -> Nat] /\ queue' \in [Semaforos -> Seq(Hilos)]
      /\ readyList' \in Seq(Hilos) /\ status' \in [Hilos -> Estados]
      /\ \A h \in Hilos : status'[h] = status[h] \/
            (status[h] = "BLOCKED" /\ pc[h] = "P" /\ status'[h] = "READY")
      /\ Sitios' /\ SinDespertarPerdido'
  BY <1>2, DespertarLema
<1>4. TypeOK'
  BY <1>0, <1>3 DEF Inv, TypeOK, Estados
<1>5. ASSUME NEW h \in Hilos
      PROVE  ControlHilo(h)' /\ (pc'[h] \in {"Finish", "borrado"} => status'[h] = "BLOCKED")
  <2>1. CASE pc'[h] = pc[h]
    BY <1>3, <2>1, OtroHilo
  <2>2. CASE pc[h] \in Puntos /\ pc'[h] \in Puntos /\ status[h] = "RUNNING"
    <3>1. status'[h] = "RUNNING"
      BY <1>3, <2>2
    <3> QED
      BY <2>2, <3>1, HilosAssumption DEF ControlHilo, EnNucleo
  <2> QED
    BY <1>1, <2>1, <2>2
<1>6. Control'
  <2>1. pc'[c] = pc[c] \/ (pc'[c] \in Puntos /\ machineStatus = "SystemMode" /\ level = "IntOn")
    BY <1>0, <1>1
  <2> QED
    BY <1>5, <2>1 DEF Inv, Control
<1>7. threadToBeDestroyed' # Nulo => pc'[threadToBeDestroyed'] = "Finish"
  <2>1. threadToBeDestroyed # Nulo =>
           threadToBeDestroyed \in Hilos /\ pc[threadToBeDestroyed] = "Finish"
    BY DEF Inv, TypeOK, MuertoNoVuelve
  <2> QED
    BY <1>1, <2>1, HilosAssumption
<1>8. MuertoNoVuelve'
  BY <1>5, <1>7 DEF MuertoNoVuelve
<1> QED
  BY <1>3, <1>4, <1>6, <1>8 DEF Inv

\* V by a thread keeps the invariant.
LEMMA PasoV ==
    ASSUME Inv, NEW s \in Semaforos, NEW p \in Puntos, V(s, p)
    PROVE  Inv'
<1>1. /\ EnPrograma /\ Despertar(s) /\ Ir(p)
      /\ UNCHANGED <<currentThread, level, machineStatus, threadToBeDestroyed, luego, espera>>
  BY DEF V
<1>2. pending' \in [Dispositivos -> Nat]
  BY DEF V, Inv, TypeOK
<1> QED
  BY <1>1, <1>2, DespertarInv

\* V by an interrupt handler keeps the invariant.
LEMMA PasoCheckIfDue ==
    ASSUME Inv, NEW d \in Dispositivos, CheckIfDue(d)
    PROVE  Inv'
<1>1. /\ Despertar(d) /\ d \in Semaforos /\ pc' = pc
      /\ UNCHANGED <<currentThread, level, machineStatus, threadToBeDestroyed, luego, espera>>
  BY HilosAssumption DEF CheckIfDue
<1>2. pending' \in [Dispositivos -> Nat]
  <2>1. pending[d] \in Nat /\ pending[d] > 0 /\ pending' = [pending EXCEPT ![d] = @ - 1]
    BY DEF CheckIfDue, Inv, TypeOK
  <2> QED
    BY <2>1 DEF Inv, TypeOK
<1> QED
  BY <1>1, <1>2, DespertarInv

\* The insertion of a pending interrupt keeps the invariant.
LEMMA PasoSchedule ==
    ASSUME Inv, NEW d \in Dispositivos, NEW p \in Puntos, Schedule(d, p)
    PROVE  Inv'
<1>1. /\ EnPrograma /\ Ir(p) /\ pending' = [pending EXCEPT ![d] = @ + 1]
      /\ UNCHANGED <<planificador, threadToBeDestroyed, queue, luego, espera>> /\ value' = value
  BY DEF Schedule, semaforos
<1>2. pending' \in [Dispositivos -> Nat] /\ value' \in [Semaforos -> Nat]
      /\ \A s \in Semaforos : value[s]' <= value[s]
  BY <1>1 DEF Inv, TypeOK
<1> QED
  BY <1>1, <1>2, MoverLema

\* The thread that was switched to, and the carcass it may delete.
LEMMA ReanudarLema ==
    ASSUME Inv, machineStatus = "SystemMode", level = "IntOff"
    PROVE  /\ currentThread \in Hilos /\ status[currentThread] = "RUNNING"
           /\ pc[currentThread] \in EnNucleo /\ pc[currentThread] \notin Puntos
           /\ threadToBeDestroyed # currentThread
           /\ threadToBeDestroyed # Nulo => pc[threadToBeDestroyed] = "Finish"
<1>1. /\ currentThread \in Hilos /\ status[currentThread] = "RUNNING"
      /\ pc[currentThread] \in EnNucleo
  BY DEF Inv, TypeOK, Sitios, CorreInv, Control
<1>2. threadToBeDestroyed # Nulo => pc[threadToBeDestroyed] = "Finish"
  BY DEF Inv, MuertoNoVuelve
<1> QED
  BY <1>1, <1>2, HilosAssumption DEF EnNucleo

\* It comes back to its program, having taken the unit it was woken for, if any.
LEMMA VolverLema ==
    ASSUME Inv, machineStatus = "SystemMode", level = "IntOff", level' = "IntOn",
           UNCHANGED <<currentThread, readyList, status, machineStatus, queue, pending>>,
           luego' \in [Hilos -> Puntos], espera' \in [Hilos -> Semaforos \union {Nulo}],
           \A h \in Hilos : h # currentThread => espera'[h] = espera[h],
           pc' \in [Hilos -> Puntos \union Internos], pc'[currentThread] \in Puntos,
           threadToBeDestroyed' \in Hilos \union {Nulo},
           threadToBeDestroyed' # Nulo => pc'[threadToBeDestroyed'] = "Finish",
           \A h \in Hilos : h # currentThread =>
              pc'[h] = pc[h] \/ (pc[h] = "Finish" /\ pc'[h] = "borrado"),
           value' \in [Semaforos -> Nat],
           \A s \in Semaforos :
              value'[s] = IF pc[currentThread] = "P" /\ espera[currentThread] = s
                          THEN value[s] - 1 ELSE value[s]
    PROVE  Inv'
<1> DEFINE c == currentThread
<1>0. /\ c \in Hilos /\ status[c] = "RUNNING" /\ pc[c] \in EnNucleo /\ pc[c] \notin Puntos
  BY ReanudarLema
<1>1. TypeOK'
  BY DEF Inv, TypeOK
<1>2. ListoInv' /\ CorreInv'
  BY DEF Inv, Sitios, ListoInv, CorreInv
<1>3. ASSUME NEW h \in Hilos
      PROVE  ControlHilo(h)' /\ (pc'[h] \in {"Finish", "borrado"} => status'[h] = "BLOCKED")
  <2>1. CASE h = c
    BY <1>0, <2>1, HilosAssumption DEF ControlHilo, EnNucleo
  <2>2. CASE h # c /\ pc'[h] = pc[h]
    BY <2>2, OtroHilo
  <2>3. CASE h # c /\ pc[h] = "Finish" /\ pc'[h] = "borrado"
    <3>1. status'[h] = "BLOCKED"
      BY <2>3 DEF Inv, MuertoNoVuelve
    <3> QED
      BY <2>3, <3>1, HilosAssumption DEF ControlHilo, EnNucleo
  <2> QED
    BY <2>1, <2>2, <2>3
<1>4. Control' /\ MuertoNoVuelve'
  BY <1>0, <1>3 DEF Control, MuertoNoVuelve
<1>5. \A h \in Hilos : h # c => (pc'[h] = "P" <=> pc[h] = "P")
  OBVIOUS
<1>6. pc'[c] # "P"
  BY HilosAssumption
<1>7. ColaInv'
  <2>1. \A h \in Hilos, s \in Semaforos : EnCola(h, s)' <=> EnCola(h, s)
    BY <1>0, <1>5 DEF EnCola
  <2> QED
    BY <2>1 DEF Inv, Sitios, ColaInv
<1>8. SinDespertarPerdido'
  <2>1. SUFFICES ASSUME NEW s \in Semaforos, queue'[s] # <<>>
                 PROVE  value'[s] <= Cardinality(Despertados(s)')
    BY DEF SinDespertarPerdido
  <2>2. value[s] <= Cardinality(Despertados(s)) /\ value[s] \in Nat
    BY <2>1 DEF Inv, TypeOK, SinDespertarPerdido
  <2>3. Despertados(s) \in SUBSET Hilos
    BY DEF Despertados
  <2>4. CASE pc[c] = "P" /\ espera[c] = s
    <3>1. Despertados(s)' = Despertados(s) \ {c} /\ c \in Despertados(s)
      BY <1>0, <1>5, <1>6, <2>4 DEF Despertados
    <3>2. Cardinality(Despertados(s)') = Cardinality(Despertados(s)) - 1
      BY <2>3, <3>1, Finito, FS_RemoveElement
    <3>3. Cardinality(Despertados(s)) \in Nat /\ value'[s] = value[s] - 1
      BY <2>3, <2>4, Finito
    <3> QED
      BY <2>2, <3>2, <3>3
  <2>5. CASE ~(pc[c] = "P" /\ espera[c] = s)
    <3>1. Despertados(s)' = Despertados(s)
      BY <1>0, <1>5, <1>6, <2>5 DEF Despertados
    <3> QED
      BY <2>2, <2>5, <3>1
  <2> QED
    BY <2>4, <2>5
<1> QED
  BY <1>1, <1>2, <1>4, <1>7, <1>8 DEF Inv, Sitios

\* The first steps of a thread that never ran keep the invariant.
LEMMA PasoThreadRoot ==
    ASSUME Inv, machineStatus = "SystemMode", level = "IntOff", UNCHANGED pending, ThreadRoot
    PROVE  Inv'
<1> DEFINE c == currentThread
<1>0. /\ c \in Hilos /\ threadToBeDestroyed # c
      /\ threadToBeDestroyed # Nulo => pc[threadToBeDestroyed] = "Finish"
  BY ReanudarLema
<1>1. /\ pc[c] = "ThreadRoot" /\ level' = "IntOn" /\ pc' = [pc EXCEPT ![c] = Inicio]
      /\ UNCHANGED <<currentThread, readyList, status, machineStatus, threadToBeDestroyed,
                     queue, value, luego, espera>>
  BY DEF ThreadRoot, semaforos, Ir
<1>2. /\ pc' \in [Hilos -> Puntos \union Internos] /\ pc'[c] \in Puntos
      /\ \A h \in Hilos : h # c => pc'[h] = pc[h]
  BY <1>0, <1>1, HilosAssumption DEF Inv, TypeOK
<1>3. /\ threadToBeDestroyed' \in Hilos \union {Nulo}
      /\ threadToBeDestroyed' # Nulo => pc'[threadToBeDestroyed'] = "Finish"
  BY <1>0, <1>1, <1>2 DEF Inv, TypeOK
<1>4. /\ value' \in [Semaforos -> Nat] /\ pc[c] # "P" /\ value' = value
      /\ luego' \in [Hilos -> Puntos] /\ espera' \in [Hilos -> Semaforos \union {Nulo}]
      /\ \A h \in Hilos : h # c => espera'[h] = espera[h]
  BY <1>1 DEF Inv, TypeOK
<1> QED
  BY <1>1, <1>2, <1>3, <1>4, VolverLema

\* Coming out of the switch of a Yield keeps the invariant.
LEMMA PasoFinYield ==
    ASSUME Inv, machineStatus = "SystemMode", level = "IntOff", UNCHANGED pending, FinYield
    PROVE  Inv'
<1> DEFINE c == currentThread
<1>0. /\ c \in Hilos /\ threadToBeDestroyed # c
      /\ threadToBeDestroyed # Nulo => pc[threadToBeDestroyed] = "Finish"
  BY ReanudarLema
<1>1. /\ pc[c] = "Yield" /\ level' = "IntOn" /\ threadToBeDestroyed' = Nulo
      /\ pc' = Borrado([pc EXCEPT ![c] = luego[c]])
      /\ luego' = [luego EXCEPT ![c] = Inicio]
      /\ UNCHANGED <<currentThread, readyList, status, machineStatus, queue, value, espera>>
  BY DEF FinYield, Volver, semaforos
<1>2. luego[c] \in Puntos
  BY <1>0 DEF Inv, TypeOK
<1>3. \A h \in Hilos : pc'[h] = IF h = threadToBeDestroyed THEN "borrado"
                                ELSE IF h = c THEN luego[c] ELSE pc[h]
  BY <1>0, <1>1 DEF Borrado, Inv, TypeOK
<1>4. pc' \in [Hilos -> Puntos \union Internos]
  BY <1>0, <1>1, <1>2 DEF Borrado, Inv, TypeOK
<1>5. \A h \in Hilos : h # c => pc'[h] = pc[h] \/ (pc[h] = "Finish" /\ pc'[h] = "borrado")
  BY <1>0, <1>3, HilosAssumption
<1>6. /\ value' \in [Semaforos -> Nat] /\ pc[c] # "P" /\ value' = value
      /\ luego' \in [Hilos -> Puntos] /\ espera' \in [Hilos -> Semaforos \union {Nulo}]
      /\ \A h \in Hilos : h # c => espera'[h] = espera[h]
  BY <1>1, HilosAssumption DEF Inv, TypeOK
<1>7. pc'[c] \in Puntos
  BY <1>0, <1>2, <1>3
<1> QED
  BY <1>1, <1>4, <1>5, <1>6, <1>7, VolverLema

\* Coming out of the switch of a P keeps the invariant.
LEMMA PasoFinP ==
    ASSUME Inv, machineStatus = "SystemMode", level = "IntOff", UNCHANGED pending, FinP
    PROVE  Inv'
<1> DEFINE c == currentThread
           s == espera[currentThread]
<1>0. /\ c \in Hilos /\ threadToBeDestroyed # c
      /\ threadToBeDestroyed # Nulo => pc[threadToBeDestroyed] = "Finish"
  BY ReanudarLema
<1>1. /\ pc[c] = "P" /\ threadToBeDestroyed' = Nulo
      /\ s \in Semaforos /\ luego[c] \in Puntos
  BY <1>0 DEF FinP, Inv, TypeOK, Control, ControlHilo
<1> HIDE DEF s
<1>2. CASE /\ value[s] # 0 /\ Tomar(s)
           /\ pc' = Borrado([pc EXCEPT ![c] = luego[c]])
           /\ luego' = [luego EXCEPT ![c] = Inicio] /\ espera' = [espera EXCEPT ![c] = Nulo]
           /\ level' = "IntOn"
           /\ UNCHANGED <<currentThread, readyList, status, machineStatus>>
  <2>1. \A h \in Hilos : pc'[h] = IF h = threadToBeDestroyed THEN "borrado"
                                  ELSE IF h = c THEN luego[c] ELSE pc[h]
    BY <1>0, <1>2 DEF Borrado, Inv, TypeOK
  <2>2. pc' \in [Hilos -> Puntos \union Internos]
    BY <1>0, <1>1, <1>2 DEF Borrado, Inv, TypeOK
  <2>3. \A h \in Hilos : h # c => pc'[h] = pc[h] \/ (pc[h] = "Finish" /\ pc'[h] = "borrado")
    BY <1>0, <2>1, HilosAssumption
  <2>4. pc'[c] \in Puntos
    BY <1>0, <1>1, <2>1
  <2>5. queue' = queue /\ value' = [value EXCEPT ![s] = @ - 1] /\ value[s] \in Nat \ {0}
    BY <1>1, <1>2 DEF Tomar, Inv, TypeOK
  <2>6. /\ value' \in [Semaforos -> Nat]
        /\ \A t \in Semaforos :
              value'[t] = IF pc[c] = "P" /\ espera[c] = t THEN value[t] - 1 ELSE value[t]
    BY <1>1, <2>5 DEF Inv, TypeOK, s
  <2>7. /\ luego' \in [Hilos -> Puntos] /\ espera' \in [Hilos -> Semaforos \union {Nulo}]
        /\ \A h \in Hilos : h # c => espera'[h] = espera[h]
    BY <1>2, HilosAssumption DEF Inv, TypeOK
  <2> QED
    BY <1>1, <1>2, <2>2, <2>3, <2>4, <2>5, <2>6, <2>7, VolverLema
<1>3. CASE /\ value[s] = 0 /\ Encolar(s) /\ Sleep
           /\ pc' = Borrado(pc) /\ UNCHANGED <<luego, espera>>
  <2>1. \A h \in Hilos : pc'[h] = IF h = threadToBeDestroyed THEN "borrado" ELSE pc[h]
    BY <1>3 DEF Borrado
  <2>2. pc' \in [Hilos -> Puntos \union Internos]
    BY <1>3 DEF Borrado, Inv, TypeOK
  <2>3. \A h \in Hilos : h # c => /\ (pc'[h] = "P" <=> pc[h] = "P") /\ espera'[h] = espera[h]
                                  /\ pc'[h] = pc[h] \/ (pc[h] = "Finish" /\ pc'[h] = "borrado")
    BY <1>0, <1>1, <1>3, <2>1, HilosAssumption
  <2>4. pc'[c] = "P" /\ espera'[c] = s /\ (pc[c] = "P" => espera[c] = s)
    BY <1>0, <1>1, <1>3, <2>1 DEF s
  <2>5. /\ queue' \in [Semaforos -> Seq(Hilos)]
        /\ ColaInv' /\ SinDespertarPerdido'
    BY <1>1, <1>3, <2>3, <2>4, EncolarLema
  <2>6. \A h \in Hilos : h # c =>
           \/ pc'[h] = pc[h]
           \/ pc[h] = "Finish" /\ pc'[h] = "borrado" /\ h # threadToBeDestroyed'
    BY <1>1, <2>3, HilosAssumption
  <2>7. /\ value' = value /\ threadToBeDestroyed' \in Hilos \union {Nulo}
        /\ luego' \in [Hilos -> Puntos] /\ espera' \in [Hilos -> Semaforos \union {Nulo}]
    BY <1>1, <1>3 DEF Encolar, Inv, TypeOK
  <2> QED
    BY <1>1, <1>3, <2>2, <2>3, <2>4, <2>5, <2>6, <2>7, DormirLema
<1> QED
  BY <1>2, <1>3 DEF FinP, Volver, s

\* Leaving the idle loop, or halting in it, keeps the invariant.
LEMMA PasoDejarOcio ==
    ASSUME Inv, DejarOcio
    PROVE  Inv'
<1>1. /\ machineStatus = "IdleMode" /\ readyList # <<>> /\ Run(readyList, status)
      /\ UNCHANGED <<threadToBeDestroyed, pending, queue, value, pc, luego, espera>>
  BY DEF DejarOcio, semaforos
<1>2. /\ readyList \in Seq(Hilos) /\ IsInjective(readyList) /\ status \in [Hilos -> Estados]
      /\ \A h \in Hilos : h \in Range(readyList) <=> status[h] = "READY"
      /\ \A h \in Hilos : status[h] # "RUNNING"
  BY <1>1 DEF Inv, TypeOK, Estados, Sitios, ListoInv, CorreInv
<1>3. /\ currentThread' \in Hilos /\ status[currentThread'] = "READY"
      /\ readyList' \in Seq(Hilos) /\ status' \in [Hilos -> Estados]
      /\ machineStatus' = "SystemMode" /\ level' = "IntOff"
      /\ \A h \in Hilos : status'[h] = IF h = currentThread' THEN "RUNNING" ELSE status[h]
      /\ ListoInv' /\ CorreInv'
  BY <1>1, <1>2, RunLema
<1>4. TypeOK'
  BY <1>1, <1>3 DEF Inv, TypeOK, Estados
<1>5. \A h \in Hilos : status'[h] = status[h] \/ (status[h] = "READY" /\ status'[h] = "RUNNING")
  BY <1>3
<1>6. ASSUME NEW h \in Hilos
      PROVE  ControlHilo(h)' /\ (pc'[h] \in {"Finish", "borrado"} => status'[h] = "BLOCKED")
  BY <1>1, <1>5, OtroHilo
<1>7. pc'[currentThread'] \in EnNucleo
  <2>1. pc[currentThread'] \in EnNucleo
    BY <1>3 DEF Inv, Control, ControlHilo
  <2> QED
    BY <1>1, <2>1
<1>8. Control' /\ MuertoNoVuelve'
  BY <1>1, <1>3, <1>6, <1>7 DEF Inv, Control, MuertoNoVuelve
<1>9. \A h \in Hilos, s \in Semaforos : /\ EnCola(h, s)' <=> EnCola(h, s)
                                        /\ h \in Despertados(s)' <=> h \in Despertados(s)
  BY <1>1, <1>5 DEF EnCola, Despertados
<1>10. ColaInv' /\ SinDespertarPerdido'
  <2>1. queue' = queue /\ \A s \in Semaforos : value[s]' <= value[s]
    BY <1>1 DEF Inv, TypeOK
  <2> QED
    BY <1>4, <1>9, <2>1, MismasColas
<1> QED
  BY <1>3, <1>4, <1>8, <1>10 DEF Inv, Sitios

\* Halting and stuttering move nothing the invariant speaks of.
LEMMA PasoHalt ==
    ASSUME Inv, Halt
    PROVE  Inv'
<1>1. /\ machineStatus = "IdleMode" /\ machineStatus' = "Halted"
      /\ UNCHANGED <<currentThread, readyList, status, level, threadToBeDestroyed, pending,
                     queue, value, pc, luego, espera>>
  BY DEF Halt, semaforos
<1>2. TypeOK'
  BY <1>1 DEF Inv, TypeOK
<1>3. Sitios'
  BY <1>1 DEF Inv, Sitios, ListoInv, CorreInv, ColaInv, EnCola
<1>4. Control'
  BY <1>1 DEF Inv, Control, ControlHilo
<1>5. MuertoNoVuelve' /\ SinDespertarPerdido'
  BY <1>1 DEF Inv, MuertoNoVuelve, SinDespertarPerdido, Despertados
<1> QED
  BY <1>2, <1>3, <1>4, <1>5 DEF Inv

\* A step that changes nothing keeps the invariant.
LEMMA PasoNada ==
    ASSUME Inv, UNCHANGED vars
    PROVE  Inv'
<1>1. UNCHANGED <<currentThread, readyList, status, level, machineStatus, threadToBeDestroyed,
                  pending, queue, value, pc, luego, espera>>
  BY DEF vars, planificador, semaforos
<1>2. TypeOK'
  BY <1>1 DEF Inv, TypeOK
<1>3. Sitios'
  BY <1>1 DEF Inv, Sitios, ListoInv, CorreInv, ColaInv, EnCola
<1>4. Control'
  BY <1>1 DEF Inv, Control, ControlHilo
<1>5. MuertoNoVuelve' /\ SinDespertarPerdido'
  BY <1>1 DEF Inv, MuertoNoVuelve, SinDespertarPerdido, Despertados
<1> QED
  BY <1>2, <1>3, <1>4, <1>5 DEF Inv

\* The invariant is inductive.
LEMMA Inductivo == Inv /\ [Next]_vars => Inv'
<1> SUFFICES ASSUME Inv, [Next]_vars PROVE Inv'
  OBVIOUS
<1>1. CASE \E p \in Puntos : Llamada(p)
  <2>1. PICK p \in Puntos : Llamada(p)
    BY <1>1
  <2>0. CASE Avanzar(p)
    BY <2>0, PasoAvanzar
  <2>2. CASE Yield(p)
    BY <2>2, PasoYield
  <2>3. CASE \E h \in Hilos : Fork(h, p)
    BY <2>3, PasoFork
  <2>4. CASE \E s \in Semaforos : P(s, p)
    BY <2>4, PasoP
  <2>5. CASE \E s \in Semaforos \ Dispositivos : V(s, p)
    BY <2>5, PasoV
  <2>6. CASE \E d \in Dispositivos : Schedule(d, p)
    BY <2>6, PasoSchedule
  <2> QED
    BY <2>0, <2>1, <2>2, <2>3, <2>4, <2>5, <2>6 DEF Llamada
<1>2. CASE Finish
  BY <1>2, PasoFinish
<1>3. CASE Reanudar
  BY <1>3, PasoThreadRoot, PasoFinYield, PasoFinP DEF Reanudar
<1>4. CASE DejarOcio
  BY <1>4, PasoDejarOcio
<1>5. CASE Halt
  BY <1>5, PasoHalt
<1>6. CASE \E d \in Dispositivos : CheckIfDue(d)
  BY <1>6, PasoCheckIfDue
<1>7. CASE UNCHANGED vars
  BY <1>7, PasoNada
<1> QED
  BY <1>1, <1>2, <1>3, <1>4, <1>5, <1>6, <1>7 DEF Next

\* The invariant holds in every reachable state.
LEMMA InvSiempre == Spec => []Inv
BY Inicial, Inductivo, PTL DEF Spec

-------------------------------------------------------------------------------
(* What follows                                                            *)

\* The variables keep their types: in particular "value, always >= 0" (synch.h).
THEOREM TypeOKHilos == Spec => []TypeOK
BY InvSiempre, PTL DEF Inv

\* Every thread is in the one place its status names: running, once in the ready
\* list, once in the queue of one semaphore, or nowhere (ReadyToRun, Run, Sleep,
\* Yield, P, V).
THEOREM CadaHiloEnUnSitioSiempre == Spec => []CadaHiloEnUnSitio
<1>1. Inv => CadaHiloEnUnSitio
  BY SitiosEs DEF Inv
<1> QED
  BY <1>1, InvSiempre, PTL

\* A finished thread never runs or queues again, and its Thread is deleted at
\* most once (Finish, and the end of Scheduler::Run).
THEOREM MuertoNoVuelveSiempre == Spec => []MuertoNoVuelve
BY InvSiempre, PTL DEF Inv

\* P and V lose no wake-up, however many threads, semaphores and interrupts.
THEOREM SinDespertarPerdidoSiempre == Spec => []SinDespertarPerdido
BY InvSiempre, PTL DEF Inv

\* An idle processor, or one that halted, leaves no thread queued on a semaphore
\* that has a unit for it (Interrupt::Idle).
THEOREM ParadaJustificadaSiempre == Spec => []ParadaJustificada
<1>1. ASSUME Inv, machineStatus # "SystemMode", readyList = <<>>,
             NEW s \in Semaforos, queue[s] # <<>>
      PROVE  value[s] = 0
  <2>1. ASSUME NEW h \in Hilos PROVE status[h] \in {"JUST_CREATED", "BLOCKED"}
    <3>1. Range(<<>>) = {}
      BY DEF Range
    <3>2. status[h] # "READY"
      BY <1>1, <3>1 DEF Inv, Sitios, ListoInv
    <3>3. status[h] # "RUNNING"
      BY <1>1 DEF Inv, Sitios, CorreInv
    <3>4. status[h] \in {"JUST_CREATED", "RUNNING", "READY", "BLOCKED"}
      BY <1>1 DEF Inv, TypeOK
    <3> QED
      BY <3>2, <3>3, <3>4
  <2>2. ASSUME NEW h \in Hilos, pc[h] = "P" PROVE status[h] # "JUST_CREATED"
    <3>1. ControlHilo(h)
      BY <1>1 DEF Inv, Control
    <3> QED
      BY <3>1, <2>2 DEF ControlHilo
  <2>3. Despertados(s) = {}
    BY <2>1, <2>2 DEF Despertados
  <2>4. value[s] <= 0 /\ value[s] \in Nat
    BY <1>1, <2>3, FS_EmptySet DEF Inv, TypeOK, SinDespertarPerdido
  <2> QED
    BY <2>4
<1>2. Inv => ParadaJustificada
  BY <1>1 DEF ParadaJustificada
<1> QED
  BY <1>2, InvSiempre, PTL

-------------------------------------------------------------------------------
(* From here on, NachosCerrojos                                            *)

\* A set of four points, expanded wherever points are compared.
USE DEF EnDisco

-------------------------------------------------------------------------------
(* The steps are steps of NachosHilos                                      *)

\* The points and semaphores of the programs, as those of NachosHilos.
LEMMA Internas ==
    /\ Puntos = PuntosCerrojos /\ Inicio = "programa" /\ Inicio \in Puntos
    /\ Dispositivos = {Disco} /\ Semaforos = {Cerrojo, Contador, Barrera, Disco}
    /\ Mutexes \subseteq Semaforos \ Dispositivos /\ Cerrojo \in Semaforos \ Dispositivos
BY CerrojosAssumption DEF Mutexes, PuntosCerrojos

\* A call of the kernel from a point of a program is a step of NachosHilos.
LEMMA LlamadaEsPaso ==
    ASSUME NEW p \in Puntos,
           \/ Avanzar(p) \/ Yield(p) \/ \E h \in Hilos : Fork(h, p)
           \/ \E s \in Semaforos : P(s, p)
           \/ \E s \in Semaforos \ Dispositivos : V(s, p)
           \/ \E d \in Dispositivos : Schedule(d, p)
    PROVE  Next
BY DEF Llamada, Next

\* The steps of a lock are steps of NachosHilos.
LEMMA LockEsPaso == TypeOKC /\ (Acquire \/ Release) => Next \/ UNCHANGED vars
<1>1. {"Acquire.P", "peticion", "Acquire.titular", "Release.V", "Release.titular",
       "programa"} \subseteq Puntos
  BY Internas DEF PuntosCerrojos
<1>2. ASSUME Acquire PROVE Next
  <2>1. \/ Avanzar("Acquire.P") \/ Avanzar("peticion") \/ P(Cerrojo, "Acquire.titular")
    BY <1>2 DEF Acquire, De
  <2> QED
    BY <1>1, <2>1, Internas, LlamadaEsPaso
<1>3. ASSUME Release PROVE Next
  <2>1. \/ Avanzar("Release.V") \/ Avanzar("programa") \/ V(Cerrojo, "Release.titular")
    BY <1>3 DEF Release, De
  <2> QED
    BY <1>1, <2>1, Internas, LlamadaEsPaso
<1> QED
  BY <1>2, <1>3

\* The steps of a disk access are steps of NachosHilos.
LEMMA DiscoEsPaso == TypeOKC /\ (ReadSector \/ HandleInterrupt) => Next \/ UNCHANGED vars
<1>1. {"Acquire", "activar", "programar", "esperar", "Release"} \subseteq Puntos
  BY Internas DEF PuntosCerrojos
<1>2. ASSUME TypeOKC, ReadSector PROVE Next \/ UNCHANGED vars
  <2>1. \/ \E p \in {"Acquire", "activar", "programar"} : Avanzar(p)
        \/ Acquire \/ Release \/ P(Disco, "Release")
        \/ Schedule(Disco, "esperar") \/ UNCHANGED vars
    BY <1>2 DEF ReadSector, Peticion, De
  <2> QED
    BY <1>1, <1>2, <2>1, Internas, LlamadaEsPaso, LockEsPaso
<1>3. ASSUME HandleInterrupt PROVE Next
  BY <1>3, Internas DEF HandleInterrupt, Next
<1> QED
  BY <1>2, <1>3

\* The steps of a barrier are steps of NachosHilos.
LEMMA BarreraEsPaso == TypeOKC /\ currentThread \in Hilos /\ BarrierWait => Next
<1> SUFFICES ASSUME TypeOKC, currentThread \in Hilos, BarrierWait PROVE Next
  OBVIOUS
<1>1. {"Lock", "Lock.P", "contar", "descontar", "leer", "Unlock", "Unlock.V",
       "Unlock.titular", "mirar", "pasada"} \subseteq Puntos
  BY Internas DEF PuntosCerrojos
<1>2. mutex[currentThread] \in Semaforos \ Dispositivos
  BY Internas DEF TypeOKC
<1>3. CASE MutexLock
  BY <1>1, <1>2, <1>3, LlamadaEsPaso DEF MutexLock, De
<1>4. CASE MutexUnlock
  <2>1. \/ Avanzar("Unlock.V") \/ Avanzar("Unlock.titular") \/ Avanzar("Lock")
        \/ Avanzar("mirar") \/ V(mutex[currentThread], "Unlock.titular")
    BY <1>4 DEF MutexUnlock, De
  <2> QED
    BY <1>1, <1>2, <2>1, LlamadaEsPaso
<1>5. CASE ~MutexLock /\ ~MutexUnlock
  <2>1. \E p \in {"Lock", "Lock.P", "descontar", "Unlock", "pasada"} : Avanzar(p)
    BY <1>5 DEF BarrierWait, Lock, LeerCounter, Descontar, Mirar, De
  <2> QED
    BY <1>1, <2>1, LlamadaEsPaso
<1> QED
  BY <1>3, <1>4, <1>5

\* Every step of the programs is a step of NachosHilos or changes none of its
\* variables.
LEMMA PasoEsPaso == TypeOKC /\ currentThread \in Hilos /\ [NextC]_varsC => [Next]_vars
<1> SUFFICES ASSUME TypeOKC, currentThread \in Hilos, [NextC]_varsC PROVE Next \/ UNCHANGED vars
  OBVIOUS
<1>1. CASE ReadSector \/ HandleInterrupt
  BY <1>1, DiscoEsPaso
<1>2. CASE BarrierWait
  BY <1>2, BarreraEsPaso
<1>3. CASE Turno \/ Arrancar
  <2>1. \/ \E p \in Puntos : Yield(p)
        \/ \E h \in Hilos : Fork(h, Inicio)
    BY <1>3, Internas DEF Turno, Arrancar, De
  <2> QED
    BY <2>1, Internas, LlamadaEsPaso
<1>4. CASE De("pasada", Finish) \/ De("programa", Finish) \/ Reanudar \/ DejarOcio \/ Halt
  BY <1>4 DEF De, Next
<1>5. CASE UNCHANGED varsC
  BY <1>5 DEF varsC
<1> QED
  BY <1>1, <1>2, <1>3, <1>4, <1>5 DEF NextC

-------------------------------------------------------------------------------
(* The invariant                                                           *)

Objetos == Mutexes \union {Cerrojo}

\* A thread waits for what the point it was at asked for.
EsperaC(h) ==
    pc[h] = "P" =>
        \/ espera[h] = Cerrojo /\ luego[h] = "Acquire.titular"
        \/ espera[h] = Disco /\ luego[h] = "Release"
        \/ espera[h] = Contador /\ mutex[h] = Contador /\ luego[h] = "contar"
        \/ espera[h] = Barrera /\ mutex[h] = Barrera /\ luego[h] = "leer"

\* Whoever the lock has noted is between noting itself and clearing the note.
TitularC(h) ==
    titular[Cerrojo] = h =>
        Punto(h) \in EnDisco \union {"Release", "Release.V", "Release.titular"}

InvC == Inv /\ TypeOKC /\ UnSoloDueno /\ \A h \in Hilos : EsperaC(h) /\ TitularC(h)

\* The invariant holds initially.
LEMMA InicialC == InitC => InvC
<1> SUFFICES ASSUME InitC PROVE InvC
  OBVIOUS
<1>1. Inv
  BY Inicial DEF InitC
<1>2. TypeOKC
  <2>1. titular \in [Mutexes \union {Cerrojo} -> Hilos \union {Nulo} \union TitularInicial]
    <3>1. PICK t \in TitularInicial :
             titular = [s \in Mutexes \union {Cerrojo} |-> IF s = Cerrojo THEN t ELSE Nulo]
      BY DEF InitC
    <3> QED
      BY <3>1
  <2>2. mutex \in [Hilos -> Mutexes]
    BY DEF InitC, Mutexes
  <2>3. counter \in Int /\ leido \in [Hilos -> Int] /\ active \in BOOLEAN /\ abortado \in BOOLEAN
    <3>1. Cuantos \in Nat
      BY CerrojosAssumption
    <3>2. leido = [h \in Hilos |-> 0] /\ counter = Cuantos
      BY DEF InitC
    <3>3. active = FALSE /\ abortado = FALSE
      BY DEF InitC
    <3>4. leido \in [Hilos -> Int]
      BY <3>2
    <3>5. counter \in Int
      BY <3>1, <3>2
    <3>6. active \in BOOLEAN /\ abortado \in BOOLEAN
      BY <3>3
    <3> QED
      BY <3>4, <3>5, <3>6
  <2> QED
    BY <2>1, <2>2, <2>3 DEF TypeOKC
<1>3. ASSUME NEW h \in Hilos
      PROVE  /\ EsperaC(h) /\ TitularC(h)
             /\ \A s \in Objetos : ~Dueno(h, s)
  <2>1. pc[h] \in {"programa", "nuevo"} /\ titular[Cerrojo] # h
    <3>1. pc[h] \in {"programa", "nuevo"}
      BY CerrojosAssumption DEF InitC, Init
    <3>2. titular[Cerrojo] \in TitularInicial
      BY CerrojosAssumption DEF InitC
    <3> QED
      BY <3>1, <3>2, CerrojosAssumption, HilosAssumption
  <2> QED
    BY <2>1 DEF EsperaC, TitularC, Dueno, Punto
<1>4. \A s \in Objetos : value[s] = 1
  BY CerrojosAssumption DEF InitC, Init, Objetos, Mutexes
<1> QED
  BY <1>1, <1>2, <1>3, <1>4 DEF InvC, UnSoloDueno, Objetos

\* What a step does to a thread that is not running.
Otro(h) ==
    /\ \/ pc'[h] = pc[h]
       \/ pc[h] = "Finish" /\ pc'[h] = "borrado"
       \/ pc[h] = "nuevo" /\ pc'[h] = "ThreadRoot"
    /\ luego'[h] = luego[h] /\ espera'[h] = espera[h] /\ mutex'[h] = mutex[h]
    /\ titular'[Cerrojo] = h => titular[Cerrojo] = h

\* A step of the current thread leaves the others at their points.
LEMMA OtroLema ==
    ASSUME NEW h \in Hilos, EsperaC(h), TitularC(h), Otro(h)
    PROVE  /\ EsperaC(h)' /\ TitularC(h)'
           /\ \A s \in Objetos : Dueno(h, s)' => Dueno(h, s)
<1>1. Punto(h)' = Punto(h) \/ (Punto(h)' \in {"borrado", "ThreadRoot"}
                               /\ Punto(h) \in {"nuevo", "Finish"})
  BY DEF Otro, Punto
<1>2. EsperaC(h)' /\ TitularC(h)'
  BY <1>1 DEF Otro, EsperaC, TitularC
<1>3. ASSUME NEW s \in Objetos, Dueno(h, s)' PROVE Dueno(h, s)
  BY <1>1, <1>3 DEF Otro, Dueno
<1> QED
  BY <1>2, <1>3

\* What the running thread may do to a lock or mutex: leave it alone, take its
\* unit, or give the unit back if it holds it.
Deja(c, s)   == value'[s] = value[s] /\ (Dueno(c, s)' => Dueno(c, s))
Toma(s)      == value[s] # 0 /\ value'[s] = value[s] - 1
Suelta(c, s) == Dueno(c, s) /\ ~Dueno(c, s)' /\ value'[s] = value[s] + 1

\* Where the current thread is before and after a step of its program.
LEMMA PasoC ==
    ASSUME InvC, Inv', TypeOKC', NEW c \in Hilos,
           \A h \in Hilos : h # c => Otro(h), EsperaC(c)', TitularC(c)',
           \A s \in Objetos : Deja(c, s) \/ Toma(s) \/ Suelta(c, s)
    PROVE  InvC'
<1>1. ASSUME NEW h \in Hilos PROVE EsperaC(h)' /\ TitularC(h)'
  BY OtroLema DEF InvC
<1>2. ASSUME NEW h \in Hilos, h # c, NEW s \in Objetos, Dueno(h, s)' PROVE Dueno(h, s)
  BY <1>2, OtroLema DEF InvC
<1>3. ASSUME NEW s \in Objetos
      PROVE  /\ value'[s] <= 1
             /\ \A g, h \in Hilos : Dueno(g, s)' /\ Dueno(h, s)' => g = h
             /\ (\E h \in Hilos : Dueno(h, s)') => value'[s] = 0
  <2>1. /\ value[s] \in Nat /\ value[s] <= 1
        /\ \A g, h \in Hilos : Dueno(g, s) /\ Dueno(h, s) => g = h
        /\ (\E h \in Hilos : Dueno(h, s)) => value[s] = 0
    BY Internas DEF InvC, UnSoloDueno, Inv, TypeOK, Objetos
  <2>2. CASE Deja(c, s)
    BY <1>2, <2>1, <2>2 DEF Deja
  <2>3. CASE Toma(s)
    <3>1. value[s] = 1 /\ value'[s] = 0
      BY <2>1, <2>3 DEF Toma
    <3>2. \A h \in Hilos : ~Dueno(h, s)
      BY <2>1, <3>1
    <3>3. \A h \in Hilos : Dueno(h, s)' => h = c
      BY <1>2, <3>2
    <3> QED
      BY <3>1, <3>3
  <2>4. CASE Suelta(c, s)
    <3>1. value[s] = 0 /\ value'[s] = 1
      BY <2>1, <2>4 DEF Suelta
    <3>2. \A h \in Hilos : ~Dueno(h, s)'
      BY <1>2, <2>1, <2>4 DEF Suelta
    <3> QED
      BY <3>1, <3>2
  <2> QED
    BY <2>2, <2>3, <2>4
<1> QED
  BY <1>1, <1>3 DEF InvC, UnSoloDueno, Objetos

-------------------------------------------------------------------------------
(* What each call does to the threads                                      *)

\* The calls leave every thread but the running one as it is, and the one a
\* switch deletes.
Quieto(h) ==
    /\ \/ pc'[h] = pc[h]
       \/ pc[h] = "Finish" /\ pc'[h] = "borrado"
    /\ luego'[h] = luego[h] /\ espera'[h] = espera[h]

Quietos == \A h \in Hilos : h # currentThread => Quieto(h)

\* The running thread goes on at p.
Sigue(p) ==
    /\ pc'[currentThread] = p
    /\ luego'[currentThread] = luego[currentThread]
    /\ espera'[currentThread] = espera[currentThread]

\* The parts of the type invariant of the kernel.
LEMMA Tipos ==
    ASSUME Inv
    PROVE  /\ currentThread \in Hilos /\ Nulo \notin Hilos
           /\ pc \in [Hilos -> Puntos \union Internos] /\ luego \in [Hilos -> Puntos]
           /\ espera \in [Hilos -> Semaforos \union {Nulo}] /\ value \in [Semaforos -> Nat]
BY HilosAssumption DEF Inv, TypeOK

\* What Ir does to the program points.
LEMMA IrEs ==
    ASSUME Inv, NEW p, Ir(p), UNCHANGED <<luego, espera>>
    PROVE  Quietos /\ Sigue(p)
BY Tipos DEF Ir, Quietos, Quieto, Sigue

\* What Avanzar leaves alone.
LEMMA AvanzarEs ==
    ASSUME Inv, NEW p \in Puntos, Avanzar(p) \/ \E d \in Dispositivos : Schedule(d, p)
    PROVE  Quietos /\ Sigue(p) /\ value' = value
<1>1. Ir(p) /\ UNCHANGED <<luego, espera, value>>
  BY DEF Avanzar, Schedule, semaforos
<1> QED
  BY <1>1, IrEs

\* What P does to the semaphores and the threads.
LEMMA PEs ==
    ASSUME Inv, NEW p \in Puntos, NEW s \in Semaforos, P(s, p)
    PROVE  /\ Quietos
           /\ \/ Sigue(p) /\ Toma(s) /\ \A t \in Semaforos : t # s => value'[t] = value[t]
              \/ /\ pc'[currentThread] = "P" /\ luego'[currentThread] = p
                 /\ espera'[currentThread] = s /\ value' = value
<1>1. CASE value[s] # 0 /\ Tomar(s) /\ Ir(p) /\ UNCHANGED <<planificador, luego, espera>>
  <2>1. Quietos /\ Sigue(p)
    BY <1>1, IrEs
  <2>2. Toma(s) /\ \A t \in Semaforos : t # s => value'[t] = value[t]
    BY <1>1, Tipos DEF Tomar, Toma
  <2> QED
    BY <2>1, <2>2
<1>2. CASE /\ value[s] = 0 /\ Encolar(s) /\ Ir("P")
           /\ luego' = [luego EXCEPT ![currentThread] = p]
           /\ espera' = [espera EXCEPT ![currentThread] = s]
  BY <1>2, Tipos DEF Ir, Encolar, Quietos, Quieto
<1> QED
  BY <1>1, <1>2 DEF P

\* What V does to the semaphores and the threads.
LEMMA VEs ==
    ASSUME Inv, NEW p \in Puntos, NEW s \in Semaforos, V(s, p)
    PROVE  /\ Quietos /\ Sigue(p)
           /\ value'[s] = value[s] + 1
           /\ \A t \in Semaforos : t # s => value'[t] = value[t]
<1>1. Ir(p) /\ UNCHANGED <<luego, espera>> /\ value' = [value EXCEPT ![s] = @ + 1]
  BY DEF V, Despertar
<1> QED
  BY <1>1, IrEs, Tipos

\* What Yield leaves alone.
LEMMA YieldEs ==
    ASSUME Inv, NEW p \in Puntos, Yield(p)
    PROVE  /\ Quietos /\ value' = value
           /\ \/ Sigue(p)
              \/ /\ pc'[currentThread] = "Yield" /\ luego'[currentThread] = p
                 /\ espera'[currentThread] = espera[currentThread]
<1>1. CASE Ir(p) /\ UNCHANGED <<planificador, luego>>
  BY <1>1, IrEs DEF Yield, semaforos
<1>2. CASE luego' = [luego EXCEPT ![currentThread] = p] /\ Ir("Yield")
  <2>1. espera' = espera /\ value' = value
    BY DEF Yield, semaforos
  <2> QED
    BY <1>2, <2>1, Tipos DEF Ir, Quietos, Quieto
<1> QED
  BY <1>1, <1>2 DEF Yield

\* What coming out of a switch does to the semaphores and the threads.
LEMMA ReanudarEs ==
    ASSUME Inv, Reanudar
    PROVE  /\ Quietos
           /\ \/ /\ value' = value
                 /\ \/ pc[currentThread] = "ThreadRoot" /\ Sigue(Inicio)
                    \/ /\ pc[currentThread] = "Yield"
                       /\ pc'[currentThread] = luego[currentThread]
                    \/ pc[currentThread] = "P" /\ Sigue("P")
              \/ /\ pc[currentThread] = "P" /\ espera[currentThread] \in Semaforos
                 /\ pc'[currentThread] = luego[currentThread]
                 /\ Toma(espera[currentThread])
                 /\ \A t \in Semaforos : t # espera[currentThread] => value'[t] = value[t]
<1> DEFINE c == currentThread
<1>0. /\ c \in Hilos /\ threadToBeDestroyed # c
      /\ threadToBeDestroyed # Nulo => pc[threadToBeDestroyed] = "Finish"
  BY ReanudarLema DEF Reanudar
<1>1. /\ pc \in [Hilos -> Puntos \union Internos] /\ luego \in [Hilos -> Puntos]
      /\ espera \in [Hilos -> Semaforos \union {Nulo}] /\ value \in [Semaforos -> Nat]
      /\ pc[c] = "P" => espera[c] \in Semaforos
  BY <1>0 DEF Inv, TypeOK, Control, ControlHilo
<1>2. CASE ThreadRoot
  BY <1>0, <1>1, <1>2 DEF ThreadRoot, Ir, Quietos, Quieto, Sigue, semaforos
<1>3. CASE FinYield
  BY <1>0, <1>1, <1>3, HilosAssumption
     DEF FinYield, Volver, Borrado, Quietos, Quieto, semaforos
<1>4. CASE FinP
  <2>1. CASE value[espera[c]] # 0 /\ Tomar(espera[c]) /\ Volver
             /\ espera' = [espera EXCEPT ![c] = Nulo]
    BY <1>0, <1>1, <1>4, <2>1, HilosAssumption
       DEF FinP, Tomar, Volver, Borrado, Quietos, Quieto, Toma
  <2>2. CASE Encolar(espera[c]) /\ pc' = Borrado(pc) /\ UNCHANGED <<luego, espera>>
    BY <1>0, <1>1, <1>4, <2>2, HilosAssumption
       DEF FinP, Encolar, Borrado, Quietos, Quieto, Sigue
  <2> QED
    BY <1>4, <2>1, <2>2 DEF FinP
<1> QED
  BY <1>2, <1>3, <1>4 DEF Reanudar

-------------------------------------------------------------------------------
(* What each step does to the locks                                        *)

\* Every step keeps the types of the locks.
LEMMA TiposC ==
    ASSUME TypeOKC, currentThread \in Hilos, NextC
    PROVE  TypeOKC'
<1>1. CASE UNCHANGED objetos
  BY <1>1 DEF TypeOKC, objetos
<1>2. ASSUME NEW s \in Mutexes \union {Cerrojo}, NEW h \in Hilos \union {Nulo}, SerTitular(s, h)
      PROVE  titular' \in [Mutexes \union {Cerrojo} -> Hilos \union {Nulo} \union TitularInicial]
  BY <1>2 DEF TypeOKC, SerTitular
<1>3. CASE Acquire \/ Release
  <2>1. \/ UNCHANGED objetos
        \/ /\ SerTitular(Cerrojo, currentThread) \/ SerTitular(Cerrojo, Nulo)
           /\ UNCHANGED <<mutex, counter, leido, active, abortado>>
    BY <1>3 DEF Acquire, Release, De
  <2> QED
    BY <1>1, <1>2, <2>1 DEF TypeOKC
<1>4. CASE Peticion \/ HandleInterrupt
  <2>1. /\ UNCHANGED <<titular, mutex, counter, leido>>
        /\ \/ UNCHANGED active
           \/ active' = TRUE
           \/ active' = FALSE
        /\ \/ UNCHANGED abortado
           \/ abortado' = TRUE
    BY <1>4 DEF Peticion, HandleInterrupt, De, objetos
  <2> QED
    BY <2>1 DEF TypeOKC
<1>5. CASE MutexUnlock \/ MutexLock
  <2>1. \/ UNCHANGED objetos
        \/ /\ SerTitular(mutex[currentThread], Nulo)
           /\ UNCHANGED <<mutex, counter, leido, active, abortado>>
    BY <1>5 DEF MutexUnlock, MutexLock, De
  <2>2. mutex[currentThread] \in Mutexes
    BY DEF TypeOKC
  <2> QED
    BY <1>1, <1>2, <2>1, <2>2 DEF TypeOKC
<1>6. ASSUME NEW p, NEW s \in Mutexes, Lock(p, s) PROVE TypeOKC'
  <2>1. mutex' \in [Hilos -> Mutexes]
    BY <1>6 DEF Lock, TypeOKC
  <2> QED
    BY <1>2, <1>6, <2>1 DEF Lock, TypeOKC
<1>7. ASSUME NEW p, NEW q, LeerCounter(p, q) PROVE TypeOKC'
  <2>1. leido' \in [Hilos -> Int]
    BY <1>7 DEF LeerCounter, TypeOKC
  <2> QED
    BY <1>7, <2>1 DEF LeerCounter, TypeOKC
<1>8. CASE Descontar
  <2>1. leido' \in [Hilos -> Int] /\ counter' \in Int
    BY <1>8 DEF Descontar, TypeOKC
  <2> QED
    BY <1>8, <2>1 DEF Descontar, TypeOKC
<1>9. CASE BarrierWait
  <2>1. Contador \in Mutexes /\ Barrera \in Mutexes
    BY DEF Mutexes
  <2>2. CASE Mirar
    BY <1>1, <2>2 DEF Mirar, De
  <2> QED
    BY <1>5, <1>6, <1>7, <1>8, <1>9, <2>1, <2>2 DEF BarrierWait
<1>10. CASE ReadSector
  BY <1>1, <1>3, <1>4, <1>10 DEF ReadSector, De
<1>11. CASE \/ Turno \/ Arrancar \/ De("pasada", Finish)
            \/ De("programa", Finish)
            \/ (Reanudar \/ DejarOcio \/ Halt) /\ UNCHANGED objetos
  BY <1>1, <1>11 DEF Turno, Arrancar, De
<1> QED
  BY <1>4, <1>9, <1>10, <1>11 DEF NextC

\* A step of the running thread c, whatever it does at its point.
LEMMA PasoDe ==
    ASSUME InvC, Inv', TypeOKC', NEW c \in Hilos, c = currentThread, Quietos,
           \A h \in Hilos : h # c =>
              mutex'[h] = mutex[h] /\ (titular'[Cerrojo] = h => titular[Cerrojo] = h),
           EsperaC(c)', TitularC(c)',
           \A s \in Objetos : Deja(c, s) \/ Toma(s) \/ Suelta(c, s)
    PROVE  InvC'
<1>1. \A h \in Hilos : h # c => Otro(h)
  BY DEF Quietos, Quieto, Otro
<1> QED
  BY <1>1, PasoC

\* At a point of its program a thread is nowhere else.
LEMMA PuntoLema ==
    ASSUME NEW h \in Hilos, pc[h] \in PuntosCerrojos
    PROVE  Punto(h) = pc[h]
BY DEF Punto, PuntosCerrojos

\* A step of c from point q to point p that touches neither semaphores nor notes.
LEMMA IrC ==
    ASSUME InvC, Inv', TypeOKC', NEW c \in Hilos, c = currentThread,
           NEW q \in PuntosCerrojos, pc[c] = q, NEW p \in PuntosCerrojos \union {"Finish"},
           Quietos, Sigue(p), \A s \in Objetos : value'[s] = value[s],
           UNCHANGED <<titular, mutex>>,
           p \notin {"Acquire.titular", "contar", "leer"},
           p = "Release.V" => q = "Release" /\ titular[Cerrojo] = c,
           p \in EnDisco \union {"Release"} => q \in EnDisco \union {"Acquire"},
           p \in {"descontar", "Unlock", "Unlock.V"} =>
              q \in {"contar", "descontar", "leer", "Unlock"},
           q \in {"Release.V", "Release.titular"} => titular[Cerrojo] # c,
           q = "Release" => p = "Release.V" \/ titular[Cerrojo] # c,
           q \in EnDisco => p \in EnDisco \union {"Release"}
    PROVE  InvC'
<1>1. pc'[c] = p /\ p # "P" /\ p # "Yield"
  BY DEF Sigue, PuntosCerrojos
<1>2. Punto(c) = q /\ Punto(c)' = p
  BY <1>1, PuntoLema DEF Punto
<1>3. pc[c] # "P" /\ q # "P"
  BY DEF PuntosCerrojos
<1>4. titular[Cerrojo] = c =>
         q \in EnDisco \union {"Release", "Release.V", "Release.titular"}
  <2>1. TitularC(c)
    BY DEF InvC
  <2> QED
    BY <1>2, <2>1 DEF TitularC
<1>5. EsperaC(c)' /\ TitularC(c)'
  <2>1. titular[Cerrojo] = c => p \in EnDisco \union {"Release", "Release.V"}
    BY <1>4
  <2> QED
    BY <1>1, <1>2, <2>1 DEF EsperaC, TitularC
<1>6. ASSUME NEW s \in Objetos, Dueno(c, s)' PROVE Dueno(c, s)
  <2>1. CASE s = Cerrojo /\ p = "Release.V"
    BY <1>2, <1>3, <2>1 DEF Dueno
  <2>2. CASE s = Cerrojo /\ titular[Cerrojo] = c /\ p \in EnDisco \union {"Release"}
    BY <1>2, <1>3, <1>4, <2>2 DEF Dueno
  <2>3. CASE s \in Mutexes /\ mutex[c] = s /\ p \in {"descontar", "Unlock", "Unlock.V"}
    BY <1>2, <1>3, <2>3 DEF Dueno
  <2> QED
    BY <1>2, <1>6, <2>1, <2>2, <2>3 DEF Dueno
<1> QED
  BY <1>5, <1>6, PasoDe DEF Deja

\* A step that moves no thread, takes no unit of a lock or mutex and notes nobody.
LEMMA NadaC ==
    ASSUME InvC, Inv', TypeOKC', UNCHANGED <<pc, luego, espera, titular, mutex>>,
           \A s \in Objetos : value'[s] = value[s]
    PROVE  InvC'
<1>1. PICK c \in Hilos : c = currentThread
  BY Tipos DEF InvC
<1>2. EsperaC(c) /\ TitularC(c)
  BY DEF InvC
<1>3. \A h \in Hilos : Otro(h)
  BY DEF Otro
<1>4. \A s \in Objetos : Deja(c, s)
  BY DEF Deja, Dueno, Punto
<1>5. EsperaC(c)' /\ TitularC(c)'
  BY <1>2 DEF EsperaC, TitularC, Punto
<1> QED
  BY <1>3, <1>4, <1>5, PasoC

\* P of semaphore s at point q, whether it takes a unit or has to queue.
LEMMA PC ==
    ASSUME InvC, Inv', TypeOKC', NEW c \in Hilos, c = currentThread,
           NEW q, pc[c] = q, NEW p, NEW s, P(s, p), UNCHANGED objetos,
           \/ s = Cerrojo /\ q = "Acquire.P" /\ p = "Acquire.titular"
           \/ s = Disco /\ q = "esperar" /\ p = "Release"
           \/ s = Contador /\ mutex[c] = s /\ q = "Lock.P" /\ p = "contar"
           \/ s = Barrera /\ mutex[c] = s /\ q = "Lock.P" /\ p = "leer"
    PROVE  InvC'
<1>1. /\ s \in Semaforos /\ p \in Puntos /\ q \in PuntosCerrojos
      /\ q # "P" /\ p # "P" /\ p # "Yield"
  BY Internas DEF PuntosCerrojos
<1>2. /\ Quietos
      /\ \/ Sigue(p) /\ Toma(s) /\ \A t \in Semaforos : t # s => value'[t] = value[t]
         \/ pc'[c] = "P" /\ luego'[c] = p /\ espera'[c] = s /\ value' = value
  BY <1>1, PEs DEF InvC
<1>3. Punto(c) = q /\ Punto(c)' = p /\ (pc'[c] = p \/ pc'[c] = "P")
  BY <1>1, <1>2, PuntoLema DEF Punto, Sigue
<1>4. EsperaC(c)'
  BY <1>1, <1>2 DEF EsperaC, Sigue, objetos
<1>5. TitularC(c)'
  <2>1. TitularC(c)
    BY DEF InvC
  <2> QED
    BY <1>3, <2>1 DEF TitularC, objetos
<1>6. ASSUME NEW t \in Objetos, Dueno(c, t)' PROVE Deja(c, t) \/ Toma(t)
  <2>1. CASE t = s
    BY <1>1, <1>2, <1>6, <2>1 DEF Dueno, Sigue
  <2>2. CASE t # s
    <3>1. t \in Semaforos /\ Disco \notin Objetos
      BY Internas, CerrojosAssumption DEF Objetos
    <3>2. value'[t] = value[t]
      BY <1>2, <2>2, <3>1
    <3>3. \/ t = Cerrojo /\ p \in {"Acquire.titular", "Release.V"}
          \/ t = Cerrojo /\ titular'[Cerrojo] = c /\ p \in EnDisco \union {"Release"}
          \/ /\ t \in Mutexes /\ mutex'[c] = t
             /\ p \in {"contar", "descontar", "leer", "Unlock", "Unlock.V"}
      BY <1>3, <1>6 DEF Dueno
    <3>4. q = "esperar" /\ t = Cerrojo /\ titular[Cerrojo] = c
      BY <2>2, <3>3 DEF objetos
    <3>5. Dueno(c, t)
      BY <1>1, <1>3, <3>4 DEF Dueno
    <3> QED
      BY <3>2, <3>5 DEF Deja
  <2> QED
    BY <2>1, <2>2
<1>7. ASSUME NEW t \in Objetos, ~Dueno(c, t)' PROVE Deja(c, t) \/ Toma(t)
  <2>1. t \in Semaforos
    BY Internas DEF Objetos
  <2> QED
    BY <1>2, <1>7, <2>1 DEF Deja
<1>8. UNCHANGED <<titular, mutex>>
  BY DEF objetos
<1> QED
  BY <1>2, <1>4, <1>5, <1>6, <1>7, <1>8, PasoDe

\* V of the semaphore of an object by the thread that holds it.
LEMMA VC ==
    ASSUME InvC, Inv', TypeOKC', NEW c \in Hilos, c = currentThread,
           NEW q, pc[c] = q, NEW p, NEW s, V(s, p), UNCHANGED objetos,
           \/ s = Cerrojo /\ q = "Release.V" /\ p = "Release.titular"
           \/ s \in Mutexes /\ mutex[c] = s /\ q = "Unlock.V" /\ p = "Unlock.titular"
    PROVE  InvC'
<1>1. /\ s \in Semaforos /\ s \in Objetos /\ p \in Puntos /\ q \in PuntosCerrojos
      /\ q # "P" /\ p # "P" /\ p # "Yield"
  BY Internas DEF PuntosCerrojos, Objetos
<1>2. /\ Quietos /\ Sigue(p) /\ value'[s] = value[s] + 1
      /\ \A t \in Semaforos : t # s => value'[t] = value[t]
  BY <1>1, VEs DEF InvC
<1>3. Punto(c) = q /\ Punto(c)' = p /\ pc'[c] = p
  BY <1>1, <1>2, PuntoLema DEF Punto, Sigue
<1>4. EsperaC(c)'
  BY <1>1, <1>3 DEF EsperaC
<1>5. TitularC(c)'
  <2>1. TitularC(c)
    BY DEF InvC
  <2> QED
    BY <1>3, <2>1 DEF TitularC, objetos
<1>6. \A t \in Objetos : ~Dueno(c, t)'
  BY <1>3 DEF Dueno
<1>7. Dueno(c, s)
  BY <1>1, <1>3 DEF Dueno
<1>8. ASSUME NEW t \in Objetos PROVE Deja(c, t) \/ Suelta(c, t)
  <2>1. t \in Semaforos
    BY Internas DEF Objetos
  <2> QED
    BY <1>2, <1>6, <1>7, <2>1 DEF Deja, Suelta
<1>9. UNCHANGED <<titular, mutex>>
  BY DEF objetos
<1> QED
  BY <1>2, <1>4, <1>5, <1>8, <1>9, PasoDe

\* The steps of a lock keep the invariant.
LEMMA LockC ==
    ASSUME InvC, Inv', TypeOKC', Acquire \/ Release
    PROVE  InvC'
<1>1. PICK c \in Hilos : c = currentThread
  BY Tipos DEF InvC
<1>2. Inv /\ TitularC(c) /\ Cerrojo \in Semaforos /\ Cerrojo \notin Mutexes
  BY Internas, CerrojosAssumption DEF InvC
<1>3. {"Acquire", "Acquire.P", "Acquire.titular", "peticion", "Release", "Release.V",
       "Release.titular", "programa"} \subseteq Puntos \intersect PuntosCerrojos
  BY Internas DEF PuntosCerrojos
<1>4. ASSUME NEW q \in PuntosCerrojos, NEW p \in Puntos \intersect PuntosCerrojos,
             pc[c] = q, Avanzar(p), UNCHANGED objetos,
             \/ q = "Acquire" /\ p \in {"Acquire.P", "peticion"}
             \/ q = "Release" /\ p = "Release.V" /\ titular[Cerrojo] = c
             \/ q = "Release" /\ p = "programa" /\ titular[Cerrojo] # c
      PROVE  InvC'
  <2>1. Quietos /\ Sigue(p) /\ value' = value
    BY <1>2, <1>4, AvanzarEs
  <2>2. UNCHANGED <<titular, mutex>> /\ \A s \in Objetos : value'[s] = value[s]
    BY <1>4, <2>1 DEF objetos
  <2>3. CASE q = "Acquire" /\ p = "Acquire.P"
    BY <1>1, <1>4, <2>1, <2>2, <2>3, IrC
  <2>4. CASE q = "Acquire" /\ p = "peticion"
    BY <1>1, <1>4, <2>1, <2>2, <2>4, IrC
  <2>5. CASE q = "Release" /\ p = "Release.V" /\ titular[Cerrojo] = c
    BY <1>1, <1>4, <2>1, <2>2, <2>5, IrC
  <2>6. CASE q = "Release" /\ p = "programa" /\ titular[Cerrojo] # c
    BY <1>1, <1>4, <2>1, <2>2, <2>6, IrC
  <2> QED
    BY <1>4, <2>3, <2>4, <2>5, <2>6
<1>5. CASE De("Acquire.P", P(Cerrojo, "Acquire.titular"))
  BY <1>1, <1>5, PC DEF De, En
<1>6. ASSUME NEW q \in {"Acquire.titular", "Release.titular"}, En(q),
             \/ /\ q = "Acquire.titular" /\ Avanzar("peticion")
                /\ SerTitular(Cerrojo, currentThread)
             \/ /\ q = "Release.titular" /\ Avanzar("programa")
                /\ SerTitular(Cerrojo, Nulo),
             UNCHANGED mutex
      PROVE  InvC'
  <2>1. /\ titular \in [Objetos -> Hilos \union {Nulo} \union TitularInicial]
        /\ Cerrojo \in Objetos /\ Nulo \notin Hilos
    BY HilosAssumption DEF InvC, TypeOKC, Objetos
  <2>2. \A t \in Objetos : t # Cerrojo => t \in Mutexes
    BY DEF Objetos
  <2>3. CASE q = "Acquire.titular"
    <3>1. Avanzar("peticion") /\ pc[c] = q /\ titular'[Cerrojo] = c
      BY <1>1, <1>6, <2>1, <2>3 DEF SerTitular, En
    <3>2. Quietos /\ Sigue("peticion") /\ value' = value
      BY <1>2, <1>3, <3>1, AvanzarEs
    <3>3. Punto(c) = "Acquire.titular" /\ Punto(c)' = "peticion" /\ pc[c] # "P"
          /\ pc'[c] = "peticion"
      BY <1>1, <2>3, <3>1, <3>2 DEF Punto, Sigue
    <3>4. EsperaC(c)' /\ TitularC(c)'
      BY <3>3 DEF EsperaC, TitularC
    <3>5. ASSUME NEW t \in Objetos, Dueno(c, t)' PROVE Dueno(c, t)
      BY <1>2, <2>2, <3>3, <3>5 DEF Dueno
    <3> QED
      BY <1>1, <1>6, <3>1, <3>2, <3>4, <3>5, PasoDe DEF Deja
  <2>4. CASE q = "Release.titular"
    <3>1. Avanzar("programa") /\ pc[c] = q /\ titular'[Cerrojo] = Nulo
      BY <1>1, <1>6, <2>1, <2>4 DEF SerTitular, En
    <3>2. Quietos /\ Sigue("programa") /\ value' = value
      BY <1>2, <1>3, <3>1, AvanzarEs
    <3>3. Punto(c)' = "programa" /\ pc'[c] = "programa"
      BY <1>1, <3>2 DEF Punto, Sigue
    <3>4. EsperaC(c)' /\ TitularC(c)'
      BY <2>1, <3>1, <3>3 DEF EsperaC, TitularC
    <3>5. \A t \in Objetos : ~Dueno(c, t)'
      BY <3>3 DEF Dueno
    <3> QED
      BY <1>1, <1>6, <2>1, <3>1, <3>2, <3>4, <3>5, PasoDe DEF Deja
  <2> QED
    BY <1>6, <2>3, <2>4
<1>7. CASE De("Release.V", V(Cerrojo, "Release.titular"))
  BY <1>1, <1>7, VC DEF De, En
<1> QED
  BY <1>1, <1>3, <1>4, <1>5, <1>6, <1>7 DEF Acquire, Release, De, En

\* The steps of a disk access keep the invariant.
LEMMA DiscoC ==
    ASSUME InvC, Inv', TypeOKC', ReadSector \/ HandleInterrupt
    PROVE  InvC'
<1>1. PICK c \in Hilos : c = currentThread
  BY Tipos DEF InvC
<1>2. /\ Inv /\ Disco \in Dispositivos /\ "programa" \in PuntosCerrojos
      /\ EnDisco \union {"Acquire"} \subseteq Puntos \intersect PuntosCerrojos
  BY Internas DEF InvC, PuntosCerrojos
<1>3. CASE Acquire \/ Release
  BY <1>3, LockC
<1>4. CASE De("programa", Avanzar("Acquire"))
  <2>1. Quietos /\ Sigue("Acquire") /\ value' = value
    BY <1>2, <1>4, AvanzarEs DEF De
  <2> QED
    BY <1>1, <1>2, <1>4, <2>1, IrC DEF De, En, objetos
<1>5. CASE Peticion
  <2>1. ASSUME NEW q \in EnDisco, NEW p \in EnDisco, pc[c] = q, Quietos, Sigue(p),
               value' = value, UNCHANGED <<titular, mutex>>
        PROVE  InvC'
    BY <1>1, <1>2, <2>1, IrC
  <2>2. CASE De("peticion", Avanzar("activar"))
    BY <1>1, <1>2, <2>1, <2>2, AvanzarEs DEF De, En, objetos
  <2>3. CASE En("activar") /\ Avanzar("programar") /\ UNCHANGED <<titular, mutex>>
    BY <1>1, <1>2, <2>1, <2>3, AvanzarEs DEF En
  <2>4. CASE De("programar", Schedule(Disco, "esperar"))
    BY <1>1, <1>2, <2>1, <2>4, AvanzarEs DEF De, En, objetos
  <2>5. CASE UNCHANGED <<vars, titular, mutex>>
    BY <1>1, <2>5, NadaC DEF vars, semaforos, planificador
  <2> QED
    BY <1>5, <2>2, <2>3, <2>4, <2>5 DEF Peticion
<1>6. CASE De("esperar", P(Disco, "Release"))
  BY <1>1, <1>6, PC DEF De, En
<1>7. CASE HandleInterrupt
  <2>1. UNCHANGED <<pc, luego, espera, titular, mutex>>
    BY <1>7 DEF HandleInterrupt, CheckIfDue
  <2>2. \A s \in Objetos : value'[s] = value[s]
    <3>1. value' = [value EXCEPT ![Disco] = @ + 1]
      BY <1>7 DEF HandleInterrupt, CheckIfDue, Despertar
    <3>2. Disco \notin Objetos /\ Objetos \subseteq Semaforos
      BY Internas, CerrojosAssumption DEF Objetos
    <3> QED
      BY <1>2, <3>1, <3>2, Tipos
  <2> QED
    BY <2>1, <2>2, NadaC
<1> QED
  BY <1>3, <1>4, <1>5, <1>6, <1>7 DEF ReadSector

\* The steps of a barrier keep the invariant.
LEMMA BarreraC ==
    ASSUME InvC, Inv', TypeOKC', BarrierWait
    PROVE  InvC'
<1>1. PICK c \in Hilos : c = currentThread
  BY Tipos DEF InvC
<1>2. /\ Inv /\ mutex[c] \in Mutexes /\ Cerrojo \notin Mutexes /\ Mutexes = {Contador, Barrera}
      /\ titular \in [Objetos -> Hilos \union {Nulo} \union TitularInicial]
      /\ Mutexes \subseteq Objetos /\ mutex \in [Hilos -> Mutexes] /\ TitularC(c)
  BY CerrojosAssumption DEF InvC, TypeOKC, Objetos, Mutexes
<1>3. {"programa", "Lock", "Lock.P", "contar", "descontar", "leer", "Unlock", "Unlock.V",
       "Unlock.titular", "mirar", "pasada"} \subseteq Puntos \intersect PuntosCerrojos
  BY Internas DEF PuntosCerrojos
<1>4. ASSUME NEW q \in {"programa", "Lock"}, NEW s \in Mutexes, Lock(q, s) PROVE InvC'
  <2>1. /\ Avanzar("Lock.P") /\ pc[c] = q
        /\ titular' = [titular EXCEPT ![s] = c] /\ mutex' = [mutex EXCEPT ![c] = s]
    BY <1>1, <1>4 DEF Lock, SerTitular, En
  <2>2. Quietos /\ Sigue("Lock.P") /\ value' = value
    BY <1>2, <1>3, <2>1, AvanzarEs
  <2>3. /\ titular'[Cerrojo] = titular[Cerrojo]
        /\ \A h \in Hilos : h # c => mutex'[h] = mutex[h]
    BY <1>2, <1>4, <2>1 DEF Objetos
  <2>4. Punto(c) = q /\ Punto(c)' = "Lock.P" /\ pc'[c] = "Lock.P"
    BY <1>1, <1>4, <2>1, <2>2 DEF Punto, Sigue
  <2>5. EsperaC(c)' /\ TitularC(c)'
    BY <1>2, <1>4, <2>3, <2>4 DEF EsperaC, TitularC
  <2>6. \A t \in Objetos : ~Dueno(c, t)'
    BY <2>4 DEF Dueno
  <2> QED
    BY <1>1, <2>2, <2>3, <2>5, <2>6, PasoDe DEF Deja
<1>5. CASE MutexLock
  <2>1. /\ pc[c] = "Lock.P" /\ UNCHANGED objetos
        /\ P(mutex[c], IF mutex[c] = Contador THEN "contar" ELSE "leer")
    BY <1>1, <1>5 DEF MutexLock, De, En
  <2>2. CASE mutex[c] = Contador
    BY <1>1, <2>1, <2>2, PC
  <2>3. CASE mutex[c] # Contador
    <3>1. mutex[c] = Barrera /\ P(mutex[c], "leer")
      BY <1>2, <2>1, <2>3
    <3> QED
      BY <1>1, <2>1, <3>1, PC
  <2> QED
    BY <2>2, <2>3
<1>6. ASSUME NEW q \in {"Unlock", "mirar", "contar", "descontar", "leer"},
             NEW p \in {"Unlock.V", "Unlock.titular", "Lock", "pasada", "descontar", "Unlock"},
             pc[c] = q, Avanzar(p), UNCHANGED <<titular, mutex>>,
             p \in {"descontar", "Unlock", "Unlock.V"} => q # "mirar"
      PROVE  InvC'
  <2>1. Quietos /\ Sigue(p) /\ value' = value
    BY <1>2, <1>3, <1>6, AvanzarEs
  <2>2. q \in PuntosCerrojos /\ p \in PuntosCerrojos
    BY <1>3
  <2> QED
    BY <1>1, <1>6, <2>1, <2>2, IrC
<1>7. CASE MutexUnlock
  <2>1. \/ Avanzar("Unlock.V") \/ Avanzar("Unlock.titular") \/ ~En("Unlock")
    BY <1>7 DEF MutexUnlock, De, En
  <2>2. CASE En("Unlock") /\ UNCHANGED objetos
    BY <1>1, <1>6, <2>1, <2>2 DEF En, objetos
  <2>3. CASE De("Unlock.V", V(mutex[c], "Unlock.titular"))
    BY <1>1, <1>2, <2>3, VC DEF De, En
  <2>4. ASSUME NEW p \in {"Lock", "mirar"}, En("Unlock.titular"), Avanzar(p),
               SerTitular(mutex[c], Nulo), UNCHANGED mutex
        PROVE  InvC'
    <3>1. Quietos /\ Sigue(p) /\ value' = value
      BY <1>2, <1>3, <2>4, AvanzarEs
    <3>2. titular'[Cerrojo] = titular[Cerrojo]
      BY <1>2, <2>4 DEF SerTitular, Objetos
    <3>3. Punto(c) = "Unlock.titular" /\ Punto(c)' = p /\ pc'[c] = p
      BY <1>1, <2>4, <3>1 DEF Punto, Sigue, En
    <3>4. EsperaC(c)' /\ TitularC(c)'
      BY <1>2, <2>4, <3>2, <3>3 DEF EsperaC, TitularC
    <3>5. \A t \in Objetos : ~Dueno(c, t)'
      BY <2>4, <3>3 DEF Dueno
    <3> QED
      BY <1>1, <2>4, <3>1, <3>2, <3>4, <3>5, PasoDe DEF Deja
  <2>5. CASE /\ En("Unlock.titular") /\ SerTitular(mutex[c], Nulo) /\ UNCHANGED mutex
             /\ Avanzar("Lock") \/ Avanzar("mirar")
    BY <2>4, <2>5
  <2> QED
    BY <1>1, <1>7, <2>2, <2>3, <2>5 DEF MutexUnlock, De
<1>8. CASE LeerCounter("contar", "descontar") \/ LeerCounter("leer", "Unlock")
  <2>1. /\ UNCHANGED <<titular, mutex>>
        /\ \/ pc[c] = "contar" /\ Avanzar("descontar")
           \/ pc[c] = "leer" /\ Avanzar("Unlock")
    BY <1>1, <1>8 DEF LeerCounter, En
  <2> QED
    BY <1>6, <2>1
<1>9. CASE Descontar
  <2>1. UNCHANGED <<titular, mutex>> /\ pc[c] = "descontar" /\ Avanzar("Unlock")
    BY <1>1, <1>9 DEF Descontar, En
  <2> QED
    BY <1>6, <2>1
<1>10. CASE Mirar
  <2>1. /\ UNCHANGED <<titular, mutex>> /\ pc[c] = "mirar"
        /\ Avanzar("Lock") \/ Avanzar("pasada")
    BY <1>1, <1>10 DEF Mirar, De, En, objetos
  <2> QED
    BY <1>6, <2>1
<1>11. CASE Lock("programa", Contador) \/ Lock("Lock", Barrera)
  BY <1>2, <1>4, <1>11
<1> QED
  BY <1>5, <1>7, <1>8, <1>9, <1>10, <1>11 DEF BarrierWait

\* A turn, and whatever a thread comes back to, leaves it at its point.
LEMMA MismoPunto ==
    ASSUME InvC, Inv', TypeOKC', NEW c \in Hilos, c = currentThread, Quietos,
           Punto(c)' = Punto(c), EsperaC(c)', UNCHANGED <<titular, mutex>>,
           \A s \in Objetos : \/ value'[s] = value[s] /\ (Dueno(c, s)' => Dueno(c, s))
                              \/ Toma(s)
    PROVE  InvC'
<1>1. TitularC(c)
  BY DEF InvC
<1>2. TitularC(c)'
  BY <1>1 DEF TitularC
<1> QED
  BY <1>2, PasoDe DEF Deja

\* A Yield keeps the invariant.
LEMMA TurnoC ==
    ASSUME InvC, Inv', TypeOKC', Turno
    PROVE  InvC'
<1>1. PICK c \in Hilos : c = currentThread
  BY Tipos DEF InvC
<1>2. PICK p \in Puntos : pc[c] = p /\ Yield(p) /\ UNCHANGED objetos
  BY <1>1 DEF Turno, De, En
<1>3. p \in PuntosCerrojos /\ p # "P" /\ p # "Yield"
  BY Internas DEF PuntosCerrojos
<1>4. /\ Quietos /\ value' = value
      /\ \/ Sigue(p)
         \/ pc'[c] = "Yield" /\ luego'[c] = p
  BY <1>1, <1>2, YieldEs DEF InvC
<1>5. Punto(c) = p /\ Punto(c)' = p /\ pc'[c] # "P" /\ pc[c] # "P"
  BY <1>1, <1>2, <1>3, <1>4 DEF Punto, Sigue
<1>6. EsperaC(c)' /\ \A s \in Objetos : Dueno(c, s)' => Dueno(c, s)
  BY <1>2, <1>5 DEF EsperaC, Dueno, objetos
<1> QED
  BY <1>1, <1>2, <1>4, <1>5, <1>6, MismoPunto DEF objetos

\* Coming out of a switch keeps the invariant: the unit that P takes is that of
\* one owner.
LEMMA ReanudarC ==
    ASSUME InvC, Inv', TypeOKC', Reanudar, UNCHANGED objetos
    PROVE  InvC'
<1>1. PICK c \in Hilos : c = currentThread
  BY Tipos DEF InvC
<1>2. /\ Inv /\ EsperaC(c) /\ TitularC(c) /\ UNCHANGED <<titular, mutex>>
      /\ Objetos \subseteq Semaforos /\ luego[c] \in PuntosCerrojos
      /\ luego[c] # "P" /\ luego[c] # "Yield"
  BY Internas, Tipos DEF InvC, objetos, Objetos, PuntosCerrojos
<1>3. Quietos
  BY <1>2, ReanudarEs
<1>4. CASE pc[c] = "ThreadRoot" /\ Sigue(Inicio) /\ value' = value
  <2>1. Punto(c) = "ThreadRoot" /\ Punto(c)' = "programa" /\ pc'[c] = "programa"
    BY <1>1, <1>4, Internas DEF Punto, Sigue
  <2>2. EsperaC(c)' /\ TitularC(c)' /\ \A s \in Objetos : ~Dueno(c, s)'
    BY <1>2, <2>1 DEF EsperaC, TitularC, Dueno
  <2> QED
    BY <1>1, <1>2, <1>3, <1>4, <2>2, PasoDe DEF Deja
<1>5. CASE pc[c] = "Yield" /\ pc'[c] = luego[c] /\ value' = value
  <2>1. Punto(c)' = Punto(c) /\ pc'[c] # "P" /\ pc[c] # "P"
    BY <1>2, <1>5 DEF Punto
  <2>2. EsperaC(c)' /\ \A s \in Objetos : Dueno(c, s)' => Dueno(c, s)
    BY <1>2, <2>1 DEF EsperaC, Dueno
  <2> QED
    BY <1>1, <1>2, <1>3, <1>5, <2>1, <2>2, MismoPunto
<1>6. CASE pc[c] = "P" /\ Sigue("P") /\ value' = value
  <2>1. Punto(c)' = Punto(c) /\ pc'[c] = "P" /\ espera'[c] = espera[c] /\ luego'[c] = luego[c]
    BY <1>1, <1>6 DEF Punto, Sigue
  <2>2. EsperaC(c)' /\ \A s \in Objetos : Dueno(c, s)' => Dueno(c, s)
    BY <1>2, <1>6, <2>1 DEF EsperaC, Dueno
  <2> QED
    BY <1>1, <1>2, <1>3, <1>6, <2>1, <2>2, MismoPunto
<1>7. CASE /\ pc[c] = "P" /\ espera[c] \in Semaforos /\ pc'[c] = luego[c]
           /\ Toma(espera[c])
           /\ \A t \in Semaforos : t # espera[c] => value'[t] = value[t]
  <2>1. Punto(c)' = Punto(c) /\ pc'[c] # "P"
    BY <1>2, <1>7 DEF Punto
  <2>2. EsperaC(c)'
    BY <2>1 DEF EsperaC
  <2>3. ASSUME NEW s \in Objetos, s # espera[c], Dueno(c, s)' PROVE Dueno(c, s)
    BY <1>2, <2>1, <2>3 DEF Dueno
  <2> QED
    BY <1>1, <1>2, <1>3, <1>7, <2>1, <2>2, <2>3, MismoPunto
<1> QED
  BY <1>1, <1>2, <1>4, <1>5, <1>6, <1>7, ReanudarEs

\* Fork keeps the invariant.
LEMMA ForkC ==
    ASSUME InvC, Inv', TypeOKC', Arrancar
    PROVE  InvC'
<1>1. PICK c \in Hilos : c = currentThread
  BY Tipos DEF InvC
<1>2. PICK h \in Hilos : pc[c] = "programa" /\ Fork(h, "programa") /\ UNCHANGED objetos
  BY <1>1 DEF Arrancar, De, En
<1>3. /\ pc' = [pc EXCEPT ![h] = "ThreadRoot", ![c] = "programa"]
      /\ pc[h] = "nuevo" /\ h # c /\ UNCHANGED <<luego, espera, value, titular, mutex>>
  BY <1>1, <1>2 DEF Fork, semaforos, objetos
<1>4. \A g \in Hilos : g # c => Otro(g)
  BY <1>3, Tipos DEF InvC, Otro
<1>5. pc'[c] = "programa" /\ Punto(c)' = Punto(c) /\ pc[c] # "P"
  BY <1>2, <1>3, Tipos DEF InvC, Punto
<1>6. TitularC(c)
  BY DEF InvC
<1>7. EsperaC(c)' /\ TitularC(c)' /\ \A s \in Objetos : Deja(c, s)
  BY <1>3, <1>5, <1>6 DEF EsperaC, TitularC, Dueno, Deja
<1> QED
  BY <1>4, <1>7, PasoC

\* Finish keeps the invariant.
LEMMA FinishC ==
    ASSUME InvC, Inv', TypeOKC', NEW q \in {"programa", "pasada"}, De(q, Finish)
    PROVE  InvC'
<1>1. PICK c \in Hilos : c = currentThread
  BY Tipos DEF InvC
<1>2. Inv /\ pc[c] = q /\ Ir("Finish") /\ UNCHANGED <<luego, espera, value, titular, mutex>>
  BY <1>1 DEF De, En, Finish, objetos, semaforos, InvC
<1>3. Quietos /\ Sigue("Finish") /\ q \in PuntosCerrojos
  BY <1>2, IrEs DEF PuntosCerrojos
<1> QED
  BY <1>1, <1>2, <1>3, IrC

\* The invariant is inductive.
LEMMA InductivoC == InvC /\ [NextC]_varsC => InvC'
<1> SUFFICES ASSUME InvC, [NextC]_varsC PROVE InvC'
  OBVIOUS
<1>1. Inv /\ TypeOKC /\ currentThread \in Hilos
  BY Tipos DEF InvC
<1>2. Inv'
  BY <1>1, PasoEsPaso, Inductivo
<1>3. CASE UNCHANGED varsC
  <2>1. TypeOKC'
    BY <1>1, <1>3 DEF varsC, objetos, TypeOKC
  <2> QED
    BY <1>2, <1>3, <2>1, NadaC DEF varsC, vars, objetos, semaforos
<1>4. ASSUME NextC PROVE InvC'
  <2>1. TypeOKC'
    BY <1>1, <1>4, TiposC
  <2>2. CASE ReadSector \/ HandleInterrupt
    BY <1>2, <2>1, <2>2, DiscoC
  <2>3. CASE BarrierWait
    BY <1>2, <2>1, <2>3, BarreraC
  <2>4. CASE Turno
    BY <1>2, <2>1, <2>4, TurnoC
  <2>5. CASE Arrancar
    BY <1>2, <2>1, <2>5, ForkC
  <2>6. CASE De("pasada", Finish) \/ De("programa", Finish)
    BY <1>2, <2>1, <2>6, FinishC
  <2>7. CASE Reanudar /\ UNCHANGED objetos
    BY <1>2, <2>1, <2>7, ReanudarC
  <2>8. CASE (DejarOcio \/ Halt) /\ UNCHANGED objetos
    BY <1>2, <2>1, <2>8, NadaC DEF DejarOcio, Halt, semaforos, objetos
  <2> QED
    BY <1>4, <2>2, <2>3, <2>4, <2>5, <2>6, <2>7, <2>8 DEF NextC
<1> QED
  BY <1>3, <1>4

-------------------------------------------------------------------------------
(* The completions of the disk                                             *)

Suma == pending[Disco] + value[Disco]

\* One thread starts or stops waiting as one request comes or goes.
LEMMA CuentaLema ==
    ASSUME Inv, Inv', UnaCompletadaPorEspera, NEW c \in Hilos,
           \A h \in Hilos : h # c => (EsperaDisco(h)' <=> EsperaDisco(h)),
           \/ (EsperaDisco(c)' <=> EsperaDisco(c)) /\ Suma' = Suma
           \/ EsperaDisco(c) /\ ~EsperaDisco(c)' /\ Suma' = Suma - 1
           \/ ~EsperaDisco(c) /\ EsperaDisco(c)' /\ Suma' = Suma + 1
    PROVE  UnaCompletadaPorEspera'
<1> DEFINE E == {h \in Hilos : EsperaDisco(h)}
           F == {h \in Hilos : EsperaDisco(h)'}
<1>1. IsFiniteSet(E) /\ Cardinality(E) \in Nat
  BY Finito
<1>2. Suma = Cardinality(E)
  BY DEF UnaCompletadaPorEspera, Suma
<1>3. /\ \A h \in Hilos : h \in E <=> EsperaDisco(h)
      /\ \A h \in Hilos : h \in F <=> EsperaDisco(h)'
      /\ E \subseteq Hilos /\ F \subseteq Hilos
  OBVIOUS
<1> HIDE DEF E, F
<1>4. CASE (EsperaDisco(c)' <=> EsperaDisco(c)) /\ Suma' = Suma
  <2>1. F = E
    BY <1>3, <1>4
  <2> QED
    BY <1>2, <1>4, <2>1 DEF UnaCompletadaPorEspera, Suma, F
<1>5. CASE EsperaDisco(c) /\ ~EsperaDisco(c)' /\ Suma' = Suma - 1
  <2>1. F = E \ {c} /\ c \in E
    BY <1>3, <1>5
  <2>2. Cardinality(F) = Cardinality(E) - 1
    BY <1>1, <2>1, FS_RemoveElement
  <2> QED
    BY <1>2, <1>5, <2>2 DEF UnaCompletadaPorEspera, Suma, F
<1>6. CASE ~EsperaDisco(c) /\ EsperaDisco(c)' /\ Suma' = Suma + 1
  <2>1. F = E \union {c} /\ c \notin E
    BY <1>3, <1>6
  <2>2. Cardinality(F) = Cardinality(E) + 1
    BY <1>1, <2>1, FS_AddElement
  <2> QED
    BY <1>2, <1>6, <2>2 DEF UnaCompletadaPorEspera, Suma, F
<1> QED
  BY <1>4, <1>5, <1>6

\* Threads that stay where they are go on waiting for the disk or not.
LEMMA QuietosEsperan ==
    ASSUME Quietos
    PROVE  \A h \in Hilos : h # currentThread => (EsperaDisco(h)' <=> EsperaDisco(h))
BY DEF Quietos, Quieto, EsperaDisco, Punto

\* Everything a thread does away from "esperar".
LEMMA FueraDelDisco ==
    ASSUME InvC, Inv', UnaCompletadaPorEspera, NEW c \in Hilos, c = currentThread,
           pc[c] \in PuntosCerrojos \ {"esperar"}, pending' = pending,
           NEW p \in PuntosCerrojos \ {"esperar"},
           \/ Avanzar(p) \/ Yield(p)
           \/ \E s \in Objetos : P(s, p) \/ V(s, p)
    PROVE  UnaCompletadaPorEspera'
<1>1. /\ Inv /\ p \in Puntos /\ Objetos \subseteq Semaforos /\ Disco \in Semaforos
      /\ Disco \notin Objetos /\ p # "P" /\ p # "Yield" /\ pc[c] # "P" /\ pc[c] # "Yield"
  BY Internas, CerrojosAssumption DEF InvC, Objetos, PuntosCerrojos
<1>2. ~EsperaDisco(c)
  BY <1>1 DEF EsperaDisco, Punto
<1>3. Quietos /\ value'[Disco] = value[Disco] /\ ~EsperaDisco(c)'
  <2>1. CASE Avanzar(p)
    BY <1>1, <2>1, AvanzarEs DEF EsperaDisco, Punto, Sigue
  <2>2. CASE Yield(p)
    BY <1>1, <2>2, YieldEs DEF EsperaDisco, Punto, Sigue
  <2>3. ASSUME NEW s \in Objetos, P(s, p)
        PROVE  Quietos /\ value'[Disco] = value[Disco] /\ ~EsperaDisco(c)'
    BY <1>1, <2>3, PEs DEF EsperaDisco, Punto, Sigue
  <2>4. ASSUME NEW s \in Objetos, V(s, p)
        PROVE  Quietos /\ value'[Disco] = value[Disco] /\ ~EsperaDisco(c)'
    BY <1>1, <2>4, VEs DEF EsperaDisco, Punto, Sigue
  <2> QED
    BY <2>1, <2>2, <2>3, <2>4
<1>4. Suma' = Suma
  BY <1>3 DEF Suma
<1> QED
  BY <1>1, <1>2, <1>3, <1>4, QuietosEsperan, CuentaLema

\* Nothing moves but, perhaps, a completion from pending to delivered.
LEMMA NadieEspera ==
    ASSUME InvC, Inv', UnaCompletadaPorEspera, UNCHANGED <<pc, luego, espera>>, Suma' = Suma
    PROVE  UnaCompletadaPorEspera'
<1>1. PICK c \in Hilos : c = currentThread
  BY Tipos DEF InvC
<1>2. \A h \in Hilos : EsperaDisco(h)' <=> EsperaDisco(h)
  BY DEF EsperaDisco, Punto
<1> QED
  BY <1>2, CuentaLema DEF InvC

\* Which of the two it is, for each step of a program.
LEMMA PasoFuera ==
    ASSUME InvC, Inv', UnaCompletadaPorEspera,
           \/ Acquire \/ Release \/ BarrierWait
           \/ De("programa", Avanzar("Acquire")) \/ De("peticion", Avanzar("activar"))
           \/ En("activar") /\ Avanzar("programar")
    PROVE  UnaCompletadaPorEspera'
<1>1. PICK c \in Hilos : c = currentThread
  BY Tipos DEF InvC
<1>2. /\ mutex[c] \in Objetos /\ Cerrojo \in Objetos
      /\ PuntosCerrojos \ {"esperar"} = {"programa", "pasada", "Acquire", "Acquire.P",
            "Acquire.titular", "peticion", "activar", "programar", "Release", "Release.V",
            "Release.titular", "Lock", "Lock.P", "contar", "descontar", "leer", "Unlock",
            "Unlock.V", "Unlock.titular", "mirar"}
  BY DEF InvC, TypeOKC, Objetos, PuntosCerrojos
<1> DEFINE Q == PuntosCerrojos \ {"esperar"}
<1>3. \E p \in Q : pc[c] \in Q /\ (Avanzar(p) \/ \E s \in Objetos : P(s, p) \/ V(s, p))
  <2>1. CASE Acquire
    BY <1>1, <1>2, <2>1 DEF Acquire, De, En
  <2>2. CASE Release
    BY <1>1, <1>2, <2>2 DEF Release, De, En
  <2>3. CASE MutexLock
    BY <1>1, <1>2, <2>3 DEF MutexLock, De, En
  <2>4. CASE MutexUnlock
    BY <1>1, <1>2, <2>4 DEF MutexUnlock, De, En
  <2>5. CASE Mirar \/ Descontar \/ LeerCounter("contar", "descontar")
             \/ LeerCounter("leer", "Unlock")
    BY <1>1, <1>2, <2>5 DEF Mirar, Descontar, LeerCounter, De, En
  <2>6. CASE Lock("programa", Contador) \/ Lock("Lock", Barrera)
    BY <1>1, <1>2, <2>6 DEF Lock, En
  <2>7. CASE \/ De("programa", Avanzar("Acquire")) \/ De("peticion", Avanzar("activar"))
             \/ En("activar") /\ Avanzar("programar")
    BY <1>1, <1>2, <2>7 DEF De, En
  <2> QED
    BY <2>1, <2>2, <2>3, <2>4, <2>5, <2>6, <2>7 DEF BarrierWait
<1>4. PICK p \in Q : pc[c] \in Q /\ (Avanzar(p) \/ \E s \in Objetos : P(s, p) \/ V(s, p))
  BY <1>3
<1>5. pending' = pending
  BY <1>4 DEF Avanzar, P, V
<1> QED
  BY <1>1, <1>4, <1>5, FueraDelDisco

\* The steps inside the programs complete each request at most once.
LEMMA PasoDentro ==
    ASSUME InvC, Inv', UnaCompletadaPorEspera,
           De("programar", Schedule(Disco, "esperar")) \/ De("esperar", P(Disco, "Release"))
    PROVE  UnaCompletadaPorEspera'
<1>1. PICK c \in Hilos : c = currentThread
  BY Tipos DEF InvC
<1>2. /\ Inv /\ Disco \in Semaforos /\ Disco \in Dispositivos
      /\ {"esperar", "Release"} \subseteq Puntos
      /\ pending \in [Dispositivos -> Nat] /\ value[Disco] \in Nat
  BY Internas DEF InvC, Inv, TypeOK, PuntosCerrojos
<1>3. CASE De("programar", Schedule(Disco, "esperar"))
  <2>1. Quietos /\ Sigue("esperar") /\ value' = value
    BY <1>2, <1>3, AvanzarEs DEF De
  <2>2. pending' = [pending EXCEPT ![Disco] = @ + 1] /\ pc[c] = "programar"
    BY <1>1, <1>3 DEF De, En, Schedule
  <2>3. ~EsperaDisco(c) /\ EsperaDisco(c)'
    BY <1>1, <2>1, <2>2 DEF EsperaDisco, Punto, Sigue
  <2>4. Suma' = Suma + 1
    BY <1>2, <2>1, <2>2 DEF Suma
  <2> QED
    BY <1>1, <1>2, <2>1, <2>3, <2>4, QuietosEsperan, CuentaLema
<1>4. CASE De("esperar", P(Disco, "Release"))
  <2>1. pc[c] = "esperar" /\ P(Disco, "Release") /\ pending' = pending /\ EsperaDisco(c)
    BY <1>1, <1>4 DEF De, En, P, EsperaDisco, Punto
  <2>2. /\ Quietos
        /\ \/ Sigue("Release") /\ Toma(Disco)
           \/ pc'[c] = "P" /\ espera'[c] = Disco /\ value' = value
    BY <1>1, <1>2, <2>1, PEs
  <2>3. CASE Sigue("Release") /\ Toma(Disco)
    <3>1. ~EsperaDisco(c)' /\ Suma' = Suma - 1
      BY <1>1, <1>2, <2>1, <2>3 DEF EsperaDisco, Punto, Sigue, Toma, Suma
    <3> QED
      BY <1>1, <1>2, <2>1, <2>2, <3>1, QuietosEsperan, CuentaLema
  <2>4. CASE pc'[c] = "P" /\ espera'[c] = Disco /\ value' = value
    <3>1. EsperaDisco(c)' /\ Suma' = Suma
      BY <2>1, <2>4 DEF EsperaDisco, Suma
    <3> QED
      BY <1>1, <1>2, <2>1, <2>2, <3>1, QuietosEsperan, CuentaLema
  <2> QED
    BY <2>2, <2>3, <2>4
<1> QED
  BY <1>3, <1>4

\* A Yield completes no request.
LEMMA PasoTurno ==
    ASSUME InvC, Inv', UnaCompletadaPorEspera, Turno
    PROVE  UnaCompletadaPorEspera'
<1>1. PICK c \in Hilos : c = currentThread
  BY Tipos DEF InvC
<1>2. PICK p \in Puntos : pc[c] = p /\ Yield(p)
  BY <1>1 DEF Turno, De, En
<1>3. Inv /\ p # "P" /\ p # "Yield" /\ pending' = pending
  BY <1>2, Internas DEF InvC, PuntosCerrojos, Yield
<1>4. /\ Quietos /\ value' = value
      /\ \/ Sigue(p)
         \/ pc'[c] = "Yield" /\ luego'[c] = p
  BY <1>1, <1>2, <1>3, YieldEs
<1>5. (EsperaDisco(c)' <=> EsperaDisco(c)) /\ Suma' = Suma
  BY <1>1, <1>2, <1>3, <1>4 DEF EsperaDisco, Punto, Sigue, Suma
<1> QED
  BY <1>1, <1>3, <1>4, <1>5, QuietosEsperan, CuentaLema

\* Coming out of a switch takes the completion of the own request.
LEMMA PasoReanudar ==
    ASSUME InvC, Inv', UnaCompletadaPorEspera, Reanudar
    PROVE  UnaCompletadaPorEspera'
<1>1. PICK c \in Hilos : c = currentThread
  BY Tipos DEF InvC
<1>2. /\ Inv /\ EsperaC(c) /\ pending' = pending /\ Disco \in Semaforos
      /\ luego[c] # "P" /\ luego[c] # "Yield" /\ Disco \notin Objetos
      /\ pending[Disco] \in Nat /\ value[Disco] \in Nat
  BY Internas, Tipos, CerrojosAssumption
     DEF InvC, Reanudar, PuntosCerrojos, Objetos, Inv, TypeOK
<1>3. Quietos
  BY <1>2, ReanudarEs
<1>4. CASE pc[c] = "ThreadRoot" /\ Sigue(Inicio) /\ value' = value
  <2>1. ~EsperaDisco(c) /\ ~EsperaDisco(c)' /\ Suma' = Suma
    BY <1>1, <1>2, <1>4, Internas DEF EsperaDisco, Punto, Sigue, Suma
  <2> QED
    BY <1>1, <1>2, <1>3, <2>1, QuietosEsperan, CuentaLema
<1>5. CASE pc[c] = "Yield" /\ pc'[c] = luego[c] /\ value' = value
  <2>1. (EsperaDisco(c)' <=> EsperaDisco(c)) /\ Suma' = Suma
    BY <1>2, <1>5 DEF EsperaDisco, Punto, Suma
  <2> QED
    BY <1>1, <1>2, <1>3, <2>1, QuietosEsperan, CuentaLema
<1>6. CASE pc[c] = "P" /\ Sigue("P") /\ value' = value
  <2>1. (EsperaDisco(c)' <=> EsperaDisco(c)) /\ Suma' = Suma
    BY <1>1, <1>2, <1>6 DEF EsperaDisco, Punto, Sigue, Suma
  <2> QED
    BY <1>1, <1>2, <1>3, <2>1, QuietosEsperan, CuentaLema
<1>7. CASE /\ pc[c] = "P" /\ espera[c] \in Semaforos /\ pc'[c] = luego[c]
           /\ Toma(espera[c])
           /\ \A t \in Semaforos : t # espera[c] => value'[t] = value[t]
  <2>1. luego[c] # "esperar"
    BY <1>2, <1>7 DEF EsperaC
  <2>2. ~EsperaDisco(c)'
    BY <1>2, <1>7, <2>1 DEF EsperaDisco, Punto
  <2>3. CASE espera[c] = Disco
    <3>1. EsperaDisco(c) /\ Suma' = Suma - 1
      BY <1>2, <1>7, <2>3 DEF EsperaDisco, Suma, Toma
    <3> QED
      BY <1>1, <1>2, <1>3, <2>2, <3>1, QuietosEsperan, CuentaLema
  <2>4. CASE espera[c] # Disco
    <3>1. ~EsperaDisco(c) /\ Suma' = Suma
      BY <1>2, <1>7, <2>1, <2>4 DEF EsperaDisco, Punto, Suma
    <3> QED
      BY <1>1, <1>2, <1>3, <2>2, <3>1, QuietosEsperan, CuentaLema
  <2> QED
    BY <2>3, <2>4
<1> QED
  BY <1>1, <1>2, <1>4, <1>5, <1>6, <1>7, ReanudarEs

\* The start and the end of a thread complete no request.
LEMMA PasoVida ==
    ASSUME InvC, Inv', UnaCompletadaPorEspera,
           NEW q \in {"programa", "pasada"}, Arrancar \/ De(q, Finish)
    PROVE  UnaCompletadaPorEspera'
<1>1. PICK c \in Hilos : c = currentThread
  BY Tipos DEF InvC
<1>2. CASE Arrancar
  <2>1. PICK h \in Hilos : pc[c] = "programa" /\ Fork(h, "programa")
    BY <1>1, <1>2 DEF Arrancar, De, En
  <2>2. /\ pc' = [pc EXCEPT ![h] = "ThreadRoot", ![c] = "programa"]
        /\ pc[h] = "nuevo" /\ UNCHANGED <<luego, espera, value, pending>>
    BY <1>1, <2>1 DEF Fork, semaforos
  <2>3. \A g \in Hilos : EsperaDisco(g)' <=> EsperaDisco(g)
    BY <2>1, <2>2, Tipos DEF InvC, EsperaDisco, Punto
  <2>4. Suma' = Suma
    BY <2>2 DEF Suma
  <2> QED
    BY <2>3, <2>4, CuentaLema DEF InvC
<1>3. CASE De(q, Finish)
  <2>1. Inv /\ pc[c] = q /\ Ir("Finish") /\ UNCHANGED <<luego, espera, value, pending>>
    BY <1>1, <1>3 DEF De, En, Finish, semaforos, InvC
  <2>2. Quietos /\ Sigue("Finish")
    BY <2>1, IrEs
  <2>3. ~EsperaDisco(c) /\ ~EsperaDisco(c)' /\ Suma' = Suma
    BY <1>1, <2>1, <2>2 DEF EsperaDisco, Punto, Sigue, Suma
  <2> QED
    BY <1>1, <2>1, <2>2, <2>3, QuietosEsperan, CuentaLema
<1> QED
  BY <1>2, <1>3

\* UnaCompletadaPorEspera is inductive, given the invariant.
LEMMA CompletadaInductiva ==
    InvC /\ Inv' /\ UnaCompletadaPorEspera /\ [NextC]_varsC => UnaCompletadaPorEspera'
<1> SUFFICES ASSUME InvC, Inv', UnaCompletadaPorEspera, [NextC]_varsC
             PROVE  UnaCompletadaPorEspera'
  OBVIOUS
<1>1. CASE ReadSector \/ BarrierWait
  <2>1. CASE UNCHANGED vars
    BY <2>1, NadieEspera DEF vars, semaforos, Suma
  <2> QED
    BY <1>1, <2>1, PasoFuera, PasoDentro DEF ReadSector, Peticion
<1>2. CASE Turno
  BY <1>2, PasoTurno
<1>3. CASE Arrancar \/ De("pasada", Finish) \/ De("programa", Finish)
  BY <1>3, PasoVida
<1>4. CASE Reanudar
  BY <1>4, PasoReanudar
<1>5. CASE DejarOcio \/ Halt
  BY <1>5, NadieEspera DEF DejarOcio, Halt, semaforos, Suma
<1>6. CASE HandleInterrupt
  <2>1. /\ pending' = [pending EXCEPT ![Disco] = @ - 1] /\ pending[Disco] > 0
        /\ value' = [value EXCEPT ![Disco] = @ + 1] /\ UNCHANGED <<pc, luego, espera>>
    BY <1>6 DEF HandleInterrupt, CheckIfDue, Despertar
  <2>2. /\ pending \in [Dispositivos -> Nat] /\ value \in [Semaforos -> Nat]
        /\ Disco \in Dispositivos /\ Disco \in Semaforos
    BY Internas DEF InvC, Inv, TypeOK
  <2>3. Suma' = Suma
    BY <2>1, <2>2 DEF Suma
  <2> QED
    BY <2>1, <2>3, NadieEspera
<1>7. CASE UNCHANGED varsC
  BY <1>7, NadieEspera DEF varsC, vars, semaforos, Suma
<1> QED
  BY <1>1, <1>2, <1>3, <1>4, <1>5, <1>6, <1>7 DEF NextC

\* Initially no request is completed.
LEMMA CompletadaInicial == InitC => UnaCompletadaPorEspera
<1> SUFFICES ASSUME InitC PROVE UnaCompletadaPorEspera
  OBVIOUS
<1>1. pending[Disco] = 0 /\ value[Disco] = 0
  BY CerrojosAssumption DEF InitC, Init
<1>2. \A h \in Hilos : pc[h] \in {"programa", "nuevo"}
  BY CerrojosAssumption DEF InitC, Init
<1>3. {h \in Hilos : EsperaDisco(h)} = {}
  BY <1>2 DEF EsperaDisco, Punto
<1> QED
  BY <1>1, <1>3, FS_EmptySet DEF UnaCompletadaPorEspera

-------------------------------------------------------------------------------
(* The barrier                                                             *)

PuntosBarrera ==
    {"Lock", "Lock.P", "contar", "descontar", "leer", "Unlock", "Unlock.V", "Unlock.titular",
     "mirar", "pasada"}

\* h has counted itself, as Llegados says.
Llegado(h) ==
    \/ Punto(h) \in {"leer", "mirar", "pasada", "Lock", "Finish", "borrado"}
    \/ Punto(h) = "Lock.P" /\ mutex[h] = Barrera
    \/ Punto(h) \in {"Unlock", "Unlock.V", "Unlock.titular"}

\* The counter is how many have not.
Cuenta == counter + Cardinality({h \in Citados : Llegado(h)}) = Cuantos

\* What h has read is the counter, while it holds its mutex, or an older value of it.
LeidoB(h) ==
    /\ Punto(h) \in PuntosBarrera => h \in Citados
    /\ Punto(h) \in {"contar", "descontar"} => mutex[h] = Contador
    /\ Punto(h) = "leer" => mutex[h] = Barrera
    /\ Punto(h) = "descontar" => leido[h] = counter
    /\ Punto(h) \in {"Unlock", "Unlock.V", "Unlock.titular"} /\ mutex[h] = Barrera => leido[h] >= counter
    /\ Punto(h) = "mirar" => leido[h] >= counter
    /\ Punto(h) \in {"pasada", "Finish", "borrado"} /\ h \in Citados => counter <= 0

BarreraInv == Cuenta /\ \A h \in Hilos : LeidoB(h)

\* What a step leaves to a thread that does not take it.
OtroB(h) ==
    /\ \/ Punto(h)' = Punto(h)
       \/ Punto(h) = "Finish" /\ Punto(h)' = "borrado"
       \/ Punto(h) = "nuevo" /\ Punto(h)' = "ThreadRoot"
    /\ mutex'[h] = mutex[h] /\ leido'[h] = leido[h]

\* One thread more is counted as the counter goes down.
LEMMA CuentaB ==
    ASSUME TypeOKC, Cuenta, NEW c \in Hilos,
           \A h \in Hilos : h # c => (Llegado(h)' <=> Llegado(h)),
           \/ (Llegado(c)' <=> Llegado(c)) /\ counter' = counter
           \/ c \in Citados /\ ~Llegado(c) /\ Llegado(c)' /\ counter' = counter - 1
    PROVE  Cuenta'
<1> DEFINE E == {h \in Citados : Llegado(h)}
           F == {h \in Citados : Llegado(h)'}
<1>1. /\ IsFiniteSet(E) /\ Cardinality(E) \in Nat
      /\ counter \in Int /\ counter + Cardinality(E) = Cuantos
  <2>1. E \subseteq Hilos
    BY CerrojosAssumption
  <2>2. IsFiniteSet(E)
    BY <2>1, HilosAssumption, FS_Subset
  <2> QED
    BY <2>2, FS_CardinalityType DEF TypeOKC, Cuenta
<1>2. /\ \A h \in Citados : h \in E <=> Llegado(h)
      /\ \A h \in Citados : h \in F <=> Llegado(h)'
      /\ E \subseteq Citados /\ F \subseteq Citados /\ Citados \subseteq Hilos
  BY CerrojosAssumption
<1> HIDE DEF E, F
<1>3. CASE (Llegado(c)' <=> Llegado(c)) /\ counter' = counter
  <2>1. F = E
    BY <1>2, <1>3
  <2> QED
    BY <1>1, <1>3, <2>1 DEF Cuenta, F
<1>4. CASE c \in Citados /\ ~Llegado(c) /\ Llegado(c)' /\ counter' = counter - 1
  <2>1. F = E \union {c} /\ c \notin E
    BY <1>2, <1>4
  <2>2. Cardinality(F) = Cardinality(E) + 1
    BY <1>1, <2>1, FS_AddElement
  <2> QED
    BY <1>1, <1>4, <2>2 DEF Cuenta, F
<1> QED
  BY <1>3, <1>4

\* A thread that a step leaves alone has still counted itself or not, and what it
\* has read has not become less than the counter.
LEMMA OtroBLema ==
    ASSUME TypeOKC, NEW h \in Hilos, OtroB(h), LeidoB(h),
           counter' = counter \/ (counter' = counter - 1 /\ Punto(h) # "descontar")
    PROVE  (Llegado(h)' <=> Llegado(h)) /\ LeidoB(h)'
<1>1. counter \in Int /\ leido[h] \in Int
  BY DEF TypeOKC
<1>2. CASE Punto(h)' = Punto(h)
  <2>1. Llegado(h)' <=> Llegado(h)
    BY <1>2 DEF OtroB, Llegado
  <2>2. LeidoB(h)'
    BY <1>1, <1>2 DEF OtroB, LeidoB
  <2> QED
    BY <2>1, <2>2
<1>3. CASE Punto(h) = "Finish" /\ Punto(h)' = "borrado"
  BY <1>1, <1>3 DEF Llegado, LeidoB, PuntosBarrera
<1>4. CASE Punto(h) = "nuevo" /\ Punto(h)' = "ThreadRoot"
  BY <1>4 DEF Llegado, LeidoB, PuntosBarrera
<1> QED
  BY <1>2, <1>3, <1>4 DEF OtroB

\* A step of c that leaves the counter alone.
LEMMA PasoB ==
    ASSUME TypeOKC, BarreraInv, NEW c \in Hilos, \A h \in Hilos : h # c => OtroB(h),
           counter' = counter, LeidoB(c)', Llegado(c)' <=> Llegado(c)
    PROVE  BarreraInv'
<1>1. \A h \in Hilos : h # c => (Llegado(h)' <=> Llegado(h)) /\ LeidoB(h)'
  BY OtroBLema DEF BarreraInv
<1>2. Cuenta'
  BY <1>1, CuentaB DEF BarreraInv
<1> QED
  BY <1>1, <1>2 DEF BarreraInv

\* Threads that stay where they are, with what they have read.
LEMMA QuietosB ==
    ASSUME TypeOKC, Quietos, NEW c \in Hilos, c = currentThread,
           mutex' = mutex \/ (\E s : mutex' = [mutex EXCEPT ![c] = s]),
           leido' = leido \/ (\E n : leido' = [leido EXCEPT ![c] = n])
    PROVE  \A h \in Hilos : h # c => OtroB(h)
<1> SUFFICES ASSUME NEW h \in Hilos, h # c PROVE OtroB(h)
  OBVIOUS
<1>1. mutex'[h] = mutex[h] /\ leido'[h] = leido[h]
  BY DEF TypeOKC
<1>2. Punto(h)' = Punto(h) \/ (Punto(h) = "Finish" /\ Punto(h)' = "borrado")
  BY DEF Quietos, Quieto, Punto
<1> QED
  BY <1>1, <1>2 DEF OtroB

\* Where a call leaves the running thread.
LEMMA LlamadaB ==
    ASSUME Inv, NEW c \in Hilos, c = currentThread, pc[c] \in PuntosCerrojos, NEW p \in PuntosCerrojos,
           \/ Avanzar(p) \/ Schedule(Disco, p) \/ Yield(p)
           \/ \E s \in Semaforos : P(s, p) \/ V(s, p)
    PROVE  Quietos /\ Punto(c) = pc[c] /\ Punto(c)' = p
<1>1. p \in Puntos /\ p # "P" /\ p # "Yield" /\ Disco \in Dispositivos
  BY Internas DEF PuntosCerrojos
<1>2. Punto(c) = pc[c]
  BY PuntoLema
<1>3. Quietos /\ Punto(c)' = p
  <2>1. CASE Avanzar(p) \/ Schedule(Disco, p)
    BY <1>1, <2>1, AvanzarEs DEF Sigue, Punto
  <2>2. CASE Yield(p)
    BY <1>1, <2>2, YieldEs DEF Sigue, Punto
  <2>3. ASSUME NEW s \in Semaforos, P(s, p) PROVE Quietos /\ Punto(c)' = p
    BY <1>1, <2>3, PEs DEF Sigue, Punto
  <2>4. ASSUME NEW s \in Semaforos, V(s, p) PROVE Quietos /\ Punto(c)' = p
    BY <1>1, <2>4, VEs DEF Sigue, Punto
  <2> QED
    BY <2>1, <2>2, <2>3, <2>4
<1> QED
  BY <1>2, <1>3

\* Who is at contar or descontar has the mutex of the counter.
LEMMA SoloUnoCuenta ==
    ASSUME InvC, BarreraInv, NEW g \in Hilos, NEW h \in Hilos,
           Punto(g) = "descontar", Punto(h) = "descontar"
    PROVE  g = h
<1>1. /\ mutex[g] = Contador /\ mutex[h] = Contador /\ EsperaC(g) /\ EsperaC(h)
  BY DEF BarreraInv, LeidoB, InvC
<1>2. Dueno(g, Contador) /\ Dueno(h, Contador)
  BY <1>1 DEF Dueno, EsperaC, Punto, Mutexes
<1> QED
  BY <1>2 DEF InvC, UnSoloDueno, Mutexes

\* The steps at the barrier keep the count.
LEMMA BarreraB ==
    ASSUME InvC, BarreraInv, BarrierWait
    PROVE  BarreraInv'
<1>1. PICK c \in Hilos : c = currentThread
  BY Tipos DEF InvC
<1>2. /\ Inv /\ TypeOKC /\ mutex[c] \in {Contador, Barrera} /\ Contador # Barrera
      /\ Contador \in Semaforos /\ Barrera \in Semaforos /\ LeidoB(c)
      /\ counter \in Int /\ leido[c] \in Int /\ mutex \in [Hilos -> Mutexes] /\ leido \in [Hilos -> Int]
  BY Internas, CerrojosAssumption DEF InvC, TypeOKC, Mutexes, BarreraInv
<1>3. PuntosBarrera \union {"programa"} \subseteq PuntosCerrojos
  BY DEF PuntosCerrojos, PuntosBarrera
\* A step that leaves the counter, from q to p.
<1>4. ASSUME NEW q \in PuntosBarrera \union {"programa"}, NEW p \in PuntosBarrera, pc[c] = q,
             \/ Avanzar(p) \/ \E s \in Semaforos : P(s, p) \/ V(s, p)
      PROVE  Quietos /\ Punto(c) = q /\ Punto(c)' = p
  BY <1>1, <1>2, <1>3, <1>4, LlamadaB
<1>5. ASSUME counter' = counter, Quietos, LeidoB(c)', Llegado(c)' <=> Llegado(c),
             mutex' = mutex \/ (\E s : mutex' = [mutex EXCEPT ![c] = s]),
             leido' = leido \/ (\E n : leido' = [leido EXCEPT ![c] = n])
      PROVE  BarreraInv'
  BY <1>1, <1>2, <1>5, QuietosB, PasoB
<1>6. CASE currentThread \in Citados /\ Lock("programa", Contador)
  <2>1. /\ pc[c] = "programa" /\ Avanzar("Lock.P") /\ mutex' = [mutex EXCEPT ![c] = Contador]
        /\ UNCHANGED <<counter, leido>> /\ c \in Citados
    BY <1>1, <1>6 DEF Lock, En
  <2>2. Quietos /\ Punto(c) = "programa" /\ Punto(c)' = "Lock.P"
    BY <1>4, <2>1 DEF PuntosBarrera
  <2>3. LeidoB(c)' /\ (Llegado(c)' <=> Llegado(c))
    BY <1>2, <2>1, <2>2 DEF LeidoB, Llegado, PuntosBarrera
  <2> QED
    BY <1>5, <2>1, <2>2, <2>3
<1>7. CASE Lock("Lock", Barrera)
  <2>1. /\ pc[c] = "Lock" /\ Avanzar("Lock.P") /\ mutex' = [mutex EXCEPT ![c] = Barrera]
        /\ UNCHANGED <<counter, leido>>
    BY <1>1, <1>7 DEF Lock, En
  <2>2. Quietos /\ Punto(c) = "Lock" /\ Punto(c)' = "Lock.P"
    BY <1>4, <2>1 DEF PuntosBarrera
  <2>3. LeidoB(c)' /\ (Llegado(c)' <=> Llegado(c))
    BY <1>2, <2>1, <2>2 DEF LeidoB, Llegado, PuntosBarrera
  <2> QED
    BY <1>5, <2>1, <2>2, <2>3
<1>8. CASE MutexLock
  <2>1. /\ pc[c] = "Lock.P" /\ UNCHANGED <<mutex, counter, leido>>
        /\ P(mutex[c], IF mutex[c] = Contador THEN "contar" ELSE "leer")
    BY <1>1, <1>8 DEF MutexLock, De, En, objetos
  <2>2. CASE mutex[c] = Contador
    <3>1. Quietos /\ Punto(c) = "Lock.P" /\ Punto(c)' = "contar"
      BY <1>2, <1>4, <2>1, <2>2 DEF PuntosBarrera
    <3>2. LeidoB(c)' /\ (Llegado(c)' <=> Llegado(c))
      BY <1>2, <2>1, <2>2, <3>1 DEF LeidoB, Llegado, PuntosBarrera
    <3> QED
      BY <1>5, <2>1, <3>1, <3>2
  <2>3. CASE mutex[c] = Barrera
    <3>1. Quietos /\ Punto(c) = "Lock.P" /\ Punto(c)' = "leer"
      BY <1>2, <1>4, <2>1, <2>3 DEF PuntosBarrera
    <3>2. LeidoB(c)' /\ (Llegado(c)' <=> Llegado(c))
      BY <1>2, <2>1, <2>3, <3>1 DEF LeidoB, Llegado, PuntosBarrera
    <3> QED
      BY <1>5, <2>1, <3>1, <3>2
  <2> QED
    BY <1>2, <2>2, <2>3
<1>9. CASE MutexUnlock
  <2>1. \E q \in {"Unlock", "Unlock.V", "Unlock.titular"},
           p \in {"Unlock.V", "Unlock.titular", "Lock", "mirar"} :
           /\ pc[c] = q /\ (Avanzar(p) \/ \E s \in Semaforos : P(s, p) \/ V(s, p))
           /\ p = "mirar" => mutex[c] = Barrera
           /\ UNCHANGED <<mutex, counter, leido>>
    BY <1>1, <1>2, <1>9 DEF MutexUnlock, De, En, objetos
  <2>2. PICK q \in {"Unlock", "Unlock.V", "Unlock.titular"},
             p \in {"Unlock.V", "Unlock.titular", "Lock", "mirar"} :
           /\ pc[c] = q /\ (Avanzar(p) \/ \E s \in Semaforos : P(s, p) \/ V(s, p))
           /\ p = "mirar" => mutex[c] = Barrera
           /\ UNCHANGED <<mutex, counter, leido>>
    BY <2>1
  <2>3. Quietos /\ Punto(c) = q /\ Punto(c)' = p
    BY <1>4, <2>2 DEF PuntosBarrera
  <2>4. LeidoB(c)' /\ (Llegado(c)' <=> Llegado(c))
    BY <1>2, <2>2, <2>3 DEF LeidoB, Llegado, PuntosBarrera
  <2> QED
    BY <1>5, <2>2, <2>3, <2>4
<1>10. ASSUME NEW q \in {"contar", "leer"}, NEW p, LeerCounter(q, p),
              q = "contar" => p = "descontar", q = "leer" => p = "Unlock"
       PROVE  BarreraInv'
  <2>1. /\ pc[c] = q /\ Avanzar(p) /\ leido' = [leido EXCEPT ![c] = counter]
        /\ UNCHANGED <<mutex, counter>>
    BY <1>1, <1>10 DEF LeerCounter, En
  <2>2. Quietos /\ Punto(c) = q /\ Punto(c)' = p
    BY <1>4, <1>10, <2>1 DEF PuntosBarrera
  <2>3. leido'[c] = counter /\ counter' = counter /\ mutex'[c] = mutex[c]
    BY <1>2, <2>1
  <2>4. LeidoB(c)' /\ (Llegado(c)' <=> Llegado(c))
    BY <1>2, <1>10, <2>2, <2>3 DEF LeidoB, Llegado, PuntosBarrera
  <2> QED
    BY <1>5, <2>1, <2>2, <2>4
<1>11. CASE Descontar
  <2>1. /\ pc[c] = "descontar" /\ Avanzar("Unlock") /\ counter' = leido[c] - 1
        /\ leido' = [leido EXCEPT ![c] = 0] /\ mutex' = mutex
    BY <1>1, <1>11 DEF Descontar, En
  <2>2. Quietos /\ Punto(c) = "descontar" /\ Punto(c)' = "Unlock"
    BY <1>4, <2>1 DEF PuntosBarrera
  <2>3. mutex[c] = Contador /\ counter' = counter - 1 /\ c \in Citados
    BY <1>2, <2>1, <2>2 DEF LeidoB, PuntosBarrera
  <2>4. \A h \in Hilos : h # c => OtroB(h) /\ Punto(h) # "descontar"
    BY <1>1, <1>2, <2>1, <2>2, QuietosB, SoloUnoCuenta
  <2>5. \A h \in Hilos : h # c => (Llegado(h)' <=> Llegado(h)) /\ LeidoB(h)'
    BY <1>2, <2>3, <2>4, OtroBLema DEF BarreraInv
  <2>6. ~Llegado(c) /\ Llegado(c)'
    BY <2>2 DEF Llegado
  <2>7. LeidoB(c)'
    BY <1>2, <2>1, <2>2, <2>3 DEF LeidoB, PuntosBarrera
  <2>8. Cuenta'
    BY <1>2, <2>3, <2>5, <2>6, CuentaB DEF BarreraInv
  <2> QED
    BY <2>5, <2>7, <2>8 DEF BarreraInv
<1>12. CASE Mirar
  <2>1. /\ pc[c] = "mirar" /\ UNCHANGED <<mutex, counter, leido>>
        /\ Avanzar("Lock") \/ (leido[c] <= 0 /\ Avanzar("pasada"))
    BY <1>1, <1>12 DEF Mirar, De, En, objetos
  <2>2. Quietos /\ Punto(c) = "mirar"
        /\ (Punto(c)' = "Lock" \/ (leido[c] <= 0 /\ Punto(c)' = "pasada"))
    BY <1>4, <2>1 DEF PuntosBarrera
  <2>3. LeidoB(c)' /\ (Llegado(c)' <=> Llegado(c))
    BY <1>2, <2>1, <2>2 DEF LeidoB, Llegado, PuntosBarrera
  <2> QED
    BY <1>5, <2>1, <2>2, <2>3
<1> QED
  BY <1>6, <1>7, <1>8, <1>9, <1>10, <1>11, <1>12 DEF BarrierWait

\* A Yield, a switch, the start and the end of a thread and what touches none keep
\* the count.
LEMMA KernelB ==
    ASSUME InvC, Inv', BarreraInv, UNCHANGED <<mutex, counter, leido>>,
           \/ Turno \/ Arrancar \/ De("pasada", Finish) \/ Reanudar
           \/ currentThread \notin Citados /\ De("programa", Finish)
           \/ UNCHANGED <<pc, luego>>
    PROVE  BarreraInv'
<1>1. PICK c \in Hilos : c = currentThread
  BY Tipos DEF InvC
<1>2. Inv /\ TypeOKC /\ LeidoB(c) /\ EsperaC(c)
  BY DEF InvC, BarreraInv
<1>3. ASSUME \A h \in Hilos : h # c => OtroB(h), Punto(c)' = Punto(c)
      PROVE  BarreraInv'
  <2>1. LeidoB(c)' /\ (Llegado(c)' <=> Llegado(c))
    BY <1>2, <1>3 DEF LeidoB, Llegado
  <2> QED
    BY <1>2, <1>3, <2>1, PasoB
<1>4. CASE Turno
  <2>1. PICK p \in PuntosCerrojos : pc[c] = p /\ Yield(p)
    BY <1>1, <1>4, Internas DEF Turno, De, En
  <2>2. Quietos /\ Punto(c)' = Punto(c)
    BY <1>1, <1>2, <2>1, LlamadaB
  <2> QED
    BY <1>1, <1>2, <1>3, <2>2, QuietosB
<1>5. CASE Reanudar
  <2>1. Quietos
    BY <1>2, <1>5, ReanudarEs
  <2>2. \A h \in Hilos : h # c => OtroB(h)
    BY <1>1, <1>2, <2>1, QuietosB
  <2>3. luego[c] # "P" /\ luego[c] # "Yield"
    BY <1>2, Internas, Tipos DEF PuntosCerrojos
  <2>4. \/ Punto(c)' = Punto(c)
        \/ Punto(c) = "ThreadRoot" /\ Punto(c)' = "programa"
    BY <1>1, <1>2, <1>5, <2>3, ReanudarEs, Internas DEF Punto, Sigue
  <2>5. CASE Punto(c) = "ThreadRoot" /\ Punto(c)' = "programa"
    <3>1. LeidoB(c)' /\ (Llegado(c)' <=> Llegado(c))
      BY <2>5 DEF LeidoB, Llegado, PuntosBarrera
    <3> QED
      BY <1>2, <2>2, <3>1, PasoB
  <2> QED
    BY <1>3, <2>2, <2>4, <2>5
<1>6. CASE Arrancar
  <2>1. PICK h \in Hilos : pc[c] = "programa" /\ Fork(h, "programa")
    BY <1>1, <1>6 DEF Arrancar, De, En
  <2>2. /\ pc' = [pc EXCEPT ![h] = "ThreadRoot", ![c] = "programa"]
        /\ pc[h] = "nuevo" /\ UNCHANGED luego
    BY <1>1, <2>1 DEF Fork, semaforos
  <2>3. \A g \in Hilos : g # c => OtroB(g)
    BY <1>2, <2>1, <2>2, Tipos DEF OtroB, Punto
  <2>4. Punto(c)' = Punto(c)
    BY <1>2, <2>1, <2>2, Tipos DEF Punto
  <2> QED
    BY <1>3, <2>3, <2>4
<1>7. ASSUME NEW q \in {"programa", "pasada"}, De(q, Finish), q = "programa" => c \notin Citados
      PROVE  BarreraInv'
  <2>1. pc[c] = q /\ Ir("Finish") /\ UNCHANGED <<luego, espera>>
    BY <1>1, <1>7 DEF De, En, Finish
  <2>2. Quietos /\ Punto(c) = q /\ Punto(c)' = "Finish"
    BY <1>1, <1>2, <2>1, IrEs DEF Sigue, Punto
  <2>3. \A h \in Hilos : h # c => OtroB(h)
    BY <1>1, <1>2, <2>2, QuietosB
  <2>4. LeidoB(c)'
    BY <1>2, <1>7, <2>2 DEF LeidoB, PuntosBarrera
  <2>5. CASE c \in Citados
    <3>1. Llegado(c)' <=> Llegado(c)
      BY <1>7, <2>2, <2>5 DEF Llegado
    <3> QED
      BY <1>2, <2>3, <2>4, <3>1, PasoB
  <2>6. CASE c \notin Citados
    <3>1. \A h \in Hilos : h # c => (Llegado(h)' <=> Llegado(h)) /\ LeidoB(h)'
      BY <1>2, <2>3, OtroBLema DEF BarreraInv
    <3>2. {h \in Citados : Llegado(h)'} = {h \in Citados : Llegado(h)}
      BY <2>6, <3>1, CerrojosAssumption
    <3>3. Cuenta'
      BY <3>2 DEF BarreraInv, Cuenta
    <3> QED
      BY <2>4, <3>1, <3>3 DEF BarreraInv
  <2> QED
    BY <2>5, <2>6
<1>8. CASE UNCHANGED <<pc, luego>>
  <2>1. \A h \in Hilos : OtroB(h)
    BY <1>8 DEF OtroB, Punto
  <2>2. Punto(c)' = Punto(c)
    BY <1>8 DEF Punto
  <2> QED
    BY <1>3, <2>1, <2>2
<1> QED
  BY <1>1, <1>4, <1>5, <1>6, <1>7, <1>8

\* What a thread does with the disk keeps the barrier.
LEMMA DiscoB ==
    ASSUME InvC, Inv', BarreraInv, ReadSector
    PROVE  BarreraInv'
<1>1. PICK c \in Hilos : c = currentThread
  BY Tipos DEF InvC
<1>2. Inv /\ TypeOKC /\ Cerrojo \in Semaforos /\ Disco \in Semaforos
  BY Internas DEF InvC
<1> DEFINE Q == PuntosCerrojos \ PuntosBarrera
<1>3. Q = {"programa", "Acquire", "Acquire.P", "Acquire.titular", "peticion", "activar",
           "programar", "esperar", "Release", "Release.V", "Release.titular"}
  BY DEF PuntosCerrojos, PuntosBarrera
<1> DEFINE Otra(p) == Avanzar(p) \/ Schedule(Disco, p) \/ \E s \in Semaforos : P(s, p) \/ V(s, p)
<1>4. UNCHANGED <<mutex, counter, leido>>
  BY DEF ReadSector, Acquire, Release, Peticion, De, objetos
<1>5. \/ UNCHANGED vars
      \/ \E p \in Q : pc[c] \in Q /\ Otra(p)
  <2>1. CASE Acquire
    BY <1>1, <1>2, <1>3, <2>1 DEF Acquire, De, En
  <2>2. CASE Release
    BY <1>1, <1>2, <1>3, <2>2 DEF Release, De, En
  <2>3. CASE Peticion
    BY <1>1, <1>2, <1>3, <2>3 DEF Peticion, De, En
  <2>4. CASE De("programa", Avanzar("Acquire")) \/ De("esperar", P(Disco, "Release"))
    BY <1>1, <1>2, <1>3, <2>4 DEF De, En
  <2> QED
    BY <2>1, <2>2, <2>3, <2>4 DEF ReadSector
<1>6. CASE UNCHANGED vars
  BY <1>4, <1>6, KernelB DEF vars
<1>7. ASSUME NEW p \in Q, pc[c] \in Q, Otra(p) PROVE BarreraInv'
  <2>1. Quietos /\ Punto(c) \in Q /\ Punto(c)' \in Q
    BY <1>1, <1>2, <1>7, LlamadaB
  <2>2. LeidoB(c)' /\ ~Llegado(c) /\ ~Llegado(c)'
    BY <1>3, <2>1 DEF LeidoB, Llegado, PuntosBarrera
  <2>3. \A h \in Hilos : h # c => OtroB(h)
    BY <1>1, <1>2, <1>4, <2>1, QuietosB
  <2> QED
    BY <1>2, <1>4, <2>2, <2>3, PasoB
<1> QED
  BY <1>5, <1>6, <1>7

\* BarreraInv is inductive, given the invariant.
LEMMA BarreraInductiva == InvC /\ Inv' /\ BarreraInv /\ [NextC]_varsC => BarreraInv'
<1> SUFFICES ASSUME InvC, Inv', BarreraInv, [NextC]_varsC PROVE BarreraInv'
  OBVIOUS
<1>1. CASE BarrierWait
  BY <1>1, BarreraB
<1>2. CASE ReadSector
  BY <1>2, DiscoB
<1>3. CASE Turno \/ Arrancar \/ De("pasada", Finish) \/ (currentThread \notin Citados /\ De("programa", Finish))
  <2>1. UNCHANGED <<mutex, counter, leido>>
    BY <1>3 DEF Turno, Arrancar, De, objetos
  <2> QED
    BY <1>3, <2>1, KernelB
<1>4. CASE Reanudar /\ UNCHANGED objetos
  BY <1>4, KernelB DEF objetos
<1>5. CASE (DejarOcio \/ Halt) /\ UNCHANGED objetos
  BY <1>5, KernelB DEF DejarOcio, Halt, objetos
<1>6. CASE HandleInterrupt
  BY <1>6, KernelB DEF HandleInterrupt, CheckIfDue
<1>7. CASE UNCHANGED varsC
  BY <1>7, KernelB DEF varsC, vars, objetos
<1> QED
  BY <1>1, <1>2, <1>3, <1>4, <1>5, <1>6, <1>7 DEF NextC

\* Initially nobody has counted itself.
LEMMA BarreraInicial == InitC => BarreraInv
<1> SUFFICES ASSUME InitC PROVE BarreraInv
  OBVIOUS
<1>1. counter = Cuantos /\ \A h \in Hilos : pc[h] \in {"programa", "nuevo"}
  BY CerrojosAssumption DEF InitC, Init
<1>2. \A h \in Hilos : Punto(h) \in {"programa", "nuevo"}
  BY <1>1 DEF Punto
<1>3. \A h \in Hilos : LeidoB(h) /\ ~Llegado(h)
  BY <1>2 DEF LeidoB, Llegado, PuntosBarrera
<1>4. {h \in Citados : Llegado(h)} = {}
  BY <1>3, CerrojosAssumption
<1>5. Cuenta
  BY <1>1, <1>4, FS_EmptySet, CerrojosAssumption DEF Cuenta
<1> QED
  BY <1>3, <1>5 DEF BarreraInv

\* With the counter at zero all have counted themselves.
LEMMA BarreraBasta == InvC /\ BarreraInv => BarreraCerrada
<1> SUFFICES ASSUME InvC, BarreraInv, NEW h \in Citados, Punto(h) \in {"pasada", "Finish", "borrado"}
             PROVE  Cardinality(Llegados) >= Cuantos
  BY DEF BarreraCerrada
<1>1. counter <= 0 /\ counter \in Int
  BY CerrojosAssumption DEF BarreraInv, LeidoB, InvC, TypeOKC
<1>2. Llegados = {g \in Citados : Llegado(g)}
  BY DEF Llegados, Llegado
<1>3. Llegados \subseteq Hilos
  BY CerrojosAssumption DEF Llegados
<1>4. Cardinality(Llegados) \in Nat
  BY <1>3, HilosAssumption, FS_Subset, FS_CardinalityType
<1>5. counter + Cardinality(Llegados) = Cuantos
  BY <1>2 DEF BarreraInv, Cuenta
<1> QED
  BY <1>1, <1>4, <1>5, CerrojosAssumption

-------------------------------------------------------------------------------
(* Theorems                                                                *)

\* The invariant holds in every reachable state.
LEMMA InvCSiempre == SpecC => []InvC
BY InicialC, InductivoC, PTL DEF SpecC

\* Every variable of the locks, the barrier and the disk keeps its type.
THEOREM TypeOKCSiempre == SpecC => []TypeOKC
<1>1. InvC => TypeOKC
  BY DEF InvC
<1> QED
  BY <1>1, InvCSiempre, PTL

\* At most one thread is between the P and the V of a lock or mutex, whoever
\* holdingThread names: nobody V's one it does not hold.
THEOREM UnSoloDuenoSiempre == SpecC => []UnSoloDueno
<1>1. InvC => UnSoloDueno
  BY DEF InvC
<1> QED
  BY <1>1, InvCSiempre, PTL

\* For every thread that still waits for the disk there is one completion,
\* pending or delivered, and none is left over, however many requests the lock
\* lets through at once.
THEOREM UnaCompletadaSiempre == SpecC => []UnaCompletadaPorEspera
<1>1. InvC => Inv
  BY DEF InvC
<1> QED
  BY <1>1, InvCSiempre, CompletadaInicial, CompletadaInductiva, PTL DEF SpecC

\* Nobody passes the barrier before the last has arrived, although counter-- and
\* the test of the loop are in different critical sections of different mutexes,
\* and a mutex may be left locked for good.
THEOREM BarreraCerradaSiempre == SpecC => []BarreraCerrada
<1>1. InvC => Inv
  BY DEF InvC
<1> QED
  BY <1>1, InvCSiempre, BarreraInicial, BarreraInductiva, BarreraBasta, PTL DEF SpecC
===============================================================================
