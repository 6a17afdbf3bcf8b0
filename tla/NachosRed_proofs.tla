--------------------------- MODULE NachosRed_proofs ---------------------------
(****************************************************************************)
(* Two theorems about NachosRed, for any number of machines that write to    *)
(* any others, with or without -p, any loss of packets and any Ctrl-C, while *)
(* no packet is written over in a device: what reaches the socket of a       *)
(* machine gets to its mailboxes once and in order; and a machine that stops *)
(* of its own accord has been answered by the machine that it wrote to,      *)
(* which had read what it wrote.                                             *)
(****************************************************************************)
EXTENDS NachosRed, SequenceTheorems, WellFoundedInduction, TLAPS

-----------------------------------------------------------------------------
(* Where each thread is, and what it has in hand                             *)

PuntosMain == {"mandar", "esperarEnvio", "abrir", "P", "tomar", "sacar", "V", "soltar", "parar", "fin"}
PuntosWorker == {"esperar", "copiar", "poner", "P", "tomar", "anadir", "V", "soltar", "fin"}

\* Between the device and the mailbox the postal worker has a packet in buffer.
ConBuffer == {"poner", "P", "tomar", "anadir"}

\* The types.
Tipos ==
    /\ estado \in [Maquinas -> {"apagada", "viva", "parada", "cortada", "abortada"}]
    /\ arranques \in [Maquinas -> Nat] /\ fase \in [Maquinas -> Nat]
    /\ preemptive \in [Maquinas -> BOOLEAN] /\ pisado \in [Maquinas -> BOOLEAN]
    /\ pc \in [Maquinas -> [Hilos -> PuntosMain \union PuntosWorker]]
    /\ cola \in [Maquinas -> Seq(Paquetes)] /\ historia \in [Maquinas -> Seq(Paquetes)]
    /\ inHdr \in [Maquinas -> Paquetes \union {Nada}] /\ inbox \in [Maquinas -> Paquetes \union {Nada}]
    /\ hdrT \in [Maquinas -> Paquetes \union {Nada}] /\ buffer \in [Maquinas -> Paquetes \union {Nada}]
    /\ messageAvailable \in [Maquinas -> Nat]
    /\ messages \in [Maquinas -> [Buzones -> Seq(Paquetes)]]
    /\ tomados \in [Maquinas -> [Buzones -> Seq(Paquetes)]]

\* The phase of MailTest goes with the point of main, and a Receive that is over
\* has left its packet in tomados.
MainBien(m) ==
    /\ pc[m]["main"] \in PuntosMain
    /\ pc[m]["main"] \in {"mandar", "esperarEnvio"} =>
          fase[m] = 1 \/ (fase[m] = 3 /\ tomados[m][0] # <<>>)
    /\ pc[m]["main"] \in {"abrir", "P", "tomar", "sacar"} => fase[m] \in {2, 4}
    /\ pc[m]["main"] \in {"V", "soltar"} =>
          (fase[m] = 2 /\ tomados[m][0] # <<>>) \/ (fase[m] = 4 /\ tomados[m][1] # <<>>)
    /\ pc[m]["main"] = "parar" => tomados[m][1] # <<>>

\* messageAvailable announces the packet in the device, if there is one; and
\* what the worker copies is the packet whose header it has, if nothing was
\* written over it, which takes -p.
WorkerBien(m) ==
    /\ pc[m]["worker"] \in PuntosWorker
    /\ messageAvailable[m] = (IF inHdr[m] = Nada THEN 0 ELSE 1)
    /\ inHdr[m] # Nada => inbox[m] = inHdr[m]
    /\ pc[m]["worker"] = "copiar" =>
          hdrT[m] # Nada /\ inbox[m] # Nada /\ (~pisado[m] => inbox[m] = hdrT[m])
    /\ estado[m] = "viva" /\ pisado[m] => preemptive[m]
    /\ pc[m]["worker"] \in ConBuffer => buffer[m] # Nada

\* A machine that is or has been up was started.
ArranqueBien(m) ==
    /\ estado[m] = "viva" => arranques[m] > 0
    /\ arranques[m] = 0 => tomados[m] = [b \in Buzones |-> <<>>] /\ ~pisado[m]
    /\ estado[m] = "parada" => tomados[m][1] # <<>>

Bien(m) == MainBien(m) /\ WorkerBien(m) /\ ArranqueBien(m)
RedInv == Tipos /\ \A m \in Maquinas : Bien(m)

\* Whatever else machine m does, it changes of the others only their sockets.
Ajenas(m) ==
    \A x \in Maquinas \ {m} :
        /\ estado'[x] = estado[x] /\ arranques'[x] = arranques[x] /\ fase'[x] = fase[x]
        /\ pc'[x] = pc[x] /\ inHdr'[x] = inHdr[x] /\ inbox'[x] = inbox[x] /\ hdrT'[x] = hdrT[x]
        /\ buffer'[x] = buffer[x] /\ messageAvailable'[x] = messageAvailable[x]
        /\ messages'[x] = messages[x] /\ tomados'[x] = tomados[x]
        /\ preemptive'[x] = preemptive[x] /\ pisado'[x] = pisado[x]

\* What holds of the others is not disturbed.
LEMMA AjenasBien ==
    ASSUME RedInv, NEW m \in Maquinas, Ajenas(m), Bien(m)'
    PROVE  \A x \in Maquinas : Bien(x)'
<1> SUFFICES ASSUME NEW x \in Maquinas \ {m} PROVE Bien(x)'
  OBVIOUS
<1>1. Bien(x)
  BY DEF RedInv
<1> QED
  BY <1>1 DEF Ajenas, Bien, MainBien, WorkerBien, ArranqueBien

\* An update of one machine.
LEMMA PonLema ==
    ASSUME NEW S, NEW f \in [Maquinas -> S], NEW m \in Maquinas, NEW y \in S
    PROVE  /\ Pon(f, m, y) \in [Maquinas -> S] /\ Pon(f, m, y)[m] = y
           /\ \A x \in Maquinas \ {m} : Pon(f, m, y)[x] = f[x]
BY DEF Pon

\* A move of one thread.
LEMMA IrLema ==
    ASSUME Tipos, NEW m \in Maquinas, NEW t \in Hilos, NEW p \in PuntosMain \union PuntosWorker,
           Ir(m, t, p)
    PROVE  /\ pc' \in [Maquinas -> [Hilos -> PuntosMain \union PuntosWorker]]
           /\ pc'[m][t] = p /\ \A u \in Hilos \ {t} : pc'[m][u] = pc[m][u]
           /\ \A x \in Maquinas \ {m} : pc'[x] = pc[x]
BY DEF Tipos, Ir

\* A machine that starts or ends leaves the memory of the others alone.
MemoriaAjena(m) ==
    \A x \in Maquinas \ {m} :
        /\ fase'[x] = fase[x] /\ cola'[x] = cola[x] /\ inHdr'[x] = inHdr[x]
        /\ inbox'[x] = inbox[x] /\ hdrT'[x] = hdrT[x] /\ buffer'[x] = buffer[x]
        /\ messageAvailable'[x] = messageAvailable[x] /\ messages'[x] = messages[x]
        /\ historia'[x] = historia[x]

\* The memory of a machine that starts or ends.
LEMMA VaciaLema ==
    ASSUME Tipos, NEW m \in Maquinas, Vacia(m)
    PROVE  /\ fase' \in [Maquinas -> Nat] /\ cola' \in [Maquinas -> Seq(Paquetes)]
           /\ inHdr' \in [Maquinas -> Paquetes \union {Nada}]
           /\ inbox' \in [Maquinas -> Paquetes \union {Nada}]
           /\ hdrT' \in [Maquinas -> Paquetes \union {Nada}]
           /\ buffer' \in [Maquinas -> Paquetes \union {Nada}]
           /\ messageAvailable' \in [Maquinas -> Nat]
           /\ messages' \in [Maquinas -> [Buzones -> Seq(Paquetes)]]
           /\ historia' \in [Maquinas -> Seq(Paquetes)]
           /\ fase'[m] = 1 /\ cola'[m] = <<>> /\ inHdr'[m] = Nada /\ messageAvailable'[m] = 0
           /\ historia'[m] = <<>>
           /\ messages'[m] = [b \in Buzones |-> <<>>]
           /\ MemoriaAjena(m)
<1>1. <<>> \in Seq(Paquetes) /\ [b \in Buzones |-> <<>>] \in [Buzones -> Seq(Paquetes)]
  BY EmptySeq
<1> QED
  BY <1>1 DEF Tipos, Vacia, Pon, MemoriaAjena

\* The end of a machine keeps the invariant, if one that stops has been answered.
LEMMA CierraBien ==
    ASSUME RedInv, NEW m \in Maquinas, NEW como \in {"parada", "cortada", "abortada"},
           Cierra(m, como), estado[m] = "viva",
           como = "parada" => tomados[m][1] # <<>>
    PROVE  RedInv' /\ Ajenas(m)
<1> USE DEF RedInv
<1>1. Vacia(m) /\ arranques' = arranques /\ tomados' = tomados /\ pisado' = pisado
  BY DEF Cierra
<1>2. /\ estado' \in [Maquinas -> {"apagada", "viva", "parada", "cortada", "abortada"}]
      /\ estado'[m] = como /\ \A x \in Maquinas \ {m} : estado'[x] = estado[x]
  BY DEF Cierra, Tipos, Pon
<1>3. /\ pc' \in [Maquinas -> [Hilos -> PuntosMain \union PuntosWorker]]
      /\ pc'[m] = [t \in Hilos |-> "fin"] /\ \A x \in Maquinas \ {m} : pc'[x] = pc[x]
  BY DEF Cierra, Tipos, Pon, PuntosMain
<1>4. preemptive' \in [Maquinas -> BOOLEAN] /\ \A x \in Maquinas \ {m} : preemptive'[x] = preemptive[x]
  BY DEF Cierra, Tipos, Pon
<1>5. Tipos'
  BY <1>1, <1>2, <1>3, <1>4, VaciaLema DEF Tipos
<1>6. Ajenas(m)
  <2>1. MemoriaAjena(m)
    BY <1>1, VaciaLema
  <2> QED
    BY <1>1, <1>2, <1>3, <1>4, <2>1 DEF Ajenas, MemoriaAjena
<1>7. pc'[m]["main"] = "fin" /\ pc'[m]["worker"] = "fin"
  BY <1>3 DEF Hilos
<1>8. MainBien(m)' /\ WorkerBien(m)'
  BY <1>1, <1>2, <1>7, VaciaLema DEF MainBien, WorkerBien, ConBuffer, PuntosMain, PuntosWorker
<1>9. ArranqueBien(m)'
  BY <1>1, <1>2 DEF Bien, ArranqueBien
<1> QED
  BY <1>5, <1>6, <1>8, <1>9, AjenasBien DEF Bien

\* The start of a machine keeps it.
LEMMA ArrancarBien ==
    ASSUME RedInv, NEW m \in Maquinas, Arrancar(m)
    PROVE  RedInv' /\ Ajenas(m)
<1> USE DEF RedInv
<1>1. Vacia(m) /\ arranques[m] \in Nat
  BY DEF Arrancar, Tipos
<1>2. /\ estado' \in [Maquinas -> {"apagada", "viva", "parada", "cortada", "abortada"}]
      /\ estado'[m] = "viva" /\ \A x \in Maquinas \ {m} : estado'[x] = estado[x]
  BY DEF Arrancar, Tipos, Pon
<1>3. /\ arranques' \in [Maquinas -> Nat] /\ arranques'[m] = arranques[m] + 1
      /\ \A x \in Maquinas \ {m} : arranques'[x] = arranques[x]
  BY <1>1 DEF Arrancar, Tipos, Pon
<1>4. /\ pc' \in [Maquinas -> [Hilos -> PuntosMain \union PuntosWorker]]
      /\ pc'[m]["main"] = "mandar" /\ pc'[m]["worker"] = "esperar"
      /\ \A x \in Maquinas \ {m} : pc'[x] = pc[x]
  <2>1. [main |-> "mandar", worker |-> "esperar"] \in [Hilos -> PuntosMain \union PuntosWorker]
    BY DEF Hilos, PuntosMain, PuntosWorker
  <2> QED
    BY <2>1 DEF Arrancar, Tipos, Pon
<1>5. preemptive' \in [Maquinas -> BOOLEAN] /\ \A x \in Maquinas \ {m} : preemptive'[x] = preemptive[x]
  <2>1. PICK p \in BOOLEAN : preemptive' = Pon(preemptive, m, p)
    BY DEF Arrancar
  <2> QED
    BY <2>1 DEF Tipos, Pon
<1>6. /\ tomados' \in [Maquinas -> [Buzones -> Seq(Paquetes)]]
      /\ \A x \in Maquinas \ {m} : tomados'[x] = tomados[x]
  <2>1. [b \in Buzones |-> <<>>] \in [Buzones -> Seq(Paquetes)]
    BY EmptySeq
  <2> QED
    BY <2>1 DEF Arrancar, Tipos, Pon
<1>10. /\ pisado' \in [Maquinas -> BOOLEAN] /\ pisado'[m] = FALSE
       /\ \A x \in Maquinas \ {m} : pisado'[x] = pisado[x]
  BY DEF Arrancar, Tipos, Pon
<1>7. Tipos'
  <2>1. /\ fase' \in [Maquinas -> Nat] /\ cola' \in [Maquinas -> Seq(Paquetes)]
        /\ inHdr' \in [Maquinas -> Paquetes \union {Nada}]
        /\ inbox' \in [Maquinas -> Paquetes \union {Nada}]
        /\ hdrT' \in [Maquinas -> Paquetes \union {Nada}]
    BY <1>1, VaciaLema
  <2>2. /\ buffer' \in [Maquinas -> Paquetes \union {Nada}]
        /\ messageAvailable' \in [Maquinas -> Nat]
        /\ messages' \in [Maquinas -> [Buzones -> Seq(Paquetes)]]
        /\ historia' \in [Maquinas -> Seq(Paquetes)]
    BY <1>1, VaciaLema
  <2> QED
    BY <1>2, <1>3, <1>4, <1>5, <1>6, <1>10, <2>1, <2>2 DEF Tipos
<1>8. Ajenas(m)
  <2>1. MemoriaAjena(m)
    BY <1>1, VaciaLema
  <2> QED
    BY <1>2, <1>3, <1>4, <1>5, <1>6, <1>10, <2>1 DEF Ajenas, MemoriaAjena
<1>9. MainBien(m)' /\ WorkerBien(m)' /\ ArranqueBien(m)'
  <2>1. fase'[m] = 1 /\ inHdr'[m] = Nada /\ messageAvailable'[m] = 0
    BY <1>1, VaciaLema
  <2> QED
    BY <1>1, <1>2, <1>3, <1>4, <1>10, <2>1
       DEF MainBien, WorkerBien, ArranqueBien, ConBuffer, PuntosMain, PuntosWorker
<1> QED
  BY <1>7, <1>8, <1>9, AjenasBien DEF Bien

\* What MailTest sends is a packet.
LEMMA PaqueteTipo ==
    ASSUME RedInv, NEW m \in Maquinas, pc[m]["main"] = "mandar"
    PROVE  Paquete(m) \in Paquetes
<1>1. Tipos /\ MainBien(m) /\ lejos[m] \in Maquinas /\ arranques[m] \in Nat
  BY RedAssumption DEF RedInv, Bien, Tipos
<1>2. CASE fase[m] = 1
  BY <1>1, <1>2 DEF Paquete, Primero, Paquetes, Buzones
<1>3. CASE fase[m] # 1
  <2>1. tomados[m][0] \in Seq(Paquetes) /\ tomados[m][0] # <<>>
    BY <1>1, <1>3 DEF MainBien, Tipos, Buzones
  <2>2. tomados[m][0][1] \in Paquetes
    BY <2>1, EmptySeq, ElementOfSeq
  <2> QED
    BY <1>1, <1>3, <2>2 DEF Paquete, Acuse, Paquetes, Buzones
<1> QED
  BY <1>2, <1>3

\* A packet comes into the device when there is none and nobody is copying one.
LEMMA CheckPktAvailBien ==
    ASSUME RedInv, NEW m \in Maquinas, CheckPktAvail(m)
    PROVE  RedInv' /\ Ajenas(m)
<1> USE DEF RedInv
<1>1. Tipos /\ Bien(m) /\ cola[m] \in Seq(Paquetes) /\ cola[m] # <<>> /\ inHdr[m] = Nada
  BY DEF CheckPktAvail, HayCabida, Tipos
<1>2. Head(cola[m]) \in Paquetes /\ Tail(cola[m]) \in Seq(Paquetes) /\ Head(cola[m]) # Nada
  BY <1>1, HeadTailProperties, RedAssumption
<1>3. /\ cola' \in [Maquinas -> Seq(Paquetes)]
      /\ inHdr' \in [Maquinas -> Paquetes \union {Nada}] /\ inHdr'[m] = Head(cola[m])
      /\ inbox' \in [Maquinas -> Paquetes \union {Nada}] /\ inbox'[m] = Head(cola[m])
      /\ messageAvailable' \in [Maquinas -> Nat] /\ messageAvailable'[m] = messageAvailable[m] + 1
      /\ \A x \in Maquinas \ {m} : /\ inHdr'[x] = inHdr[x] /\ inbox'[x] = inbox[x]
                                   /\ messageAvailable'[x] = messageAvailable[x]
  BY <1>1, <1>2 DEF CheckPktAvail, Tipos, Pon
<1>4. UNCHANGED <<estado, preemptive, arranques, fase, pc, hdrT, buffer, messages, tomados, historia>>
  BY DEF CheckPktAvail, maquina, correo
<1>0. /\ pisado' \in [Maquinas -> BOOLEAN] /\ \A x \in Maquinas \ {m} : pisado'[x] = pisado[x]
      /\ pisado'[m] <=> pisado[m] \/ pc[m]["worker"] = "copiar"
  <2>1. PICK q \in BOOLEAN : q = (pisado[m] \/ pc[m]["worker"] = "copiar")
    OBVIOUS
  <2>2. pisado' = Pon(pisado, m, q)
    BY <2>1 DEF CheckPktAvail
  <2> QED
    BY <2>1, <2>2 DEF Tipos, Pon
<1>5. Tipos'
  BY <1>0, <1>1, <1>3, <1>4 DEF Tipos
<1>6. Ajenas(m)
  BY <1>0, <1>3, <1>4 DEF Ajenas
<1>7. pc[m]["worker"] = "copiar" => preemptive[m]
  BY <1>1 DEF CheckPktAvail, Interrumpe, Medio, Hilos, Tipos
<1>8. MainBien(m)' /\ ArranqueBien(m)'
  BY <1>1, <1>4 DEF Bien, MainBien, ArranqueBien, CheckPktAvail, Interrumpe
<1>9. WorkerBien(m)'
  BY <1>0, <1>1, <1>2, <1>3, <1>4, <1>7 DEF Bien, WorkerBien
<1> QED
  BY <1>5, <1>6, <1>8, <1>9, AjenasBien DEF Bien

\* Send puts a packet in the socket of a machine that is up, or loses it.
LEMMA MandarBien ==
    ASSUME RedInv, NEW m \in Maquinas, Mandar(m)
    PROVE  RedInv' /\ Ajenas(m)
<1> USE DEF RedInv
<1>1. pc[m]["main"] = "mandar" /\ Ir(m, "main", "esperarEnvio") /\ "main" \in Hilos
  BY DEF Mandar, Hilos
<1>2. UNCHANGED <<estado, preemptive, arranques, fase, inHdr, inbox, messageAvailable,
                  hdrT, buffer, messages, tomados, pisado>>
  BY DEF Mandar, maquina, correo
<1>3. /\ pc' \in [Maquinas -> [Hilos -> PuntosMain \union PuntosWorker]]
      /\ pc'[m]["main"] = "esperarEnvio" /\ pc'[m]["worker"] = pc[m]["worker"]
      /\ \A x \in Maquinas \ {m} : pc'[x] = pc[x]
  BY <1>1, IrLema DEF PuntosMain, Hilos
<1>4. cola' \in [Maquinas -> Seq(Paquetes)] /\ historia' \in [Maquinas -> Seq(Paquetes)]
  <2>1. PICK p \in Paquetes : p = Paquete(m)
    BY <1>1, PaqueteTipo
  <2>2. p.a \in Maquinas
    BY <2>1 DEF Paquetes
  <2>3. Append(cola[p.a], p) \in Seq(Paquetes) /\ Append(historia[p.a], p) \in Seq(Paquetes)
    BY <2>2, AppendProperties DEF Tipos
  <2>4. \/ cola' = cola /\ historia' = historia
        \/ /\ cola' = Pon(cola, p.a, Append(cola[p.a], p))
           /\ historia' = Pon(historia, p.a, Append(historia[p.a], p))
    BY <2>1 DEF Mandar
  <2>5. cola \in [Maquinas -> Seq(Paquetes)] /\ historia \in [Maquinas -> Seq(Paquetes)]
    BY DEF Tipos
  <2>6. /\ Pon(cola, p.a, Append(cola[p.a], p)) \in [Maquinas -> Seq(Paquetes)]
        /\ Pon(historia, p.a, Append(historia[p.a], p)) \in [Maquinas -> Seq(Paquetes)]
    BY <2>2, <2>3, <2>5, PonLema
  <2> QED
    BY <2>4, <2>5, <2>6
<1>5. Tipos'
  BY <1>2, <1>3, <1>4 DEF Tipos
<1>6. Ajenas(m)
  BY <1>2, <1>3 DEF Ajenas
<1>7. MainBien(m)' /\ WorkerBien(m)' /\ ArranqueBien(m)'
  BY <1>1, <1>2, <1>3 DEF Bien, MainBien, WorkerBien, ArranqueBien, PuntosMain
<1> QED
  BY <1>5, <1>6, <1>7, AjenasBien DEF Bien

\* The sending is over: the phase goes on to the next Receive.
LEMMA EsperarEnvioBien ==
    ASSUME RedInv, NEW m \in Maquinas, EsperarEnvio(m)
    PROVE  RedInv' /\ Ajenas(m)
<1> USE DEF RedInv
<1>1. pc[m]["main"] = "esperarEnvio" /\ Ir(m, "main", "abrir") /\ "main" \in Hilos /\ fase[m] \in Nat
  BY DEF EsperarEnvio, Hilos, Tipos
<1>2. UNCHANGED <<estado, preemptive, arranques, cola, inHdr, inbox, messageAvailable,
                  hdrT, buffer, messages, tomados, historia, pisado>>
  BY DEF EsperarEnvio, maquina, correo, registro
<1>3. /\ pc' \in [Maquinas -> [Hilos -> PuntosMain \union PuntosWorker]]
      /\ pc'[m]["main"] = "abrir" /\ pc'[m]["worker"] = pc[m]["worker"]
      /\ \A x \in Maquinas \ {m} : pc'[x] = pc[x]
  BY <1>1, IrLema DEF PuntosMain, Hilos
<1>4. /\ fase' \in [Maquinas -> Nat] /\ fase'[m] = fase[m] + 1
      /\ \A x \in Maquinas \ {m} : fase'[x] = fase[x]
  BY <1>1 DEF EsperarEnvio, Tipos, Pon
<1>5. Tipos'
  BY <1>2, <1>3, <1>4 DEF Tipos
<1>6. Ajenas(m)
  BY <1>2, <1>3, <1>4 DEF Ajenas
<1>7. MainBien(m)' /\ WorkerBien(m)' /\ ArranqueBien(m)'
  BY <1>1, <1>2, <1>3, <1>4 DEF Bien, MainBien, WorkerBien, ArranqueBien, PuntosMain
<1> QED
  BY <1>5, <1>6, <1>7, AjenasBien DEF Bien

\* Remove leaves the packet in tomados.
LEMMA SacarBien ==
    ASSUME RedInv, NEW m \in Maquinas, Sacar(m)
    PROVE  /\ RedInv' /\ Ajenas(m)
           /\ \E b \in Buzones :
                 /\ messages[m][b] # <<>>
                 /\ messages' = [messages EXCEPT ![m][b] = Tail(messages[m][b])]
                 /\ tomados' = [tomados EXCEPT ![m][b] = Append(tomados[m][b], Head(messages[m][b]))]
<1> USE DEF RedInv
<1>1. pc[m]["main"] = "sacar" /\ Ir(m, "main", "V") /\ "main" \in Hilos /\ fase[m] \in {2, 4}
  BY DEF Sacar, Hilos, Bien, MainBien
<1>2. UNCHANGED <<estado, preemptive, arranques, fase, cola, inHdr, inbox, messageAvailable,
                  hdrT, buffer, historia, pisado>>
  BY DEF Sacar, maquina, dispositivo
<1>3. /\ pc' \in [Maquinas -> [Hilos -> PuntosMain \union PuntosWorker]]
      /\ pc'[m]["main"] = "V" /\ pc'[m]["worker"] = pc[m]["worker"]
      /\ \A x \in Maquinas \ {m} : pc'[x] = pc[x]
  BY <1>1, IrLema DEF PuntosMain, Hilos
<1>4. PICK b \in Buzones : b = BuzonDe(m) /\ b = (IF fase[m] = 2 THEN 0 ELSE 1)
  BY DEF BuzonDe, Buzones
<1>5. /\ messages[m][b] # <<>>
      /\ messages' = [messages EXCEPT ![m][b] = Tail(messages[m][b])]
      /\ tomados' = [tomados EXCEPT ![m][b] = Append(tomados[m][b], Head(messages[m][b]))]
  BY <1>4 DEF Sacar
<1>6. /\ messages[m][b] \in Seq(Paquetes) /\ tomados[m][b] \in Seq(Paquetes)
      /\ Head(messages[m][b]) \in Paquetes /\ Tail(messages[m][b]) \in Seq(Paquetes)
  BY <1>4, <1>5, HeadTailProperties DEF Tipos
<1>7. /\ Append(tomados[m][b], Head(messages[m][b])) \in Seq(Paquetes)
      /\ Append(tomados[m][b], Head(messages[m][b])) # <<>>
  BY <1>6, AppendProperties, EmptySeq, LenProperties
<1>8. /\ messages' \in [Maquinas -> [Buzones -> Seq(Paquetes)]]
      /\ tomados' \in [Maquinas -> [Buzones -> Seq(Paquetes)]] /\ tomados'[m][b] # <<>>
      /\ \A x \in Maquinas \ {m} : messages'[x] = messages[x] /\ tomados'[x] = tomados[x]
      /\ \A c \in Buzones \ {b} : tomados'[m][c] = tomados[m][c]
  BY <1>4, <1>5, <1>6, <1>7 DEF Tipos
<1>9. Tipos'
  BY <1>2, <1>3, <1>8 DEF Tipos
<1>10. Ajenas(m)
  BY <1>2, <1>3, <1>8 DEF Ajenas
<1>11. MainBien(m)'
  BY <1>1, <1>2, <1>3, <1>4, <1>8 DEF MainBien, PuntosMain
<1>12. WorkerBien(m)'
  BY <1>2, <1>3 DEF Bien, WorkerBien
<1>13. ArranqueBien(m)'
  BY <1>2, <1>8 DEF Bien, ArranqueBien, Sacar, Turno, Tipos
<1> QED
  BY <1>4, <1>5, <1>9, <1>10, <1>11, <1>12, <1>13, AjenasBien DEF Bien

\* The lock of a mailbox moves a thread, and main on to the next phase.
LEMMA HiloBien ==
    ASSUME RedInv, NEW m \in Maquinas, NEW t \in Hilos, Hilo(m, t)
    PROVE  /\ RedInv' /\ Ajenas(m) /\ UNCHANGED <<estado, arranques, cola, inHdr, inbox, hdrT, buffer, messages, tomados,
                                                   historia, pisado, preemptive>>
           /\ pc'[m]["worker"] = "copiar" <=> pc[m]["worker"] = "copiar"
           /\ pc'[m]["worker"] \in ConBuffer <=> pc[m]["worker"] \in ConBuffer
<1> USE DEF RedInv
<1>1. UNCHANGED <<estado, preemptive, arranques, cola, inHdr, inbox, messageAvailable, hdrT, buffer,
                  messages, tomados, historia, pisado>>
  BY DEF Hilo, Acquire, PLock, Tomar, VLock, Soltar, maquina, dispositivo, registro
<1>2. \/ /\ pc[m][t] \in (IF t = "main" THEN {"abrir", "P", "tomar"} ELSE {"poner", "P", "tomar"})
         /\ UNCHANGED fase
         /\ \E p \in {"tomar", "P", Dentro(t)} : Ir(m, t, p)
      \/ /\ pc[m][t] = "V" /\ UNCHANGED fase /\ Ir(m, t, "soltar")
      \/ pc[m][t] \in {"V", "soltar"} /\ Despues(m, t)
  BY DEF Hilo, Acquire, PLock, Tomar, VLock, Soltar
<1>3. CASE t = "main"
  <2>1. PICK p \in PuntosMain :
           /\ Ir(m, "main", p)
           /\ \/ /\ pc[m]["main"] \in {"abrir", "P", "tomar"} /\ UNCHANGED fase
                 /\ p \in {"P", "tomar", "sacar"}
              \/ pc[m]["main"] = "V" /\ UNCHANGED fase /\ p = "soltar"
              \/ /\ pc[m]["main"] \in {"V", "soltar"} /\ fase' = Pon(fase, m, fase[m] + 1)
                 /\ p = IF fase[m] = 2 THEN "mandar" ELSE "parar"
    <3>1. CASE /\ pc[m]["main"] \in {"abrir", "P", "tomar"} /\ UNCHANGED fase
               /\ \E p \in {"tomar", "P", "sacar"} : Ir(m, "main", p)
      BY <3>1 DEF PuntosMain
    <3>2. CASE pc[m]["main"] = "V" /\ UNCHANGED fase /\ Ir(m, "main", "soltar")
      BY <3>2 DEF PuntosMain
    <3>3. CASE pc[m]["main"] \in {"V", "soltar"} /\ Despues(m, "main")
      <4>1. /\ fase' = Pon(fase, m, fase[m] + 1)
            /\ Ir(m, "main", IF fase[m] = 2 THEN "mandar" ELSE "parar")
        BY <3>3 DEF Despues
      <4>2. (IF fase[m] = 2 THEN "mandar" ELSE "parar") \in PuntosMain
        BY DEF PuntosMain
      <4> QED
        BY <3>3, <4>1, <4>2
    <3> QED
      BY <1>2, <1>3, <3>1, <3>2, <3>3 DEF Dentro
  <2>2. /\ pc' \in [Maquinas -> [Hilos -> PuntosMain \union PuntosWorker]]
        /\ pc'[m]["main"] = p /\ pc'[m]["worker"] = pc[m]["worker"]
        /\ \A x \in Maquinas \ {m} : pc'[x] = pc[x]
    BY <1>3, <2>1, IrLema DEF Hilos
  <2>4. /\ fase \in [Maquinas -> Nat] /\ fase[m] \in Nat /\ fase[m] + 1 \in Nat
        /\ Pon(fase, m, fase[m] + 1) \in [Maquinas -> Nat]
        /\ Pon(fase, m, fase[m] + 1)[m] = fase[m] + 1
        /\ \A x \in Maquinas \ {m} : Pon(fase, m, fase[m] + 1)[x] = fase[x]
    BY DEF Tipos, Pon
  <2>3. fase' \in [Maquinas -> Nat] /\ \A x \in Maquinas \ {m} : fase'[x] = fase[x]
    BY <2>1, <2>4
  <2>5. Tipos' /\ Ajenas(m)
    BY <1>1, <2>2, <2>3 DEF Tipos, Ajenas
  <2>6. MainBien(m)'
    BY <1>1, <2>1, <2>2, <2>4 DEF Bien, MainBien
  <2>7. WorkerBien(m)' /\ ArranqueBien(m)'
    BY <1>1, <2>2 DEF Bien, WorkerBien, ArranqueBien
  <2> QED
    BY <1>1, <2>2, <2>5, <2>6, <2>7, AjenasBien DEF Bien
<1>4. CASE t = "worker"
  <2>1. PICK p \in PuntosWorker :
           /\ Ir(m, "worker", p) /\ UNCHANGED fase
           /\ \/ pc[m]["worker"] \in {"poner", "P", "tomar"} /\ p \in {"P", "tomar", "anadir"}
              \/ pc[m]["worker"] \in {"V", "soltar"} /\ p \in {"soltar", "esperar"}
    BY <1>2, <1>4 DEF Dentro, Despues, PuntosWorker
  <2>2. /\ pc' \in [Maquinas -> [Hilos -> PuntosMain \union PuntosWorker]]
        /\ pc'[m]["worker"] = p /\ pc'[m]["main"] = pc[m]["main"]
        /\ \A x \in Maquinas \ {m} : pc'[x] = pc[x]
    BY <1>4, <2>1, IrLema DEF Hilos
  <2>3. Tipos' /\ Ajenas(m)
    BY <1>1, <2>1, <2>2 DEF Tipos, Ajenas
  <2>4. MainBien(m)' /\ ArranqueBien(m)'
    BY <1>1, <2>1, <2>2 DEF Bien, MainBien, ArranqueBien
  <2>5. WorkerBien(m)'
    BY <1>1, <2>1, <2>2 DEF Bien, WorkerBien, ConBuffer
  <2> QED
    BY <1>1, <2>1, <2>2, <2>3, <2>4, <2>5, AjenasBien DEF Bien, ConBuffer
<1> QED
  BY <1>3, <1>4 DEF Hilos

\* The worker takes the packet of the device, whose semaphore said it was there.
LEMMA EsperarAvisoBien ==
    ASSUME RedInv, NEW m \in Maquinas, EsperarAviso(m)
    PROVE  RedInv' /\ Ajenas(m) /\ inHdr[m] # Nada /\ inbox[m] = inHdr[m]
<1> USE DEF RedInv
<1>1. /\ pc[m]["worker"] = "esperar" /\ Ir(m, "worker", "copiar") /\ "worker" \in Hilos
      /\ messageAvailable[m] > 0 /\ messageAvailable[m] \in Nat
  BY DEF EsperarAviso, Hilos, Tipos
<1>2. UNCHANGED <<estado, preemptive, arranques, fase, cola, inbox, buffer, messages, tomados,
                  historia, pisado>>
  BY DEF EsperarAviso, maquina, registro
<1>3. /\ pc' \in [Maquinas -> [Hilos -> PuntosMain \union PuntosWorker]]
      /\ pc'[m]["worker"] = "copiar" /\ pc'[m]["main"] = pc[m]["main"]
      /\ \A x \in Maquinas \ {m} : pc'[x] = pc[x]
  BY <1>1, IrLema DEF PuntosWorker, Hilos
<1>4. inHdr[m] # Nada /\ inbox[m] = inHdr[m] /\ messageAvailable[m] = 1
  BY <1>1 DEF Bien, WorkerBien
<1>5. /\ inHdr' \in [Maquinas -> Paquetes \union {Nada}] /\ inHdr'[m] = Nada
      /\ hdrT' \in [Maquinas -> Paquetes \union {Nada}] /\ hdrT'[m] = inHdr[m]
      /\ messageAvailable' \in [Maquinas -> Nat] /\ messageAvailable'[m] = 0
      /\ \A x \in Maquinas \ {m} : /\ inHdr'[x] = inHdr[x] /\ hdrT'[x] = hdrT[x]
                                   /\ messageAvailable'[x] = messageAvailable[x]
  BY <1>4 DEF EsperarAviso, Tipos, Pon
<1>6. Tipos' /\ Ajenas(m)
  BY <1>2, <1>3, <1>5 DEF Tipos, Ajenas
<1>7. MainBien(m)' /\ ArranqueBien(m)'
  BY <1>2, <1>3 DEF Bien, MainBien, ArranqueBien
<1>8. WorkerBien(m)'
  BY <1>2, <1>3, <1>4, <1>5 DEF Bien, WorkerBien, ConBuffer, PuntosWorker
<1> QED
  BY <1>4, <1>6, <1>7, <1>8, AjenasBien DEF Bien

\* It copies the packet it has the header of.
LEMMA CopiarBien ==
    ASSUME RedInv, NEW m \in Maquinas, Copiar(m)
    PROVE  RedInv' /\ Ajenas(m) /\ (~pisado[m] => buffer'[m] = hdrT[m] /\ inbox[m] = hdrT[m])
<1> USE DEF RedInv
<1>1. /\ pc[m]["worker"] = "copiar" /\ Ir(m, "worker", "poner") /\ "worker" \in Hilos
  BY DEF Copiar, Hilos
<1>2. UNCHANGED <<estado, preemptive, arranques, fase, cola, inHdr, inbox, hdrT, messageAvailable,
                  messages, tomados, historia, pisado>>
  BY DEF Copiar, maquina, dispositivo, registro
<1>3. /\ pc' \in [Maquinas -> [Hilos -> PuntosMain \union PuntosWorker]]
      /\ pc'[m]["worker"] = "poner" /\ pc'[m]["main"] = pc[m]["main"]
      /\ \A x \in Maquinas \ {m} : pc'[x] = pc[x]
  BY <1>1, IrLema DEF PuntosWorker, Hilos
<1>4. /\ hdrT[m] # Nada /\ hdrT[m] \in Paquetes /\ inbox[m] \in Paquetes
      /\ ~pisado[m] => inbox[m] = hdrT[m]
  BY <1>1 DEF Bien, WorkerBien, Tipos
<1>5. PICK y \in Paquetes : y = [inbox[m] EXCEPT !.de = hdrT[m].de] /\ (~pisado[m] => y = hdrT[m])
  <2>1. [inbox[m] EXCEPT !.de = hdrT[m].de] \in Paquetes
    BY <1>4 DEF Paquetes
  <2>2. [hdrT[m] EXCEPT !.de = hdrT[m].de] = hdrT[m]
    BY <1>4 DEF Paquetes
  <2> QED
    BY <1>4, <2>1, <2>2
<1>6. buffer' = Pon(buffer, m, y)
  BY <1>4, <1>5 DEF Copiar
<1>7. /\ buffer' \in [Maquinas -> Paquetes \union {Nada}] /\ buffer'[m] = y
      /\ \A x \in Maquinas \ {m} : buffer'[x] = buffer[x]
  BY <1>5, <1>6 DEF Tipos, Pon
<1>8. Tipos' /\ Ajenas(m)
  BY <1>2, <1>3, <1>7 DEF Tipos, Ajenas
<1>9. MainBien(m)' /\ ArranqueBien(m)'
  BY <1>2, <1>3 DEF Bien, MainBien, ArranqueBien
<1>10. WorkerBien(m)'
  <2>1. y # Nada
    BY RedAssumption
  <2> QED
    BY <1>2, <1>3, <1>4, <1>7, <2>1 DEF Bien, WorkerBien, PuntosWorker
<1> QED
  BY <1>4, <1>5, <1>7, <1>8, <1>9, <1>10, AjenasBien DEF Bien

\* It appends it to the mailbox the packet says.
LEMMA AnadirBien ==
    ASSUME RedInv, NEW m \in Maquinas, Anadir(m)
    PROVE  /\ RedInv' /\ Ajenas(m) /\ buffer[m] \in Paquetes /\ pc[m]["worker"] \in ConBuffer
           /\ messages' = [messages EXCEPT ![m][buffer[m].to] = Append(messages[m][buffer[m].to], buffer[m])]
           /\ pc'[m]["worker"] = "V"
<1> USE DEF RedInv
<1>1. /\ pc[m]["worker"] = "anadir" /\ Ir(m, "worker", "V") /\ "worker" \in Hilos
  BY DEF Anadir, Hilos
<1>2. UNCHANGED <<estado, preemptive, arranques, fase, cola, inHdr, inbox, hdrT, buffer,
                  messageAvailable, tomados, historia, pisado>>
  BY DEF Anadir, maquina, dispositivo, registro
<1>3. /\ pc' \in [Maquinas -> [Hilos -> PuntosMain \union PuntosWorker]]
      /\ pc'[m]["worker"] = "V" /\ pc'[m]["main"] = pc[m]["main"]
      /\ \A x \in Maquinas \ {m} : pc'[x] = pc[x]
  BY <1>1, IrLema DEF PuntosWorker, Hilos
<1>4. buffer[m] \in Paquetes /\ buffer[m].to \in Buzones
  BY <1>1 DEF Bien, WorkerBien, Tipos, ConBuffer, Paquetes
<1>5. messages' = [messages EXCEPT ![m][buffer[m].to] = Append(messages[m][buffer[m].to], buffer[m])]
  BY DEF Anadir
<1>6. Append(messages[m][buffer[m].to], buffer[m]) \in Seq(Paquetes)
  BY <1>4, AppendProperties DEF Tipos
<1>7. /\ messages' \in [Maquinas -> [Buzones -> Seq(Paquetes)]]
      /\ \A x \in Maquinas \ {m} : messages'[x] = messages[x]
  BY <1>4, <1>5, <1>6 DEF Tipos
<1>8. Tipos' /\ Ajenas(m)
  BY <1>2, <1>3, <1>7 DEF Tipos, Ajenas
<1>9. MainBien(m)' /\ ArranqueBien(m)'
  BY <1>2, <1>3 DEF Bien, MainBien, ArranqueBien
<1>10. WorkerBien(m)'
  BY <1>2, <1>3 DEF Bien, WorkerBien, ConBuffer, PuntosWorker
<1> QED
  BY <1>1, <1>3, <1>4, <1>5, <1>8, <1>9, <1>10, AjenasBien DEF Bien, ConBuffer

\* The end of a sending changes nothing of this.
LEMMA SendDoneBien ==
    ASSUME RedInv, NEW m \in Maquinas, SendDone(m)
    PROVE  /\ RedInv' /\ Ajenas(m)
           /\ UNCHANGED <<estado, arranques, pc, cola, inHdr, inbox, hdrT, buffer, messages, tomados,
                          historia, pisado, preemptive>>
<1>1. UNCHANGED <<estado, preemptive, arranques, fase, pc, cola, inHdr, inbox, hdrT, buffer,
                  messageAvailable, messages, tomados, historia, pisado>>
  BY DEF SendDone, maquina, correo, registro
<1>2. Tipos' /\ Ajenas(m)
  BY <1>1 DEF RedInv, Tipos, Ajenas
<1>3. Bien(m)'
  BY <1>1 DEF RedInv, Bien, MainBien, WorkerBien, ArranqueBien
<1> QED
  BY <1>1, <1>2, <1>3, AjenasBien DEF RedInv

\* A machine that ends, in any of its ways.
LEMMA TerminarBien ==
    ASSUME RedInv, NEW m \in Maquinas, Cortar(m) \/ MandarANadie(m) \/ SacarDeVacio(m) \/ Parar(m)
    PROVE  /\ RedInv' /\ Ajenas(m) /\ Vacia(m) /\ UNCHANGED <<arranques, tomados, pisado>>
           /\ estado'[m] # "viva"
<1>1. PICK como \in {"parada", "cortada", "abortada"} :
         /\ Cierra(m, como) /\ estado[m] = "viva"
         /\ como = "parada" => pc[m]["main"] = "parar"
  BY DEF Cortar, MandarANadie, SacarDeVacio, Parar, Turno
<1>2. como = "parada" => tomados[m][1] # <<>>
  BY <1>1 DEF RedInv, Bien, MainBien
<1>3. estado'[m] # "viva"
  BY <1>1 DEF Cierra, RedInv, Tipos, Pon
<1> QED
  BY <1>1, <1>2, <1>3, CierraBien DEF Cierra

\* The steps of a machine, but for its start.
Paso(m) ==
    \/ CheckPktAvail(m) \/ SendDone(m) \/ Mandar(m) \/ EsperarEnvio(m) \/ Sacar(m)
    \/ (\E t \in Hilos : Hilo(m, t)) \/ EsperarAviso(m) \/ Copiar(m) \/ Anadir(m)
    \/ Cortar(m) \/ MandarANadie(m) \/ SacarDeVacio(m) \/ Parar(m)

\* Every step is one of these.
LEMMA NextEsPaso == Next => \E m \in Maquinas : Arrancar(m) \/ Paso(m)
BY DEF Next, Paso, MailTest, PostalDelivery, Hilos

\* The invariant is kept by every step, which is of one machine.
LEMMA PasoBien ==
    ASSUME RedInv, NEW m \in Maquinas, Arrancar(m) \/ Paso(m)
    PROVE  RedInv' /\ Ajenas(m)
BY CheckPktAvailBien, SendDoneBien, MandarBien, EsperarEnvioBien, SacarBien, HiloBien,
   EsperarAvisoBien, CopiarBien, AnadirBien, TerminarBien, ArrancarBien DEF Paso

\* It holds initially.
LEMMA RedInvInicial == Init => RedInv
<1> SUFFICES ASSUME Init PROVE RedInv
  OBVIOUS
<1>1. <<>> \in Seq(Paquetes) /\ [b \in Buzones |-> <<>>] \in [Buzones -> Seq(Paquetes)]
  BY EmptySeq
<1>2. Tipos
  BY <1>1 DEF Init, Tipos, PuntosMain
<1>3. \A m \in Maquinas : Bien(m)
  BY DEF Init, Bien, MainBien, WorkerBien, ArranqueBien, PuntosMain, PuntosWorker, ConBuffer, Hilos
<1> QED
  BY <1>2, <1>3 DEF RedInv

\* It is inductive.
LEMMA RedInvPaso == RedInv /\ [Next]_vars => RedInv'
<1>1. ASSUME RedInv, UNCHANGED vars PROVE RedInv'
  BY <1>1 DEF RedInv, Tipos, Bien, MainBien, WorkerBien, ArranqueBien, vars, maquina, dispositivo,
     correo, registro
<1> QED
  BY <1>1, NextEsPaso, PasoBien

-----------------------------------------------------------------------------
(* An answer means that what it answers was read                             *)

\* Nothing has been started twice.
Una == \A x \in Maquinas : arranques[x] <= 1

\* No packet has been written over in a device.
Limpio == \A x \in Maquinas : ~pisado[x]

\* The message a machine sends when it is started for the first time.
Mensaje(x) == [de |-> x, a |-> lejos[x], to |-> 0, from |-> 1, vez |-> 1, acuse |-> 0]

\* Machine x has read the message of m.
Leyo(x, m) == \E i \in DOMAIN tomados[x][0] : tomados[x][0][i] = Mensaje(m)

\* The packets that may be on machine m: messages for it, and answers to its own
\* once that was read.
Llegan(m) ==
    {p \in Paquetes : /\ p.a = m
                      /\ p.to = 0 => p = Mensaje(p.de)
                      /\ p.to = 1 => Leyo(lejos[m], m)}
EnBuzon(m, b) == {p \in Llegan(m) : p.to = b}

\* Every place of machine m where a packet may be holds such packets.
Ciertos(m) ==
    /\ cola[m] \in Seq(Llegan(m))
    /\ inHdr[m] \in Llegan(m) \union {Nada}
    /\ pc[m]["worker"] = "copiar" => hdrT[m] \in Llegan(m)
    /\ pc[m]["worker"] \in ConBuffer => buffer[m] \in Llegan(m)
    /\ \A b \in Buzones : /\ messages[m][b] \in Seq(EnBuzon(m, b))
                          /\ tomados[m][b] \in Seq(EnBuzon(m, b))

CiertosInv == Una /\ Limpio => \A m \in Maquinas : Ciertos(m)

\* What has been read has been read for good, unless the machine starts again.
LEMMA LeyoQueda ==
    ASSUME RedInv, NEW m \in Maquinas, Arrancar(m) \/ Paso(m), Una',
           NEW x \in Maquinas, NEW y \in Maquinas, Leyo(x, y)
    PROVE  Leyo(x, y)'
<1>1. Ajenas(m) /\ tomados[x][0] \in Seq(Paquetes)
  BY PasoBien DEF RedInv, Tipos, Buzones
<1>2. CASE tomados'[x] = tomados[x]
  BY <1>2 DEF Leyo
<1>3. CASE Arrancar(m) /\ x = m
  <2>1. arranques[m] \in Nat /\ arranques'[m] = arranques[m] + 1 /\ arranques'[m] <= 1
    BY <1>3 DEF Arrancar, RedInv, Tipos, Pon, Una
  <2>2. tomados[m][0] = <<>>
    BY <2>1 DEF RedInv, Bien, ArranqueBien, Buzones
  <2> QED
    BY <1>3, <2>2 DEF Leyo
<1>4. CASE Sacar(m) /\ x = m
  <2>1. PICK b \in Buzones :
           /\ messages[m][b] # <<>>
           /\ tomados' = [tomados EXCEPT ![m][b] = Append(tomados[m][b], Head(messages[m][b]))]
    BY <1>4, SacarBien
  <2>2. Head(messages[m][b]) \in Paquetes
    BY <2>1, HeadTailProperties DEF RedInv, Tipos
  <2>3. CASE b = 0
    <3>1. tomados'[m][0] = Append(tomados[m][0], Head(messages[m][0]))
      BY <2>1, <2>3 DEF RedInv, Tipos, Buzones
    <3> QED
      BY <1>1, <1>4, <2>2, <2>3, <3>1, AppendProperties, LenProperties DEF Leyo
  <2>4. CASE b # 0
    <3>1. tomados'[m][0] = tomados[m][0]
      BY <2>1, <2>4 DEF RedInv, Tipos, Buzones
    <3> QED
      BY <1>4, <3>1 DEF Leyo
  <2> QED
    BY <2>3, <2>4
<1>5. CASE Paso(m) /\ ~Sacar(m) /\ x = m
  <2>1. tomados' = tomados
    BY <1>5, TerminarBien, HiloBien, SendDoneBien
       DEF Paso, CheckPktAvail, Mandar, EsperarEnvio, EsperarAviso, Copiar, Anadir, registro
  <2> QED
    BY <1>2, <2>1
<1> QED
  BY <1>1, <1>2, <1>3, <1>4, <1>5 DEF Ajenas

\* So a packet that could be somewhere still can.
LEMMA LleganCrece ==
    ASSUME RedInv, NEW m \in Maquinas, Arrancar(m) \/ Paso(m), Una', NEW x \in Maquinas
    PROVE  /\ Llegan(x) \subseteq Llegan(x)'
           /\ \A b \in Buzones : EnBuzon(x, b) \subseteq EnBuzon(x, b)'
<1>1. lejos[x] \in Maquinas
  BY RedAssumption
<1>2. Leyo(lejos[x], x) => Leyo(lejos[x], x)'
  BY <1>1, LeyoQueda
<1>3. Llegan(x) \subseteq Llegan(x)'
  BY <1>2 DEF Llegan, Mensaje
<1> QED
  BY <1>3 DEF EnBuzon

\* Sequences of packets that could be there.
LEMMA SeqCrece ==
    ASSUME RedInv, NEW m \in Maquinas, Arrancar(m) \/ Paso(m), Una', NEW x \in Maquinas
    PROVE  /\ \A s \in Seq(Llegan(x)) : s \in Seq(Llegan(x)')
           /\ \A b \in Buzones : \A s \in Seq(EnBuzon(x, b)) : s \in Seq(EnBuzon(x, b)')
<1>1. /\ Llegan(x) \subseteq Llegan(x)'
      /\ \A b \in Buzones : EnBuzon(x, b) \subseteq EnBuzon(x, b)'
  BY LleganCrece
<1>2. \A s \in Seq(Llegan(x)) : s \in Seq(Llegan(x)')
  BY <1>1, SeqMonotonic
<1>3. ASSUME NEW b \in Buzones, NEW s \in Seq(EnBuzon(x, b)) PROVE s \in Seq(EnBuzon(x, b)')
  BY <1>1, SeqMonotonic
<1> QED
  BY <1>2, <1>3

\* A machine where nothing but the socket changes, and that for the better.
LEMMA CiertosQuieta ==
    ASSUME RedInv, NEW m \in Maquinas, Arrancar(m) \/ Paso(m), Una',
           NEW x \in Maquinas, Ciertos(x),
           cola'[x] \in Seq(Llegan(x)'), inHdr'[x] = inHdr[x], hdrT'[x] = hdrT[x],
           buffer'[x] = buffer[x], messages'[x] = messages[x], tomados'[x] = tomados[x],
           pc'[x]["worker"] = "copiar" => pc[x]["worker"] = "copiar",
           pc'[x]["worker"] \in ConBuffer => pc[x]["worker"] \in ConBuffer
    PROVE  Ciertos(x)'
<1>1. Llegan(x) \subseteq Llegan(x)'
  BY LleganCrece
<1>2. ASSUME NEW b \in Buzones
      PROVE  /\ messages'[x][b] \in Seq(EnBuzon(x, b)') /\ tomados'[x][b] \in Seq(EnBuzon(x, b)')
  <2>1. messages[x][b] \in Seq(EnBuzon(x, b)) /\ tomados[x][b] \in Seq(EnBuzon(x, b))
    BY DEF Ciertos
  <2>2. messages'[x][b] = messages[x][b] /\ tomados'[x][b] = tomados[x][b]
    OBVIOUS
  <2> QED
    BY <2>1, <2>2, SeqCrece
<1> QED
  BY <1>1, <1>2 DEF Ciertos

\* A machine that has just started, or has just ended.
LEMMA CiertosVacia ==
    ASSUME RedInv, NEW m \in Maquinas, Arrancar(m) \/ Paso(m), Una', Ciertos(m), Vacia(m),
           tomados'[m] = tomados[m] \/ tomados'[m] = [b \in Buzones |-> <<>>],
           pc'[m]["worker"] \in {"esperar", "fin"}
    PROVE  Ciertos(m)'
<1>1. /\ cola'[m] = <<>> /\ inHdr'[m] = Nada /\ messages'[m] = [b \in Buzones |-> <<>>]
  BY VaciaLema DEF RedInv
<1>2. cola'[m] \in Seq(Llegan(m)')
  BY <1>1, EmptySeq
<1>3. ASSUME NEW b \in Buzones
      PROVE  /\ messages'[m][b] \in Seq(EnBuzon(m, b)') /\ tomados'[m][b] \in Seq(EnBuzon(m, b)')
  <2>1. messages'[m][b] \in Seq(EnBuzon(m, b)')
    BY <1>1, EmptySeq
  <2>2. tomados[m][b] \in Seq(EnBuzon(m, b)')
    BY SeqCrece DEF Ciertos
  <2>3. <<>> \in Seq(EnBuzon(m, b)')
    BY EmptySeq
  <2> QED
    BY <2>1, <2>2, <2>3
<1> QED
  BY <1>1, <1>2, <1>3 DEF Ciertos, ConBuffer

\* What MailTest sends may be where it goes: its own first message, or the
\* answer to a message that it has read.
LEMMA PaqueteCierto ==
    ASSUME RedInv, Una, NEW m \in Maquinas, Ciertos(m), pc[m]["main"] = "mandar", estado[m] = "viva"
    PROVE  Paquete(m) \in Llegan(Paquete(m).a)
<1>1. Paquete(m) \in Paquetes
  BY PaqueteTipo
<1>2. arranques[m] = 1
  BY DEF RedInv, Tipos, Bien, ArranqueBien, Una
<1>3. CASE fase[m] = 1
  <2>1. Paquete(m) = Mensaje(m) /\ Paquete(m).de = m /\ Paquete(m).to = 0
    BY <1>2, <1>3 DEF Paquete, Primero, Mensaje
  <2> QED
    BY <1>1, <2>1 DEF Llegan
<1>4. CASE fase[m] # 1
  <2> DEFINE q == tomados[m][0][1]
  <2>1. tomados[m][0] \in Seq(EnBuzon(m, 0)) /\ tomados[m][0] # <<>>
    BY <1>4 DEF RedInv, Bien, MainBien, Ciertos, Buzones
  <2>2. q \in EnBuzon(m, 0) /\ 1 \in DOMAIN tomados[m][0]
    BY <2>1, EmptySeq, ElementOfSeq, LenProperties
  <2>3. q \in Paquetes /\ q.a = m /\ q = Mensaje(q.de)
    BY <2>2 DEF EnBuzon, Llegan
  <2>4. q.de \in Maquinas /\ q.from = 1 /\ lejos[q.de] = m
    BY <2>3 DEF Paquetes, Mensaje
  <2>5. Leyo(m, q.de)
    BY <2>2, <2>3 DEF Leyo
  <2>6. Paquete(m).a = q.de /\ Paquete(m).to = 1
    BY <1>4, <2>4 DEF Paquete, Acuse
  <2> QED
    BY <1>1, <2>4, <2>5, <2>6 DEF Llegan
<1> QED
  BY <1>3, <1>4

\* A machine forgets that a packet was written over only when it starts again.
LEMMA PisadoQueda ==
    ASSUME RedInv, NEW m \in Maquinas, Arrancar(m) \/ Paso(m), Una', NEW x \in Maquinas, ~pisado'[x]
    PROVE  ~pisado[x]
<1>1. Ajenas(m)
  BY PasoBien
<1>2. CASE x # m
  BY <1>1, <1>2 DEF Ajenas
<1>3. CASE Arrancar(m) /\ x = m
  <2>1. arranques[m] \in Nat /\ arranques'[m] = arranques[m] + 1 /\ arranques'[m] <= 1
    BY <1>3 DEF Arrancar, RedInv, Tipos, Pon, Una
  <2> QED
    BY <1>3, <2>1 DEF RedInv, Bien, ArranqueBien
<1>4. CASE CheckPktAvail(m) /\ x = m
  BY <1>4 DEF CheckPktAvail, RedInv, Tipos, Pon
<1>5. CASE Paso(m) /\ ~CheckPktAvail(m)
  <2>1. pisado' = pisado
    BY <1>5, TerminarBien, HiloBien, SendDoneBien
       DEF Paso, Mandar, EsperarEnvio, Sacar, EsperarAviso, Copiar, Anadir, registro
  <2> QED
    BY <2>1
<1> QED
  BY <1>2, <1>3, <1>4, <1>5

\* Every step keeps every packet where it may be.
LEMMA CiertosPaso ==
    ASSUME RedInv, Limpio, NEW m \in Maquinas, Arrancar(m) \/ Paso(m), Una, Una',
           \A x \in Maquinas : Ciertos(x)
    PROVE  \A x \in Maquinas : Ciertos(x)'
<1>1. RedInv' /\ Ajenas(m)
  BY PasoBien
<1>2. \A x \in Maquinas : \A s \in Seq(Llegan(x)) : s \in Seq(Llegan(x)')
  BY SeqCrece
<1>3. ASSUME ~Mandar(m) PROVE \A x \in Maquinas \ {m} : cola'[x] = cola[x]
  <2>1. CASE Arrancar(m) \/ Cortar(m) \/ MandarANadie(m) \/ SacarDeVacio(m) \/ Parar(m)
    <3>1. Vacia(m)
      BY <2>1, TerminarBien DEF Arrancar
    <3>2. MemoriaAjena(m)
      BY <3>1, VaciaLema DEF RedInv
    <3> QED
      BY <3>2 DEF MemoriaAjena
  <2>2. CASE CheckPktAvail(m)
    BY <2>2 DEF CheckPktAvail, RedInv, Tipos, Pon
  <2>3. CASE (\E t \in Hilos : Hilo(m, t)) \/ SendDone(m)
    BY <2>3, HiloBien, SendDoneBien
  <2>4. CASE EsperarEnvio(m) \/ Sacar(m) \/ EsperarAviso(m) \/ Copiar(m) \/ Anadir(m)
    BY <2>4 DEF EsperarEnvio, Sacar, EsperarAviso, Copiar, Anadir, dispositivo
  <2> QED
    BY <1>3, <2>1, <2>2, <2>3, <2>4 DEF Paso
<1>4. ASSUME NEW x \in Maquinas \ {m}, cola'[x] \in Seq(Llegan(x)') PROVE Ciertos(x)'
  BY <1>1, <1>4, CiertosQuieta DEF Ajenas
<1>5. ASSUME NEW x \in Maquinas, cola'[x] = cola[x] PROVE cola'[x] \in Seq(Llegan(x)')
  BY <1>2, <1>5 DEF Ciertos
<1>6. ASSUME ~Mandar(m) PROVE \A x \in Maquinas \ {m} : Ciertos(x)'
  BY <1>3, <1>4, <1>5, <1>6
<1>7. ASSUME NEW x \in Maquinas PROVE Ciertos(x) /\ Llegan(x) \subseteq Llegan(x)'
  BY LleganCrece
<1>8. CASE Mandar(m)
  <2>1. pc[m]["main"] = "mandar" /\ estado[m] = "viva"
    BY <1>8 DEF Mandar, Turno
  <2>2. PICK p \in Paquetes : p = Paquete(m) /\ p \in Llegan(p.a) /\ p.a \in Maquinas
    BY <2>1, PaqueteTipo, PaqueteCierto DEF Paquetes
  <2>3. cola' = cola \/ cola' = Pon(cola, p.a, Append(cola[p.a], p))
    BY <2>2, <1>8 DEF Mandar
  <2>4. Append(cola[p.a], p) \in Seq(Llegan(p.a)')
    <3>1. cola[p.a] \in Seq(Llegan(p.a)) /\ p \in Llegan(p.a)
      BY <2>2 DEF Ciertos
    <3>2. Append(cola[p.a], p) \in Seq(Llegan(p.a))
      BY <3>1, AppendProperties
    <3> QED
      BY <1>2, <2>2, <3>2
  <2>5. ASSUME NEW x \in Maquinas PROVE cola'[x] \in Seq(Llegan(x)')
    <3>1. CASE cola'[x] = cola[x]
      BY <1>5, <3>1
    <3>2. CASE cola'[x] # cola[x]
      <4>1. x = p.a /\ cola'[x] = Append(cola[p.a], p)
        BY <2>2, <2>3, <3>2 DEF RedInv, Tipos, Pon
      <4> QED
        BY <2>4, <4>1
    <3> QED
      BY <3>1, <3>2
  <2>6. /\ UNCHANGED <<inHdr, hdrT, buffer, messages, tomados>>
        /\ Ir(m, "main", "esperarEnvio")
    BY <1>8 DEF Mandar, correo
  <2>7. pc'[m]["worker"] = pc[m]["worker"]
    BY <2>6, IrLema DEF RedInv, Hilos, PuntosMain
  <2>8. Ciertos(m)'
    BY <2>5, <2>6, <2>7, CiertosQuieta
  <2> QED
    BY <1>4, <2>5, <2>8
<1>9. CASE Arrancar(m) \/ Cortar(m) \/ MandarANadie(m) \/ SacarDeVacio(m) \/ Parar(m)
  <2>1. Vacia(m)
    BY <1>9, TerminarBien DEF Arrancar
  <2>2. tomados'[m] = tomados[m] \/ tomados'[m] = [b \in Buzones |-> <<>>]
    BY <1>9, TerminarBien DEF Arrancar, RedInv, Tipos, Pon
  <2>3. pc'[m]["worker"] \in {"esperar", "fin"}
    BY <1>9 DEF Arrancar, Cortar, MandarANadie, SacarDeVacio, Parar, Cierra, RedInv, Tipos, Pon, Hilos
  <2>4. Ciertos(m)'
    BY <2>1, <2>2, <2>3, CiertosVacia
  <2> QED
    BY <1>6, <1>8, <2>4
<1>10. CASE CheckPktAvail(m)
  <2>1. cola[m] \in Seq(Llegan(m)) /\ cola[m] # <<>>
    BY <1>10 DEF CheckPktAvail, Ciertos
  <2>2. Head(cola[m]) \in Llegan(m) /\ Tail(cola[m]) \in Seq(Llegan(m))
    BY <2>1, HeadTailProperties
  <2>3. /\ inHdr'[m] = Head(cola[m]) /\ cola'[m] = Tail(cola[m])
        /\ UNCHANGED <<pc, hdrT, buffer, messages, tomados>>
    BY <1>10 DEF CheckPktAvail, correo, RedInv, Tipos, Pon
  <2>4. \A b \in Buzones : /\ messages'[m][b] \in Seq(EnBuzon(m, b)')
                           /\ tomados'[m][b] \in Seq(EnBuzon(m, b)')
    BY <2>3, SeqCrece DEF Ciertos
  <2>5. Ciertos(m)'
    BY <1>2, <1>7, <2>2, <2>3, <2>4 DEF Ciertos
  <2> QED
    BY <1>6, <1>8, <2>5
<1>11. CASE SendDone(m) \/ EsperarEnvio(m) \/ (\E t \in Hilos : Hilo(m, t))
  <2>1. /\ UNCHANGED <<cola, inHdr, hdrT, buffer, messages, tomados>>
        /\ pc'[m]["worker"] = "copiar" => pc[m]["worker"] = "copiar"
        /\ pc'[m]["worker"] \in ConBuffer => pc[m]["worker"] \in ConBuffer
    <3>1. CASE SendDone(m)
      BY <3>1, SendDoneBien
    <3>2. CASE EsperarEnvio(m)
      <4>1. pc'[m]["worker"] = pc[m]["worker"]
        BY <3>2, IrLema DEF EsperarEnvio, RedInv, Hilos, PuntosMain
      <4> QED
        BY <3>2, <4>1 DEF EsperarEnvio, correo, registro
    <3>3. CASE \E t \in Hilos : Hilo(m, t)
      BY <3>3, HiloBien
    <3> QED
      BY <1>11, <3>1, <3>2, <3>3
  <2>2. Ciertos(m)'
    BY <1>5, <2>1, CiertosQuieta
  <2> QED
    BY <1>6, <1>8, <2>2
<1>12. CASE Sacar(m)
  <2>1. PICK b \in Buzones :
           /\ messages[m][b] # <<>>
           /\ messages' = [messages EXCEPT ![m][b] = Tail(messages[m][b])]
           /\ tomados' = [tomados EXCEPT ![m][b] = Append(tomados[m][b], Head(messages[m][b]))]
    BY <1>12, SacarBien
  <2>2. UNCHANGED <<cola, inHdr, hdrT, buffer>> /\ Ir(m, "main", "V")
    BY <1>12 DEF Sacar, dispositivo
  <2>3. pc'[m]["worker"] = pc[m]["worker"]
    BY <2>2, IrLema DEF RedInv, Hilos, PuntosMain
  <2>4. messages[m][b] \in Seq(EnBuzon(m, b)) /\ tomados[m][b] \in Seq(EnBuzon(m, b))
    BY DEF Ciertos
  <2>5. /\ Tail(messages[m][b]) \in Seq(EnBuzon(m, b)) /\ Head(messages[m][b]) \in EnBuzon(m, b)
    BY <2>1, <2>4, HeadTailProperties
  <2>6. Append(tomados[m][b], Head(messages[m][b])) \in Seq(EnBuzon(m, b))
    BY <2>4, <2>5, AppendProperties
  <2>7. ASSUME NEW c \in Buzones
        PROVE  /\ messages'[m][c] \in Seq(EnBuzon(m, c)') /\ tomados'[m][c] \in Seq(EnBuzon(m, c)')
    <3>1. /\ messages'[m][c] = IF c = b THEN Tail(messages[m][b]) ELSE messages[m][c]
          /\ tomados'[m][c] = IF c = b THEN Append(tomados[m][b], Head(messages[m][b]))
                                      ELSE tomados[m][c]
      BY <2>1 DEF RedInv, Tipos
    <3>2. messages'[m][c] \in Seq(EnBuzon(m, c)) /\ tomados'[m][c] \in Seq(EnBuzon(m, c))
      BY <2>5, <2>6, <3>1 DEF Ciertos
    <3> QED
      BY <3>2, SeqCrece
  <2>8. Ciertos(m)'
    BY <1>5, <1>7, <2>2, <2>3, <2>7 DEF Ciertos
  <2> QED
    BY <1>6, <1>8, <2>8
<1>13. CASE EsperarAviso(m)
  <2>1. /\ UNCHANGED <<cola, buffer, messages, tomados>> /\ Ir(m, "worker", "copiar")
        /\ inHdr'[m] = Nada /\ hdrT'[m] = inHdr[m]
    BY <1>13 DEF EsperarAviso, registro, RedInv, Tipos, Pon
  <2>2. pc'[m]["worker"] = "copiar" /\ inHdr[m] # Nada
    BY <1>13, <2>1, IrLema, EsperarAvisoBien DEF RedInv, Hilos, PuntosWorker
  <2>3. \A b \in Buzones : /\ messages'[m][b] \in Seq(EnBuzon(m, b)')
                           /\ tomados'[m][b] \in Seq(EnBuzon(m, b)')
    BY <2>1, SeqCrece DEF Ciertos
  <2>4. hdrT'[m] \in Llegan(m)'
    BY <1>7, <2>1, <2>2 DEF Ciertos
  <2>5. Ciertos(m)'
    BY <1>5, <2>1, <2>2, <2>3, <2>4 DEF Ciertos, ConBuffer
  <2> QED
    BY <1>6, <1>8, <2>5
<1>14. CASE Copiar(m)
  <2>1. /\ UNCHANGED <<cola, inHdr, messages, tomados>> /\ Ir(m, "worker", "poner")
        /\ pc[m]["worker"] = "copiar"
    BY <1>14 DEF Copiar, registro, dispositivo
  <2>4. ~pisado[m]
    BY DEF Limpio
  <2>2. pc'[m]["worker"] = "poner" /\ buffer'[m] = hdrT[m]
    BY <1>14, <2>1, <2>4, IrLema, CopiarBien DEF RedInv, Hilos, PuntosWorker
  <2>3. \A b \in Buzones : /\ messages'[m][b] \in Seq(EnBuzon(m, b)')
                           /\ tomados'[m][b] \in Seq(EnBuzon(m, b)')
    BY <2>1, SeqCrece DEF Ciertos
  <2>5. buffer'[m] \in Llegan(m)' /\ inHdr'[m] \in (Llegan(m) \union {Nada})'
    BY <1>7, <2>1, <2>2 DEF Ciertos
  <2>6. Ciertos(m)'
    BY <1>5, <2>1, <2>2, <2>3, <2>5 DEF Ciertos
  <2> QED
    BY <1>6, <1>8, <2>6
<1>15. CASE Anadir(m)
  <2>1. /\ UNCHANGED <<cola, inHdr, hdrT, buffer, tomados>>
        /\ pc'[m]["worker"] = "V" /\ buffer[m] \in Paquetes /\ pc[m]["worker"] \in ConBuffer
        /\ messages' = [messages EXCEPT ![m][buffer[m].to] =
                                  Append(messages[m][buffer[m].to], buffer[m])]
    BY <1>15, AnadirBien DEF Anadir, dispositivo, registro
  <2>2. PICK b \in Buzones : b = buffer[m].to
    BY <2>1 DEF Paquetes
  <2>3. buffer[m] \in EnBuzon(m, b) /\ messages[m][b] \in Seq(EnBuzon(m, b))
    BY <2>1, <2>2 DEF Ciertos, EnBuzon
  <2>4. Append(messages[m][b], buffer[m]) \in Seq(EnBuzon(m, b))
    BY <2>3, AppendProperties
  <2>5. ASSUME NEW c \in Buzones
        PROVE  /\ messages'[m][c] \in Seq(EnBuzon(m, c)') /\ tomados'[m][c] \in Seq(EnBuzon(m, c)')
    <3>1. /\ messages'[m][c] = IF c = b THEN Append(messages[m][b], buffer[m]) ELSE messages[m][c]
          /\ tomados'[m][c] = tomados[m][c]
      BY <2>1, <2>2 DEF RedInv, Tipos
    <3>2. messages'[m][c] \in Seq(EnBuzon(m, c)) /\ tomados'[m][c] \in Seq(EnBuzon(m, c))
      BY <2>4, <3>1 DEF Ciertos
    <3> QED
      BY <3>2, SeqCrece
  <2>6. Ciertos(m)'
    BY <1>5, <1>7, <2>1, <2>5 DEF Ciertos, ConBuffer
  <2> QED
    BY <1>6, <1>8, <2>6
<1> QED
  BY <1>8, <1>9, <1>10, <1>11, <1>12, <1>13, <1>14, <1>15 DEF Paso

\* It holds initially: there are no packets.
LEMMA CiertosInicial == Init => CiertosInv
<1> SUFFICES ASSUME Init, NEW m \in Maquinas PROVE Ciertos(m)
  BY DEF CiertosInv
<1>1. \A S : <<>> \in Seq(S)
  BY EmptySeq
<1> QED
  BY <1>1 DEF Init, Ciertos, ConBuffer, Hilos

\* It is inductive; a second start of a machine leaves nothing to prove, nor does
\* a packet that is written over, which a machine forgets only when it starts.
LEMMA CiertosInvPaso == RedInv /\ CiertosInv /\ [Next]_vars => CiertosInv'
<1> SUFFICES ASSUME RedInv, CiertosInv, [Next]_vars, Una', Limpio' PROVE \A m \in Maquinas : Ciertos(m)'
  BY DEF CiertosInv
<1>1. CASE UNCHANGED vars
  <2>1. Una /\ Limpio
    BY <1>1 DEF Una, Limpio, vars, maquina, registro
  <2>2. \A m \in Maquinas : Ciertos(m)
    BY <2>1 DEF CiertosInv
  <2>3. UNCHANGED <<cola, inHdr, hdrT, buffer, messages, tomados, pc>>
    BY <1>1 DEF vars, dispositivo, correo, registro
  <2>4. \A m \in Maquinas : /\ Llegan(m)' = Llegan(m)
                            /\ \A b \in Buzones : EnBuzon(m, b)' = EnBuzon(m, b)
    BY <2>3 DEF Llegan, EnBuzon, Leyo
  <2> QED
    BY <2>2, <2>3, <2>4 DEF Ciertos
<1>2. ASSUME NEW m \in Maquinas, Arrancar(m) \/ Paso(m)
      PROVE  \A x \in Maquinas : Ciertos(x)'
  <2>1. \A x \in Maquinas : arranques[x] \in Nat /\ arranques'[x] >= arranques[x] /\ arranques'[x] \in Nat
    <3>1. RedInv' /\ Ajenas(m)
      BY <1>2, PasoBien
    <3>2. arranques'[m] = arranques[m] \/ arranques'[m] = arranques[m] + 1
      <4>1. CASE Arrancar(m)
        BY <4>1 DEF Arrancar, RedInv, Tipos, Pon
      <4>2. CASE Paso(m)
        BY <4>2, TerminarBien, HiloBien, SendDoneBien
           DEF Paso, CheckPktAvail, Mandar, EsperarEnvio, Sacar, EsperarAviso, Copiar, Anadir, maquina
      <4> QED
        BY <1>2, <4>1, <4>2
    <3>3. \A x \in Maquinas : arranques[x] \in Nat /\ arranques'[x] \in Nat
      BY <3>1 DEF RedInv, Tipos
    <3>4. ASSUME NEW x \in Maquinas PROVE arranques'[x] >= arranques[x]
      <4>1. CASE x = m
        BY <3>2, <3>3, <4>1
      <4>2. CASE x # m
        BY <3>1, <3>3, <4>2 DEF Ajenas
      <4> QED
        BY <4>1, <4>2
    <3> QED
      BY <3>3, <3>4
  <2>2. Una
    BY <2>1 DEF Una
  <2>3. Limpio
    BY <1>2, <2>1, PisadoQueda DEF Limpio
  <2> QED
    BY <1>2, <2>2, <2>3, CiertosPaso DEF CiertosInv
<1> QED
  BY <1>1, <1>2, NextEsPaso

\* A machine that stopped took an answer, which says what the property says.
LEMMA CiertosBasta == RedInv /\ CiertosInv => AcuseCierto
<1> SUFFICES ASSUME RedInv, CiertosInv, NEW m \in Maquinas, estado[m] = "parada",
                    \A x \in Maquinas : arranques[x] = 1 /\ ~pisado[x]
             PROVE  \E i \in DOMAIN tomados[lejos[m]][0] : tomados[lejos[m]][0][i] = Primero(m)
  BY DEF AcuseCierto
<1>1. Ciertos(m)
  BY DEF CiertosInv, Una, Limpio
<1>2. tomados[m][1] \in Seq(EnBuzon(m, 1)) /\ tomados[m][1] # <<>>
  BY <1>1 DEF Ciertos, Buzones, RedInv, Bien, ArranqueBien
<1>3. tomados[m][1][1] \in EnBuzon(m, 1)
  BY <1>2, EmptySeq, ElementOfSeq
<1>4. Leyo(lejos[m], m)
  BY <1>3 DEF EnBuzon, Llegan
<1>5. Primero(m) = Mensaje(m)
  BY DEF Primero, Mensaje
<1> QED
  BY <1>4, <1>5 DEF Leyo

\* For any number of machines, whoever each of them writes to, whatever the
\* network loses and whoever is stopped with Ctrl-C, with or without -p: while
\* nothing is started twice and no packet has been written over in a device, a
\* machine that stops of its own accord has been answered by the machine it wrote
\* to, which had read its message.
THEOREM AcuseCiertoSiempre == Spec => []AcuseCierto
<1>1. Init => RedInv /\ CiertosInv
  BY RedInvInicial, CiertosInicial
<1>2. RedInv /\ CiertosInv /\ [Next]_vars => RedInv' /\ CiertosInv'
  BY RedInvPaso, CiertosInvPaso
<1>3. RedInv /\ CiertosInv => AcuseCierto
  BY CiertosBasta
<1> QED
  BY <1>1, <1>2, <1>3, PTL DEF Spec

-----------------------------------------------------------------------------
(* The packets of a mailbox                                                  *)

\* A set of numbers has a first one.
LEMMA PrimerNatural ==
    ASSUME NEW T \in SUBSET Nat, T # {}
    PROVE  \E x \in T : \A y \in T : x <= y
<1>1. IsWellFoundedOn(OpToRel(<,Nat), Nat)
  BY NatLessThanWellFounded
<1>2. PICK x \in T : \A y \in T : ~(<<y, x>> \in OpToRel(<,Nat))
  BY <1>1, WFMin
<1>3. ASSUME NEW y \in T PROVE x <= y
  <2>1. ~(<<y, x>> \in {ss \in Nat \X Nat : ss[1] < ss[2]})
    BY <1>2 DEF OpToRel
  <2> QED
    BY <2>1
<1> QED
  BY <1>3

\* F gives what Para takes of each beginning of s, up to n packets.
Cuerpo(F, s, b, i) == IF i = 0 THEN <<>> ELSE IF s[i].to = b THEN Append(F[i - 1], s[i]) ELSE F[i - 1]
EsPara(F, s, b, n) == F = [i \in 0 .. n |-> Cuerpo(F, s, b, i)]

\* There is such a function: the recursion of Para is well defined.
LEMMA ParaExiste ==
    ASSUME NEW s, NEW b, NEW n \in Nat
    PROVE  \E F : EsPara(F, s, b, n)
<1> DEFINE Malos == {k \in Nat : ~\E F : EsPara(F, s, b, k)}
<1> SUFFICES ASSUME Malos # {} PROVE FALSE
  OBVIOUS
<1>1. PICK k \in Malos : \A j \in Malos : k <= j
  BY PrimerNatural
<1>2. k \in Nat /\ ~\E F : EsPara(F, s, b, k)
  OBVIOUS
<1>3. CASE k = 0
  <2> DEFINE F == [i \in 0 .. 0 |-> <<>>]
  <2>1. F = [i \in 0 .. 0 |-> Cuerpo(F, s, b, i)]
    BY DEF Cuerpo
  <2> HIDE DEF F
  <2> QED
    BY <1>2, <1>3, <2>1 DEF EsPara
<1>4. CASE k # 0
  <2>1. k - 1 \in Nat /\ k - 1 \notin Malos
    BY <1>1, <1>2, <1>4
  <2>2. PICK F : EsPara(F, s, b, k - 1)
    BY <2>1
  <2> DEFINE G == [i \in 0 .. k |-> IF i = k THEN Cuerpo(F, s, b, k) ELSE F[i]]
  <2>3. G = [i \in 0 .. k |-> Cuerpo(G, s, b, i)]
    <3>1. ASSUME NEW i \in 0 .. k PROVE G[i] = Cuerpo(G, s, b, i)
      <4>1. CASE i = k
        BY <1>2, <1>4, <4>1 DEF Cuerpo
      <4>2. CASE i # k
        <5>1. i \in 0 .. k - 1 /\ (i # 0 => i - 1 \in 0 .. k /\ i - 1 # k)
          BY <1>2, <4>2
        <5>2. F[i] = Cuerpo(F, s, b, i)
          BY <2>2, <5>1 DEF EsPara
        <5>3. G[i] = F[i] /\ (i # 0 => G[i - 1] = F[i - 1])
          BY <4>2, <5>1
        <5> HIDE DEF G
        <5> QED
          BY <5>2, <5>3 DEF Cuerpo
      <4> QED
        BY <4>1, <4>2
    <3>2. G = [i \in 0 .. k |-> G[i]]
      OBVIOUS
    <3> HIDE DEF G
    <3> QED
      BY <3>1, <3>2
  <2> HIDE DEF G
  <2> QED
    BY <1>2, <2>3 DEF EsPara
<1> QED
  BY <1>3, <1>4

\* Two sequences with the same beginning.
Comienzan(s, t, k) == \A i \in 1 .. k : s[i] = t[i]

\* They give the same up to there.
LEMMA ParaUnica ==
    ASSUME NEW s, NEW t, NEW b, NEW n \in Nat, NEW m \in Nat, NEW F, NEW G,
           EsPara(F, s, b, n), EsPara(G, t, b, m),
           NEW k \in Nat, k <= n, k <= m, Comienzan(s, t, k)
    PROVE  F[k] = G[k]
<1> DEFINE Malos == {j \in 0 .. k : F[j] # G[j]}
<1> SUFFICES ASSUME Malos # {} PROVE FALSE
  BY DEF Malos
<1>0. Malos \in SUBSET Nat
  OBVIOUS
<1>1. PICK j \in Malos : \A i \in Malos : j <= i
  <2> HIDE DEF Malos
  <2> QED
    BY <1>0, PrimerNatural
<1>2. j \in 0 .. k /\ F[j] # G[j] /\ j \in 0 .. n /\ j \in 0 .. m
  OBVIOUS
<1>3. F[j] = Cuerpo(F, s, b, j) /\ G[j] = Cuerpo(G, t, b, j)
  BY <1>2 DEF EsPara
<1>4. CASE j = 0
  BY <1>2, <1>3, <1>4 DEF Cuerpo
<1>5. CASE j # 0
  <2>1. j - 1 \in 0 .. k /\ j - 1 \notin Malos /\ j \in 1 .. k
    BY <1>1, <1>2, <1>5
  <2>2. F[j - 1] = G[j - 1] /\ s[j] = t[j]
    BY <2>1 DEF Comienzan
  <2> QED
    BY <1>2, <1>3, <1>5, <2>2 DEF Cuerpo
<1> QED
  BY <1>4, <1>5

\* What Para is, by any such function.
LEMMA ParaEs ==
    ASSUME NEW S, NEW s \in Seq(S), NEW b
    PROVE  \E F : EsPara(F, s, b, Len(s)) /\ Para(s, b) = F[Len(s)]
<1> DEFINE C(F) == F = [i \in 0 .. Len(s) |-> IF i = 0 THEN <<>>
                                 ELSE IF s[i].to = b THEN Append(F[i - 1], s[i]) ELSE F[i - 1]]
<1>1. Len(s) \in Nat
  BY LenProperties
<1>2. \A F : C(F) <=> EsPara(F, s, b, Len(s))
  BY DEF EsPara, Cuerpo
<1>3. \E F : C(F)
  BY <1>1, <1>2, ParaExiste
<1>4. C(CHOOSE F : C(F))
  <2> HIDE DEF C
  <2> QED
    BY <1>3
<1>5. Para(s, b) = (CHOOSE F : C(F))[Len(s)]
  BY DEF Para
<1> HIDE DEF C
<1> QED
  BY <1>2, <1>4, <1>5

\* No mailbox has packets in an empty sequence.
LEMMA ParaVacia == ASSUME NEW b PROVE Para(<<>>, b) = <<>>
<1>1. <<>> \in Seq({}) /\ Len(<<>>) = 0
  BY EmptySeq
<1>2. PICK F : EsPara(F, <<>>, b, 0) /\ Para(<<>>, b) = F[0]
  BY <1>1, ParaEs
<1> QED
  BY <1>2 DEF EsPara, Cuerpo

\* A packet that comes last is the last of its mailbox.
LEMMA ParaAppend ==
    ASSUME NEW S, NEW s \in Seq(S), NEW x \in S, NEW b
    PROVE  Para(Append(s, x), b) = IF x.to = b THEN Append(Para(s, b), x) ELSE Para(s, b)
<1> DEFINE n == Len(s)
           t == Append(s, x)
<1>1. n \in Nat /\ t \in Seq(S) /\ Len(t) = n + 1 /\ t[n + 1] = x /\ \A i \in 1 .. n : s[i] = t[i]
  BY AppendProperties, LenProperties
<1>2. PICK F : EsPara(F, s, b, n) /\ Para(s, b) = F[n]
  BY ParaEs
<1> HIDE DEF n, t
<1>3. PICK G, k : k = n + 1 /\ EsPara(G, t, b, k) /\ Para(t, b) = G[k]
  BY <1>1, ParaEs
<1>4. F[n] = G[n]
  <2>1. k \in Nat /\ n <= n /\ n <= k /\ Comienzan(s, t, n)
    BY <1>1, <1>3 DEF Comienzan
  <2> QED
    BY <1>1, <1>2, <1>3, <2>1, ParaUnica
<1>5. k \in 0 .. k /\ k # 0 /\ k - 1 = n
  BY <1>1, <1>3
<1>6. G[k] = Cuerpo(G, t, b, k)
  BY <1>3, <1>5 DEF EsPara
<1>7. Para(t, b) = IF x.to = b THEN Append(Para(s, b), x) ELSE Para(s, b)
  BY <1>1, <1>2, <1>3, <1>4, <1>5, <1>6 DEF Cuerpo
<1> QED
  BY <1>7 DEF t

\* An element is added after a concatenation.
LEMMA ConAppend ==
    ASSUME NEW S, NEW s \in Seq(S), NEW t \in Seq(S), NEW y \in S
    PROVE  s \o Append(t, y) = Append(s \o t, y)
<1>1. <<y>> \in Seq(S) /\ s \o t \in Seq(S)
  BY ConcatProperties
<1>2. Append(t, y) = t \o <<y>> /\ Append(s \o t, y) = (s \o t) \o <<y>>
  BY <1>1, AppendIsConcat
<1>3. (s \o t) \o <<y>> = s \o (t \o <<y>>)
  BY <1>1, ConcatAssociative
<1> QED
  BY <1>2, <1>3

\* A sequence without its last element.
LEMMA Ultimo ==
    ASSUME NEW S, NEW t \in Seq(S), t # <<>>
    PROVE  \E u \in Seq(S), y \in S : t = Append(u, y) /\ Len(t) = Len(u) + 1 /\ Len(u) \in Nat
<1>1. PICK u \in Seq(S), y \in S : t = Append(u, y)
  BY SequenceEmptyOrAppend
<1>2. Len(t) = Len(u) + 1 /\ Len(u) \in Nat
  BY <1>1, AppendProperties, LenProperties
<1> QED
  BY <1>1, <1>2

\* Its packets are packets.
LEMMA ParaTipo ==
    ASSUME NEW S, NEW s \in Seq(S), NEW b
    PROVE  Para(s, b) \in Seq(S)
<1> DEFINE Malos == {n \in Nat : \E t \in Seq(S) : Len(t) = n /\ Para(t, b) \notin Seq(S)}
<1> SUFFICES ASSUME Malos # {} PROVE FALSE
  BY LenProperties
<1>1. PICK n \in Malos : \A j \in Malos : n <= j
  BY PrimerNatural
<1>2. PICK t \in Seq(S) : Len(t) = n /\ Para(t, b) \notin Seq(S)
  OBVIOUS
<1>3. CASE t = <<>>
  BY <1>2, <1>3, ParaVacia, EmptySeq
<1>4. CASE t # <<>>
  <2>1. PICK u \in Seq(S), y \in S : t = Append(u, y) /\ Len(t) = Len(u) + 1 /\ Len(u) \in Nat
    BY <1>4, Ultimo
  <2>2. Len(u) \notin Malos
    BY <1>1, <1>2, <2>1
  <2>3. Para(u, b) \in Seq(S)
    BY <2>1, <2>2
  <2>4. Append(Para(u, b), y) \in Seq(S)
    BY <2>3, AppendProperties
  <2>5. Para(t, b) = IF y.to = b THEN Append(Para(u, b), y) ELSE Para(u, b)
    BY <2>1, ParaAppend
  <2> QED
    BY <1>2, <2>3, <2>4, <2>5
<1> QED
  BY <1>3, <1>4

\* What is taken of one packet.
Solo(x, b) == IF x.to = b THEN <<x>> ELSE <<>>

\* A packet that comes first is the first of its mailbox.
VaPrimero(x, s, b) == Para(<<x>> \o s, b) = Solo(x, b) \o Para(s, b)

\* What follows from one length to the next, where a packet comes first.
LEMMA PrimeroAppend ==
    ASSUME NEW S, NEW u \in Seq(S), NEW x \in S, NEW y \in S, NEW b,
           VaPrimero(x, u, b)
    PROVE  VaPrimero(x, Append(u, y), b)
<1>1. <<x>> \in Seq(S) /\ Solo(x, b) \in Seq(S)
  BY EmptySeq DEF Solo
<1>2. PICK z \in Seq(S), w \in Seq(S), p \in Seq(S) : z = <<x>> /\ w = Solo(x, b) /\ p = Para(u, b)
  BY <1>1, ParaTipo
<1>3. z \o u \in Seq(S) /\ z \o Append(u, y) = Append(z \o u, y)
  BY ConcatProperties, ConAppend
<1>4. w \o Append(p, y) = Append(w \o p, y)
  BY ConAppend
<1>5. Para(Append(z \o u, y), b) = IF y.to = b THEN Append(Para(z \o u, b), y) ELSE Para(z \o u, b)
  BY <1>3, ParaAppend
<1>6. Para(Append(u, y), b) = IF y.to = b THEN Append(p, y) ELSE p
  BY <1>2, ParaAppend
<1>7. Para(z \o u, b) = w \o p
  BY <1>2 DEF VaPrimero
<1>8. Para(z \o Append(u, y), b) = w \o Para(Append(u, y), b)
  BY <1>3, <1>4, <1>5, <1>6, <1>7
<1> QED
  BY <1>2, <1>8 DEF VaPrimero

\* A packet that comes first is the first of its mailbox, by the least length for
\* which it would not be.
LEMMA ParaPrimero ==
    ASSUME NEW S, NEW s \in Seq(S), NEW x \in S, NEW b
    PROVE  VaPrimero(x, s, b)
<1> DEFINE Malos == {n \in Nat : \E t \in Seq(S) : Len(t) = n /\ ~VaPrimero(x, t, b)}
<1> SUFFICES ASSUME Malos # {} PROVE FALSE
  BY LenProperties
<1>1. PICK n \in Malos : \A j \in Malos : n <= j
  BY PrimerNatural
<1>2. PICK t \in Seq(S) : Len(t) = n /\ ~VaPrimero(x, t, b)
  OBVIOUS
<1>3. CASE t = <<>>
  <2>1. <<x>> = Append(<<>>, x) /\ <<>> \in Seq(S) /\ <<x>> \in Seq(S) /\ Solo(x, b) \in Seq(S)
    BY EmptySeq DEF Solo
  <2>2. <<x>> \o <<>> = <<x>> /\ Solo(x, b) \o <<>> = Solo(x, b)
    BY <2>1, ConcatEmptySeq
  <2>3. Para(Append(<<>>, x), b) = IF x.to = b THEN Append(Para(<<>>, b), x) ELSE Para(<<>>, b)
    BY <2>1, ParaAppend
  <2>4. Para(<<x>>, b) = Solo(x, b)
    BY <2>1, <2>3, ParaVacia DEF Solo
  <2> QED
    BY <1>2, <1>3, <2>2, <2>4, ParaVacia DEF VaPrimero
<1>4. CASE t # <<>>
  <2>1. PICK u \in Seq(S), y \in S : t = Append(u, y) /\ Len(t) = Len(u) + 1 /\ Len(u) \in Nat
    BY <1>4, Ultimo
  <2>2. Len(u) \notin Malos
    BY <1>1, <1>2, <2>1
  <2>3. VaPrimero(x, u, b)
    BY <2>1, <2>2
  <2> QED
    BY <1>2, <2>1, <2>3, PrimeroAppend
<1> QED
  BY <1>3, <1>4

\* A sequence of one element.
LEMMA Uno ==
    ASSUME NEW S, NEW x \in S
    PROVE  \E u \in Seq(S) : u = <<x>> /\ Len(u) = 1 /\ u[1] = x
<1>1. <<x>> \in Seq(S)
  BY EmptySeq
<1>2. Len(<<x>>) = 1 /\ <<x>>[1] = x
  OBVIOUS
<1> QED
  BY <1>1, <1>2

\* A sequence is its head and the rest.
LEMMA CabezaCola ==
    ASSUME NEW S, NEW q \in Seq(S), q # <<>>
    PROVE  \E h \in S, t \in Seq(S) : h = Head(q) /\ t = Tail(q) /\ q = <<h>> \o t
<1>0. Head(q) \in S /\ Tail(q) \in Seq(S)
  BY HeadTailProperties
<1>1. PICK h \in S, t \in Seq(S) : h = Head(q) /\ t = Tail(q)
  BY <1>0
<1>8. Len(t) = Len(q) - 1 /\ Len(t) \in Nat
  BY <1>1, HeadTailProperties, LenProperties
<1>9. \A i \in 1 .. Len(t) : t[i] = q[i + 1]
  <2>1. \A i \in 1 .. Len(Tail(q)) : Tail(q)[i] = q[i + 1]
    BY HeadTailProperties
  <2> QED
    BY <1>1, <2>1
<1>2. PICK u \in Seq(S) : u = <<h>> /\ Len(u) = 1 /\ u[1] = h
  BY Uno
<1>3. h = q[1] /\ Len(q) \in Nat
  BY <1>1, LenProperties
<1>4. /\ u \o t \in Seq(S) /\ Len(u \o t) = 1 + Len(t)
      /\ \A i \in 1 .. 1 + Len(t) : (u \o t)[i] = IF i <= 1 THEN u[i] ELSE t[i - 1]
  BY <1>2, ConcatProperties
<1>5. Len(u \o t) = Len(q)
  BY <1>3, <1>4, <1>8
<1>6. ASSUME NEW i \in 1 .. Len(q) PROVE q[i] = (u \o t)[i]
  <2>1. CASE i = 1
    BY <1>1, <1>2, <1>3, <1>4, <2>1
  <2>2. CASE i # 1
    <3>1. i - 1 \in 1 .. Len(t) /\ i \in 1 .. 1 + Len(t) /\ ~(i <= 1) /\ (i - 1) + 1 = i
      BY <1>3, <1>8, <2>2
    <3> QED
      BY <1>4, <1>9, <3>1
  <2> QED
    BY <2>1, <2>2
<1>7. q = u \o t
  BY <1>4, <1>5, <1>6, SeqEqual
<1> QED
  BY <1>1, <1>2, <1>7

\* Four sequences one after another, grouped in two ways.
Agrupa(g, q, u, w) == (g \o q) \o (u \o w) = (g \o (q \o u)) \o w

\* They are the same.
LEMMA CuatroEnFila ==
    ASSUME NEW S, NEW g \in Seq(S), NEW q \in Seq(S), NEW u \in Seq(S), NEW w \in Seq(S)
    PROVE  Agrupa(g, q, u, w)
<1>1. PICK k \in Seq(S), l \in Seq(S) : k = g \o q /\ l = q \o u
  BY ConcatProperties
<1>2. (k \o u) \o w = k \o (u \o w)
  BY ConcatAssociative
<1>3. (g \o q) \o u = g \o (q \o u)
  BY ConcatAssociative
<1> QED
  BY <1>1, <1>2, <1>3 DEF Agrupa

-----------------------------------------------------------------------------
(* Every packet gets to its mailbox once and in order                        *)

\* What has reached the socket of a machine and is in no mailbox yet, in order.
EnVuelo(m) == EnMano(m) \o EnEspera(m) \o cola[m]

FielEn(m) ==
    estado[m] = "viva" /\ ~pisado[m] =>
        \A b \in Buzones :
            Para(historia[m], b) = tomados[m][b] \o messages[m][b] \o Para(EnVuelo(m), b)
FielInv == \A m \in Maquinas : FielEn(m)

\* These are sequences of packets.
LEMMA VueloTipo ==
    ASSUME RedInv, NEW m \in Maquinas
    PROVE  EnMano(m) \in Seq(Paquetes) /\ EnEspera(m) \in Seq(Paquetes) /\ EnVuelo(m) \in Seq(Paquetes)
<1>1. EnMano(m) \in Seq(Paquetes)
  <2>1. pc[m]["worker"] = "copiar" => inbox[m] \in Paquetes
    BY DEF RedInv, Tipos, Bien, WorkerBien
  <2>2. pc[m]["worker"] \in ConBuffer => buffer[m] \in Paquetes
    BY DEF RedInv, Tipos, Bien, WorkerBien
  <2> QED
    BY <2>1, <2>2 DEF EnMano, ConBuffer
<1>2. EnEspera(m) \in Seq(Paquetes)
  BY DEF RedInv, Tipos, EnEspera
<1>3. cola[m] \in Seq(Paquetes)
  BY DEF RedInv, Tipos
<1> QED
  BY <1>1, <1>2, <1>3, ConcatProperties DEF EnVuelo

\* A machine where what is on its way does not change, nor what has got there.
LEMMA FielQuieta ==
    ASSUME NEW x \in Maquinas, FielEn(x), estado'[x] = estado[x], pisado'[x] = pisado[x],
           historia'[x] = historia[x], tomados'[x] = tomados[x], messages'[x] = messages[x],
           EnVuelo(x)' = EnVuelo(x)
    PROVE  FielEn(x)'
BY DEF FielEn

\* What another machine does leaves what this one has in hand.
LEMMA ManoAjena ==
    ASSUME NEW m \in Maquinas, Ajenas(m), NEW x \in Maquinas \ {m}
    PROVE  EnMano(x)' = EnMano(x) /\ EnEspera(x)' = EnEspera(x)
BY DEF Ajenas, EnMano, EnEspera

\* A packet reaches the socket.
LEMMA FielLlega ==
    ASSUME RedInv, NEW x \in Maquinas, FielEn(x), NEW p \in Paquetes,
           estado'[x] = estado[x], pisado'[x] = pisado[x],
           tomados'[x] = tomados[x], messages'[x] = messages[x],
           EnMano(x)' = EnMano(x), EnEspera(x)' = EnEspera(x),
           historia'[x] = Append(historia[x], p), cola'[x] = Append(cola[x], p)
    PROVE  FielEn(x)'
<1>1. cola[x] \in Seq(Paquetes) /\ historia[x] \in Seq(Paquetes) /\ EnMano(x) \o EnEspera(x) \in Seq(Paquetes)
  BY VueloTipo, ConcatProperties DEF RedInv, Tipos
<1>2. EnVuelo(x)' = Append(EnVuelo(x), p)
  <2>1. PICK e \in Seq(Paquetes), c \in Seq(Paquetes) : e = EnMano(x) \o EnEspera(x) /\ c = cola[x]
    BY <1>1
  <2>2. e \o Append(c, p) = Append(e \o c, p)
    BY ConAppend
  <2> QED
    BY <2>1, <2>2 DEF EnVuelo
<1> SUFFICES ASSUME estado[x] = "viva", ~pisado[x], NEW b \in Buzones
             PROVE  Para(historia'[x], b) = tomados[x][b] \o messages[x][b] \o Para(EnVuelo(x)', b)
  BY DEF FielEn
<1>3. PICK h \in Seq(Paquetes), v \in Seq(Paquetes), g \in Seq(Paquetes) :
         h = historia[x] /\ v = EnVuelo(x) /\ g = tomados[x][b] \o messages[x][b]
  <2>1. historia[x] \in Seq(Paquetes) /\ tomados[x][b] \in Seq(Paquetes) /\ messages[x][b] \in Seq(Paquetes)
    BY DEF RedInv, Tipos
  <2>2. tomados[x][b] \o messages[x][b] \in Seq(Paquetes)
    BY <2>1, ConcatProperties
  <2> QED
    BY <2>1, <2>2, VueloTipo
<1>4. Para(h, b) = g \o Para(v, b)
  BY <1>3 DEF FielEn
<1>5. Para(Append(h, p), b) = IF p.to = b THEN Append(Para(h, b), p) ELSE Para(h, b)
  BY ParaAppend
<1>6. Para(Append(v, p), b) = IF p.to = b THEN Append(Para(v, b), p) ELSE Para(v, b)
  BY ParaAppend
<1>7. PICK w \in Seq(Paquetes) : w = Para(v, b)
  BY ParaTipo
<1>8. g \o Append(w, p) = Append(g \o w, p)
  BY ConAppend
<1>9. Para(Append(h, p), b) = g \o Para(Append(v, p), b)
  BY <1>4, <1>5, <1>6, <1>7, <1>8
<1> QED
  BY <1>2, <1>3, <1>9

\* A machine that has just started has nothing.
LEMMA FielArrancar ==
    ASSUME RedInv, NEW m \in Maquinas, Arrancar(m)
    PROVE  FielEn(m)'
<1>1. Vacia(m)
  BY DEF Arrancar
<1>2. cola'[m] = <<>> /\ historia'[m] = <<>> /\ inHdr'[m] = Nada /\ messages'[m] = [b \in Buzones |-> <<>>]
  BY <1>1, VaciaLema DEF RedInv
<1>3. pc'[m]["worker"] = "esperar" /\ tomados'[m] = [b \in Buzones |-> <<>>]
  BY DEF Arrancar, RedInv, Tipos, Pon
<1>4. EnMano(m)' = <<>> /\ EnEspera(m)' = <<>>
  BY <1>2, <1>3 DEF EnMano, EnEspera
<1>5. <<>> \o <<>> = <<>>
  BY EmptySeq, ConcatEmptySeq
<1>6. EnVuelo(m)' = <<>>
  BY <1>2, <1>4, <1>5 DEF EnVuelo
<1>7. \A b \in Buzones : Para(<<>>, b) = <<>>
  BY ParaVacia
<1> QED
  BY <1>2, <1>3, <1>5, <1>6, <1>7 DEF FielEn

\* The device takes the first packet of the socket.
LEMMA FielCheckPktAvail ==
    ASSUME RedInv, NEW m \in Maquinas, FielEn(m), CheckPktAvail(m)
    PROVE  FielEn(m)'
<1>1. cola[m] \in Seq(Paquetes) /\ cola[m] # <<>> /\ inHdr[m] = Nada
  BY DEF CheckPktAvail, HayCabida, RedInv, Tipos
<1>2. PICK h \in Paquetes, t \in Seq(Paquetes) : h = Head(cola[m]) /\ t = Tail(cola[m]) /\ cola[m] = <<h>> \o t
  BY <1>1, CabezaCola
<1>3. /\ cola'[m] = t /\ inHdr'[m] = h /\ h # Nada
      /\ UNCHANGED <<estado, pc, buffer, messages, tomados, historia>>
  BY <1>2, RedAssumption DEF CheckPktAvail, maquina, correo, RedInv, Tipos, Pon
<1>4. pisado'[m] <=> pisado[m] \/ pc[m]["worker"] = "copiar"
  <2>1. PICK q \in BOOLEAN : q = (pisado[m] \/ pc[m]["worker"] = "copiar")
    OBVIOUS
  <2>2. pisado' = Pon(pisado, m, q)
    BY <2>1 DEF CheckPktAvail
  <2> QED
    BY <2>1, <2>2 DEF RedInv, Tipos, Pon
<1>5. CASE pisado'[m]
  BY <1>5 DEF FielEn
<1>6. CASE ~pisado'[m]
  <2>1. ~pisado[m] /\ EnMano(m)' = EnMano(m)
    BY <1>3, <1>4, <1>6 DEF EnMano
  <2>2. EnEspera(m) = <<>> /\ EnEspera(m)' = <<h>>
    BY <1>1, <1>3 DEF EnEspera
  <2>3. PICK e \in Seq(Paquetes), u \in Seq(Paquetes) : e = EnMano(m) /\ u = <<h>>
    BY VueloTipo, Uno
  <2>4. (e \o u) \o t = e \o (u \o t) /\ e \o <<>> = e
    BY ConcatAssociative, ConcatEmptySeq
  <2>5. EnVuelo(m)' = EnVuelo(m)
    BY <1>2, <1>3, <2>1, <2>2, <2>3, <2>4 DEF EnVuelo
  <2> QED
    BY <1>3, <1>4, <1>6, <2>1, <2>5 DEF FielEn
<1> QED
  BY <1>5, <1>6

\* The worker takes it from the device and copies it.
LEMMA FielRecibe ==
    ASSUME RedInv, NEW m \in Maquinas, FielEn(m), EsperarAviso(m) \/ Copiar(m)
    PROVE  FielEn(m)'
<1>1. UNCHANGED <<estado, pisado, historia, tomados, messages, cola, inbox>>
  BY DEF EsperarAviso, Copiar, maquina, registro, dispositivo
<1>2. CASE EsperarAviso(m)
  <2>1. /\ Ir(m, "worker", "copiar") /\ inHdr'[m] = Nada /\ pc[m]["worker"] = "esperar"
        /\ inHdr[m] # Nada /\ inbox[m] = inHdr[m]
    BY <1>2, EsperarAvisoBien DEF EsperarAviso, RedInv, Tipos, Pon
  <2>2. pc'[m]["worker"] = "copiar"
    BY <2>1, IrLema DEF RedInv, Hilos, PuntosWorker
  <2>3. EnMano(m) = <<>> /\ EnEspera(m) = <<inHdr[m]>> /\ EnMano(m)' = <<inHdr[m]>> /\ EnEspera(m)' = <<>>
    BY <1>1, <2>1, <2>2 DEF EnMano, EnEspera
  <2>4. PICK u \in Seq(Paquetes) : u = <<inHdr[m]>>
    BY <2>3, VueloTipo
  <2>5. <<>> \o u = u \o <<>>
    BY ConcatEmptySeq
  <2>6. EnVuelo(m)' = EnVuelo(m)
    BY <1>1, <2>3, <2>4, <2>5 DEF EnVuelo
  <2> QED
    BY <1>1, <2>6, FielQuieta
<1>3. CASE Copiar(m)
  <2>1. Ir(m, "worker", "poner") /\ pc[m]["worker"] = "copiar" /\ inHdr' = inHdr
    BY <1>3 DEF Copiar, dispositivo
  <2>2. pc'[m]["worker"] = "poner"
    BY <2>1, IrLema DEF RedInv, Hilos, PuntosWorker
  <2>3. CASE pisado[m]
    BY <1>1, <2>3 DEF FielEn
  <2>4. CASE ~pisado[m]
    <3>1. buffer'[m] = inbox[m]
      BY <1>3, <2>4, CopiarBien
    <3>2. EnMano(m)' = EnMano(m) /\ EnEspera(m)' = EnEspera(m)
      BY <2>1, <2>2, <3>1 DEF EnMano, EnEspera
    <3>3. EnVuelo(m)' = EnVuelo(m)
      BY <1>1, <3>2 DEF EnVuelo
    <3> QED
      BY <1>1, <3>3, FielQuieta
  <2> QED
    BY <2>3, <2>4
<1> QED
  BY <1>2, <1>3

\* main takes the first packet of a mailbox.
LEMMA FielSacar ==
    ASSUME RedInv, NEW m \in Maquinas, FielEn(m), Sacar(m)
    PROVE  FielEn(m)'
<1>1. PICK c \in Buzones :
         /\ messages[m][c] # <<>>
         /\ messages' = [messages EXCEPT ![m][c] = Tail(messages[m][c])]
         /\ tomados' = [tomados EXCEPT ![m][c] = Append(tomados[m][c], Head(messages[m][c]))]
  BY SacarBien
<1>2. UNCHANGED <<estado, pisado, historia, cola, inHdr, inbox, buffer>> /\ Ir(m, "main", "V")
  BY DEF Sacar, maquina, dispositivo
<1>3. pc'[m]["worker"] = pc[m]["worker"]
  BY <1>2, IrLema DEF RedInv, Hilos, PuntosMain
<1>4. EnVuelo(m)' = EnVuelo(m)
  BY <1>2, <1>3 DEF EnVuelo, EnMano, EnEspera
<1>5. ASSUME NEW b \in Buzones PROVE tomados'[m][b] \o messages'[m][b] = tomados[m][b] \o messages[m][b]
  <2>1. CASE b = c
    <3>0. tomados[m][c] \in Seq(Paquetes) /\ messages[m][c] \in Seq(Paquetes)
      BY DEF RedInv, Tipos
    <3>5. PICK g \in Seq(Paquetes), q \in Seq(Paquetes) : g = tomados[m][c] /\ q = messages[m][c]
      BY <3>0
    <3>6. PICK h \in Paquetes, t \in Seq(Paquetes) : h = Head(q) /\ t = Tail(q) /\ q = <<h>> \o t
      BY <1>1, <3>5, CabezaCola
    <3>1. /\ g = tomados[m][c] /\ q = messages[m][c] /\ h = Head(q) /\ t = Tail(q) /\ q = <<h>> \o t
      BY <3>5, <3>6
    <3>2. tomados'[m][c] = Append(g, h) /\ messages'[m][c] = t
      BY <1>1, <3>1 DEF RedInv, Tipos
    <3>3. PICK u \in Seq(Paquetes) : u = <<h>>
      BY Uno
    <3>4. Append(g, h) = g \o u /\ (g \o u) \o t = g \o (u \o t)
      BY <3>3, AppendIsConcat, ConcatAssociative
    <3> QED
      BY <2>1, <3>1, <3>2, <3>3, <3>4
  <2>2. CASE b # c
    BY <1>1, <2>2 DEF RedInv, Tipos
  <2> QED
    BY <2>1, <2>2
<1> QED
  BY <1>2, <1>4, <1>5 DEF FielEn

\* The worker adds to a mailbox the packet it had in hand.
LEMMA FielAnadir ==
    ASSUME RedInv, NEW m \in Maquinas, FielEn(m), Anadir(m)
    PROVE  FielEn(m)'
<1>1. /\ buffer[m] \in Paquetes /\ pc[m]["worker"] \in ConBuffer /\ pc'[m]["worker"] = "V"
      /\ messages' = [messages EXCEPT ![m][buffer[m].to] = Append(messages[m][buffer[m].to], buffer[m])]
  BY AnadirBien
<1>2. UNCHANGED <<estado, pisado, historia, tomados, cola, inHdr, inbox>>
  BY DEF Anadir, maquina, dispositivo, registro
<1>3. PICK x \in Paquetes, u \in Seq(Paquetes), r \in Seq(Paquetes) :
         x = buffer[m] /\ u = <<x>> /\ r = EnEspera(m) \o cola[m]
  <2>1. EnEspera(m) \o cola[m] \in Seq(Paquetes)
    <3>1. cola[m] \in Seq(Paquetes)
      BY DEF RedInv, Tipos
    <3> QED
      BY <3>1, VueloTipo, ConcatProperties
  <2> QED
    BY <1>1, <2>1, Uno
<1>4. EnVuelo(m) = u \o r /\ EnVuelo(m)' = r
  <2>1. EnMano(m) = u /\ EnMano(m)' = <<>> /\ EnEspera(m)' = EnEspera(m)
    BY <1>1, <1>2, <1>3 DEF EnMano, EnEspera, ConBuffer
  <2>2. PICK e \in Seq(Paquetes), c \in Seq(Paquetes) : e = EnEspera(m) /\ c = cola[m]
    BY VueloTipo DEF RedInv, Tipos
  <2>3. (u \o e) \o c = u \o (e \o c) /\ <<>> \o e = e
    BY ConcatAssociative, ConcatEmptySeq
  <2> QED
    BY <1>2, <1>3, <2>1, <2>2, <2>3 DEF EnVuelo
<1> SUFFICES ASSUME estado[m] = "viva", ~pisado[m], NEW b \in Buzones
             PROVE  Para(historia[m], b) = tomados[m][b] \o messages'[m][b] \o Para(r, b)
  BY <1>2, <1>4 DEF FielEn
<1>5. PICK g \in Seq(Paquetes), q \in Seq(Paquetes), w \in Seq(Paquetes) :
         g = tomados[m][b] /\ q = messages[m][b] /\ w = Para(r, b)
  BY ParaTipo DEF RedInv, Tipos
<1>6. Para(historia[m], b) = (g \o q) \o Para(u \o r, b)
  BY <1>4, <1>5 DEF FielEn
<1>7. Para(u \o r, b) = Solo(x, b) \o w
  BY <1>3, <1>5, ParaPrimero DEF VaPrimero
<1>8. CASE x.to = b
  <2>1. messages'[m][b] = Append(q, x)
    BY <1>1, <1>3, <1>5, <1>8 DEF RedInv, Tipos
  <2>2. Append(q, x) = q \o u /\ q \o u \in Seq(Paquetes)
    BY <1>3, AppendIsConcat, ConcatProperties
  <2>3. (g \o q) \o (u \o w) = (g \o (q \o u)) \o w
    <3>1. Agrupa(g, q, u, w)
      BY CuatroEnFila
    <3> QED
      BY <3>1 DEF Agrupa
  <2> QED
    BY <1>3, <1>5, <1>6, <1>7, <1>8, <2>1, <2>2, <2>3 DEF Solo
<1>9. CASE x.to # b
  <2>1. messages'[m][b] = q
    BY <1>1, <1>3, <1>5, <1>9 DEF RedInv, Tipos
  <2>2. <<>> \o w = w
    BY ConcatEmptySeq
  <2> QED
    BY <1>5, <1>6, <1>7, <1>9, <2>1, <2>2 DEF Solo
<1> QED
  BY <1>8, <1>9

\* The steps that do not touch any of this.
LEMMA FielOtros ==
    ASSUME RedInv, NEW m \in Maquinas, FielEn(m),
           SendDone(m) \/ EsperarEnvio(m) \/ \E t \in Hilos : Hilo(m, t)
    PROVE  FielEn(m)'
<1>1. /\ UNCHANGED <<estado, pisado, historia, tomados, messages, cola, inHdr, inbox, buffer>>
      /\ pc'[m]["worker"] = "copiar" <=> pc[m]["worker"] = "copiar"
      /\ pc'[m]["worker"] \in ConBuffer <=> pc[m]["worker"] \in ConBuffer
  <2>1. CASE SendDone(m)
    BY <2>1, SendDoneBien
  <2>2. CASE EsperarEnvio(m)
    <3>1. pc'[m]["worker"] = pc[m]["worker"]
      BY <2>2, IrLema DEF EsperarEnvio, RedInv, Hilos, PuntosMain
    <3> QED
      BY <2>2, <3>1 DEF EsperarEnvio, maquina, correo, registro
  <2>3. CASE \E t \in Hilos : Hilo(m, t)
    BY <2>3, HiloBien
  <2> QED
    BY <2>1, <2>2, <2>3
<1>2. EnMano(m)' = EnMano(m) /\ EnEspera(m)' = EnEspera(m)
  BY <1>1 DEF EnMano, EnEspera, ConBuffer
<1>3. EnVuelo(m)' = EnVuelo(m)
  BY <1>1, <1>2 DEF EnVuelo
<1> QED
  BY <1>1, <1>3, FielQuieta

\* Every step of a machine keeps all of them faithful.
LEMMA FielPaso ==
    ASSUME RedInv, FielInv, NEW m \in Maquinas, Arrancar(m) \/ Paso(m), NEW x \in Maquinas
    PROVE  FielEn(x)'
<1>1. Ajenas(m) /\ FielEn(x) /\ FielEn(m)
  BY PasoBien DEF FielInv
<1>2. CASE Mandar(m)
  <2>1. PICK p \in Paquetes : p = Paquete(m) /\ p.a \in Maquinas
    BY <1>2, PaqueteTipo DEF Mandar, Paquetes
  <2>2. \/ cola' = cola /\ historia' = historia
        \/ /\ cola' = Pon(cola, p.a, Append(cola[p.a], p))
           /\ historia' = Pon(historia, p.a, Append(historia[p.a], p))
    BY <1>2, <2>1 DEF Mandar
  <2>3. UNCHANGED <<estado, pisado, tomados, messages, inHdr, inbox, buffer>> /\ Ir(m, "main", "esperarEnvio")
    BY <1>2 DEF Mandar, maquina, correo
  <2>4. pc'[x]["worker"] = pc[x]["worker"]
    BY <2>3, IrLema DEF RedInv, Hilos, PuntosMain
  <2>5. EnMano(x)' = EnMano(x) /\ EnEspera(x)' = EnEspera(x)
    BY <2>3, <2>4 DEF EnMano, EnEspera
  <2>6. CASE cola'[x] = cola[x] /\ historia'[x] = historia[x]
    <3>1. EnVuelo(x)' = EnVuelo(x)
      BY <2>5, <2>6 DEF EnVuelo
    <3> QED
      BY <1>1, <2>3, <2>6, <3>1, FielQuieta
  <2>7. CASE cola'[x] = Append(cola[x], p) /\ historia'[x] = Append(historia[x], p)
    BY <1>1, <2>3, <2>5, <2>7, FielLlega
  <2> QED
    BY <2>1, <2>2, <2>6, <2>7 DEF RedInv, Tipos, Pon
<1>3. CASE x # m /\ ~Mandar(m)
  <2>1. cola'[x] = cola[x] /\ historia'[x] = historia[x]
    <3>1. CASE Arrancar(m) \/ Cortar(m) \/ MandarANadie(m) \/ SacarDeVacio(m) \/ Parar(m)
      <4>1. Vacia(m)
        BY <3>1, TerminarBien DEF Arrancar
      <4>2. MemoriaAjena(m)
        BY <4>1, VaciaLema DEF RedInv
      <4> QED
        BY <1>3, <4>2 DEF MemoriaAjena
    <3>2. CASE CheckPktAvail(m)
      BY <1>3, <3>2 DEF CheckPktAvail, RedInv, Tipos, Pon
    <3>3. CASE (\E t \in Hilos : Hilo(m, t)) \/ SendDone(m)
      BY <3>3, HiloBien, SendDoneBien
    <3>4. CASE EsperarEnvio(m) \/ Sacar(m) \/ EsperarAviso(m) \/ Copiar(m) \/ Anadir(m)
      BY <3>4 DEF EsperarEnvio, Sacar, EsperarAviso, Copiar, Anadir, dispositivo, registro
    <3> QED
      BY <1>3, <3>1, <3>2, <3>3, <3>4 DEF Paso
  <2>2. EnMano(x)' = EnMano(x) /\ EnEspera(x)' = EnEspera(x)
    BY <1>1, <1>3, ManoAjena
  <2>3. EnVuelo(x)' = EnVuelo(x)
    BY <2>1, <2>2 DEF EnVuelo
  <2> QED
    BY <1>1, <1>3, <2>1, <2>3, FielQuieta DEF Ajenas
<1>4. CASE x = m /\ ~Mandar(m)
  <2>1. CASE Arrancar(m)
    BY <1>4, <2>1, FielArrancar
  <2>2. CASE Cortar(m) \/ MandarANadie(m) \/ SacarDeVacio(m) \/ Parar(m)
    BY <1>4, <2>2, TerminarBien DEF FielEn
  <2>3. CASE CheckPktAvail(m)
    BY <1>1, <1>4, <2>3, FielCheckPktAvail
  <2>4. CASE EsperarAviso(m) \/ Copiar(m)
    BY <1>1, <1>4, <2>4, FielRecibe
  <2>5. CASE Sacar(m)
    BY <1>1, <1>4, <2>5, FielSacar
  <2>6. CASE Anadir(m)
    BY <1>1, <1>4, <2>6, FielAnadir
  <2>7. CASE SendDone(m) \/ EsperarEnvio(m) \/ \E t \in Hilos : Hilo(m, t)
    BY <1>1, <1>4, <2>7, FielOtros
  <2> QED
    BY <1>4, <2>1, <2>2, <2>3, <2>4, <2>5, <2>6, <2>7 DEF Paso
<1> QED
  BY <1>2, <1>3, <1>4

\* It is inductive; initially no machine is up.
LEMMA FielInvPaso == RedInv /\ FielInv /\ [Next]_vars => FielInv'
<1> SUFFICES ASSUME RedInv, FielInv, [Next]_vars, NEW x \in Maquinas PROVE FielEn(x)'
  BY DEF FielInv
<1>1. CASE UNCHANGED vars
  <2>1. UNCHANGED <<estado, pisado, historia, tomados, messages, cola, inHdr, inbox, buffer, pc>>
    BY <1>1 DEF vars, maquina, dispositivo, correo, registro
  <2>2. EnVuelo(x)' = EnVuelo(x)
    BY <2>1 DEF EnVuelo, EnMano, EnEspera
  <2> QED
    BY <2>1, <2>2, FielQuieta DEF FielInv
<1>2. ASSUME NEW m \in Maquinas, Arrancar(m) \/ Paso(m) PROVE FielEn(x)'
  BY <1>2, FielPaso
<1> QED
  BY <1>1, <1>2, NextEsPaso

\* For any number of machines, with or without -p, whatever is lost and whoever
\* ends or starts again: every packet that reaches the socket of a machine gets
\* to the mailbox it says, once and in the order it came, while no packet has
\* been written over in the device, which takes -p.
THEOREM EntregaFielSiempre == Spec => []EntregaFiel
<1>1. Init => RedInv /\ FielInv
  <2>1. Init => FielInv
    BY DEF Init, FielInv, FielEn
  <2> QED
    BY <2>1, RedInvInicial
<1>2. RedInv /\ FielInv /\ [Next]_vars => RedInv' /\ FielInv'
  BY RedInvPaso, FielInvPaso
<1>3. RedInv /\ FielInv => EntregaFiel
  <2>1. RedInv => \A m \in Maquinas : estado[m] = "viva" /\ pisado[m] => preemptive[m]
    BY DEF RedInv, Bien, WorkerBien
  <2> QED
    BY <2>1 DEF FielInv, FielEn, EnVuelo, EntregaFiel
<1> QED
  BY <1>1, <1>2, <1>3, PTL DEF Spec
===============================================================================
