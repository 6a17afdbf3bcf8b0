-------------------------- MODULE WebServidor_proofs --------------------------
(***************************************************************************)
(* What holds of WebServidor for any number of servers, datagrams, losses  *)
(* and starts.                                                             *)
(***************************************************************************)
EXTENDS WebServidor, TLAPS

-------------------------------------------------------------------------------
(* The inductive invariant                                                 *)

\* Which processes a server has when its first process is at each point.
Control ==
    \A s \in Servidores : /\ pcA[s] # "fuera" => pcM[s] \in {"crear2", "instalar", "esperar", "abortado"}
                          /\ pcE[s] # "fuera" => pcM[s] \in {"instalar", "esperar"}

\* The registry holds no server twice.
SinRepetidos == \A i, j \in DOMAIN registrados : registrados[i] = registrados[j] => i = j

Inv == TypeOK /\ Control /\ SinRepetidos /\ UltimoAvisoManda /\ DespedidaLlega

\* The empty queue and the empty registry.
LEMMA Vacias == <<>> \in Seq(Avisos) /\ <<>> \in Seq(Servidores) /\ Len(<<>>) = 0
OBVIOUS

\* The invariant holds initially.
LEMMA Inicial == Init => Inv
<1> SUFFICES ASSUME Init PROVE Inv
  OBVIOUS
<1>1. TypeOK
  <2>1. pcB = "apagado" /\ buzon = <<>> /\ registrados = <<>> /\ aviso = Nadie
    BY DEF Init, R!Init
  <2>2. Len(buzon) <= MaxBuzon /\ perdidas \in 0 .. MaxPerdidas /\ arranques \in 0 .. MaxArranques
    BY <2>1, Vacias, WebAssumption DEF Init
  <2>3. ultimo \in [Servidores -> {"nada", "S/C", "S/D"}]
    BY DEF Init
  <2> QED
    BY <2>1, <2>2, <2>3, Vacias DEF Init, TypeOK, PcM, PcA, PcE, PcB
<1>2. Control /\ SinRepetidos /\ UltimoAvisoManda /\ DespedidaLlega
  BY DEF Init, R!Init, Control, SinRepetidos, UltimoAvisoManda, DespedidaLlega
<1> QED
  BY <1>1, <1>2 DEF Inv

-------------------------------------------------------------------------------
(* Types                                                                   *)

\* Announcing keeps the queue and the last announcements well typed.
LEMMA AnunciarTipo ==
    ASSUME TypeOK, NEW s \in Servidores, NEW tipo \in {"S/C", "S/D"}, Anunciar(s, tipo)
    PROVE  /\ buzon' \in Seq(Avisos) /\ Len(buzon') <= MaxBuzon
           /\ perdidas' \in 0 .. MaxPerdidas
           /\ ultimo' \in [Servidores -> {"nada", "S/C", "S/D"}]
<1>1. [tipo |-> tipo, id |-> s] \in Avisos
  BY DEF Avisos, R!Avisos
<1>2. CASE /\ Vinculado /\ Len(buzon) < MaxBuzon
            /\ buzon' = Append(buzon, [tipo |-> tipo, id |-> s])
            /\ ultimo' = [ultimo EXCEPT ![s] = tipo]
            /\ UNCHANGED perdidas
  <2>1. /\ buzon' \in Seq(Avisos) /\ Len(buzon') = Len(buzon) + 1 /\ Len(buzon) \in Nat
    BY <1>1, <1>2 DEF TypeOK
  <2> QED
    BY <1>2, <2>1, WebAssumption DEF TypeOK
<1>3. CASE /\ ~Vinculado
            /\ ultimo' = [ultimo EXCEPT ![s] = "nada"]
            /\ UNCHANGED <<buzon, perdidas>>
  BY <1>3 DEF TypeOK
<1>4. CASE /\ Vinculado /\ Perder
            /\ ultimo' = [ultimo EXCEPT ![s] = "nada"]
            /\ UNCHANGED buzon
  BY <1>4, WebAssumption DEF TypeOK, Perder
<1> QED
  BY <1>2, <1>3, <1>4 DEF Anunciar

\* So does spreading a datagram of the balancer.
LEMMA DifundirTipo ==
    ASSUME TypeOK, NEW tipo \in {"B/C", "B/D"}, Difundir(tipo)
    PROVE  /\ hayBC' \in [Servidores -> BOOLEAN] /\ hayBD' \in [Servidores -> BOOLEAN]
           /\ perdidas' \in 0 .. MaxPerdidas
<1>1. PICK L \in {{}} \union {{s} : s \in Leen(tipo)} :
        /\ IF L = {} THEN UNCHANGED perdidas ELSE Perder
        /\ LET llega == Leen(tipo) \ L
           IN  IF tipo = "B/C"
               THEN /\ hayBC' = [s \in Servidores |-> hayBC[s] \/ s \in llega]
                    /\ UNCHANGED hayBD
               ELSE /\ hayBD' = [s \in Servidores |-> hayBD[s] \/ s \in llega]
                    /\ UNCHANGED hayBC
  BY DEF Difundir
<1>2. perdidas' \in 0 .. MaxPerdidas
  BY <1>1, WebAssumption DEF TypeOK, Perder
<1>3. hayBC' \in [Servidores -> BOOLEAN] /\ hayBD' \in [Servidores -> BOOLEAN]
  BY <1>1, Zenon DEF TypeOK
<1> QED
  BY <1>2, <1>3

\* The balancer's dealing with an announcement keeps registry and hand in order.
LEMMA TratarTipo ==
    ASSUME TypeOK, TratarAviso
    PROVE  registrados' \in Seq(Servidores) /\ aviso' = Nadie /\ pcB' \in {"cerrar", "recibir"}
<1>1. PICK s \in Servidores :
          \/ R!Alta(s) /\ pcB' = "cerrar"
          \/ (R!Baja(s) \/ R!Ignorar(s)) /\ pcB' = "recibir"
  BY DEF TratarAviso
<1>2. CASE R!Alta(s) /\ pcB' = "cerrar"
  BY <1>2 DEF R!Alta, TypeOK
<1>3. CASE R!Ignorar(s) /\ pcB' = "recibir"
  BY <1>3 DEF R!Ignorar, TypeOK
<1>4. CASE R!Baja(s) /\ pcB' = "recibir"
  <2>1. PICK p \in DOMAIN registrados :
          registrados' = [k \in 1 .. Len(registrados) - 1 |->
                             registrados[IF k < p THEN k ELSE k + 1]]
    BY <1>4 DEF R!Baja
  <2>2. Len(registrados) \in Nat /\ DOMAIN registrados = 1 .. Len(registrados)
    BY DEF TypeOK
  <2>3. \A k \in 1 .. Len(registrados) - 1 : registrados[IF k < p THEN k ELSE k + 1] \in Servidores
    BY <2>1, <2>2 DEF TypeOK
  <2>4. Len(registrados) - 1 \in Nat
    BY <2>1, <2>2
  <2>5. registrados' \in Seq(Servidores)
    BY <2>1, <2>3, <2>4
  <2> QED
    BY <1>4, <2>5 DEF R!Baja
<1> QED
  BY <1>1, <1>2, <1>3, <1>4

\* Every step keeps the types.
LEMMA TipoPaso == TypeOK /\ [Next]_vars => TypeOK'
<1> SUFFICES ASSUME TypeOK, [Next]_vars PROVE TypeOK'
  OBVIOUS
<1> USE DEF PcM, PcA, PcE, PcB
<1>1. ASSUME NEW s \in Servidores, Arrancar(s) PROVE TypeOK'
  BY <1>1, WebAssumption
     DEF Arrancar, Contar, TypeOK, colas, balanceador
<1>2. ASSUME NEW s \in Servidores, Principal(s) PROVE TypeOK'
  <2>1. CASE Destruir(s)
    <3>1. /\ buzon' \in Seq(Avisos) /\ Len(buzon') <= MaxBuzon
          /\ perdidas' \in 0 .. MaxPerdidas
          /\ ultimo' \in [Servidores -> {"nada", "S/C", "S/D"}]
      BY <2>1, AnunciarTipo DEF Destruir, TypeOK
    <3> QED
      BY <2>1, <3>1 DEF Destruir, TypeOK, banderas, colas, balanceador
  <2>2. CASE MatarProcesos(s)
    BY <2>2 DEF MatarProcesos, Matar, TypeOK, banderas, balanceador
  <2>3. CASE /\ CrearAnunciador(s) \/ CrearEscucha(s) \/ InstalarControlador(s)
             /\ UNCHANGED <<banderas, colas, balanceador, buzon, perdidas, arranques, ultimo>>
    BY <2>3 DEF CrearAnunciador, CrearEscucha, InstalarControlador, TypeOK, banderas, colas,
                balanceador
  <2> QED
    BY <1>2, <2>1, <2>2, <2>3 DEF Principal
<1>3. ASSUME NEW s \in Servidores, CtrlC(s) PROVE TypeOK'
  BY <1>3 DEF CtrlC, Matar, TypeOK, balanceador
<1>4. ASSUME NEW s \in Servidores, Anunciador(s) PROVE TypeOK'
  <2>1. CASE AvisarBalanceadores(s)
    <3>1. /\ buzon' \in Seq(Avisos) /\ Len(buzon') <= MaxBuzon
          /\ perdidas' \in 0 .. MaxPerdidas
          /\ ultimo' \in [Servidores -> {"nada", "S/C", "S/D"}]
      BY <2>1, AnunciarTipo DEF AvisarBalanceadores
    <3> QED
      BY <1>4, <2>1, <3>1
         DEF Anunciador, AvisarBalanceadores, IrA, TypeOK, banderas, colas, balanceador
  <2>2. CASE AbrirSocket(s) \/ RecibirBC(s) \/ MarcarConectado(s)
    BY <1>4, <2>2 DEF Anunciador, AbrirSocket, RecibirBC, MarcarConectado, IrA, TypeOK,
                      banderas, colas, balanceador
  <2> QED
    BY <1>4, <2>1, <2>2 DEF Anunciador
<1>5. ASSUME NEW s \in Servidores, RecibirBD(s) PROVE TypeOK'
  BY <1>5 DEF RecibirBD, TypeOK, procesos, balanceador
<1>6. CASE ArrancarBalanceador
  <2>1. /\ pcB' = "cerrar" /\ cerrando' = FALSE /\ aviso' = Nadie
        /\ buzon' = <<>> /\ registrados' = <<>>
        /\ ultimo' = [s \in Servidores |-> "nada"]
        /\ UNCHANGED <<pcM, pcA, pcE, ejecutandose, conectado, hayBC, hayBD, perdidas>>
    BY <1>6 DEF ArrancarBalanceador, procesos, banderas, colas
  <2>2. arranques' \in 0 .. MaxArranques
    BY <1>6, WebAssumption DEF ArrancarBalanceador, Contar, TypeOK
  <2>3. buzon' \in Seq(Avisos) /\ Len(buzon') <= MaxBuzon /\ registrados' \in Seq(Servidores)
    BY <2>1, Vacias, WebAssumption
  <2>4. ultimo' \in [Servidores -> {"nada", "S/C", "S/D"}]
    BY <2>1
  <2> QED
    BY <2>1, <2>2, <2>3, <2>4 DEF TypeOK
<1>7. CASE EscuchadorServidores
  <2>1. CASE RecibirAviso
    <3>1. Head(buzon) \in Avisos /\ Tail(buzon) \in Seq(Avisos) /\ Len(Tail(buzon)) <= MaxBuzon
      BY <2>1, WebAssumption DEF RecibirAviso, TypeOK
    <3>2. Head(buzon) # Nadie
      BY <3>1, WebAssumption DEF Avisos, R!Avisos
    <3> QED
      BY <1>7, <2>1, <3>1, <3>2
         DEF EscuchadorServidores, RecibirAviso, R!Recibir, TypeOK, procesos, banderas, colas
  <2>2. CASE TratarAviso
    BY <1>7, <2>2, TratarTipo
       DEF EscuchadorServidores, TratarAviso, TypeOK, procesos, banderas, colas
  <2>3. CASE Terminar \/ AbrirNuevo
    BY <1>7, <2>3
       DEF EscuchadorServidores, Terminar, AbrirNuevo, TypeOK, procesos, banderas, colas
  <2>4. CASE CerrarSocket
    BY <1>7, <2>4, WebAssumption
       DEF EscuchadorServidores, CerrarSocket, TypeOK, procesos, banderas, colas
  <2>5. CASE AvisarServidores
    <3>1. /\ hayBC' \in [Servidores -> BOOLEAN] /\ hayBD' \in [Servidores -> BOOLEAN]
          /\ perdidas' \in 0 .. MaxPerdidas
      BY <2>5, DifundirTipo DEF AvisarServidores
    <3> QED
      BY <1>7, <2>5, <3>1
         DEF EscuchadorServidores, AvisarServidores, TypeOK, procesos, banderas
  <2> QED
    BY <1>7, <2>1, <2>2, <2>3, <2>4, <2>5 DEF EscuchadorServidores
<1>8. CASE CtrlCBalanceador
  <2>1. /\ hayBC' \in [Servidores -> BOOLEAN] /\ hayBD' \in [Servidores -> BOOLEAN]
        /\ perdidas' \in 0 .. MaxPerdidas
    BY <1>8, DifundirTipo DEF CtrlCBalanceador
  <2> QED
    BY <1>8, <2>1, WebAssumption DEF CtrlCBalanceador, TypeOK, procesos, banderas
<1>9. CASE CaerBalanceador
  BY <1>9, WebAssumption DEF CaerBalanceador, Perder, TypeOK, procesos, banderas, colas
<1>10. ASSUME NEW s \in Servidores, FallarFork(s) PROVE TypeOK'
  <2>1. hayBD' \in [Servidores -> BOOLEAN]
    BY <1>10 DEF FallarFork, TypeOK
  <2> QED
    BY <1>10, <2>1 DEF FallarFork, TypeOK, banderas, balanceador
<1>11. CASE UNCHANGED vars
  BY <1>11 DEF vars, TypeOK, procesos, banderas, colas, balanceador
<1> QED
  BY <1>1, <1>2, <1>3, <1>4, <1>5, <1>6, <1>7, <1>8, <1>9, <1>10, <1>11 DEF Next
-------------------------------------------------------------------------------
(* Processes                                                               *)

\* Every step keeps the processes of each server together.
LEMMA ControlPaso == TypeOK /\ Control /\ [Next]_vars => Control'
<1> SUFFICES ASSUME TypeOK, Control, [Next]_vars PROVE Control'
  OBVIOUS
<1>1. ASSUME NEW s \in Servidores,
             \/ Arrancar(s) \/ Principal(s) \/ FallarFork(s) \/ CtrlC(s)
             \/ Anunciador(s) \/ RecibirBD(s)
      PROVE  Control'
  <2>1. CASE Arrancar(s)
    BY <2>1 DEF Arrancar, Control, TypeOK
  <2>2. CASE Principal(s)
    BY <2>2 DEF Principal, CrearAnunciador, CrearEscucha, InstalarControlador, MatarProcesos,
                Matar, Destruir, Control, TypeOK
  <2>3. CASE CtrlC(s)
    BY <2>3 DEF CtrlC, Matar, Control, TypeOK
  <2>4. CASE Anunciador(s)
    BY <2>4 DEF Anunciador, AbrirSocket, AvisarBalanceadores, RecibirBC, MarcarConectado, IrA,
                Control, TypeOK
  <2>5. CASE RecibirBD(s)
    BY <2>5 DEF RecibirBD, Control, procesos
  <2>6. CASE FallarFork(s)
    BY <2>6 DEF FallarFork, Control, TypeOK
  <2> QED
    BY <1>1, <2>1, <2>2, <2>3, <2>4, <2>5, <2>6
<1>2. CASE \/ ArrancarBalanceador \/ EscuchadorServidores \/ CtrlCBalanceador \/ CaerBalanceador
           \/ UNCHANGED vars
  BY <1>2 DEF ArrancarBalanceador, EscuchadorServidores, CtrlCBalanceador, CaerBalanceador, vars,
              Control, procesos
<1> QED
  BY <1>1, <1>2 DEF Next

-------------------------------------------------------------------------------
(* The last announcement decides                                           *)

\* A server's own announcement becomes the one that decides, and the rest of the
\* servers are where they were.
LEMMA AnunciarDecide ==
    ASSUME TypeOK, NEW s \in Servidores, NEW tipo \in {"S/C", "S/D"}, Anunciar(s, tipo),
           UltimoAvisoManda, UNCHANGED <<registrados, aviso>>
    PROVE  UltimoAvisoManda' /\ ultimo'[s] \in {tipo, "nada"}
<1>1. Len(buzon) \in Nat /\ DOMAIN buzon = 1 .. Len(buzon)
  BY DEF TypeOK
<1>2. CASE /\ buzon' = Append(buzon, [tipo |-> tipo, id |-> s])
           /\ ultimo' = [ultimo EXCEPT ![s] = tipo]
  <2> DEFINE n == Len(buzon) + 1
             a == [tipo |-> tipo, id |-> s]
  <2>1. /\ DOMAIN buzon' = 1 .. n /\ buzon'[n] = a
        /\ \A k \in 1 .. Len(buzon) : buzon'[k] = buzon[k]
    BY <1>1, <1>2 DEF TypeOK
  <2>2. a.tipo = tipo /\ a.id = s
    OBVIOUS
  <2> HIDE DEF a
  <2>3. n \in Pendientes(s)' /\ \A j \in Pendientes(s)' : j <= n
    BY <1>1, <2>1, <2>2 DEF Pendientes
  <2>4. Quedara(s)' <=> tipo = "S/C"
    <3>1. ASSUME tipo = "S/C" PROVE Quedara(s)'
      BY <2>1, <2>2, <2>3, <3>1 DEF Quedara
    <3>2. ASSUME Quedara(s)' PROVE tipo = "S/C"
      <4>1. PICK k \in Pendientes(s)' : buzon'[k].tipo = "S/C" /\ \A j \in Pendientes(s)' : j <= k
        BY <2>3, <3>2 DEF Quedara
      <4>2. k = n
        BY <1>1, <2>1, <2>3, <4>1 DEF Pendientes
      <4> QED
        BY <2>1, <2>2, <4>1, <4>2
    <3> QED
      BY <3>1, <3>2
  <2>5. ASSUME NEW t \in Servidores, t # s PROVE Quedara(t)' <=> Quedara(t)
    <3>1. Pendientes(t)' = Pendientes(t) /\ \A k \in Pendientes(t) : buzon'[k] = buzon[k]
      BY <1>1, <2>1, <2>2, <2>5 DEF Pendientes
    <3> QED
      BY <3>1 DEF Quedara, R!Esta
  <2>6. ultimo'[s] = tipo /\ \A t \in Servidores : t # s => ultimo'[t] = ultimo[t]
    BY <1>2 DEF TypeOK
  <2> QED
    BY <2>4, <2>5, <2>6 DEF UltimoAvisoManda
<1>3. CASE buzon' = buzon /\ ultimo' = [ultimo EXCEPT ![s] = "nada"]
  <2>1. ultimo'[s] = "nada" /\ \A t \in Servidores : t # s => ultimo'[t] = ultimo[t]
    BY <1>3 DEF TypeOK
  <2>2. \A t \in Servidores : Quedara(t)' <=> Quedara(t)
    BY <1>3 DEF Quedara, Pendientes, R!Esta
  <2> QED
    BY <2>1, <2>2 DEF UltimoAvisoManda
<1> QED
  BY <1>2, <1>3 DEF Anunciar
\* Taking an announcement in hand changes nothing of what the balancer will have.
LEMMA RecibirDecide ==
    ASSUME TypeOK, RecibirAviso, NEW s \in Servidores
    PROVE  Quedara(s)' <=> Quedara(s)
<1> DEFINE n == Len(buzon)
<1>1. /\ n \in Nat /\ n > 0 /\ DOMAIN buzon = 1 .. n /\ DOMAIN buzon' = 1 .. n - 1
      /\ \A k \in 1 .. n - 1 : buzon'[k] = buzon[k + 1]
      /\ buzon[1] \in Avisos /\ aviso' = buzon[1]
      /\ aviso = Nadie /\ registrados' = registrados
  BY DEF TypeOK, RecibirAviso, R!Recibir
<1> HIDE DEF n
<1>2. /\ \A k \in Pendientes(s)' : k \in Nat /\ k >= 1 /\ k + 1 \in Pendientes(s)
                                  /\ buzon'[k] = buzon[k + 1]
      /\ \A k \in Pendientes(s) : k \in 1 .. n /\ (k # 1 => k - 1 \in Pendientes(s)')
  BY <1>1 DEF Pendientes
<1>3. CASE Pendientes(s)' = {}
  <2>1. CASE 1 \in Pendientes(s)
    <3>1. /\ buzon[1].id = s /\ buzon[1] = [tipo |-> buzon[1].tipo, id |-> s]
          /\ buzon[1].tipo \in {"S/C", "S/D"}
      BY <1>1, <2>1 DEF Pendientes, Avisos, R!Avisos
    <3>2. Pendientes(s) = {1}
      BY <1>2, <1>3, <2>1
    <3>3. Quedara(s) <=> buzon[1].tipo = "S/C"
      BY <3>2 DEF Quedara
    <3>4. Quedara(s)' <=> buzon[1].tipo = "S/C"
      BY <1>1, <1>3, <3>1 DEF Quedara
    <3> QED
      BY <3>3, <3>4
  <2>2. CASE 1 \notin Pendientes(s)
    <3>1. Pendientes(s) = {}
      BY <1>2, <1>3, <2>2
    <3>2. buzon[1].id # s
      BY <1>1, <2>2 DEF Pendientes
    <3>3. aviso' # [tipo |-> "S/C", id |-> s] /\ aviso' # [tipo |-> "S/D", id |-> s]
      BY <1>1, <3>2
    <3>4. aviso # [tipo |-> "S/C", id |-> s] /\ aviso # [tipo |-> "S/D", id |-> s]
      BY <1>1, WebAssumption
    <3> QED
      BY <1>1, <1>3, <3>1, <3>3, <3>4 DEF Quedara, R!Esta
  <2> QED
    BY <2>1, <2>2
<1>4. CASE Pendientes(s)' # {}
  <2>1. Pendientes(s) # {}
    BY <1>2, <1>4
  <2>2. ASSUME Quedara(s)' PROVE Quedara(s)
    <3>1. PICK k \in Pendientes(s)' : buzon'[k].tipo = "S/C" /\ \A j \in Pendientes(s)' : j <= k
      BY <1>4, <2>2 DEF Quedara
    <3>2. k + 1 \in Pendientes(s) /\ buzon[k + 1].tipo = "S/C"
      BY <1>2, <3>1
    <3>3. ASSUME NEW j \in Pendientes(s) PROVE j <= k + 1
      BY <1>2, <3>1, <3>3
    <3> QED
      BY <3>2, <3>3 DEF Quedara
  <2>3. ASSUME Quedara(s) PROVE Quedara(s)'
    <3>1. PICK k \in Pendientes(s) : buzon[k].tipo = "S/C" /\ \A j \in Pendientes(s) : j <= k
      BY <2>1, <2>3 DEF Quedara
    <3>2. PICK i \in Pendientes(s)' : TRUE
      BY <1>4
    <3>3. k # 1 /\ k \in 1 .. n
      BY <1>2, <3>1, <3>2
    <3>4. k - 1 \in Pendientes(s)' /\ buzon'[k - 1].tipo = "S/C"
      BY <1>2, <3>1, <3>3
    <3>5. ASSUME NEW j \in Pendientes(s)' PROVE j <= k - 1
      BY <1>2, <3>1, <3>3, <3>5
    <3> QED
      BY <3>4, <3>5 DEF Quedara
  <2> QED
    BY <2>2, <2>3
<1> QED
  BY <1>3, <1>4

\* Carrying the announcement out makes what was decided true of the registry.
LEMMA TratarDecide ==
    ASSUME TypeOK, SinRepetidos, TratarAviso
    PROVE  SinRepetidos' /\ \A s \in Servidores : Quedara(s)' <=> Quedara(s)
<1> DEFINE m == Len(registrados)
<1>1. m \in Nat /\ DOMAIN registrados = 1 .. m /\ buzon' = buzon
  BY DEF TypeOK, TratarAviso
<1>2. PICK t \in Servidores :
          \/ R!Alta(t)
          \/ R!Baja(t)
          \/ R!Ignorar(t)
  BY DEF TratarAviso
<1>3. aviso' = Nadie
  BY TratarTipo
<1>4. ASSUME \A s \in Servidores :
                R!Esta(s)' <=> \/ aviso = [tipo |-> "S/C", id |-> s]
                               \/ R!Esta(s) /\ aviso # [tipo |-> "S/D", id |-> s]
      PROVE  \A s \in Servidores : Quedara(s)' <=> Quedara(s)
  <2>1. \A s \in Servidores : /\ aviso' # [tipo |-> "S/C", id |-> s]
                              /\ aviso' # [tipo |-> "S/D", id |-> s]
    BY <1>3, WebAssumption
  <2>2. \A s \in Servidores : Pendientes(s)' = Pendientes(s)
    BY <1>1 DEF Pendientes
  <2> QED
    BY <1>1, <1>4, <2>1, <2>2 DEF Quedara
<1> HIDE DEF m
<1>5. CASE R!Alta(t)
  <2>1. /\ aviso = [tipo |-> "S/C", id |-> t] /\ ~R!Esta(t)
        /\ DOMAIN registrados' = 1 .. m + 1 /\ registrados'[m + 1] = t
        /\ \A k \in 1 .. m : registrados'[k] = registrados[k]
    BY <1>1, <1>5 DEF R!Alta, TypeOK, m
  <2>2. SinRepetidos'
    BY <1>1, <2>1 DEF SinRepetidos, R!Esta
  <2>3. \A s \in Servidores : R!Esta(s)' <=> s = t \/ R!Esta(s)
    BY <1>1, <2>1 DEF R!Esta
  <2>4. \A s \in Servidores : /\ aviso = [tipo |-> "S/C", id |-> s] <=> s = t
                              /\ aviso # [tipo |-> "S/D", id |-> s]
    BY <2>1
  <2> QED
    BY <1>4, <2>2, <2>3, <2>4
<1>6. CASE R!Baja(t)
  <2>1. PICK p \in DOMAIN registrados :
          /\ registrados[p] = t
          /\ registrados' = [k \in 1 .. m - 1 |-> registrados[IF k < p THEN k ELSE k + 1]]
    BY <1>6 DEF R!Baja, m
  <2>2. /\ p \in 1 .. m /\ DOMAIN registrados' = 1 .. m - 1
        /\ \A k \in 1 .. m - 1 : registrados'[k] = IF k < p THEN registrados[k] ELSE registrados[k + 1]
    BY <1>1, <2>1
  <2>3. SinRepetidos'
    <3>1. SUFFICES ASSUME NEW i \in 1 .. m - 1, NEW j \in 1 .. m - 1,
                          registrados'[i] = registrados'[j]
                   PROVE  i = j
      BY <2>2 DEF SinRepetidos
    <3>2. /\ i < p => i \in 1 .. m /\ registrados'[i] = registrados[i]
          /\ i >= p => i + 1 \in 1 .. m /\ registrados'[i] = registrados[i + 1]
          /\ j < p => j \in 1 .. m /\ registrados'[j] = registrados[j]
          /\ j >= p => j + 1 \in 1 .. m /\ registrados'[j] = registrados[j + 1]
      BY <1>1, <2>2
    <3>3. \A k, l \in 1 .. m : registrados[k] = registrados[l] => k = l
      BY <1>1 DEF SinRepetidos
    <3> QED
      BY <1>1, <2>2, <3>1, <3>2, <3>3
  <2>4. ASSUME NEW s \in Servidores PROVE R!Esta(s)' <=> R!Esta(s) /\ s # t
    <3>1. ASSUME R!Esta(s)' PROVE R!Esta(s) /\ s # t
      <4>1. PICK k \in 1 .. m - 1 : registrados'[k] = s
        BY <2>2, <3>1 DEF R!Esta
      <4> QED
        BY <1>1, <2>1, <2>2, <4>1 DEF R!Esta, SinRepetidos
    <3>2. ASSUME R!Esta(s), s # t PROVE R!Esta(s)'
      <4>1. PICK k \in 1 .. m : registrados[k] = s
        BY <1>1, <3>2 DEF R!Esta
      <4>2. k # p
        BY <2>1, <3>2, <4>1
      <4>3. CASE k < p
        <5>1. k \in 1 .. m - 1 /\ registrados'[k] = s
          BY <1>1, <2>2, <4>1, <4>3
        <5> QED
          BY <2>2, <5>1 DEF R!Esta
      <4>4. CASE k > p
        <5>1. k - 1 \in 1 .. m - 1 /\ registrados'[k - 1] = s
          BY <1>1, <2>2, <4>1, <4>4
        <5> QED
          BY <2>2, <5>1 DEF R!Esta
      <4> QED
        BY <2>2, <4>1, <4>2, <4>3, <4>4
    <3> QED
      BY <3>1, <3>2
  <2>5. \A s \in Servidores : /\ aviso # [tipo |-> "S/C", id |-> s]
                              /\ aviso = [tipo |-> "S/D", id |-> s] <=> s = t
    BY <1>6 DEF R!Baja
  <2> QED
    BY <1>4, <2>3, <2>4, <2>5
<1>7. CASE R!Ignorar(t)
  <2>1. registrados' = registrados
    BY <1>7 DEF R!Ignorar
  <2>2. SinRepetidos' /\ \A s \in Servidores : R!Esta(s)' <=> R!Esta(s)
    BY <2>1 DEF SinRepetidos, R!Esta
  <2>3. CASE aviso = [tipo |-> "S/C", id |-> t] /\ R!Esta(t)
    <3>1. \A s \in Servidores : /\ aviso = [tipo |-> "S/C", id |-> s] => s = t
                                /\ aviso # [tipo |-> "S/D", id |-> s]
      BY <2>3
    <3> QED
      BY <1>4, <2>2, <2>3, <3>1
  <2>4. CASE aviso = [tipo |-> "S/D", id |-> t] /\ ~R!Esta(t)
    <3>1. \A s \in Servidores : /\ aviso # [tipo |-> "S/C", id |-> s]
                                /\ aviso = [tipo |-> "S/D", id |-> s] => s = t
      BY <2>4
    <3> QED
      BY <1>4, <2>2, <2>4, <3>1
  <2> QED
    BY <1>7, <2>3, <2>4 DEF R!Ignorar
<1> QED
  BY <1>2, <1>5, <1>6, <1>7
\* A server that keeps its last announcement keeps what is decided of it.
LEMMA NadaCambia ==
    ASSUME UltimoAvisoManda, UNCHANGED <<registrados, aviso, buzon, ultimo>>
    PROVE  UltimoAvisoManda'
BY DEF UltimoAvisoManda, Quedara, Pendientes, R!Esta

\* Every step keeps the registry without repetitions, and the last announcement
\* that was not lost in charge.
LEMMA UltimoPaso ==
    ASSUME TypeOK, SinRepetidos, UltimoAvisoManda, [Next]_vars
    PROVE  SinRepetidos' /\ UltimoAvisoManda'
<1>1. ASSUME NEW s \in Servidores,
             \/ Arrancar(s) \/ Principal(s) \/ FallarFork(s) \/ CtrlC(s)
             \/ Anunciador(s) \/ RecibirBD(s)
      PROVE  SinRepetidos' /\ UltimoAvisoManda'
  <2>1. UNCHANGED <<registrados, aviso>>
    BY <1>1 DEF Arrancar, Principal, CrearAnunciador, CrearEscucha, InstalarControlador,
                MatarProcesos, Destruir, FallarFork, CtrlC, Anunciador, RecibirBD, balanceador
  <2>2. \/ Anunciar(s, "S/C") \/ Anunciar(s, "S/D")
        \/ UNCHANGED <<buzon, ultimo>>
    BY <1>1 DEF Arrancar, Principal, MatarProcesos, Destruir, FallarFork, CtrlC, Anunciador,
                AbrirSocket, AvisarBalanceadores, RecibirBC, MarcarConectado, RecibirBD
  <2>3. UltimoAvisoManda'
    BY <2>1, <2>2, AnunciarDecide, NadaCambia
  <2> QED
    BY <2>1, <2>3 DEF SinRepetidos
<1>2. CASE ArrancarBalanceador
  BY <1>2 DEF ArrancarBalanceador, SinRepetidos, UltimoAvisoManda
<1>3. CASE RecibirAviso
  <2>1. UNCHANGED <<registrados, ultimo>>
    BY <1>3 DEF RecibirAviso, R!Recibir
  <2> QED
    BY <1>3, <2>1, RecibirDecide DEF SinRepetidos, UltimoAvisoManda
<1>4. CASE TratarAviso
  <2>1. UNCHANGED ultimo
    BY <1>4 DEF TratarAviso
  <2> QED
    BY <1>4, <2>1, TratarDecide DEF UltimoAvisoManda
<1>5. CASE CerrarSocket
  <2>1. /\ buzon' = <<>> /\ UNCHANGED <<registrados, aviso>>
        /\ \A s \in Servidores : ultimo'[s] = IF Pendientes(s) # {} THEN "nada" ELSE ultimo[s]
    BY <1>5 DEF CerrarSocket, Pendientes
  <2>2. \A s \in Servidores : Pendientes(s)' = {}
    BY <2>1 DEF Pendientes
  <2>3. \A s \in Servidores : Pendientes(s) = {} => (Quedara(s)' <=> Quedara(s))
    BY <2>1, <2>2 DEF Quedara, R!Esta
  <2> QED
    BY <2>1, <2>3 DEF UltimoAvisoManda, SinRepetidos
<1>6. CASE Terminar \/ AbrirNuevo \/ AvisarServidores
  <2>1. UNCHANGED <<registrados, aviso, buzon, ultimo>>
    BY <1>6 DEF Terminar, AbrirNuevo, AvisarServidores
  <2> QED
    BY <2>1, NadaCambia DEF SinRepetidos
<1>7. CASE CtrlCBalanceador \/ CaerBalanceador
  BY <1>7 DEF CtrlCBalanceador, CaerBalanceador, SinRepetidos, UltimoAvisoManda
<1>8. CASE UNCHANGED vars
  BY <1>8, NadaCambia DEF vars, balanceador, SinRepetidos
<1> QED
  BY <1>1, <1>2, <1>3, <1>4, <1>5, <1>6, <1>7, <1>8 DEF Next, EscuchadorServidores

-------------------------------------------------------------------------------
(* The good-bye                                                            *)

\* No step of a server that has closed announces it, and its destructor does not
\* leave an "S/C" as its last word when it was connected.
LEMMA DespedidaPaso ==
    ASSUME TypeOK, Control, SinRepetidos, UltimoAvisoManda, DespedidaLlega, [Next]_vars
    PROVE  DespedidaLlega'
<1>1. ASSUME NEW s \in Servidores,
             \/ Arrancar(s) \/ Principal(s) \/ FallarFork(s) \/ CtrlC(s)
             \/ Anunciador(s) \/ RecibirBD(s)
      PROVE  DespedidaLlega'
  <2>1. \A t \in Servidores : t # s =>
           pcM'[t] = pcM[t] /\ conectado'[t] = conectado[t] /\ ultimo'[t] = ultimo[t]
    BY <1>1 DEF Arrancar, Principal, CrearAnunciador, CrearEscucha, InstalarControlador,
                MatarProcesos, Destruir, FallarFork, CtrlC, Anunciador, AbrirSocket,
                AvisarBalanceadores, RecibirBC, MarcarConectado, RecibirBD, IrA, Anunciar, TypeOK, banderas, procesos
  <2>2. pcM'[s] = "terminado" /\ conectado'[s] => ultimo'[s] # "S/C"
    <3>1. CASE Destruir(s)
      <4>1. CASE Anunciar(s, "S/D") /\ UNCHANGED <<registrados, aviso>>
        BY <4>1, AnunciarDecide
      <4> QED
        BY <3>1, <4>1 DEF Destruir, banderas, balanceador
    <3>2. CASE Arrancar(s) \/ FallarFork(s) \/ CtrlC(s) \/ (Principal(s) /\ ~Destruir(s))
      <4>1. pcM'[s] # "terminado"
        BY <3>2 DEF Arrancar, FallarFork, CtrlC, Principal, CrearAnunciador, CrearEscucha,
                    InstalarControlador, MatarProcesos, TypeOK, Control
      <4> QED
        BY <4>1
    <3>3. CASE Anunciador(s) \/ RecibirBD(s)
      <4>1. pcA[s] # "fuera" \/ pcE[s] # "fuera"
        BY <3>3 DEF Anunciador, AbrirSocket, AvisarBalanceadores, RecibirBC, MarcarConectado,
                    IrA, RecibirBD
      <4>2. pcM[s] # "terminado" /\ pcM' = pcM
        BY <3>3, <4>1 DEF Control, Anunciador, AbrirSocket, AvisarBalanceadores, RecibirBC,
                          MarcarConectado, IrA, RecibirBD, procesos
      <4> QED
        BY <4>2
    <3> QED
      BY <1>1, <3>1, <3>2, <3>3
  <2> QED
    BY <2>1, <2>2 DEF DespedidaLlega
<1>2. CASE \/ ArrancarBalanceador \/ EscuchadorServidores \/ CtrlCBalanceador \/ CaerBalanceador
           \/ UNCHANGED vars
  <2>1. UNCHANGED <<pcM, conectado>>
    BY <1>2 DEF ArrancarBalanceador, EscuchadorServidores, CtrlCBalanceador, CaerBalanceador,
                vars, procesos, banderas
  <2>2. \A s \in Servidores : ultimo'[s] \in {ultimo[s], "nada"}
    BY <1>2 DEF ArrancarBalanceador, EscuchadorServidores, RecibirAviso, TratarAviso, Terminar,
                CerrarSocket, AbrirNuevo, AvisarServidores, CtrlCBalanceador, CaerBalanceador, vars
  <2> QED
    BY <2>1, <2>2 DEF DespedidaLlega
<1> QED
  BY <1>1, <1>2 DEF Next

-------------------------------------------------------------------------------
(* Theorems                                                                *)

\* The invariant holds in every reachable state.
LEMMA InvSiempre == Spec => []Inv
<1>1. Inv /\ [Next]_vars => Inv'
  BY TipoPaso, ControlPaso, UltimoPaso, DespedidaPaso DEF Inv
<1> QED
  BY Inicial, <1>1, PTL DEF Spec

\* The type invariant holds in every reachable state.
THEOREM TypeOKWeb == Spec => []TypeOK
<1>1. Inv => TypeOK
  BY DEF Inv
<1> QED
  BY <1>1, InvSiempre, PTL

\* No process of a server outlives its first process, wherever a Ctrl-C or a fork
\* that fails finds them, but for the announcer of one whose second fork failed.
THEOREM SinHuerfanosSiempre == Spec => []SinHuerfanos
<1>1. Inv => SinHuerfanos
  BY DEF Inv, TypeOK, Control, SinHuerfanos
<1> QED
  BY <1>1, InvSiempre, PTL

\* Whatever was announced before, lost or read, by this server and the others,
\* the last announcement of a server decides, unless it was itself lost.
THEOREM UltimoAvisoMandaSiempre == Spec => []UltimoAvisoManda
<1>1. Inv => UltimoAvisoManda
  BY DEF Inv
<1> QED
  BY <1>1, InvSiempre, PTL

\* A server that was connected and has closed is not left in the registry,
\* unless its good-bye was lost.
THEOREM DespedidaLlegaSiempre == Spec => []DespedidaLlega
<1>1. Inv => DespedidaLlega
  BY DEF Inv
<1> QED
  BY <1>1, InvSiempre, PTL
===============================================================================
