--------------------------- MODULE Balanceador_proofs ---------------------------
(***************************************************************************)
(* Theorems about Balanceador, for any servers, threads, methods, limits,  *)
(* datagrams and first value of the cursor: the registry and its abstract  *)
(* specification, the reach of the indices and what they may damage, the   *)
(* loads, and the order in which ROUND_ROBIN deals.                        *)
(***************************************************************************)
EXTENDS Balanceador, SequenceTheorems, FiniteSetTheorems, TLAPS

-------------------------------------------------------------------------------
(* The operations on the vector                                            *)

\* A record whose load changes is still a record of the same server.
LEMMA RegistroConCarga ==
    ASSUME NEW r \in ServidorRegistrado, NEW n \in Int
    PROVE  LET e == [r EXCEPT !.carga_actual = @ + n]
           IN  /\ e \in ServidorRegistrado
               /\ e.comparador = r.comparador
               /\ e.carga_maxima = r.carga_maxima
BY DEF ServidorRegistrado

\* carga_actual++ and carga_actual-- change one load and nothing else.
LEMMA MasCargaLema ==
    ASSUME buffer \in Seq(ServidorRegistrado), NEW i \in Int, NEW n \in Int
    PROVE  /\ MasCarga(i, n) \in Seq(ServidorRegistrado)
           /\ Len(MasCarga(i, n)) = Len(buffer)
           /\ \A k \in 1 .. Len(buffer) :
                 /\ MasCarga(i, n)[k].comparador = buffer[k].comparador
                 /\ MasCarga(i, n)[k].carga_maxima = buffer[k].carga_maxima
<1>1. CASE i + 1 \in 1 .. Len(buffer)
  <2> DEFINE e == [buffer[i + 1] EXCEPT !.carga_actual = @ + n]
  <2>1. buffer[i + 1] \in ServidorRegistrado
    BY <1>1, ElementOfSeq
  <2>2. e \in ServidorRegistrado /\ e.comparador = buffer[i + 1].comparador
           /\ e.carga_maxima = buffer[i + 1].carga_maxima
    BY <2>1, RegistroConCarga
  <2>3. MasCarga(i, n) = [buffer EXCEPT ![i + 1] = e]
    BY DEF MasCarga
  <2> HIDE DEF e
  <2> QED
    BY <1>1, <2>2, <2>3, ExceptSeq
<1>2. CASE i + 1 \notin 1 .. Len(buffer)
  <2>1. MasCarga(i, n) = buffer
    BY <1>2, LenProperties DEF MasCarga
  <2> QED
    BY <2>1
<1> QED
  BY <1>1, <1>2

\* push_back: the live slots stay, and the one after them gets the new record.
LEMMA PushBackLema ==
    ASSUME buffer \in Seq(ServidorRegistrado), tam \in 0 .. Len(buffer),
           NEW s \in ServidorRegistrado
    PROVE  /\ PushBack(s) \in Seq(ServidorRegistrado)
           /\ Len(PushBack(s)) = (IF tam < Len(buffer) THEN Len(buffer) ELSE Len(buffer) + 1)
           /\ \A k \in 1 .. tam : PushBack(s)[k] = buffer[k]
           /\ PushBack(s)[tam + 1] = s
<1>1. CASE tam < Len(buffer)
  <2>1. tam + 1 \in 1 .. Len(buffer) /\ PushBack(s) = [buffer EXCEPT ![tam + 1] = s]
    BY <1>1 DEF PushBack
  <2> QED
    BY <1>1, <2>1, ExceptSeq
<1>2. CASE ~(tam < Len(buffer))
  <2>1. tam = Len(buffer) /\ PushBack(s) = Append(buffer, s)
    BY <1>2, LenProperties DEF PushBack
  <2> QED
    BY <2>1
<1> QED
  BY <1>1, <1>2

\* erase: the slots behind position p move one place forward.
LEMMA EraseLema ==
    ASSUME buffer \in Seq(ServidorRegistrado), tam \in 0 .. Len(buffer), NEW p \in Vivas
    PROVE  /\ Erase(p) \in Seq(ServidorRegistrado)
           /\ Len(Erase(p)) = Len(buffer)
           /\ \A k \in 1 .. tam - 1 :
                 Erase(p)[k] = IF k <= p THEN buffer[k] ELSE buffer[k + 1]
<1>1. Len(buffer) \in Nat
  BY LenProperties
<1>2. \A k \in 1 .. Len(buffer) :
         (IF k > p /\ k < tam THEN buffer[k + 1] ELSE buffer[k]) \in ServidorRegistrado
  BY <1>1, ElementOfSeq DEF Vivas
<1>3. Erase(p) \in [1 .. Len(buffer) -> ServidorRegistrado]
  BY <1>2 DEF Erase
<1>4. Erase(p) \in Seq(ServidorRegistrado)
  BY <1>1, <1>3, SeqDef
<1>5. DOMAIN Erase(p) = 1 .. Len(Erase(p)) /\ DOMAIN Erase(p) = 1 .. Len(buffer)
  BY <1>3, <1>4, LenProperties
<1>6. Len(Erase(p)) = Len(buffer)
  BY <1>1, <1>4, <1>5, LenProperties
<1> QED
  BY <1>1, <1>4, <1>6 DEF Erase, Vivas

-------------------------------------------------------------------------------
(* The inductive invariant of the registry                                 *)

\* What the listener knows between its two critical sections stays true, for
\* it is the only thread that changes which servers are registered.
ListenerOK ==
    /\ pcES # "recibir" => datagrama \in Datagramas
    /\ pcES \in {"buscarAgregar", "insertar", "avisar"} => datagrama.tipo = "S/C"
    /\ pcES \in {"buscarEliminar", "borrar"} => datagrama.tipo = "S/D"
    /\ pcES = "insertar" => \A i \in Vivas : Ranura(i).comparador # datagrama.id
    /\ pcES = "borrar" => posicion \in Vivas /\ Ranura(posicion).comparador = datagrama.id

ContadorOK == servidoresActuales = tam - (IF pcES = "avisar" THEN 1 ELSE 0)

RegistroInv == TypeOK /\ ListenerOK /\ RegistroSinDuplicados /\ ContadorOK

\* A step that leaves the registry as it is but for the loads, and does not
\* involve the listener.
SoloCargas ==
    /\ Len(buffer') = Len(buffer)
    /\ \A k \in 1 .. Len(buffer) : buffer'[k].comparador = buffer[k].comparador
    /\ UNCHANGED <<tam, servidoresActuales, pcES, datagrama, posicion>>

\* No step of a request thread changes the registry but for the loads.
LEMMA HiloEsSoloCargas ==
    ASSUME TypeOK, NEW h \in Hilos, Aceptar(h) \/ hilo_Cliente(h) \/ ClienteCorta(h)
    PROVE  SoloCargas
<1>a. \A n \in Int :
         /\ Len(MasCarga(indice[h], n)) = Len(buffer)
         /\ \A k \in 1 .. Len(buffer) : MasCarga(indice[h], n)[k].comparador = buffer[k].comparador
  <2>1. buffer \in Seq(ServidorRegistrado) /\ indice[h] \in Int
    BY DEF TypeOK
  <2> QED
    BY <2>1, MasCargaLema
<1>1. CASE Sumar(h)
  <2>1. buffer' = MasCarga(indice[h], 1) \/ buffer' = buffer
    BY <1>1 DEF Sumar
  <2>2. /\ Len(buffer') = Len(buffer)
        /\ \A k \in 1 .. Len(buffer) : buffer'[k].comparador = buffer[k].comparador
    BY <2>1, <1>a
  <2> QED
    BY <1>1, <2>2 DEF Sumar, SoloCargas, listener
<1>2. CASE Restar(h)
  <2>1. buffer' = MasCarga(indice[h], -1) /\ -1 \in Int
    BY <1>2 DEF Restar
  <2>2. /\ Len(buffer') = Len(buffer)
        /\ \A k \in 1 .. Len(buffer) : buffer'[k].comparador = buffer[k].comparador
    BY <2>1, <1>a
  <2> QED
    BY <1>2, <2>2 DEF Restar, SoloCargas, listener
<1>3. CASE ~Sumar(h) /\ ~Restar(h)
  BY <1>3 DEF SoloCargas, Aceptar, hilo_Cliente, ClienteCorta, Revisar, Seguir, Seleccionar, RoundRobin,
              PesosEntrar, PesosAvanzar, PesosElegir, BuscarCliente, Asociar, ConexionesActiva,
              LeerIp, Conectar, Reenviar, Responder, memoria, historia, registro, listener
<1> QED
  BY <1>1, <1>2, <1>3

\* The initial states are well typed.
LEMMA TypeOKInicial == Init => TypeOK
BY ConstantesAssumption, EmptySeq DEF Init, TypeOK, Pcs, ROUND_ROBIN

\* The steps of a request thread keep the types.
LEMMA TypeOKHilo ==
    ASSUME TypeOK, NEW h \in Hilos, Aceptar(h) \/ hilo_Cliente(h) \/ ClienteCorta(h)
    PROVE  TypeOK'
<1> USE DEF TypeOK, Ir, Pcs, Elige, Eligio, Cuenta, memoria, historia, registro, hilos, listener
<1>1. CASE Aceptar(h)
  BY <1>1 DEF Aceptar
<1>2. CASE ClienteCorta(h)
  BY <1>2 DEF ClienteCorta
<1>3. CASE Revisar(h)
  BY <1>3 DEF Revisar, Seguir
<1>4. CASE RoundRobin(h)
  BY <1>4 DEF RoundRobin, SiguienteCursor
<1>5. CASE PesosEntrar(h)
  BY <1>5 DEF PesosEntrar
<1>6. CASE PesosAvanzar(h)
  BY <1>6 DEF PesosAvanzar
<1>7. CASE PesosElegir(h)
  BY <1>7 DEF PesosElegir
<1>8. CASE BuscarCliente(h)
  BY <1>8 DEF BuscarCliente
<1>9. CASE Asociar(h)
  BY <1>9 DEF Asociar
<1>10. CASE ConexionesActiva(h)
  <2>1. PICK i \in {-1} \union Vivas : indice' = [indice EXCEPT ![h] = i]
    BY <1>10 DEF ConexionesActiva
  <2>2. i \in Int
    BY DEF Vivas
  <2> QED
    BY <1>10, <2>1, <2>2 DEF ConexionesActiva
<1>11. CASE Sumar(h)
  <2>1. buffer \in Seq(ServidorRegistrado) /\ indice[h] \in Int /\ 1 \in Int
    OBVIOUS
  <2>2. /\ MasCarga(indice[h], 1) \in Seq(ServidorRegistrado)
        /\ Len(MasCarga(indice[h], 1)) = Len(buffer)
    BY ONLY <2>1, MasCargaLema
  <2>3. buffer' = MasCarga(indice[h], 1) \/ buffer' = buffer
    BY ONLY <1>11 DEF Sumar
  <2> QED
    BY <1>11, <2>1, <2>2, <2>3 DEF Sumar
<1>12. CASE LeerIp(h)
  <2>1. EnBuffer(indice[h]) => Ranura(indice[h]) \in ServidorRegistrado
    BY ElementOfSeq, LenProperties DEF EnBuffer, Ranura
  <2>2. EnBuffer(indice[h]) => Ranura(indice[h]).comparador \in Servidores
    BY <2>1 DEF ServidorRegistrado
  <2> QED
    BY <1>12, <2>2 DEF LeerIp
<1>13. CASE Conectar(h)
  BY <1>13 DEF Conectar
<1>14. CASE Reenviar(h)
  BY <1>14 DEF Reenviar
<1>15. CASE Responder(h)
  BY <1>15 DEF Responder
<1>16. CASE Restar(h)
  <2>1. buffer \in Seq(ServidorRegistrado) /\ indice[h] \in Int /\ -1 \in Int
    OBVIOUS
  <2>2. /\ MasCarga(indice[h], -1) \in Seq(ServidorRegistrado)
        /\ Len(MasCarga(indice[h], -1)) = Len(buffer)
    BY ONLY <2>1, MasCargaLema
  <2>3. buffer' = MasCarga(indice[h], -1)
    BY ONLY <1>16 DEF Restar
  <2> QED
    BY <1>16, <2>2, <2>3 DEF Restar
<1> QED
  BY <1>1, <1>2, <1>3, <1>4, <1>5, <1>6, <1>7, <1>8, <1>9, <1>10, <1>11, <1>12, <1>13, <1>14,
     <1>15, <1>16 DEF hilo_Cliente, Seleccionar

\* A change of method by the operator changes no server.
LEMMA OperadorTipoYCargas ==
    ASSUME TypeOK, NEW m \in Metodos, SetAlgoritmoBalanceo(m)
    PROVE  TypeOK' /\ SoloCargas
BY ConstantesAssumption
   DEF SetAlgoritmoBalanceo, TypeOK, SoloCargas, historia, registro, hilos, listener

\* What the listener knows and the shape of the registry do not depend on loads.
LEMMA SoloCargasConserva ==
    ASSUME RegistroInv, SoloCargas
    PROVE  ListenerOK' /\ RegistroSinDuplicados' /\ ContadorOK'
<1>1. Vivas' = Vivas /\ \A i \in Vivas : Ranura(i)'.comparador = Ranura(i).comparador
  BY DEF RegistroInv, TypeOK, SoloCargas, Vivas, Ranura
<1>2. ListenerOK'
  BY <1>1 DEF RegistroInv, ListenerOK, SoloCargas
<1>3. RegistroSinDuplicados'
  BY <1>1 DEF RegistroInv, RegistroSinDuplicados
<1>4. ContadorOK'
  BY DEF RegistroInv, ContadorOK, SoloCargas
<1> QED
  BY <1>2, <1>3, <1>4

\* Receiving an announcement keeps the registry invariant.
LEMMA RecibirDatagramConserva ==
    ASSUME RegistroInv, NEW d \in Datagramas, RecibirDatagram(d)
    PROVE  RegistroInv'
<1> USE DEF RegistroInv, RecibirDatagram, memoria, historia, registro, hilos
<1>1. TypeOK'
  BY DEF TypeOK
<1>2. ListenerOK'
  BY ConstantesAssumption DEF ListenerOK, Datagramas
<1>3. RegistroSinDuplicados' /\ ContadorOK'
  BY DEF RegistroSinDuplicados, ContadorOK, Vivas, Ranura
<1> QED
  BY <1>1, <1>2, <1>3

\* The first critical section of agregarServidor keeps it: when it goes on to
\* insert, the server is not registered.
LEMMA BuscarAgregarConserva ==
    ASSUME RegistroInv, BuscarAgregar
    PROVE  RegistroInv'
<1> USE DEF RegistroInv, BuscarAgregar, Volver, memoria, historia, registro, hilos
<1>1. TypeOK'
  BY DEF TypeOK
<1>2. ListenerOK'
  BY DEF ListenerOK, BuscarServidor, Registrados, Vivas, Ranura
<1>3. RegistroSinDuplicados' /\ ContadorOK'
  BY DEF RegistroSinDuplicados, ContadorOK, Vivas, Ranura
<1> QED
  BY <1>1, <1>2, <1>3

\* The second critical section of agregarServidor keeps it, because only the
\* listener registers servers.
LEMMA InsertarConserva ==
    ASSUME RegistroInv, Insertar
    PROVE  RegistroInv'
<1>1. PICK c \in CargasMaximas :
         buffer' = PushBack([comparador |-> datagrama.id, carga_actual |-> 0, carga_maxima |-> c])
  BY DEF Insertar
<1> DEFINE s == [comparador |-> datagrama.id, carga_actual |-> 0, carga_maxima |-> c]
<1>2. datagrama \in Datagramas /\ pcES = "insertar"
  BY DEF RegistroInv, ListenerOK, Insertar
<1>3. s \in ServidorRegistrado /\ s.comparador = datagrama.id
  BY <1>2 DEF Datagramas, ServidorRegistrado
<1> HIDE DEF s
<1>4. buffer \in Seq(ServidorRegistrado) /\ tam \in 0 .. Len(buffer) /\ Len(buffer) \in Nat
  BY LenProperties DEF RegistroInv, TypeOK
<1>5. /\ buffer' \in Seq(ServidorRegistrado)
      /\ Len(buffer') = (IF tam < Len(buffer) THEN Len(buffer) ELSE Len(buffer) + 1)
      /\ \A k \in 1 .. tam : buffer'[k] = buffer[k]
      /\ buffer'[tam + 1] = s
  BY <1>1, <1>3, <1>4, PushBackLema DEF s
<1>6. tam' = tam + 1 /\ tam' \in 0 .. Len(buffer')
  BY <1>4, <1>5 DEF Insertar
<1>7. TypeOK'
  BY <1>5, <1>6 DEF RegistroInv, TypeOK, Insertar, hilos
<1>8. ListenerOK'
  BY <1>2 DEF RegistroInv, Insertar, ListenerOK
<1>9. RegistroSinDuplicados'
  <2>1. Vivas' = Vivas \union {tam}
    BY <1>4, <1>6 DEF Vivas
  <2>2. \A i \in Vivas : Ranura(i).comparador # datagrama.id
    BY <1>2 DEF RegistroInv, ListenerOK
  <2>3. \A i \in Vivas : Ranura(i)' = Ranura(i)
    BY <1>4, <1>5 DEF Vivas, Ranura
  <2>4. \A i \in Vivas' : i = tam => Ranura(i)'.comparador = datagrama.id
    BY <1>3, <1>5 DEF Ranura
  <2>5. \A i, j \in Vivas : Ranura(i).comparador = Ranura(j).comparador => i = j
    BY DEF RegistroInv, RegistroSinDuplicados
  <2>6. SUFFICES ASSUME NEW i \in Vivas', NEW j \in Vivas',
                        Ranura(i)'.comparador = Ranura(j)'.comparador
                 PROVE  i = j
    BY DEF RegistroSinDuplicados
  <2> QED
    BY <2>1, <2>2, <2>3, <2>4, <2>5, <2>6
<1>10. ContadorOK'
  BY <1>2, <1>4, <1>6 DEF RegistroInv, ContadorOK, Insertar
<1> QED
  BY <1>7, <1>8, <1>9, <1>10 DEF RegistroInv

\* The announcement of the balancer keeps it.
LEMMA AvisarServidoresConserva ==
    ASSUME RegistroInv, AvisarServidores
    PROVE  RegistroInv'
<1> USE DEF RegistroInv, AvisarServidores, Volver, historia, hilos
<1>1. TypeOK'
  BY DEF TypeOK
<1>2. ListenerOK'
  BY DEF ListenerOK
<1>3. RegistroSinDuplicados' /\ ContadorOK'
  BY DEF TypeOK, RegistroSinDuplicados, ContadorOK, Vivas, Ranura
<1> QED
  BY <1>1, <1>2, <1>3

\* The first critical section of eliminarServidor keeps it, and its position is
\* that of the server.
LEMMA BuscarEliminarConserva ==
    ASSUME RegistroInv, BuscarEliminar
    PROVE  RegistroInv'
<1> USE DEF RegistroInv, BuscarEliminar, Volver, memoria, historia, registro, hilos
<1>1. TypeOK'
  BY DEF TypeOK, Vivas
<1>2. ListenerOK'
  BY DEF ListenerOK, BuscarServidor, Vivas, Ranura, TypeOK
<1>3. RegistroSinDuplicados' /\ ContadorOK'
  BY DEF RegistroSinDuplicados, ContadorOK, Vivas, Ranura
<1> QED
  BY <1>1, <1>2, <1>3

\* The second critical section of eliminarServidor keeps it.
LEMMA BorrarConserva ==
    ASSUME RegistroInv, Borrar
    PROVE  RegistroInv'
<1>1. posicion \in Vivas /\ pcES = "borrar"
  BY DEF RegistroInv, ListenerOK, Borrar
<1>2. buffer \in Seq(ServidorRegistrado) /\ tam \in 0 .. Len(buffer) /\ Len(buffer) \in Nat
  BY LenProperties DEF RegistroInv, TypeOK
<1>3. /\ buffer' \in Seq(ServidorRegistrado)
      /\ Len(buffer') = Len(buffer)
      /\ \A k \in 1 .. tam - 1 :
            buffer'[k] = IF k <= posicion THEN buffer[k] ELSE buffer[k + 1]
  BY <1>1, <1>2, EraseLema DEF Borrar
<1>4. tam' = tam - 1 /\ tam' \in 0 .. Len(buffer')
  BY <1>1, <1>2, <1>3 DEF Borrar, Vivas
<1>5. TypeOK'
  BY <1>3, <1>4 DEF RegistroInv, TypeOK, Borrar, Alcanzados, Volver, hilos
<1>6. ListenerOK'
  BY DEF ListenerOK, Borrar, Volver
<1>7. RegistroSinDuplicados'
  <2> DEFINE de(i) == IF i < posicion THEN i ELSE i + 1
  <2>1. \A i \in Vivas' : de(i) \in Vivas /\ Ranura(i)' = Ranura(de(i))
    BY <1>1, <1>2, <1>3, <1>4 DEF Vivas, Ranura
  <2>2. \A i, j \in Vivas' : de(i) = de(j) => i = j
    BY <1>1, <1>2, <1>4 DEF Vivas
  <2> HIDE DEF de
  <2> QED
    BY <2>1, <2>2 DEF RegistroInv, RegistroSinDuplicados
<1>8. ContadorOK'
  BY <1>1, <1>2, <1>4 DEF RegistroInv, TypeOK, ContadorOK, Borrar, Volver
<1> QED
  BY <1>5, <1>6, <1>7, <1>8 DEF RegistroInv

\* The registry invariant holds initially.
LEMMA RegistroInvInicial == Init => RegistroInv
BY TypeOKInicial DEF Init, RegistroInv, ListenerOK, ContadorOK, RegistroSinDuplicados, Vivas

\* The registry invariant is inductive.
LEMMA RegistroInvPaso == RegistroInv /\ [Next]_vars => RegistroInv'
<1> SUFFICES ASSUME RegistroInv, [Next]_vars PROVE RegistroInv'
  OBVIOUS
<1>1. ASSUME NEW h \in Hilos, Aceptar(h) \/ hilo_Cliente(h) \/ ClienteCorta(h)
      PROVE  RegistroInv'
  BY <1>1, TypeOKHilo, HiloEsSoloCargas, SoloCargasConserva DEF RegistroInv
<1>2. ASSUME NEW m \in Metodos, SetAlgoritmoBalanceo(m)
      PROVE  RegistroInv'
  BY <1>2, OperadorTipoYCargas, SoloCargasConserva DEF RegistroInv
<1>3. CASE hilo_Escuchador_Servidores
  BY <1>3, RecibirDatagramConserva, BuscarAgregarConserva, InsertarConserva,
     AvisarServidoresConserva, BuscarEliminarConserva, BorrarConserva
  DEF hilo_Escuchador_Servidores
<1>4. CASE UNCHANGED vars
  BY <1>4 DEF RegistroInv, TypeOK, ListenerOK, ContadorOK, RegistroSinDuplicados, Vivas, Ranura,
              vars, memoria, historia, registro, hilos, listener
<1> QED
  BY <1>1, <1>2, <1>3, <1>4 DEF Next

\* The registry invariant holds in every reachable state: types, what the
\* listener knows between its two critical sections, and no duplicates.
THEOREM RegistroInvSiempre == Spec => []RegistroInv
BY RegistroInvInicial, RegistroInvPaso, PTL DEF Spec

\* The type invariant holds in every reachable state.
THEOREM TypeOKSiempre == Spec => []TypeOK
<1>1. RegistroInv => TypeOK
  BY DEF RegistroInv
<1> QED
  BY <1>1, RegistroInvSiempre, PTL

\* No server is ever registered twice, however the two critical sections of
\* agregarServidor interleave with the requests.
THEOREM SinDuplicadosSiempre == Spec => []RegistroSinDuplicados
<1>1. RegistroInv => RegistroSinDuplicados
  BY DEF RegistroInv
<1> QED
  BY <1>1, RegistroInvSiempre, PTL

\* The counter of connected servers is exact whenever the listener waits.
THEOREM EstadisticaSiempre == Spec => []EstadisticaCuadra
<1>1. RegistroInv => EstadisticaCuadra
  BY DEF RegistroInv, TypeOK, ContadorOK, EstadisticaCuadra
<1> QED
  BY <1>1, RegistroInvSiempre, PTL

-------------------------------------------------------------------------------
(* The registry implements Registro                                        *)

\* Steps that change only loads are stutters of the registry.
LEMMA SoloCargasTartamudea ==
    ASSUME RegistroInv, SoloCargas
    PROVE  registradosBar' = registradosBar /\ avisoBar' = avisoBar
BY DEF RegistroInv, TypeOK, SoloCargas, registradosBar, avisoBar

\* The bar is a sequence of servers as long as the live part of the vector.
LEMMA BarTipo ==
    ASSUME TypeOK
    PROVE  /\ registradosBar \in Seq(Servidores)
           /\ Len(registradosBar) = tam /\ DOMAIN registradosBar = 1 .. tam
           /\ \A k \in 1 .. tam : registradosBar[k] = Ranura(k - 1).comparador
<1>1. buffer \in Seq(ServidorRegistrado) /\ tam \in 0 .. Len(buffer) /\ Len(buffer) \in Nat
  BY LenProperties DEF TypeOK
<1>2. \A k \in 1 .. tam : buffer[k] \in ServidorRegistrado
  BY <1>1, ElementOfSeq
<1>3. \A k \in 1 .. tam : buffer[k].comparador \in Servidores
  BY <1>2 DEF ServidorRegistrado
<1>4. registradosBar \in [1 .. tam -> Servidores] /\ tam \in Nat
  BY <1>1, <1>3 DEF registradosBar
<1>5. registradosBar \in Seq(Servidores)
  BY <1>4, SeqDef
<1>6. Len(registradosBar) = tam
  BY <1>4, <1>5, LenProperties
<1> QED
  BY <1>1, <1>4, <1>5, <1>6 DEF registradosBar, Ranura

\* The balancer starts with an empty registry.
LEMMA RegistroInicial == Init => R!Init
<1> SUFFICES ASSUME Init PROVE R!Init
  OBVIOUS
<1>1. RegistroInv /\ tam = 0
  BY RegistroInvInicial DEF Init
<1>2. registradosBar = <<>>
  BY <1>1, BarTipo, EmptySeq DEF RegistroInv
<1> QED
  BY <1>2 DEF Init, avisoBar, R!Init

\* Receiving a datagram is receiving an announcement.
LEMMA RecibirRefina ==
    ASSUME RegistroInv, NEW d \in Datagramas, RecibirDatagram(d)
    PROVE  R!Next
<1>1. d \in R!Avisos
  BY ConstantesAssumption DEF Datagramas, R!Avisos
<1>2. R!Recibir(d)
  BY ConstantesAssumption
  DEF RecibirDatagram, memoria, historia, registro, avisoBar, registradosBar, R!Recibir, Datagramas
<1> QED
  BY <1>1, <1>2 DEF R!Next

\* To be in the abstract registry is to be in the live part of the vector.
LEMMA EstaSiRegistrado ==
    ASSUME RegistroInv, NEW s
    PROVE  R!Esta(s) <=> s \in Registrados
<1>1. /\ DOMAIN registradosBar = 1 .. tam
      /\ \A k \in 1 .. tam : registradosBar[k] = Ranura(k - 1).comparador
  BY BarTipo DEF RegistroInv
<1>2. tam \in Nat
  BY LenProperties DEF RegistroInv, TypeOK
<1>3. R!Esta(s) => s \in Registrados
  BY <1>1, <1>2 DEF R!Esta, Registrados, Vivas
<1>4. ASSUME NEW i \in Vivas, Ranura(i).comparador = s PROVE R!Esta(s)
  <2>1. i + 1 \in 1 .. tam /\ (i + 1) - 1 = i
    BY <1>2 DEF Vivas
  <2> QED
    BY <1>1, <1>4, <2>1 DEF R!Esta
<1> QED
  BY <1>3, <1>4 DEF Registrados

\* An announcement that finds nothing to do, or a look-up before a change.
LEMMA BuscarAgregarRefina ==
    ASSUME RegistroInv, BuscarAgregar
    PROVE  R!Next \/ UNCHANGED R!vars
<1>1. /\ UNCHANGED registradosBar /\ pcES = "buscarAgregar"
      /\ datagrama \in Datagramas /\ datagrama.tipo = "S/C"
  BY DEF RegistroInv, ListenerOK, BuscarAgregar, memoria, historia, registro, registradosBar
<1>2. datagrama = [tipo |-> "S/C", id |-> datagrama.id] /\ datagrama.id \in Servidores
  BY <1>1 DEF Datagramas
<1>3. CASE BuscarServidor(datagrama.id, -1) /\ pcES' = "insertar" /\ UNCHANGED datagrama
  BY <1>1, <1>3 DEF avisoBar, R!vars
<1>4. CASE (\E i \in Vivas : BuscarServidor(datagrama.id, i)) /\ Volver
  <2>1. datagrama.id \in Registrados
    BY <1>4 DEF BuscarServidor, Registrados, Vivas
  <2>2. avisoBar = datagrama /\ avisoBar' = Nadie
    BY <1>1, <1>4 DEF avisoBar, Volver
  <2>3. R!Ignorar(datagrama.id)
    BY <1>1, <1>2, <2>1, <2>2, EstaSiRegistrado DEF R!Ignorar
  <2> QED
    BY <1>2, <2>3 DEF R!Next
<1> QED
  BY <1>3, <1>4 DEF BuscarAgregar

\* Looking up a server to remove is a stutter, or the whole announcement if
\* there is none.
LEMMA BuscarEliminarRefina ==
    ASSUME RegistroInv, BuscarEliminar
    PROVE  R!Next \/ UNCHANGED R!vars
<1>1. /\ UNCHANGED registradosBar /\ pcES = "buscarEliminar"
      /\ datagrama \in Datagramas /\ datagrama.tipo = "S/D"
  BY DEF RegistroInv, ListenerOK, BuscarEliminar, memoria, historia, registro, registradosBar
<1>2. datagrama = [tipo |-> "S/D", id |-> datagrama.id] /\ datagrama.id \in Servidores
  BY <1>1 DEF Datagramas
<1>3. CASE pcES' = "borrar" /\ UNCHANGED datagrama
  BY <1>1, <1>3 DEF avisoBar, R!vars
<1>4. CASE BuscarServidor(datagrama.id, -1) /\ Volver
  <2>1. datagrama.id \notin Registrados
    BY <1>4 DEF BuscarServidor, Vivas
  <2>2. avisoBar = datagrama /\ avisoBar' = Nadie
    BY <1>1, <1>4 DEF avisoBar, Volver
  <2>3. R!Ignorar(datagrama.id)
    BY <1>1, <1>2, <2>1, <2>2, EstaSiRegistrado DEF R!Ignorar
  <2> QED
    BY <1>2, <2>3 DEF R!Next
<1> QED
  BY <1>3, <1>4 DEF BuscarEliminar

\* The insertion carries out the announcement of a server.
LEMMA InsertarRefina ==
    ASSUME RegistroInv, Insertar
    PROVE  R!Next
<1> DEFINE id == datagrama.id
<1>1. datagrama = [tipo |-> "S/C", id |-> id] /\ id \in Servidores /\ pcES = "insertar"
  BY DEF RegistroInv, ListenerOK, Insertar, Datagramas
<1>2. avisoBar = datagrama /\ avisoBar' = Nadie
  BY DEF Insertar, avisoBar
<1>3. id \notin Registrados
  BY <1>1 DEF RegistroInv, ListenerOK, Registrados
<1>4. TypeOK' /\ TypeOK /\ tam \in Nat /\ tam' = tam + 1
  BY InsertarConserva, LenProperties DEF RegistroInv, TypeOK, Insertar
<1>5. /\ \A k \in 1 .. tam : buffer'[k] = buffer[k]
      /\ buffer'[tam + 1].comparador = id
  <2>1. PICK c \in CargasMaximas :
           buffer' = PushBack([comparador |-> id, carga_actual |-> 0, carga_maxima |-> c])
    BY DEF Insertar
  <2> DEFINE s == [comparador |-> id, carga_actual |-> 0, carga_maxima |-> c]
  <2>2. s \in ServidorRegistrado /\ s.comparador = id
    BY <1>1 DEF ServidorRegistrado
  <2>3. buffer' = PushBack(s) /\ buffer \in Seq(ServidorRegistrado) /\ tam \in 0 .. Len(buffer)
    BY <2>1, <1>4 DEF TypeOK
  <2> HIDE DEF s
  <2> QED
    BY <2>2, <2>3, PushBackLema
<1>6. registradosBar' = Append(registradosBar, id)
  <2>1. /\ registradosBar \in Seq(Servidores) /\ Len(registradosBar) = tam
        /\ registradosBar' \in Seq(Servidores) /\ Len(registradosBar') = tam + 1
    <3>1. (registradosBar \in Seq(Servidores) /\ Len(registradosBar) = tam)
      BY <1>4, BarTipo
    <3>2. (registradosBar \in Seq(Servidores) /\ Len(registradosBar) = tam)'
      BY <1>4, BarTipo, PTL
    <3> QED
      BY <1>4, <3>1, <3>2
  <2>2. /\ Append(registradosBar, id) \in Seq(Servidores)
        /\ Len(Append(registradosBar, id)) = tam + 1
    BY <1>1, <1>4, <2>1
  <2>3. \A k \in 1 .. tam + 1 : registradosBar'[k] = Append(registradosBar, id)[k]
    BY <1>1, <1>4, <1>5, <2>1 DEF registradosBar
  <2> QED
    BY <2>1, <2>2, <2>3, SeqEqual
<1>7. R!Alta(id)
  BY <1>1, <1>2, <1>3, <1>6, EstaSiRegistrado DEF R!Alta
<1> QED
  BY <1>1, <1>7 DEF R!Next

\* The erasure carries out the farewell of a server.
LEMMA BorrarRefina ==
    ASSUME RegistroInv, Borrar
    PROVE  R!Next
<1> DEFINE id == datagrama.id
<1>1. /\ datagrama = [tipo |-> "S/D", id |-> id] /\ id \in Servidores /\ pcES = "borrar"
      /\ posicion \in Vivas /\ Ranura(posicion).comparador = id
  BY DEF RegistroInv, ListenerOK, Borrar, Datagramas
<1>2. avisoBar = datagrama /\ avisoBar' = Nadie
  BY <1>1 DEF Borrar, avisoBar, Volver
<1>3. buffer \in Seq(ServidorRegistrado) /\ tam \in 0 .. Len(buffer) /\ Len(buffer) \in Nat
  BY LenProperties DEF RegistroInv, TypeOK
<1>4. tam' = tam - 1 /\ posicion + 1 \in 1 .. tam
  BY <1>1, <1>3 DEF Borrar, Vivas
<1>5. \A k \in 1 .. tam - 1 :
         buffer'[k] = IF k <= posicion THEN buffer[k] ELSE buffer[k + 1]
  BY <1>1, <1>3, EraseLema DEF Borrar
<1>6. /\ Len(registradosBar) = tam /\ DOMAIN registradosBar = 1 .. tam
      /\ registradosBar[posicion + 1] = id
  BY <1>1, <1>3, <1>4, BarTipo DEF RegistroInv, Vivas
<1>7. registradosBar' = [k \in 1 .. Len(registradosBar) - 1 |->
                            registradosBar[IF k < posicion + 1 THEN k ELSE k + 1]]
  <2>1. registradosBar' = [k \in 1 .. tam - 1 |-> buffer'[k].comparador]
    BY <1>4 DEF registradosBar
  <2>2. \A k \in 1 .. tam - 1 :
           buffer'[k].comparador = registradosBar[IF k < posicion + 1 THEN k ELSE k + 1]
    <3> SUFFICES ASSUME NEW k \in 1 .. tam - 1
                 PROVE  buffer'[k].comparador =
                           registradosBar[IF k < posicion + 1 THEN k ELSE k + 1]
      OBVIOUS
    <3>1. posicion \in Int /\ tam \in Int /\ k \in 1 .. tam /\ k + 1 \in 1 .. tam
      BY <1>1, <1>3 DEF Vivas
    <3>2. registradosBar[k] = buffer[k].comparador /\ registradosBar[k + 1] = buffer[k + 1].comparador
      BY <3>1 DEF registradosBar
    <3>3. CASE k <= posicion
      BY <1>5, <3>1, <3>2, <3>3
    <3>4. CASE ~(k <= posicion)
      BY <1>5, <3>1, <3>2, <3>4
    <3> QED
      BY <3>3, <3>4
  <2> QED
    BY <1>6, <2>1, <2>2
<1>8. R!Baja(id)
  BY <1>1, <1>2, <1>4, <1>6, <1>7 DEF R!Baja
<1> QED
  BY <1>1, <1>8 DEF R!Next

\* Every step of the balancer is a step of the registry or a stutter.
LEMMA PasoRefina == RegistroInv /\ [Next]_vars => [R!Next]_(R!vars)
<1> SUFFICES ASSUME RegistroInv, [Next]_vars PROVE R!Next \/ UNCHANGED R!vars
  OBVIOUS
<1>1. ASSUME NEW h \in Hilos, Aceptar(h) \/ hilo_Cliente(h) \/ ClienteCorta(h)
      PROVE  UNCHANGED R!vars
  BY <1>1, HiloEsSoloCargas, SoloCargasTartamudea DEF RegistroInv, R!vars
<1>2. ASSUME NEW m \in Metodos, SetAlgoritmoBalanceo(m)
      PROVE  UNCHANGED R!vars
  BY <1>2, OperadorTipoYCargas, SoloCargasTartamudea DEF RegistroInv, R!vars
<1>3. CASE AvisarServidores
  BY <1>3 DEF AvisarServidores, Volver, R!vars, registradosBar, avisoBar
<1>4. CASE hilo_Escuchador_Servidores
  BY <1>3, <1>4, RecibirRefina, BuscarAgregarRefina, InsertarRefina, BuscarEliminarRefina,
     BorrarRefina
  DEF hilo_Escuchador_Servidores
<1>5. CASE UNCHANGED vars
  BY <1>5 DEF vars, memoria, historia, registro, listener, R!vars, registradosBar, avisoBar
<1> QED
  BY <1>1, <1>2, <1>4, <1>5 DEF Next

\* The balancer's registry, with its two critical sections per announcement and
\* its vector, implements the ordered set whose announcements are atomic.
THEOREM ImplementaRegistro == Spec => EsRegistro
BY RegistroInicial, PasoRefina, RegistroInvSiempre, PTL DEF Spec, EsRegistro, R!Spec


-------------------------------------------------------------------------------
(* Indices never leave the storage of the vector                           *)

\* A thread that got past the emptiness test works on a vector that has had a
\* server, and storage once written is never given back; it has one now, or was
\* caught when the last one left.
Alcance(h) ==
    /\ pc[h] \notin {"nuevo", "revisar", "rechazada"} => Len(buffer) > 0
    /\ pc[h] \in {"nuevo", "revisar", "direccion", "agregar", "asociar"} => indice[h] = 0
    /\ pc[h] \in Elige => tam > 0 \/ h \in tocados
    /\ pc[h] = "girar" => EnBuffer(indice[h])
    /\ Fuera(h) => indice[h] \in CursorInicial

\* The cursor is within the storage, but for its first value until a request
\* takes it.
CursorInv ==
    \/ roundRobin_Actual = 0 \/ EnBuffer(roundRobin_Actual)
    \/ roundRobin_Actual \in CursorInicial /\ \A h \in Hilos : ~Fuera(h)

AlcanceInv ==
    /\ CursorInv
    /\ \A h \in Hilos : Alcance(h)
    /\ \A h, g \in Hilos : Fuera(h) /\ Fuera(g) => h = g

\* The listener and the operator move no index, the storage never shrinks, and
\* whoever was choosing when the last server left is remembered.
LEMMA AlcanceSiCrece ==
    ASSUME TypeOK, TypeOK', AlcanceInv,
           Len(buffer') >= Len(buffer), UNCHANGED <<roundRobin_Actual, pc, indice>>,
           tocados \subseteq tocados',
           \A h \in Hilos : pc[h] \in Elige /\ tam > 0 => tam' > 0 \/ h \in tocados'
    PROVE  AlcanceInv'
<1>1. /\ Len(buffer) \in Nat /\ Len(buffer') \in Nat
      /\ indice \in [Hilos -> Int] /\ roundRobin_Actual \in Int
  BY LenProperties DEF TypeOK
<1>2. \A i \in Int : EnBuffer(i) => i >= 0 /\ i < Len(buffer')
  BY <1>1 DEF EnBuffer
<1>3. \A h \in Hilos : EnBuffer(indice[h]) => EnBuffer(indice[h])'
  BY <1>1, <1>2 DEF EnBuffer
<1>4. EnBuffer(roundRobin_Actual) => EnBuffer(roundRobin_Actual)'
  BY <1>1, <1>2 DEF EnBuffer
<1>5. \A h \in Hilos : Fuera(h)' => Fuera(h)
  BY <1>3 DEF Fuera, SinServidor
<1>6. CursorInv'
  BY <1>4, <1>5 DEF AlcanceInv, CursorInv
<1>7. ASSUME NEW h \in Hilos PROVE Alcance(h)'
  BY <1>1, <1>3, <1>5 DEF AlcanceInv, Alcance
<1>8. \A h, g \in Hilos : Fuera(h)' /\ Fuera(g)' => h = g
  BY <1>5 DEF AlcanceInv
<1> QED
  BY <1>6, <1>7, <1>8 DEF AlcanceInv

\* A step of thread h keeps the storage, and touches no other thread.
LEMMA PasoDeHilo ==
    ASSUME TypeOK, NEW h \in Hilos, Aceptar(h) \/ hilo_Cliente(h) \/ ClienteCorta(h)
    PROVE  /\ Len(buffer') = Len(buffer)
           /\ UNCHANGED <<algoritmoBalanceo, tam, tocados>>
           /\ \A g \in Hilos \ {h} : pc'[g] = pc[g] /\ indice'[g] = indice[g]
<1>1. Len(buffer') = Len(buffer) /\ UNCHANGED tam
  BY HiloEsSoloCargas DEF SoloCargas
<1>2. UNCHANGED <<algoritmoBalanceo, tocados>>
  BY DEF Aceptar, hilo_Cliente, ClienteCorta, Revisar, Seguir, Seleccionar, RoundRobin,
         PesosEntrar, PesosAvanzar, PesosElegir, BuscarCliente, Asociar, ConexionesActiva,
         Sumar, LeerIp, Conectar, Reenviar, Responder, Restar, memoria, historia
<1>3. \A g \in Hilos \ {h} : pc'[g] = pc[g] /\ indice'[g] = indice[g]
  BY DEF TypeOK, Ir, Aceptar, hilo_Cliente, ClienteCorta, Revisar, Seguir, Seleccionar, RoundRobin,
         PesosEntrar, PesosAvanzar, PesosElegir, BuscarCliente, Asociar, ConexionesActiva,
         Sumar, LeerIp, Conectar, Reenviar, Responder, Restar
<1> QED
  BY <1>1, <1>2, <1>3

\* Which indices are in the storage does not change with it, then.
LEMMA HiloNoMueve ==
    ASSUME TypeOK, NEW h \in Hilos, Aceptar(h) \/ hilo_Cliente(h) \/ ClienteCorta(h)
    PROVE  /\ Len(buffer) \in Nat /\ tam \in Nat /\ tam <= Len(buffer)
           /\ \A i \in Int : EnBuffer(i)' <=> EnBuffer(i)
           /\ \A i \in Int : EnBuffer(i) <=> i >= 0 /\ i < Len(buffer)
           /\ \A g \in Hilos \ {h} : /\ EnBuffer(indice[g])' <=> EnBuffer(indice[g])
                                     /\ SinServidor(g)' <=> SinServidor(g)
                                     /\ Fuera(g)' <=> Fuera(g)
<1>1. /\ Len(buffer') = Len(buffer) /\ Len(buffer) \in Nat /\ tam \in Nat /\ tam <= Len(buffer)
      /\ indice \in [Hilos -> Int]
  BY PasoDeHilo, LenProperties DEF TypeOK
<1>2. \A g \in Hilos \ {h} : /\ EnBuffer(indice[g])' <=> EnBuffer(indice[g])
                             /\ SinServidor(g)' <=> SinServidor(g)
  BY <1>1, PasoDeHilo DEF EnBuffer, SinServidor
<1> QED
  BY <1>1, <1>2, PasoDeHilo DEF EnBuffer, Fuera

\* Where a thread is before and after a step of its program.
LEMMA IrLema ==
    ASSUME TypeOK, NEW h \in Hilos, NEW de, NEW a, Ir(h, de, a)
    PROVE  pc[h] = de /\ pc'[h] = a
BY DEF TypeOK, Ir

\* The request that takes the cursor is the only one that may leave the storage.
LEMMA AlcanceRoundRobin ==
    ASSUME TypeOK, AlcanceInv, NEW h \in Hilos, RoundRobin(h)
    PROVE  /\ CursorInv' /\ Alcance(h)'
           /\ Fuera(h)' => \A g \in Hilos : ~Fuera(g)
<1>1. /\ Len(buffer) \in Nat /\ tam \in Nat /\ tam <= Len(buffer)
      /\ \A i \in Int : EnBuffer(i)' <=> EnBuffer(i)
      /\ \A i \in Int : EnBuffer(i) <=> i >= 0 /\ i < Len(buffer)
  BY HiloNoMueve DEF hilo_Cliente, Seleccionar
<1>2. Len(buffer') = Len(buffer)
  BY PasoDeHilo DEF hilo_Cliente, Seleccionar
<1>3. /\ pc[h] = "rr" /\ pc'[h] = "sumar" /\ Len(buffer) > 0
      /\ roundRobin_Actual \in Int /\ indice'[h] = roundRobin_Actual
  BY IrLema DEF RoundRobin, TypeOK, AlcanceInv, Alcance
<1>4. roundRobin_Actual' = 0 \/ EnBuffer(roundRobin_Actual')
  BY <1>1, <1>3 DEF RoundRobin, SiguienteCursor
<1>5. CursorInv'
  <2>1. roundRobin_Actual' \in Int
    BY <1>3 DEF RoundRobin, SiguienteCursor
  <2>2. EnBuffer(roundRobin_Actual') <=> EnBuffer(roundRobin_Actual)'
    BY <1>2 DEF EnBuffer
  <2> QED
    BY <1>4, <2>2 DEF CursorInv
<1>6. Fuera(h)' => roundRobin_Actual \in CursorInicial /\ \A g \in Hilos : ~Fuera(g)
  <2>1. EnBuffer(indice[h])' <=> EnBuffer(roundRobin_Actual)
    BY <1>2, <1>3 DEF EnBuffer
  <2>2. roundRobin_Actual = 0 => EnBuffer(roundRobin_Actual)
    BY <1>1, <1>3
  <2> QED
    BY <2>1, <2>2 DEF AlcanceInv, CursorInv, Fuera
<1>7. Alcance(h)'
  BY <1>2, <1>3, <1>6 DEF Alcance, Elige
<1> QED
  BY <1>5, <1>6, <1>7

\* Every other step that chooses a slot chooses one of the storage, or the -1 of a
\* registry that was emptied, and every other step of a thread keeps its slot.
LEMMA AlcancePropio ==
    ASSUME TypeOK, NEW h \in Hilos, Alcance(h), ~RoundRobin(h),
           Aceptar(h) \/ hilo_Cliente(h) \/ ClienteCorta(h)
    PROVE  Alcance(h)' /\ (Fuera(h)' => Fuera(h)) /\ roundRobin_Actual' = roundRobin_Actual
<1>1. /\ Len(buffer) \in Nat /\ tam \in Nat /\ tam <= Len(buffer)
      /\ Len(buffer') = Len(buffer) /\ tam' = tam /\ tocados' = tocados
      /\ \A i \in Int : EnBuffer(i)' <=> EnBuffer(i)
      /\ \A i \in Int : EnBuffer(i) <=> i >= 0 /\ i < Len(buffer)
  BY HiloNoMueve, PasoDeHilo
<1>2. indice \in [Hilos -> Int] /\ indice[h] \in Int
  BY DEF TypeOK
<1>3. ASSUME indice'[h] \in Int, EnBuffer(indice'[h])
      PROVE  EnBuffer(indice[h])' /\ ~Fuera(h)'
  BY <1>1, <1>3 DEF Fuera, EnBuffer
<1>4. roundRobin_Actual' = roundRobin_Actual
  BY DEF Aceptar, hilo_Cliente, ClienteCorta, Revisar, Seguir, Seleccionar,
         PesosEntrar, PesosAvanzar, PesosElegir, BuscarCliente, Asociar, ConexionesActiva,
         Sumar, LeerIp, Conectar, Reenviar, Responder, Restar, memoria
<1>5. CASE PesosEntrar(h)
  <2>1. pc[h] = "pesos" /\ pc'[h] = "girar" /\ indice'[h] = 0
    BY <1>2, <1>5, IrLema DEF PesosEntrar
  <2>2. EnBuffer(indice'[h]) /\ indice'[h] \in Int /\ (tam > 0 \/ h \in tocados) /\ Len(buffer) > 0
    BY <1>1, <2>1 DEF Alcance, Elige
  <2> QED
    BY <1>1, <1>3, <1>4, <2>1, <2>2 DEF Alcance
<1>6. CASE PesosAvanzar(h)
  <2>1. /\ pc[h] = "girar" /\ pc'[h] = "girar"
        /\ indice'[h] = IF indice[h] + 1 >= tam THEN 0 ELSE indice[h] + 1
    BY <1>2, <1>6 DEF PesosAvanzar
  <2>2. EnBuffer(indice[h]) /\ Len(buffer) > 0 /\ (tam > 0 \/ h \in tocados)
    BY <2>1 DEF Alcance, Elige
  <2>3. indice'[h] \in Int /\ EnBuffer(indice'[h])
    <3>1. CASE indice[h] + 1 >= tam
      BY <1>1, <2>1, <2>2, <3>1
    <3>2. CASE ~(indice[h] + 1 >= tam)
      BY <1>1, <1>2, <2>1, <2>2, <3>2
    <3> QED
      BY <3>1, <3>2
  <2> QED
    BY <1>1, <1>3, <1>4, <2>1, <2>2, <2>3 DEF Alcance
<1>7. CASE ConexionesActiva(h)
  <2>1. pc[h] = "conexiones" /\ pc'[h] = "sumar" /\ (tam > 0 \/ h \in tocados) /\ Len(buffer) > 0
    BY <1>7, IrLema DEF ConexionesActiva, Alcance, Elige
  <2>2. PICK i \in {-1} \union Vivas :
           BuscarServidorConMenorCarga(i) /\ indice' = [indice EXCEPT ![h] = i]
    BY <1>7 DEF ConexionesActiva
  <2>3. indice'[h] = i /\ i \in Int
    BY <1>1, <1>2, <2>2 DEF Vivas
  <2>4. ~Fuera(h)'
    <3>1. CASE i \in Vivas
      <4>1. EnBuffer(indice'[h])
        BY <1>1, <2>3, <3>1 DEF Vivas
      <4> QED
        BY <1>3, <2>3, <4>1
    <3>2. CASE i \notin Vivas
      <4>1. i = -1 /\ tam = 0
        BY <2>2, <3>2 DEF BuscarServidorConMenorCarga
      <4> QED
        BY <1>1, <2>1, <2>3, <4>1 DEF Fuera, SinServidor
    <3> QED
      BY <3>1, <3>2
  <2> QED
    BY <1>1, <1>4, <2>1, <2>4 DEF Alcance, Elige
<1>8. CASE Aceptar(h) \/ Revisar(h)
  <2>1. /\ indice'[h] = indice[h] /\ indice[h] = 0
        /\ \/ pc'[h] \in {"revisar", "rechazada"}
           \/ tam # 0 /\ pc'[h] \in {"rr", "pesos", "direccion", "conexiones"}
    BY <1>8, IrLema DEF Aceptar, Revisar, Seguir, Alcance
  <2>2. ~Fuera(h)'
    BY <2>1 DEF Fuera, Eligio, Cuenta
  <2>3. pc'[h] \in Elige => tam > 0 /\ Len(buffer) > 0
    BY <1>1, <2>1 DEF Elige
  <2> QED
    BY <1>1, <1>4, <2>1, <2>2, <2>3 DEF Alcance
<1>9. CASE BuscarCliente(h) \/ Asociar(h)
  <2>1. /\ pc[h] \in {"direccion", "agregar", "asociar"} /\ indice'[h] = indice[h]
        /\ pc'[h] \in {"sumar", "agregar", "asociar"}
    BY <1>9, IrLema DEF BuscarCliente, Asociar
  <2>2. indice'[h] = 0 /\ Len(buffer) > 0 /\ (tam > 0 \/ h \in tocados)
    BY <2>1 DEF Alcance, Elige
  <2>3. EnBuffer(indice'[h])
    BY <1>1, <2>2
  <2> QED
    BY <1>1, <1>3, <1>4, <2>1, <2>2, <2>3 DEF Alcance, Elige
<1>10. CASE PesosElegir(h)
  <2>1. pc[h] = "girar" /\ pc'[h] = "sumar" /\ indice'[h] = indice[h]
    BY <1>10, IrLema DEF PesosElegir
  <2>2. Len(buffer) > 0 /\ EnBuffer(indice'[h])
    BY <2>1 DEF Alcance
  <2> QED
    BY <1>1, <1>2, <1>3, <1>4, <2>1, <2>2 DEF Alcance, Elige
<1>11. CASE Sumar(h) \/ LeerIp(h) \/ Conectar(h) \/ Reenviar(h) \/ ClienteCorta(h)
            \/ Responder(h) \/ Restar(h)
  <2>1. pc[h] \in Eligio /\ pc'[h] \in Eligio /\ indice'[h] = indice[h]
    BY <1>11, IrLema
    DEF Sumar, LeerIp, Conectar, Reenviar, ClienteCorta, Responder, Restar, Eligio, Cuenta
  <2>2. Fuera(h)' => Fuera(h)
    BY <1>1, <1>2, <2>1 DEF Fuera, SinServidor, EnBuffer
  <2>3. Len(buffer) > 0
    BY <2>1 DEF Alcance, Eligio, Cuenta
  <2>4. pc'[h] \notin Elige \union {"nuevo", "revisar", "direccion", "agregar", "asociar", "girar"}
    BY <2>1 DEF Elige, Eligio, Cuenta
  <2> QED
    BY <1>1, <1>4, <2>1, <2>2, <2>3, <2>4 DEF Alcance
<1> QED
  BY <1>5, <1>6, <1>7, <1>8, <1>9, <1>10, <1>11 DEF hilo_Cliente, Seleccionar

\* The steps of a request thread keep every chosen index within the storage.
LEMMA AlcanceHilo ==
    ASSUME TypeOK, AlcanceInv, NEW h \in Hilos,
           Aceptar(h) \/ hilo_Cliente(h) \/ ClienteCorta(h)
    PROVE  AlcanceInv'
<1>1. ASSUME NEW g \in Hilos \ {h} PROVE Alcance(g)' /\ (Fuera(g)' <=> Fuera(g))
  BY PasoDeHilo, HiloNoMueve DEF AlcanceInv, Alcance
<1>2. CASE RoundRobin(h)
  <2>1. CursorInv' /\ Alcance(h)' /\ (Fuera(h)' => \A g \in Hilos : ~Fuera(g))
    BY <1>2, AlcanceRoundRobin
  <2>2. \A f, g \in Hilos : Fuera(f)' /\ Fuera(g)' => f = g
    BY <1>1, <2>1 DEF AlcanceInv
  <2> QED
    BY <1>1, <2>1, <2>2 DEF AlcanceInv
<1>3. CASE ~RoundRobin(h)
  <2>1. Alcance(h)' /\ (Fuera(h)' => Fuera(h)) /\ roundRobin_Actual' = roundRobin_Actual
    BY <1>3, AlcancePropio DEF AlcanceInv
  <2>2. \A g \in Hilos : Fuera(g)' => Fuera(g)
    BY <1>1, <2>1
  <2>3. EnBuffer(roundRobin_Actual)' <=> EnBuffer(roundRobin_Actual)
    BY <2>1, PasoDeHilo DEF EnBuffer
  <2>4. CursorInv'
    BY <2>1, <2>2, <2>3 DEF AlcanceInv, CursorInv
  <2>5. \A f, g \in Hilos : Fuera(f)' /\ Fuera(g)' => f = g
    BY <2>2 DEF AlcanceInv
  <2> QED
    BY <1>1, <2>1, <2>4, <2>5 DEF AlcanceInv
<1> QED
  BY <1>2, <1>3

\* What a step of the listener leaves as it is, and how the storage and the set
\* of the requests it catches grow.
LEMMA PasoDelListener ==
    ASSUME RegistroInv, hilo_Escuchador_Servidores
    PROVE  /\ UNCHANGED <<roundRobin_Actual, pc, indice>>
           /\ Len(buffer') >= Len(buffer) /\ tocados \subseteq tocados'
           /\ \A h \in Hilos : pc[h] \in Elige /\ tam > 0 => tam' > 0 \/ h \in tocados'
           /\ Insertar \/ Borrar \/ UNCHANGED <<buffer, tam, tocados, vuelta, proceso>>
<1>1. /\ Len(buffer) \in Nat /\ buffer \in Seq(ServidorRegistrado) /\ tam \in 0 .. Len(buffer)
  BY LenProperties DEF RegistroInv, TypeOK
<1>2. UNCHANGED <<roundRobin_Actual, pc, indice>>
  BY DEF hilo_Escuchador_Servidores, RecibirDatagram, BuscarAgregar, Insertar,
     AvisarServidores, BuscarEliminar, Borrar, memoria, hilos
<1>3. CASE Insertar
  <2>1. PICK c \in CargasMaximas :
           buffer' = PushBack([comparador |-> datagrama.id, carga_actual |-> 0,
                               carga_maxima |-> c])
    BY <1>3 DEF Insertar
  <2>2. Len(buffer') >= Len(buffer)
    BY <1>1, <2>1, AppendProperties DEF PushBack
  <2> QED
    BY <1>1, <1>2, <1>3, <2>2 DEF Insertar
<1>4. CASE Borrar
  <2>1. Len(buffer') >= Len(buffer)
    BY <1>1, <1>4 DEF Borrar, Erase
  <2>2. tam' = tam - 1 /\ tocados' = tocados \union Alcanzados(posicion)
    BY <1>4 DEF Borrar
  <2>3. \A h \in Hilos : pc[h] \in Elige /\ tam > 0 => tam' > 0 \/ h \in tocados'
    BY <1>1, <2>2 DEF Alcanzados
  <2> QED
    BY <1>2, <1>4, <2>1, <2>2, <2>3
<1>5. CASE ~Insertar /\ ~Borrar
  <2>1. UNCHANGED <<buffer, tam, tocados, vuelta, proceso>>
    BY <1>5 DEF hilo_Escuchador_Servidores, RecibirDatagram, BuscarAgregar,
       AvisarServidores, BuscarEliminar, memoria, historia, registro
  <2> QED
    BY <1>1, <1>2, <2>1
<1> QED
  BY <1>3, <1>4, <1>5

\* The storage never shrinks, so no step takes an index out of it.
LEMMA AlcancePaso == RegistroInv /\ RegistroInv' /\ AlcanceInv /\ [Next]_vars => AlcanceInv'
<1> SUFFICES ASSUME RegistroInv, RegistroInv', AlcanceInv, [Next]_vars PROVE AlcanceInv'
  OBVIOUS
<1>1. ASSUME NEW h \in Hilos, Aceptar(h) \/ hilo_Cliente(h) \/ ClienteCorta(h)
      PROVE  AlcanceInv'
  BY <1>1, AlcanceHilo DEF RegistroInv
<1>2. CASE hilo_Escuchador_Servidores
  BY <1>2, PasoDelListener, AlcanceSiCrece DEF RegistroInv
<1>3. CASE (\E m \in Metodos : SetAlgoritmoBalanceo(m)) \/ UNCHANGED vars
  <2>1. UNCHANGED <<buffer, tam, roundRobin_Actual, pc, indice, tocados>>
    BY <1>3 DEF SetAlgoritmoBalanceo, vars, memoria, historia, registro, hilos
  <2>2. Len(buffer) \in Nat
    BY LenProperties DEF RegistroInv, TypeOK
  <2> QED
    BY <2>1, <2>2, AlcanceSiCrece DEF RegistroInv
<1> QED
  BY <1>1, <1>2, <1>3 DEF Next

\* Nobody has chosen yet, and the cursor is its own first value.
LEMMA AlcanceInicial == Init => AlcanceInv
BY DEF Init, AlcanceInv, CursorInv, Alcance, Fuera, Elige, Eligio, Cuenta

\* However servers come and go, and whatever the cursor holds at first: no
\* request uses an index outside the storage of the vector, but for the -1 that
\* CONEXIONES_ACTIVA gives on a registry emptied since the request saw a server
\* in it, and for the one request that may be given the first value of the cursor.
THEOREM IndiceSiempre == Spec => []IndiceEnBuffer
<1>1. AlcanceInv => IndiceEnBuffer
  BY DEF AlcanceInv, Alcance, IndiceEnBuffer
<1> QED
  BY <1>1, AlcanceInicial, AlcancePaso, RegistroInvSiempre, PTL DEF Spec

-------------------------------------------------------------------------------
(* What damages the process                                                *)

\* A thread that has chosen its slot keeps to it.
LEMMA EleccionFija ==
    ASSUME TypeOK, NEW h \in Hilos, pc[h] \in Eligio,
           Aceptar(h) \/ hilo_Cliente(h) \/ ClienteCorta(h)
    PROVE  indice'[h] = indice[h] /\ pc'[h] \in Eligio
<1> USE DEF TypeOK, Ir, Eligio, Cuenta, memoria
<1>1. CASE Sumar(h) \/ LeerIp(h) \/ Conectar(h) \/ Reenviar(h) \/ Responder(h) \/ Restar(h)
           \/ ClienteCorta(h)
  BY <1>1 DEF Sumar, LeerIp, Conectar, Reenviar, Responder, Restar, ClienteCorta
<1>2. CASE Aceptar(h) \/ Revisar(h) \/ Seleccionar(h)
  BY <1>2 DEF Aceptar, Revisar, Seguir, Seleccionar, RoundRobin, PesosEntrar, PesosAvanzar,
     PesosElegir, BuscarCliente, Asociar, ConexionesActiva
<1> QED
  BY <1>1, <1>2 DEF hilo_Cliente

\* Request h was given the first value of the cursor, or the -1 of an emptied
\* registry.
Culpable(h) ==
    pc[h] \in Eligio /\ (indice[h] \in CursorInicial \ {0} \/ SinServidor(h))

CulpaInv ==
    \/ proceso = "sano"
    \/ \E h \in Hilos : Culpable(h)
    \/ proceso = "caido" /\ \E h \in tocados : pc[h] = "asociar" /\ tam = 0

\* Whoever is to blame stays so.
LEMMA CulpableSigue ==
    ASSUME RegistroInv, [Next]_vars, NEW h \in Hilos, Culpable(h)
    PROVE  Culpable(h)'
<1>1. ASSUME NEW g \in Hilos, Aceptar(g) \/ hilo_Cliente(g) \/ ClienteCorta(g)
      PROVE  Culpable(h)'
  BY <1>1, PasoDeHilo, EleccionFija DEF RegistroInv, Culpable, SinServidor
<1>2. CASE hilo_Escuchador_Servidores
  BY <1>2, PasoDelListener DEF Culpable, SinServidor
<1>3. CASE (\E m \in Metodos : SetAlgoritmoBalanceo(m)) \/ UNCHANGED vars
  BY <1>3 DEF SetAlgoritmoBalanceo, vars, memoria, historia, hilos, Culpable, SinServidor
<1> QED
  BY <1>1, <1>2, <1>3 DEF Next

\* A sound process is damaged by a write outside the vector or by a modulo by
\* zero, and both have their culprit.
LEMMA CulpaPaso == RegistroInv /\ AlcanceInv /\ CulpaInv /\ [Next]_vars => CulpaInv'
<1> SUFFICES ASSUME RegistroInv, AlcanceInv, CulpaInv, [Next]_vars, proceso' # "sano"
             PROVE  CulpaInv'
  BY DEF CulpaInv
<1>1. CASE \E h \in Hilos : Culpable(h)
  <2>1. PICK h \in Hilos : Culpable(h)
    BY <1>1
  <2>2. Culpable(h)'
    BY <2>1, CulpableSigue
  <2> QED
    BY <2>2 DEF CulpaInv
<1>2. CASE UNCHANGED vars
  BY <1>2 DEF vars, memoria, historia, registro, hilos, CulpaInv, Culpable, SinServidor
<1>3. CASE Next /\ ~\E h \in Hilos : Culpable(h)
  <2>1. proceso = "sano"
    BY <1>3 DEF Next, CulpaInv
  <2>2. PICK h \in Hilos : \/ Sumar(h) /\ ~EnBuffer(indice[h])
                           \/ Asociar(h) /\ tam = 0 /\ proceso' = "caido"
    <3>1. proceso' # proceso
      BY <2>1
    <3>2. ~(\E m \in Metodos : SetAlgoritmoBalanceo(m)) /\ ~hilo_Escuchador_Servidores
      BY <2>1, <3>1 DEF SetAlgoritmoBalanceo, hilo_Escuchador_Servidores, RecibirDatagram,
         BuscarAgregar, Insertar, AvisarServidores, BuscarEliminar, Borrar, memoria
    <3>3. PICK h \in Hilos : Aceptar(h) \/ hilo_Cliente(h) \/ ClienteCorta(h)
      BY <1>3, <3>2 DEF Next
    <3>4. Sumar(h) \/ Asociar(h)
      BY <3>1, <3>3 DEF Aceptar, hilo_Cliente, ClienteCorta, Revisar, Seleccionar, RoundRobin,
         PesosEntrar, PesosAvanzar, PesosElegir, BuscarCliente, ConexionesActiva,
         LeerIp, Conectar, Reenviar, Responder, Restar, memoria
    <3> QED
      BY <3>1, <3>4 DEF Sumar, Asociar
  <2>3. CASE Sumar(h) /\ ~EnBuffer(indice[h])
    <3>1. /\ pc[h] = "sumar" /\ pc'[h] = "conectar" /\ indice'[h] = indice[h]
          /\ tocados' = tocados
      BY <2>3, IrLema DEF RegistroInv, Sumar, historia
    <3>2. Fuera(h) \/ SinServidor(h)
      BY <2>3, <3>1 DEF Fuera, Eligio
    <3>3. indice[h] # 0
      <4>1. Len(buffer) \in Nat /\ Len(buffer) > 0
        BY <3>1, LenProperties DEF RegistroInv, TypeOK, AlcanceInv, Alcance
      <4> QED
        BY <2>3, <4>1 DEF EnBuffer
    <3>4. Culpable(h)'
      BY <3>1, <3>2, <3>3 DEF AlcanceInv, Alcance, Culpable, SinServidor, Eligio, Cuenta
    <3> QED
      BY <3>4 DEF CulpaInv
  <2>4. CASE Asociar(h) /\ tam = 0 /\ proceso' = "caido"
    <3>1. pc[h] = "asociar" /\ tocados' = tocados /\ tam' = 0
      BY <2>4, IrLema DEF RegistroInv, Asociar, historia, registro
    <3>2. h \in tocados /\ pc'[h] = "asociar"
      BY <2>1, <2>4, <3>1 DEF AlcanceInv, Alcance, Elige, Asociar
    <3> QED
      BY <2>4, <3>1, <3>2 DEF CulpaInv
  <2> QED
    BY <2>2, <2>3, <2>4
<1> QED
  BY <1>1, <1>2, <1>3

\* However servers come and go, whatever the methods and the first value of the
\* cursor: the balancer writes outside its vector, or divides by the size of an
\* empty one, only for a request that was given the first value of the cursor or
\* that had seen a server when the last one left.
THEOREM ProcesoSanoSiempre == Spec => []ProcesoSano
<1>1. Init => CulpaInv
  BY DEF Init, CulpaInv
<1>2. RegistroInv /\ CulpaInv => ProcesoSano
  <2> SUFFICES ASSUME RegistroInv, CulpaInv, proceso # "sano" PROVE ProcesoSano
    BY DEF ProcesoSano
  <2>1. CASE \E h \in Hilos : Culpable(h)
    <3>1. PICK h \in Hilos : Culpable(h)
      BY <2>1
    <3> QED
      BY <3>1 DEF Culpable, SinServidor, ProcesoSano
  <2>2. CASE \E h \in tocados : pc[h] = "asociar" /\ tam = 0
    BY <2>2 DEF ProcesoSano
  <2> QED
    BY <2>1, <2>2 DEF CulpaInv
<1> QED
  BY <1>1, <1>2, CulpaPaso, AlcanceInicial, AlcancePaso, RegistroInvSiempre, PTL DEF Spec

-------------------------------------------------------------------------------
(* The load of a server                                                    *)

\* The threads that a function on threads sends to i.
De(f, i) == {h \in Hilos : f[h] = i}

\* Where the unit of load that h added is now, and where the one it took was
\* taken, as slots; -1 if there is none or it was overwritten.  They are those of
\* its index unless a change of the registry caught it.
Rastro(h, s, r) ==
    /\ pc[h] \notin Cuenta \union {"servida"} => s = -1 /\ r = -1
    /\ pc[h] \in Cuenta => r = -1
    /\ pc[h] \in Cuenta /\ h \notin tocados => s = indice[h]
    /\ pc[h] = "servida" /\ h \notin tocados => s = r

Cargas(suma, resta) ==
    /\ \A i \in Vivas : Ranura(i).carga_actual = Cardinality(De(suma, i)) - Cardinality(De(resta, i))
    /\ \A h \in Hilos : Rastro(h, suma[h], resta[h])

CargaInv ==
    proceso = "sano" =>
        /\ \A h \in Hilos : pc[h] \in Cuenta => EnBuffer(indice[h])
        /\ \E suma, resta \in [Hilos -> Int] : Cargas(suma, resta)

\* g sends h, which f sends nowhere, to i.
UnoMas(f, g, h, i) ==
    f \in [Hilos -> Int] /\ h \in Hilos /\ f[h] = -1 /\ i \in Nat /\ g = [f EXCEPT ![h] = i]

\* One more thread sent to i.
LEMMA DeMas ==
    ASSUME IsFiniteSet(Hilos), NEW f, NEW g, NEW h, NEW i, UnoMas(f, g, h, i)
    PROVE  /\ \A k : Cardinality(De(f, k)) \in Nat
           /\ \A k \in Nat : Cardinality(De(g, k)) =
                                Cardinality(De(f, k)) + (IF k = i THEN 1 ELSE 0)
<1>1. \A k : IsFiniteSet(De(f, k)) /\ Cardinality(De(f, k)) \in Nat
  BY FS_Subset, FS_CardinalityType DEF De
<1>2. \A k \in Nat : k # i => De(g, k) = De(f, k)
  BY DEF De, UnoMas
<1>3. i \in Nat /\ De(g, i) = De(f, i) \union {h} /\ h \notin De(f, i)
  BY DEF De, UnoMas
<1>4. Cardinality(De(g, i)) = Cardinality(De(f, i)) + 1
  BY <1>1, <1>3, FS_AddElement
<1>5. ASSUME NEW k \in Nat
      PROVE  Cardinality(De(g, k)) = Cardinality(De(f, k)) + (IF k = i THEN 1 ELSE 0)
  <2>1. CASE k = i
    BY <1>4, <2>1
  <2>2. CASE k # i
    <3>1. De(g, k) = De(f, k)
      BY <1>2, <2>2
    <3> QED
      BY <1>1, <2>2, <3>1
  <2> QED
    BY <2>1, <2>2
<1> QED
  BY <1>1, <1>5

\* A finite set in two parts.
LEMMA Parte ==
    ASSUME NEW S, IsFiniteSet(S), NEW T
    PROVE  /\ IsFiniteSet(S \intersect T) /\ IsFiniteSet(S \ T)
           /\ Cardinality(S \intersect T) \in Nat /\ Cardinality(S \ T) \in Nat
           /\ Cardinality(S) = Cardinality(S \intersect T) + Cardinality(S \ T)
<1>1. IsFiniteSet(S \intersect T) /\ IsFiniteSet(S \ T)
  BY FS_Subset
<1>2. Cardinality((S \intersect T) \union (S \ T)) =
         Cardinality(S \intersect T) + Cardinality(S \ T) - Cardinality((S \intersect T) \intersect (S \ T))
  BY <1>1, FS_Union
<1>3. (S \intersect T) \union (S \ T) = S /\ (S \intersect T) \intersect (S \ T) = {}
  OBVIOUS
<1>4. Cardinality({}) = 0
  BY FS_EmptySet
<1>5. Cardinality(S \intersect T) \in Nat /\ Cardinality(S \ T) \in Nat
  BY <1>1, FS_CardinalityType
<1>6. Cardinality(S) = Cardinality(S \intersect T) + Cardinality(S \ T) - 0
  BY <1>2, <1>3, <1>4
<1> QED
  BY <1>1, <1>5, <1>6

\* Two disjoint finite sets.
LEMMA Juntos ==
    ASSUME NEW S, NEW T, IsFiniteSet(S), IsFiniteSet(T), S \intersect T = {}
    PROVE  Cardinality(S \union T) = Cardinality(S) + Cardinality(T)
<1>1. Cardinality(S) \in Nat /\ Cardinality(T) \in Nat
  BY FS_CardinalityType
<1>2. Cardinality(S \union T) = Cardinality(S) + Cardinality(T) - Cardinality(S \intersect T)
  BY FS_Union
<1>3. Cardinality(S \intersect T) = 0
  BY FS_EmptySet
<1> QED
  BY <1>1, <1>2, <1>3

\* Outside the requests that were caught, units added and not taken back are those
\* of the requests that count; each request that was caught makes a difference
\* of one at most.
LEMMA CargaBasta ==
    ASSUME IsFiniteSet(Hilos), TypeOK, CargaInv
    PROVE  CargaCuadra
<1> SUFFICES ASSUME proceso = "sano", NEW i \in Vivas
             PROVE  Ranura(i).carga_actual \in
                       Cardinality({h \in Hilos : pc[h] \in Cuenta /\ indice[h] = i}) - Cardinality(tocados)
                    .. Cardinality({h \in Hilos : pc[h] \in Cuenta /\ indice[h] = i}) + Cardinality(tocados)
  BY DEF CargaCuadra
<1>1. PICK suma \in [Hilos -> Int], resta \in [Hilos -> Int] : Cargas(suma, resta)
  BY DEF CargaInv
<1> DEFINE C == {h \in Hilos : pc[h] \in Cuenta /\ indice[h] = i}
           A == De(suma, i)
           B == De(resta, i)
           T == tocados
<1>2. Ranura(i).carga_actual = Cardinality(A) - Cardinality(B)
  BY <1>1 DEF Cargas
<1>3. i \in Nat /\ T \subseteq Hilos
  BY LenProperties DEF Vivas, TypeOK
<1>4. IsFiniteSet(A) /\ IsFiniteSet(B) /\ IsFiniteSet(C) /\ IsFiniteSet(T)
  BY <1>3, FS_Subset DEF De
<1>5. A \ T = (B \ T) \union (C \ T) /\ (B \ T) \intersect (C \ T) = {}
  <2>1. \A h \in Hilos : Rastro(h, suma[h], resta[h])
    BY <1>1 DEF Cargas
  <2>2. ASSUME NEW h \in Hilos, h \notin T
        PROVE  /\ suma[h] = i <=> resta[h] = i \/ (pc[h] \in Cuenta /\ indice[h] = i)
               /\ ~(resta[h] = i /\ pc[h] \in Cuenta)
    BY <1>3, <2>1, <2>2 DEF Rastro, Cuenta
  <2> QED
    BY <2>2 DEF De
<1>6. (B \intersect T) \intersect (C \intersect T) = {}
  BY <1>1, <1>3 DEF Cargas, Rastro, De
<1> HIDE DEF A, B, C, T
<1>7. /\ Cardinality(A) = Cardinality(A \intersect T) + Cardinality(A \ T)
      /\ Cardinality(B) = Cardinality(B \intersect T) + Cardinality(B \ T)
      /\ Cardinality(C) = Cardinality(C \intersect T) + Cardinality(C \ T)
      /\ IsFiniteSet(B \ T) /\ IsFiniteSet(C \ T)
      /\ IsFiniteSet(B \intersect T) /\ IsFiniteSet(C \intersect T) /\ IsFiniteSet(A \intersect T)
  BY <1>4, Parte
<1>8. Cardinality(A \ T) = Cardinality(B \ T) + Cardinality(C \ T)
  BY <1>5, <1>7, Juntos
<1>9. Cardinality(A \intersect T) <= Cardinality(T)
  BY <1>4, FS_Subset
<1>10. Cardinality(B \intersect T) + Cardinality(C \intersect T) <= Cardinality(T)
  <2>1. Cardinality((B \intersect T) \union (C \intersect T)) =
           Cardinality(B \intersect T) + Cardinality(C \intersect T)
    BY <1>6, <1>7, Juntos
  <2>2. Cardinality((B \intersect T) \union (C \intersect T)) <= Cardinality(T)
    <3>1. (B \intersect T) \union (C \intersect T) \subseteq T
      OBVIOUS
    <3> QED
      BY <1>4, <3>1, FS_Subset
  <2> QED
    BY <2>1, <2>2
<1>11. /\ Cardinality(A \intersect T) \in Nat /\ Cardinality(B \intersect T) \in Nat
       /\ Cardinality(C \intersect T) \in Nat /\ Cardinality(T) \in Nat
       /\ Cardinality(B \ T) \in Nat /\ Cardinality(C \ T) \in Nat
  BY <1>4, <1>7, FS_CardinalityType
<1>12. Cardinality(A) - Cardinality(B) \in
          Cardinality(C) - Cardinality(T) .. Cardinality(C) + Cardinality(T)
  BY <1>7, <1>8, <1>9, <1>10, <1>11
<1> QED
  BY <1>2, <1>12 DEF C, T

\* carga_actual++ and carga_actual-- change the load of one slot.
LEMMA MasCargaValor ==
    ASSUME buffer \in Seq(ServidorRegistrado), NEW i \in Int, EnBuffer(i), NEW n \in Int
    PROVE  /\ MasCarga(i, n)[i + 1].carga_actual = buffer[i + 1].carga_actual + n
           /\ \A k \in 1 .. Len(buffer) : k # i + 1 => MasCarga(i, n)[k] = buffer[k]
<1> DEFINE e == [buffer[i + 1] EXCEPT !.carga_actual = @ + n]
<1>1. i + 1 \in 1 .. Len(buffer)
  BY LenProperties DEF EnBuffer
<1>2. buffer[i + 1] \in ServidorRegistrado
  BY <1>1, ElementOfSeq
<1>3. e \in ServidorRegistrado /\ e.carga_actual = buffer[i + 1].carga_actual + n
  BY <1>2, RegistroConCarga DEF ServidorRegistrado
<1>4. MasCarga(i, n) = [buffer EXCEPT ![i + 1] = e]
  BY DEF MasCarga
<1> HIDE DEF e
<1> QED
  BY <1>1, <1>3, <1>4, ExceptSeq

\* What happens to the loads when that is done to the slot of a request.
LEMMA CargaMueve ==
    ASSUME TypeOK, NEW i \in Int, EnBuffer(i), NEW n \in Int, buffer' = MasCarga(i, n), tam' = tam
    PROVE  /\ Vivas' = Vivas /\ i \in Nat
           /\ \A k \in Vivas : k \in Nat /\ Ranura(k)'.carga_actual =
                                  Ranura(k).carga_actual + (IF k = i THEN n ELSE 0)
<1>1. buffer \in Seq(ServidorRegistrado) /\ Len(buffer) \in Nat /\ tam \in 0 .. Len(buffer)
  BY LenProperties DEF TypeOK
<1>2. /\ buffer'[i + 1].carga_actual = buffer[i + 1].carga_actual + n
      /\ \A k \in 1 .. Len(buffer) : k # i + 1 => buffer'[k] = buffer[k]
  BY <1>1, MasCargaValor
<1>3. Vivas' = Vivas /\ i \in Nat
  BY DEF Vivas, EnBuffer
<1>4. ASSUME NEW k \in Vivas
      PROVE  k \in Nat /\ Ranura(k)'.carga_actual = Ranura(k).carga_actual + (IF k = i THEN n ELSE 0)
  <2>1. k \in Nat /\ k + 1 \in 1 .. Len(buffer)
    BY <1>1 DEF Vivas
  <2>2. buffer[k + 1] \in ServidorRegistrado
    BY <1>1, <2>1, ElementOfSeq
  <2>3. Ranura(k).carga_actual \in Int
    BY <2>2 DEF Ranura, ServidorRegistrado
  <2>4. CASE k = i
    BY <1>2, <2>1, <2>4 DEF Ranura
  <2>5. CASE k # i
    <3>1. Ranura(k)' = Ranura(k)
      BY <1>2, <2>1, <2>5 DEF Ranura
    <3> QED
      BY <2>1, <2>3, <2>5, <3>1
  <2> QED
    BY <2>4, <2>5
<1> QED
  BY <1>3, <1>4

\* The steps of a request thread keep it: Sumar notes where the unit goes, Restar
\* where it is taken from, the others do neither.
LEMMA CargaDeHilo ==
    ASSUME TypeOK, IsFiniteSet(Hilos), CargaInv, NEW h \in Hilos,
           Aceptar(h) \/ hilo_Cliente(h) \/ ClienteCorta(h)
    PROVE  CargaInv'
<1> SUFFICES ASSUME proceso' = "sano" PROVE CargaInv'
  BY DEF CargaInv
<1>1. /\ tam' = tam /\ tocados' = tocados
      /\ \A i \in Int : EnBuffer(i)' <=> EnBuffer(i)
      /\ \A g \in Hilos \ {h} : /\ pc'[g] = pc[g] /\ indice'[g] = indice[g]
                                /\ EnBuffer(indice[g])' <=> EnBuffer(indice[g])
      /\ indice \in [Hilos -> Int] /\ Len(buffer) \in Nat /\ Len(buffer') = Len(buffer)
  BY HiloNoMueve, PasoDeHilo, LenProperties DEF TypeOK
<1>2. proceso = "sano"
  <2>1. CASE Sumar(h) \/ Asociar(h)
    BY <2>1 DEF Sumar, Asociar
  <2>2. CASE ~Sumar(h) /\ ~Asociar(h)
    BY <2>2 DEF Aceptar, hilo_Cliente, ClienteCorta, Revisar, Seguir, Seleccionar, RoundRobin,
       PesosEntrar, PesosAvanzar, PesosElegir, BuscarCliente, ConexionesActiva,
       LeerIp, Conectar, Reenviar, Responder, Restar, memoria
  <2> QED
    BY <2>1, <2>2
<1>3. PICK suma \in [Hilos -> Int], resta \in [Hilos -> Int] : Cargas(suma, resta)
  BY <1>2 DEF CargaInv
<1>4. \A g \in Hilos : Rastro(g, suma[g], resta[g])
  BY <1>3 DEF Cargas
<1>5. \A g \in Hilos \ {h} : Rastro(g, suma[g], resta[g])'
  BY <1>1, <1>4 DEF Rastro
<1>6. \A g \in Hilos \ {h} : pc'[g] \in Cuenta => EnBuffer(indice[g])'
  BY <1>1, <1>2 DEF CargaInv
<1>7. \A i \in Vivas : Ranura(i).carga_actual = Cardinality(De(suma, i)) - Cardinality(De(resta, i))
  BY <1>3 DEF Cargas
<1>8. CASE Sumar(h)
  <2>i. PICK i \in Int : i = indice[h]
    BY <1>1
  <2>s. PICK suma2 \in [Hilos -> Int] : suma2 = [suma EXCEPT ![h] = i]
    OBVIOUS
  <2>1. EnBuffer(i) /\ buffer' = MasCarga(i, 1) /\ indice' = indice /\ 1 \in Int
    BY <1>1, <1>8, <2>i DEF Sumar, EnBuffer
  <2>2. pc[h] = "sumar" /\ pc'[h] = "conectar"
    BY <1>8, IrLema DEF Sumar
  <2>3. suma[h] = -1 /\ resta[h] = -1
    BY <1>4, <2>2 DEF Rastro, Cuenta
  <2>4. /\ Vivas' = Vivas /\ i \in Nat
        /\ \A k \in Vivas : k \in Nat /\ Ranura(k)'.carga_actual =
                               Ranura(k).carga_actual + (IF k = i THEN 1 ELSE 0)
    BY <1>1, <2>1, CargaMueve
  <2>5. /\ \A k : Cardinality(De(suma, k)) \in Nat /\ Cardinality(De(resta, k)) \in Nat
        /\ \A k \in Nat : Cardinality(De(suma2, k)) =
                             Cardinality(De(suma, k)) + (IF k = i THEN 1 ELSE 0)
    <3>1. UnoMas(suma, suma2, h, i)
      BY <2>s, <2>3, <2>4 DEF UnoMas
    <3>2. \A k : Cardinality(De(resta, k)) \in Nat
      BY FS_Subset, FS_CardinalityType DEF De
    <3> QED
      BY <3>1, <3>2, DeMas
  <2>6. suma2[h] = i /\ \A g \in Hilos \ {h} : suma2[g] = suma[g]
    BY <2>s
  <2>7. \A k \in Vivas' : Ranura(k)'.carga_actual =
                             Cardinality(De(suma2, k)) - Cardinality(De(resta, k))
    BY <1>7, <2>4, <2>5
  <2>8. Rastro(h, i, -1)'
    BY <2>i, <2>1, <2>2 DEF Rastro, Cuenta
  <2>9. \A g \in Hilos : Rastro(g, suma2[g], resta[g])'
    BY <1>5, <2>3, <2>6, <2>8 DEF Rastro
  <2>10. EnBuffer(indice[h])'
    BY <1>1, <2>i, <2>1 DEF EnBuffer
  <2>11. Cargas(suma2, resta)'
    BY <2>7, <2>9 DEF Cargas, Rastro, De
  <2> QED
    BY <1>6, <2>6, <2>10, <2>11 DEF CargaInv
<1>9. CASE Restar(h)
  <2>i. PICK i \in Int : i = indice[h]
    BY <1>1
  <2>s. PICK resta2 \in [Hilos -> Int] : resta2 = [resta EXCEPT ![h] = i]
    OBVIOUS
  <2>1. buffer' = MasCarga(i, -1) /\ indice' = indice /\ -1 \in Int
    BY <1>9, <2>i DEF Restar
  <2>2. pc[h] = "restar" /\ pc'[h] = "servida"
    BY <1>9, IrLema DEF Restar
  <2>a. EnBuffer(i)
    BY <1>2, <2>i, <2>2 DEF CargaInv, Cuenta
  <2>3. resta[h] = -1 /\ (h \notin tocados => suma[h] = i)
    BY <1>4, <2>i, <2>2 DEF Rastro, Cuenta
  <2>4. /\ Vivas' = Vivas /\ i \in Nat
        /\ \A k \in Vivas : k \in Nat /\ Ranura(k)'.carga_actual =
                               Ranura(k).carga_actual + (IF k = i THEN -1 ELSE 0)
    BY <1>1, <2>1, <2>a, CargaMueve
  <2>5. /\ \A k : Cardinality(De(resta, k)) \in Nat
        /\ \A k \in Nat : Cardinality(De(resta2, k)) =
                             Cardinality(De(resta, k)) + (IF k = i THEN 1 ELSE 0)
    <3>1. UnoMas(resta, resta2, h, i)
      BY <2>s, <2>3, <2>4 DEF UnoMas
    <3> QED
      BY <3>1, DeMas
  <2>b. \A k : Cardinality(De(suma, k)) \in Nat
    BY FS_Subset, FS_CardinalityType DEF De
  <2>6. resta2[h] = i /\ \A g \in Hilos \ {h} : resta2[g] = resta[g]
    BY <2>s
  <2>7. \A k \in Vivas' : Ranura(k)'.carga_actual =
                             Cardinality(De(suma, k)) - Cardinality(De(resta2, k))
    BY <1>7, <2>4, <2>5, <2>b
  <2>8. Rastro(h, suma[h], i)'
    BY <1>1, <2>2, <2>3 DEF Rastro, Cuenta
  <2>9. \A g \in Hilos : Rastro(g, suma[g], resta2[g])'
    BY <1>5, <2>6, <2>8 DEF Rastro
  <2>10. pc'[h] \notin Cuenta
    BY <2>2 DEF Cuenta
  <2>11. Cargas(suma, resta2)'
    BY <2>7, <2>9 DEF Cargas, Rastro, De
  <2> QED
    BY <1>6, <2>6, <2>10, <2>11 DEF CargaInv
<1>10. CASE ~Sumar(h) /\ ~Restar(h)
  <2>1. UNCHANGED buffer
    BY <1>10 DEF Aceptar, hilo_Cliente, ClienteCorta, Revisar, Seguir, Seleccionar, RoundRobin,
       PesosEntrar, PesosAvanzar, PesosElegir, BuscarCliente, Asociar, ConexionesActiva,
       LeerIp, Conectar, Reenviar, Responder, memoria, registro
  <2>2. \/ pc[h] \in Cuenta /\ pc'[h] \in Cuenta /\ indice'[h] = indice[h]
           /\ pc[h] # "servida" /\ pc'[h] # "servida"
        \/ pc[h] \notin Cuenta \union {"servida"} /\ pc'[h] \notin Cuenta \union {"servida"}
    <3>1. CASE LeerIp(h) \/ Conectar(h) \/ Reenviar(h) \/ Responder(h) \/ ClienteCorta(h)
      BY <3>1, IrLema DEF LeerIp, Conectar, Reenviar, Responder, ClienteCorta, Cuenta
    <3>2. CASE Aceptar(h) \/ Revisar(h) \/ Seleccionar(h)
      <4>1. pc[h] \in {"nuevo", "revisar"} \union Elige
        BY <3>2, IrLema DEF Aceptar, Revisar, Seguir, Seleccionar, RoundRobin, PesosEntrar,
           PesosAvanzar, PesosElegir, BuscarCliente, Asociar, ConexionesActiva, Elige
      <4>2. pc'[h] \in {"revisar", "rechazada", "sumar"} \union Elige
        BY <3>2, IrLema DEF Aceptar, Revisar, Seguir, Seleccionar, RoundRobin, PesosEntrar,
           PesosAvanzar, PesosElegir, BuscarCliente, Asociar, ConexionesActiva, Elige
      <4> QED
        BY <4>1, <4>2 DEF Elige, Cuenta
    <3> QED
      BY <1>10, <3>1, <3>2 DEF hilo_Cliente
  <2>3. Vivas' = Vivas /\ \A i : Ranura(i)' = Ranura(i)
    BY <1>1, <2>1 DEF Vivas, Ranura
  <2>4. Rastro(h, suma[h], resta[h])'
    <3>1. Rastro(h, suma[h], resta[h])
      BY <1>4
    <3> QED
      BY <1>1, <2>2, <3>1 DEF Rastro
  <2>5. pc'[h] \in Cuenta => EnBuffer(indice[h])'
    BY <1>1, <1>2, <2>1, <2>2 DEF CargaInv, EnBuffer
  <2>6. Cargas(suma, resta)'
    BY <1>5, <1>7, <2>3, <2>4 DEF Cargas, Rastro, De
  <2> QED
    BY <1>6, <2>5, <2>6 DEF CargaInv
<1> QED
  BY <1>8, <1>9, <1>10

\* A change of the registry that moves the slots as m says moves the traces of
\* the requests with them, and catches those whose slot it changes.
LEMMA RastroMueve ==
    ASSUME NEW m \in [Int -> Int], m[-1] = -1,
           UNCHANGED <<pc, indice>>, tocados \subseteq tocados',
           \A h \in Hilos : pc[h] \in Cuenta /\ h \notin tocados' => m[indice[h]] = indice[h],
           NEW suma \in [Hilos -> Int], NEW resta \in [Hilos -> Int],
           \A h \in Hilos : Rastro(h, suma[h], resta[h])
    PROVE  \A h \in Hilos : Rastro(h, m[suma[h]], m[resta[h]])'
<1> SUFFICES ASSUME NEW h \in Hilos PROVE Rastro(h, m[suma[h]], m[resta[h]])'
  OBVIOUS
<1>1. Rastro(h, suma[h], resta[h])
  OBVIOUS
<1> QED
  BY <1>1 DEF Rastro, Cuenta

\* The requests of slot k of a registry that moved are those of the slot it was.
LEMMA CargasMueven ==
    ASSUME NEW m \in [Int -> Int], m[-1] = -1,
           UNCHANGED <<pc, indice>>, tocados \subseteq tocados', Len(buffer') >= Len(buffer),
           TypeOK, TypeOK', CargaInv, proceso = "sano",
           \A h \in Hilos : pc[h] \in Cuenta /\ h \notin tocados' => m[indice[h]] = indice[h],
           \A k \in Vivas' :
              \/ /\ Ranura(k)'.carga_actual = 0
                 /\ \A j \in Int : m[j] # k
              \/ \E i \in Vivas : /\ Ranura(k)'.carga_actual = Ranura(i).carga_actual
                                  /\ \A j \in Int : m[j] = k <=> j = i
    PROVE  CargaInv'
<1>1. PICK suma \in [Hilos -> Int], resta \in [Hilos -> Int] : Cargas(suma, resta)
  BY DEF CargaInv
<1>2. PICK suma2 \in [Hilos -> Int] : suma2 = [h \in Hilos |-> m[suma[h]]]
  OBVIOUS
<1>3. PICK resta2 \in [Hilos -> Int] : resta2 = [h \in Hilos |-> m[resta[h]]]
  OBVIOUS
<1>4. \A h \in Hilos : Rastro(h, suma2[h], resta2[h])'
  <2>1. \A h \in Hilos : Rastro(h, suma[h], resta[h])
    BY <1>1 DEF Cargas
  <2>2. \A h \in Hilos : Rastro(h, m[suma[h]], m[resta[h]])'
    BY <2>1, RastroMueve
  <2> QED
    BY <1>2, <1>3, <2>2 DEF Rastro
<1>5. ASSUME NEW k \in Vivas'
      PROVE  Ranura(k)'.carga_actual = Cardinality(De(suma2, k)) - Cardinality(De(resta2, k))
  <2>1. CASE Ranura(k)'.carga_actual = 0 /\ \A j \in Int : m[j] # k
    <3>1. \A h \in Hilos : suma2[h] # k /\ resta2[h] # k
      BY <1>2, <1>3, <2>1
    <3>2. De(suma2, k) = {} /\ De(resta2, k) = {}
      BY <3>1 DEF De
    <3> QED
      BY <2>1, <3>2, FS_EmptySet
  <2>2. CASE \E i \in Vivas : /\ Ranura(k)'.carga_actual = Ranura(i).carga_actual
                              /\ \A j \in Int : m[j] = k <=> j = i
    <3>1. PICK i \in Vivas : /\ Ranura(k)'.carga_actual = Ranura(i).carga_actual
                             /\ \A j \in Int : m[j] = k <=> j = i
      BY <2>2
    <3>2. De(suma2, k) = De(suma, i) /\ De(resta2, k) = De(resta, i)
      BY <1>2, <1>3, <3>1 DEF De
    <3>3. Ranura(i).carga_actual = Cardinality(De(suma, i)) - Cardinality(De(resta, i))
      BY <1>1 DEF Cargas
    <3> QED
      BY <3>1, <3>2, <3>3
  <2> QED
    BY <2>1, <2>2
<1>6. Cargas(suma2, resta2)'
  BY <1>4, <1>5 DEF Cargas, Rastro, De
<1>7. ASSUME NEW h \in Hilos, pc'[h] \in Cuenta PROVE EnBuffer(indice[h])'
  <2>1. Len(buffer) \in Nat /\ Len(buffer') \in Nat /\ Len(buffer') >= Len(buffer)
    BY LenProperties DEF TypeOK
  <2>2. \A j \in Int : EnBuffer(j) => j >= 0 /\ j < Len(buffer')
    BY <2>1 DEF EnBuffer
  <2>3. indice[h] \in Int /\ indice'[h] = indice[h] /\ EnBuffer(indice[h])
    BY <1>7 DEF TypeOK, CargaInv, Cuenta
  <2> QED
    BY <2>2, <2>3 DEF EnBuffer
<1> QED
  BY <1>6, <1>7 DEF CargaInv, Cuenta

\* It is about nothing else.
LEMMA CargaQuieta ==
    ASSUME CargaInv, UNCHANGED <<buffer, tam, tocados, proceso, pc, indice>>
    PROVE  CargaInv'
<1> SUFFICES ASSUME proceso = "sano" PROVE CargaInv'
  BY DEF CargaInv
<1>1. PICK suma \in [Hilos -> Int], resta \in [Hilos -> Int] : Cargas(suma, resta)
  BY DEF CargaInv
<1>2. Cargas(suma, resta)'
  BY <1>1 DEF Cargas, Rastro, De, Vivas, Ranura
<1> QED
  BY <1>2 DEF CargaInv, EnBuffer

\* The listener keeps it: a new server starts without load, and an erased one
\* takes its load with it.
LEMMA CargaDeListener ==
    ASSUME RegistroInv, RegistroInv', CargaInv, hilo_Escuchador_Servidores
    PROVE  CargaInv'
<1> SUFFICES ASSUME proceso' = "sano" PROVE CargaInv'
  BY DEF CargaInv
<1>1. /\ UNCHANGED <<roundRobin_Actual, pc, indice>>
      /\ Len(buffer') >= Len(buffer) /\ tocados \subseteq tocados'
      /\ Insertar \/ Borrar \/ UNCHANGED <<buffer, tam, tocados, vuelta, proceso>>
  BY PasoDelListener
<1>2. /\ buffer \in Seq(ServidorRegistrado) /\ tam \in 0 .. Len(buffer) /\ Len(buffer) \in Nat
      /\ indice \in [Hilos -> Int] /\ TypeOK /\ TypeOK'
  BY LenProperties DEF RegistroInv, TypeOK
<1>3. proceso = "sano"
  BY <1>1 DEF Insertar, Borrar
<1>4. CASE Insertar
  <2>1. PICK c \in CargasMaximas :
           buffer' = PushBack([comparador |-> datagrama.id, carga_actual |-> 0,
                               carga_maxima |-> c])
    BY <1>4 DEF Insertar
  <2>2. PICK s \in ServidorRegistrado :
           s = [comparador |-> datagrama.id, carga_actual |-> 0, carga_maxima |-> c]
    <3>1. datagrama \in Datagramas
      BY <1>4 DEF RegistroInv, ListenerOK, Insertar
    <3>2. [comparador |-> datagrama.id, carga_actual |-> 0, carga_maxima |-> c] \in ServidorRegistrado
      BY <3>1 DEF Datagramas, ServidorRegistrado
    <3> QED
      BY <3>2
  <2>3. /\ \A k \in 1 .. tam : buffer'[k] = buffer[k]
        /\ buffer'[tam + 1] = s
    BY <1>2, <2>1, <2>2, PushBackLema
  <2>4. PICK f \in [Int -> Int] : f = [j \in Int |-> IF j = tam THEN -1 ELSE j]
    <3>1. [j \in Int |-> IF j = tam THEN -1 ELSE j] \in [Int -> Int]
      OBVIOUS
    <3> QED
      BY <3>1
  <2>5. tam' = tam + 1 /\ tocados' = tocados \union {h \in Hilos : pc[h] \in Cuenta /\ indice[h] = tam}
    BY <1>4 DEF Insertar
  <2>6. \A h \in Hilos : pc[h] \in Cuenta /\ h \notin tocados' => f[indice[h]] = indice[h]
    BY <1>2, <2>4, <2>5
  <2>7. ASSUME NEW k \in Vivas'
        PROVE  \/ /\ Ranura(k)'.carga_actual = 0
                  /\ \A j \in Int : f[j] # k
               \/ \E i \in Vivas : /\ Ranura(k)'.carga_actual = Ranura(i).carga_actual
                                   /\ \A j \in Int : f[j] = k <=> j = i
    <3>1. k \in 0 .. tam
      BY <1>2, <2>5 DEF Vivas
    <3>2. CASE k = tam
      <4>1. Ranura(k)' = s /\ s.carga_actual = 0
        BY <2>2, <2>3, <3>2 DEF Ranura
      <4>2. \A j \in Int : f[j] # k
        BY <1>2, <2>4, <3>2
      <4> QED
        BY <4>1, <4>2
    <3>3. CASE k # tam
      <4>a. k \in 0 .. tam - 1 /\ k + 1 \in 1 .. tam
        BY <1>2, <3>1, <3>3
      <4>1. k \in Vivas /\ Ranura(k)' = Ranura(k)
        BY <2>3, <4>a DEF Ranura, Vivas
      <4>2. \A j \in Int : f[j] = k <=> j = k
        BY <1>2, <2>4, <3>1, <3>3
      <4> QED
        BY <4>1, <4>2
    <3> QED
      BY <3>2, <3>3
  <2>8. f[-1] = -1
    BY <1>2, <2>4
  <2> QED
    BY <1>1, <1>2, <1>3, <2>6, <2>7, <2>8, CargasMueven
<1>5. CASE Borrar
  <2>1. posicion \in Vivas /\ tam' = tam - 1 /\ tocados' = tocados \union Alcanzados(posicion)
    BY <1>5 DEF RegistroInv, ListenerOK, Borrar
  <2>2. PICK p \in Vivas : p = posicion
    BY <2>1
  <2>3. \A k \in 1 .. tam - 1 : buffer'[k] = IF k <= p THEN buffer[k] ELSE buffer[k + 1]
    BY <1>2, <1>5, <2>2, EraseLema DEF Borrar
  <2>4. PICK t \in Nat : t = tam /\ p \in Nat /\ p < t
    BY <1>2 DEF Vivas
  <2>5. PICK f \in [Int -> Int] :
           f = [j \in Int |-> IF j = p THEN -1 ELSE IF p < j /\ j < t THEN j - 1 ELSE j]
    <3>1. [j \in Int |-> IF j = p THEN -1 ELSE IF p < j /\ j < t THEN j - 1 ELSE j] \in [Int -> Int]
      OBVIOUS
    <3> QED
      BY <3>1
  <2>6. \A h \in Hilos : pc[h] \in Cuenta /\ h \notin tocados' => f[indice[h]] = indice[h]
    BY <1>2, <2>1, <2>2, <2>4, <2>5 DEF Alcanzados
  <2>7. ASSUME NEW k \in Vivas'
        PROVE  \/ /\ Ranura(k)'.carga_actual = 0
                  /\ \A j \in Int : f[j] # k
               \/ \E i \in Vivas : /\ Ranura(k)'.carga_actual = Ranura(i).carga_actual
                                   /\ \A j \in Int : f[j] = k <=> j = i
    <3>1. k \in 0 .. t - 2 /\ k + 1 \in 1 .. tam - 1
      BY <2>1, <2>4 DEF Vivas
    <3>2. CASE k < p
      <4>1. k \in Vivas /\ Ranura(k)' = Ranura(k)
        BY <2>3, <2>4, <3>1, <3>2 DEF Ranura, Vivas
      <4>2. \A j \in Int : f[j] = k <=> j = k
        BY <2>4, <2>5, <3>1, <3>2
      <4> QED
        BY <4>1, <4>2
    <3>3. CASE ~(k < p)
      <4>1. k + 1 \in Vivas /\ Ranura(k)' = Ranura(k + 1)
        BY <2>3, <2>4, <3>1, <3>3 DEF Ranura, Vivas
      <4>2. \A j \in Int : f[j] = k <=> j = k + 1
        BY <2>4, <2>5, <3>1, <3>3
      <4> QED
        BY <4>1, <4>2
    <3> QED
      BY <3>2, <3>3
  <2>8. f[-1] = -1
    BY <2>4, <2>5
  <2> QED
    BY <1>1, <1>2, <1>3, <2>6, <2>7, <2>8, CargasMueven
<1>6. CASE UNCHANGED <<buffer, tam, tocados, vuelta, proceso>>
  BY <1>1, <1>6, CargaQuieta
<1> QED
  BY <1>1, <1>4, <1>5, <1>6

\* Every step keeps the traces.
LEMMA CargaPaso ==
    ASSUME IsFiniteSet(Hilos), RegistroInv, RegistroInv', CargaInv, [Next]_vars
    PROVE  CargaInv'
<1>1. ASSUME NEW h \in Hilos, Aceptar(h) \/ hilo_Cliente(h) \/ ClienteCorta(h)
      PROVE  CargaInv'
  BY <1>1, CargaDeHilo DEF RegistroInv
<1>2. CASE hilo_Escuchador_Servidores
  BY <1>2, CargaDeListener
<1>3. CASE (\E m \in Metodos : SetAlgoritmoBalanceo(m)) \/ UNCHANGED vars
  BY <1>3, CargaQuieta DEF SetAlgoritmoBalanceo, vars, memoria, historia, registro, hilos
<1> QED
  BY <1>1, <1>2, <1>3 DEF Next

\* No request has added anything yet.
LEMMA CargaInicial == Init => CargaInv
<1> SUFFICES ASSUME Init PROVE CargaInv
  OBVIOUS
<1>1. PICK f \in [Hilos -> Int] : f = [h \in Hilos |-> -1]
  <2>1. [h \in Hilos |-> -1] \in [Hilos -> Int]
    OBVIOUS
  <2> QED
    BY <2>1
<1>2. Cargas(f, f)
  BY <1>1 DEF Init, Cargas, Rastro, Cuenta, Vivas
<1> QED
  BY <1>2 DEF Init, CargaInv, Cuenta

\* Whatever servers, methods, departures and first value of the cursor: while the
\* process is undamaged the load of a server is the number of the requests that
\* chose it and have not given their unit back, failed connections among them,
\* but for one unit per request that a change of the registry caught.
THEOREM CargaSiempre ==
    ASSUME IsFiniteSet(Hilos)
    PROVE  Spec => []CargaCuadra
<1>1. RegistroInv /\ CargaInv => CargaCuadra
  BY CargaBasta DEF RegistroInv
<1>2. RegistroInv /\ RegistroInv' /\ CargaInv /\ [Next]_vars => CargaInv'
  BY CargaPaso
<1> QED
  BY <1>1, <1>2, CargaInicial, RegistroInvSiempre, PTL DEF Spec

-------------------------------------------------------------------------------
(* The order in which ROUND_ROBIN deals                                    *)

\* Of n slots, v are those from some s on, round to c and without it.
Arco(c, v, n) ==
    /\ c \in 0 .. n - 1
    /\ \E s \in 0 .. n - 1 :
          \/ s <= c /\ \A k \in 0 .. n - 1 : k \in v <=> s <= k /\ k < c
          \/ c <= s /\ \A k \in 0 .. n - 1 : k \in v <=> s <= k \/ k < c

\* The slots dealt in this lap are such an arc, which ends at the cursor.
VueltaInv == tam # 0 /\ vuelta # {} => Arco(roundRobin_Actual, vuelta, tam)

\* The next slot is not of the arc, unless it has gone all the way round.
LEMMA ArcoTurno ==
    ASSUME NEW n \in Nat, NEW c, NEW v, Arco(c, v, n)
    PROVE  c \in 0 .. n - 1 /\ (c \in v => 0 .. n - 1 \subseteq v)
<1>1. PICK s \in 0 .. n - 1 :
         \/ s <= c /\ \A k \in 0 .. n - 1 : k \in v <=> s <= k /\ k < c
         \/ c <= s /\ \A k \in 0 .. n - 1 : k \in v <=> s <= k \/ k < c
  BY DEF Arco
<1>2. c \in 0 .. n - 1
  BY DEF Arco
<1> QED
  BY <1>1, <1>2

\* One turn makes the arc one slot longer, or starts another.
LEMMA ArcoSigue ==
    ASSUME NEW n \in Nat, n # 0, NEW c \in Int, NEW v, v = {} \/ Arco(c, v, n),
           NEW d, d = IF c + 1 >= n \/ c + 1 < 0 THEN 0 ELSE c + 1,
           NEW w, w = {c} \union (IF 0 .. n - 1 \subseteq v THEN {} ELSE v)
    PROVE  Arco(d, w, n)
<1>1. d \in 0 .. n - 1
  OBVIOUS
<1>2. CASE w = {c}
  <2>1. CASE c \in 0 .. n - 1 /\ c + 1 < n
    <3>1. d = c + 1 /\ c <= d /\ \A k \in 0 .. n - 1 : k \in w <=> c <= k /\ k < d
      BY <1>2, <2>1
    <3> QED
      BY <1>1, <2>1, <3>1 DEF Arco
  <2>2. CASE c \in 0 .. n - 1 /\ ~(c + 1 < n)
    <3>1. d = 0 /\ d <= c /\ \A k \in 0 .. n - 1 : k \in w <=> c <= k \/ k < d
      BY <1>2, <2>2
    <3> QED
      BY <1>1, <2>2, <3>1 DEF Arco
  <2>3. CASE c \notin 0 .. n - 1
    <3>1. d = 0 /\ 0 \in 0 .. n - 1 /\ \A k \in 0 .. n - 1 : k \in w <=> 0 <= k /\ k < d
      BY <1>2, <2>3
    <3> QED
      BY <1>1, <3>1 DEF Arco
  <2> QED
    BY <2>1, <2>2, <2>3
<1>3. CASE w # {c}
  <2>1. Arco(c, v, n) /\ w = {c} \union v /\ ~(0 .. n - 1 \subseteq v)
    BY <1>3
  <2>2. PICK s \in 0 .. n - 1 :
           \/ s <= c /\ \A k \in 0 .. n - 1 : k \in v <=> s <= k /\ k < c
           \/ c <= s /\ \A k \in 0 .. n - 1 : k \in v <=> s <= k \/ k < c
    BY <2>1 DEF Arco
  <2>3. c \in 0 .. n - 1
    BY <2>1 DEF Arco
  <2>4. CASE s <= c /\ \A k \in 0 .. n - 1 : k \in v <=> s <= k /\ k < c
    <3>1. CASE c + 1 < n
      <4>1. d = c + 1 /\ s <= d /\ \A k \in 0 .. n - 1 : k \in w <=> s <= k /\ k < d
        BY <2>1, <2>3, <2>4, <3>1
      <4> QED
        BY <1>1, <4>1 DEF Arco
    <3>2. CASE ~(c + 1 < n)
      <4>1. d = 0 /\ d <= s /\ \A k \in 0 .. n - 1 : k \in w <=> s <= k \/ k < d
        BY <2>1, <2>3, <2>4, <3>2
      <4> QED
        BY <1>1, <4>1 DEF Arco
    <3> QED
      BY <3>1, <3>2
  <2>5. CASE c <= s /\ \A k \in 0 .. n - 1 : k \in v <=> s <= k \/ k < c
    <3>1. c # s
      BY <2>1, <2>3, <2>5
    <3>2. d = c + 1 /\ d <= s /\ \A k \in 0 .. n - 1 : k \in w <=> s <= k \/ k < d
      BY <2>1, <2>3, <2>5, <3>1
    <3> QED
      BY <1>1, <3>2 DEF Arco
  <2> QED
    BY <2>2, <2>4, <2>5
<1> QED
  BY <1>2, <1>3

\* The arc of a lap is moved by ROUND_ROBIN alone, and a change of the registry
\* starts a new one.
LEMMA VueltaPaso == RegistroInv /\ VueltaInv /\ [Next]_vars => VueltaInv'
<1> SUFFICES ASSUME RegistroInv, VueltaInv, [Next]_vars PROVE VueltaInv'
  OBVIOUS
<1>1. tam \in Nat /\ roundRobin_Actual \in Int
  BY LenProperties DEF RegistroInv, TypeOK
<1>2. ASSUME UNCHANGED <<tam, roundRobin_Actual, vuelta>> PROVE VueltaInv'
  BY <1>2 DEF VueltaInv
<1>3. ASSUME NEW h \in Hilos, RoundRobin(h) PROVE VueltaInv'
  <2>1. /\ tam' = tam /\ roundRobin_Actual' = SiguienteCursor
        /\ vuelta' = {roundRobin_Actual} \union (IF Vivas \subseteq vuelta THEN {} ELSE vuelta)
    BY <1>3 DEF RoundRobin, registro
  <2>2. CASE tam = 0
    BY <2>1, <2>2 DEF VueltaInv
  <2>3. CASE tam # 0
    <3>1. Arco(roundRobin_Actual', vuelta', tam)
      BY <1>1, <2>1, <2>3, ArcoSigue DEF VueltaInv, SiguienteCursor, Vivas
    <3> QED
      BY <2>1, <3>1 DEF VueltaInv
  <2> QED
    BY <2>2, <2>3
<1>4. ASSUME NEW h \in Hilos, ~RoundRobin(h), Aceptar(h) \/ hilo_Cliente(h) \/ ClienteCorta(h)
      PROVE  VueltaInv'
  <2>1. UNCHANGED <<tam, roundRobin_Actual, vuelta>>
    BY <1>4 DEF Aceptar, hilo_Cliente, ClienteCorta, Revisar, Seguir, Seleccionar,
       PesosEntrar, PesosAvanzar, PesosElegir, BuscarCliente, Asociar, ConexionesActiva,
       Sumar, LeerIp, Conectar, Reenviar, Responder, Restar, memoria, historia, registro
  <2> QED
    BY <1>2, <2>1
<1>5. CASE hilo_Escuchador_Servidores
  <2>1. CASE Insertar \/ Borrar
    BY <2>1 DEF Insertar, Borrar, VueltaInv
  <2>2. CASE ~Insertar /\ ~Borrar
    BY <1>2, <1>5, <2>2, PasoDelListener
  <2> QED
    BY <2>1, <2>2
<1>6. CASE (\E m \in Metodos : SetAlgoritmoBalanceo(m)) \/ UNCHANGED vars
  BY <1>2, <1>6 DEF SetAlgoritmoBalanceo, vars, memoria, historia, registro
<1> QED
  BY <1>3, <1>4, <1>5, <1>6 DEF Next

\* A step that chooses by ROUND_ROBIN chooses what the cursor holds.
LEMMA RepartoPaso ==
    ASSUME RegistroInv, VueltaInv, [Next]_vars, NEW h \in Hilos,
           pc[h] = "rr", pc'[h] = "sumar", vuelta # {}, tam # 0
    PROVE  indice'[h] \in Vivas /\ (indice'[h] \in vuelta => Vivas \subseteq vuelta)
<1>1. PICK g \in Hilos : Aceptar(g) \/ hilo_Cliente(g) \/ ClienteCorta(g)
  <2>1. pc' # pc
    OBVIOUS
  <2> QED
    BY <2>1, PasoDelListener DEF Next, SetAlgoritmoBalanceo, vars, hilos
<1>2. g = h
  BY <1>1, PasoDeHilo DEF RegistroInv
<1>3. RoundRobin(h)
  BY <1>1, <1>2, IrLema DEF RegistroInv, Aceptar, hilo_Cliente, ClienteCorta, Revisar, Seguir,
     Seleccionar, PesosEntrar, PesosAvanzar, PesosElegir, BuscarCliente, Asociar,
     ConexionesActiva, Sumar, LeerIp, Conectar, Reenviar, Responder, Restar
<1>4. indice'[h] = roundRobin_Actual /\ tam \in Nat
  BY <1>3, LenProperties DEF RoundRobin, RegistroInv, TypeOK
<1> QED
  BY <1>4, ArcoTurno DEF VueltaInv, Vivas

\* Whatever servers, threads, methods and first value of the cursor, and however
\* servers come and go: between two changes of the registry ROUND_ROBIN gives
\* every live slot once before it gives any again.
THEOREM RepartoSiempre == Spec => ReparteEnOrden
<1>1. Init => VueltaInv
  BY DEF Init, VueltaInv
<1>2. RegistroInv /\ VueltaInv /\ [Next]_vars =>
         \A h \in Hilos : pc[h] = "rr" /\ pc'[h] = "sumar" /\ vuelta # {} /\ tam # 0 =>
            indice'[h] \in Vivas /\ (indice'[h] \in vuelta => Vivas \subseteq vuelta)
  BY RepartoPaso
<1> QED
  BY <1>1, <1>2, VueltaPaso, RegistroInvSiempre, PTL DEF Spec, ReparteEnOrden
===============================================================================
