--------------------------- MODULE Descriptores_proofs ---------------------------
(***************************************************************************)
(* The descriptors of the balancer, for any number of request threads and  *)
(* any size of the table: the listener of clients survives every double    *)
(* close, and a connection never outlives its request.                     *)
(***************************************************************************)
EXTENDS Descriptores, TLAPS

\* The numbers that sockets other than the listener hold are never the
\* listener's, because a number given out is one that was free.
NumerosAjenos ==
    /\ reservado # idHttp /\ idBroadcast # idHttp
    /\ \A h \in Hilos : idCliente[h] # idHttp /\ idServidor[h] # idHttp

\* While accept waits its number stays reserved, and no other number is.
ReservaInv ==
    /\ pcEC = "aceptar" <=> reservado # -1
    /\ \A d \in Numeros : tabla[d] = Reservado <=> d = reservado

Inv == TypeOK /\ HttpAbierto /\ NumerosAjenos /\ ReservaInv /\ ConexionConDueno

\* What a slot of the table holds tells the kinds of file and the threads apart.
LEMMA Distintos ==
    /\ \A h \in Hilos : /\ Cliente(h) \notin {Libre, Http, Broadcast, Sobrante, Reservado}
                        /\ Servidor(h) \notin {Libre, Http, Broadcast, Sobrante, Reservado}
    /\ \A g, h \in Hilos : /\ Cliente(g) # Servidor(h)
                           /\ Cliente(g) = Cliente(h) => g = h
                           /\ Servidor(g) = Servidor(h) => g = h
    /\ Libre # Http /\ Libre # Reservado /\ Http # Reservado /\ Http # Broadcast
    /\ Http # Sobrante /\ Broadcast # Reservado /\ Sobrante # Reservado
    /\ Libre \in Archivos /\ Http \in Archivos /\ Broadcast \in Archivos
    /\ Sobrante \in Archivos /\ Reservado \in Archivos
    /\ \A h \in Hilos : Cliente(h) \in Archivos /\ Servidor(h) \in Archivos
BY DEF Libre, Http, Broadcast, Sobrante, Reservado, Cliente, Servidor, Archivos

\* The invariant holds initially.
LEMMA Inicial == Init => Inv
<1> SUFFICES ASSUME Init PROVE Inv
  OBVIOUS
<1>1. 1 \in Numeros /\ 2 \in Numeros /\ 0 \in 0 .. MaxAltas
  BY DescriptoresAssumption DEF Numeros
<1>2. \A d \in Numeros : tabla[d] \in {Libre, Http, Broadcast}
  BY DEF Init
<1>3. TypeOK /\ HttpAbierto /\ NumerosAjenos
  BY <1>1, Distintos DEF Init, TypeOK, HttpAbierto, NumerosAjenos, idHttp
<1>4. ReservaInv
  BY <1>1, <1>2, Distintos DEF Init, ReservaInv, Numeros, Libre, Http, Broadcast, Reservado
<1>5. ConexionConDueno
  BY <1>2, Distintos DEF ConexionConDueno
<1> QED
  BY <1>3, <1>4, <1>5 DEF Inv

\* Opening: a number that was free, or none, gets the new file.
LEMMA AbrirLema ==
    ASSUME Inv, NEW n \in Numeros \union {-1}, Menor(n), NEW x \in Archivos, Abre(n, x)
    PROVE  /\ n # idHttp /\ (n # -1 => tabla[n] = Libre)
           /\ tabla' \in [Numeros -> Archivos]
           /\ \A d \in Numeros : tabla'[d] = IF d = n THEN x ELSE tabla[d]
           /\ tabla'[idHttp] = Http
<1>1. idHttp \in Numeros
  BY DescriptoresAssumption DEF idHttp, Numeros
<1>2. n # -1 => tabla[n] = Libre
  BY DEF Menor
<1>3. n # idHttp
  BY <1>2, Distintos DEF Inv, HttpAbierto, idHttp
<1> QED
  BY <1>1, <1>2, <1>3 DEF Inv, TypeOK, HttpAbierto, Abre

\* Closing: the number becomes free, unless accept holds it.
LEMMA CerrarLema ==
    ASSUME Inv, NEW n \in Numeros \union {-1}, n # idHttp, Cerrar(n)
    PROVE  /\ tabla' \in [Numeros -> Archivos]
           /\ \A d \in Numeros :
                 tabla'[d] = IF d = n /\ tabla[d] # Reservado THEN Libre ELSE tabla[d]
           /\ tabla'[idHttp] = Http
           /\ \A d \in Numeros : tabla'[d] = Reservado <=> tabla[d] = Reservado
<1>1. idHttp \in Numeros
  BY DescriptoresAssumption DEF idHttp, Numeros
<1>2. \A d \in Numeros :
         tabla'[d] = IF d = n /\ tabla[d] # Reservado THEN Libre ELSE tabla[d]
  BY DEF Cerrar
<1>3. tabla' \in [Numeros -> Archivos]
  BY Distintos DEF Cerrar, Inv, TypeOK
<1> QED
  BY <1>1, <1>2, <1>3, Distintos DEF Inv, HttpAbierto

\* Where a thread is before and after a step of its program.
LEMMA IrLema ==
    ASSUME TypeOK, NEW h \in Hilos, NEW de, NEW a, Ir(h, de, a)
    PROVE  /\ pcH[h] = de /\ pcH'[h] = a
           /\ \A g \in Hilos : g # h => pcH'[g] = pcH[g]
BY DEF TypeOK, Ir

\* The steps of the listener of clients keep the invariant.
LEMMA PasoEscuchador ==
    ASSUME Inv, hilo_Escuchador_Clientes
    PROVE  Inv'
<1> USE DEF Inv
<1>1. idHttp \in Numeros /\ -1 \notin Numeros
  BY DescriptoresAssumption DEF idHttp, Numeros
<1>2. CASE Construir
  <2>1. PICK n \in Numeros \union {-1} : Menor(n) /\ Abre(n, Sobrante)
    BY <1>2 DEF Construir
  <2>2. /\ n # idHttp /\ (n # -1 => tabla[n] = Libre)
        /\ tabla' \in [Numeros -> Archivos] /\ tabla'[idHttp] = Http
        /\ \A d \in Numeros : tabla'[d] = IF d = n THEN Sobrante ELSE tabla[d]
    BY <2>1, AbrirLema, Distintos
  <2>3. TypeOK' /\ HttpAbierto' /\ NumerosAjenos'
    BY <1>2, <2>2 DEF Construir, TypeOK, HttpAbierto, NumerosAjenos, hilos
  <2>4. ReservaInv'
    BY <1>1, <1>2, <2>2, Distintos DEF Construir, ReservaInv
  <2>5. ConexionConDueno'
    BY <1>2, <2>2, Distintos DEF Construir, ConexionConDueno, hilos
  <2> QED
    BY <2>3, <2>4, <2>5
<1>3. CASE Reservar
  <2>1. PICK n \in Numeros \union {-1} :
           /\ Menor(n) /\ Abre(n, Reservado) /\ reservado' = n
           /\ pcEC' = IF n = -1 THEN "construir" ELSE "aceptar"
    BY <1>3 DEF Reservar
  <2>2. /\ n # idHttp /\ (n # -1 => tabla[n] = Libre)
        /\ tabla' \in [Numeros -> Archivos] /\ tabla'[idHttp] = Http
        /\ \A d \in Numeros : tabla'[d] = IF d = n THEN Reservado ELSE tabla[d]
    BY <2>1, AbrirLema, Distintos
  <2>3. TypeOK' /\ HttpAbierto' /\ NumerosAjenos'
    BY <1>3, <2>1, <2>2 DEF Reservar, TypeOK, HttpAbierto, NumerosAjenos, hilos
  <2>4. ReservaInv'
    BY <1>1, <1>3, <2>1, <2>2 DEF Reservar, ReservaInv
  <2>5. ConexionConDueno'
    BY <1>3, <2>2, Distintos DEF Reservar, ConexionConDueno, hilos
  <2> QED
    BY <2>3, <2>4, <2>5
<1>4. ASSUME NEW h \in Hilos, Aceptar(h) PROVE Inv'
  <2>1. /\ reservado \in Numeros /\ tabla[reservado] = Reservado /\ reservado # idHttp
        /\ pcH[h] = "pendiente" /\ pcH' = [pcH EXCEPT ![h] = "revisar"]
        /\ idCliente' = [idCliente EXCEPT ![h] = reservado]
    BY <1>4 DEF Aceptar, ReservaInv, TypeOK, NumerosAjenos
  <2>2. \A d \in Numeros : tabla'[d] = IF d = reservado THEN Cliente(h) ELSE tabla[d]
    BY <1>4 DEF Aceptar, Abre
  <2>3. tabla' \in [Numeros -> Archivos]
    BY <1>4, Distintos DEF Aceptar, Abre, TypeOK
  <2>4. TypeOK' /\ HttpAbierto' /\ NumerosAjenos'
    BY <1>1, <1>4, <2>1, <2>2, <2>3 DEF Aceptar, TypeOK, HttpAbierto, NumerosAjenos
  <2>5. ReservaInv'
    BY <1>1, <1>4, <2>1, <2>2, Distintos DEF Aceptar, ReservaInv
  <2>6. \A d \in Numeros : tabla[d] # Cliente(h)
    BY <2>1 DEF ConexionConDueno
  <2>7. ConexionConDueno'
    BY <1>4, <2>1, <2>2, <2>6, Distintos DEF Aceptar, ConexionConDueno, TypeOK
  <2> QED
    BY <2>4, <2>5, <2>7
<1> QED
  BY <1>2, <1>3, <1>4 DEF hilo_Escuchador_Clientes

\* A thread that closes one of its numbers disowns what it closes.
LEMMA PasoCierre ==
    ASSUME Inv, NEW h \in Hilos,
           \/ Rechazar(h) \/ CerrarCliente(h) \/ CerrarServidor(h)
           \/ BorrarCliente(h) \/ BorrarServidor(h)
    PROVE  Inv'
<1> USE DEF Inv
<1>1. idHttp \in Numeros /\ -1 \notin Numeros
  BY DescriptoresAssumption DEF idHttp, Numeros
<1>2. /\ idCliente[h] \in Numeros \union {-1} /\ idCliente[h] # idHttp
      /\ idServidor[h] \in Numeros \union {-1} /\ idServidor[h] # idHttp
  BY DEF TypeOK, NumerosAjenos
<1>3. PICK n \in {idCliente[h], idServidor[h]} : Cerrar(n)
  BY DEF Rechazar, CerrarCliente, CerrarServidor, BorrarCliente, BorrarServidor
<1>4. /\ tabla' \in [Numeros -> Archivos] /\ tabla'[idHttp] = Http
      /\ \A d \in Numeros :
            tabla'[d] = IF d = n /\ tabla[d] # Reservado THEN Libre ELSE tabla[d]
      /\ \A d \in Numeros : tabla'[d] = Reservado <=> tabla[d] = Reservado
  BY <1>2, <1>3, CerrarLema
<1>5. UNCHANGED <<reservado, idBroadcast, pcEC, pcES, altas>>
  BY DEF Rechazar, CerrarCliente, CerrarServidor, BorrarCliente, BorrarServidor
<1>6. \A g \in Hilos : g # h => /\ pcH'[g] = pcH[g] /\ idCliente'[g] = idCliente[g]
                                /\ idServidor'[g] = idServidor[g]
  BY IrLema DEF Rechazar, CerrarCliente, CerrarServidor, BorrarCliente, BorrarServidor, TypeOK
<1>7. /\ idCliente'[h] \in {idCliente[h], -1} /\ idServidor'[h] \in {idServidor[h], -1}
      /\ idCliente' \in [Hilos -> Numeros \union {-1}]
      /\ idServidor' \in [Hilos -> Numeros \union {-1}]
  BY DEF Rechazar, CerrarCliente, CerrarServidor, BorrarCliente, BorrarServidor, TypeOK
<1>8. TypeOK' /\ HttpAbierto' /\ NumerosAjenos'
  <2>1. TypeOK'
    BY <1>4, <1>5, <1>7 DEF Rechazar, CerrarCliente, CerrarServidor, BorrarCliente,
       BorrarServidor, TypeOK, Ir
  <2>2. NumerosAjenos'
    BY <1>1, <1>2, <1>5, <1>6, <1>7 DEF NumerosAjenos
  <2> QED
    BY <1>4, <2>1, <2>2 DEF HttpAbierto
<1>9. ReservaInv'
  BY <1>4, <1>5 DEF ReservaInv
<1>10. \A d \in Numeros, g \in Hilos :
          /\ tabla'[d] = Cliente(g)  => tabla[d] = Cliente(g)
          /\ tabla'[d] = Servidor(g) => tabla[d] = Servidor(g)
  BY <1>4, Distintos
<1>11. CASE Rechazar(h)
  <2>1. pcH[h] = "revisar" /\ Cerrar(idCliente[h])
    BY <1>11, IrLema DEF Rechazar
  <2>2. \A d \in Numeros : tabla'[d] # Cliente(h) /\ tabla'[d] # Servidor(h)
    BY <1>2, <1>10, <2>1, CerrarLema, Distintos DEF ConexionConDueno
  <2> QED
    BY <1>6, <1>8, <1>9, <1>10, <2>2 DEF ConexionConDueno
<1>12. CASE CerrarCliente(h)
  <2>1. /\ pcH[h] = "cerrarCliente" /\ pcH'[h] = "cerrarServidor" /\ Cerrar(idCliente[h])
        /\ UNCHANGED <<idCliente, idServidor>>
    BY <1>12, IrLema DEF CerrarCliente
  <2>2. \A d \in Numeros : tabla'[d] # Cliente(h)
    BY <1>2, <1>10, <2>1, CerrarLema, Distintos DEF ConexionConDueno
  <2> QED
    BY <1>6, <1>8, <1>9, <1>10, <2>1, <2>2 DEF ConexionConDueno
<1>13. CASE CerrarServidor(h)
  <2>1. /\ pcH[h] = "cerrarServidor" /\ Cerrar(idServidor[h])
    BY <1>13, IrLema DEF CerrarServidor
  <2>2. \A d \in Numeros : tabla'[d] # Cliente(h) /\ tabla'[d] # Servidor(h)
    BY <1>2, <1>10, <2>1, CerrarLema, Distintos DEF ConexionConDueno
  <2> QED
    BY <1>6, <1>8, <1>9, <1>10, <2>2 DEF ConexionConDueno
<1>14. CASE BorrarCliente(h) \/ BorrarServidor(h)
  <2>1. pcH[h] \in {"borrarCliente", "borrarServidor"}
    BY <1>14, IrLema DEF BorrarCliente, BorrarServidor
  <2>2. \A d \in Numeros : tabla'[d] # Cliente(h) /\ tabla'[d] # Servidor(h)
    BY <1>10, <2>1 DEF ConexionConDueno
  <2> QED
    BY <1>6, <1>8, <1>9, <1>10, <2>2 DEF ConexionConDueno
<1> QED
  BY <1>11, <1>12, <1>13, <1>14

\* The remaining steps of a request keep the invariant.
LEMMA PasoHilo ==
    ASSUME Inv, NEW h \in Hilos, hilo_Cliente(h) \/ Llegar(h)
    PROVE  Inv'
<1> USE DEF Inv
<1>1. idHttp \in Numeros /\ -1 \notin Numeros
  BY DescriptoresAssumption DEF idHttp, Numeros
<1>2. CASE NuevoSocket(h)
  <2>1. PICK n \in Numeros \union {-1} :
           /\ Menor(n) /\ Abre(n, Servidor(h))
           /\ idServidor' = [idServidor EXCEPT ![h] = n]
    BY <1>2 DEF NuevoSocket
  <2>2. /\ n # idHttp /\ (n # -1 => tabla[n] = Libre)
        /\ tabla' \in [Numeros -> Archivos] /\ tabla'[idHttp] = Http
        /\ \A d \in Numeros : tabla'[d] = IF d = n THEN Servidor(h) ELSE tabla[d]
    BY <2>1, AbrirLema, Distintos
  <2>3. pcH[h] = "revisar" /\ pcH'[h] = "conectar"
        /\ \A g \in Hilos : g # h => pcH'[g] = pcH[g]
    BY <1>2, IrLema DEF NuevoSocket
  <2>4. TypeOK' /\ HttpAbierto' /\ NumerosAjenos'
    BY <1>2, <2>1, <2>2 DEF NuevoSocket, Ir, TypeOK, HttpAbierto, NumerosAjenos
  <2>5. ReservaInv'
    BY <1>1, <1>2, <2>2, Distintos DEF NuevoSocket, ReservaInv
  <2>6. \A d \in Numeros : tabla[d] # Servidor(h)
    BY <2>3 DEF ConexionConDueno
  <2>7. ConexionConDueno'
    BY <1>2, <2>1, <2>2, <2>3, <2>6, Distintos DEF NuevoSocket, ConexionConDueno, TypeOK
  <2> QED
    BY <2>4, <2>5, <2>7
<1>3. CASE Conectar(h) \/ Relevar(h) \/ Llegar(h)
  <2>1. UNCHANGED <<tabla, idCliente, idServidor, reservado, idBroadcast, pcEC, pcES, altas>>
    BY <1>3 DEF Conectar, Relevar, Llegar
  <2>2. /\ \A g \in Hilos : g # h => pcH'[g] = pcH[g]
        /\ \/ pcH[h] \in {"conectar", "relevar"} /\ pcH'[h] \in {"relevar", "cerrarCliente"}
           \/ pcH[h] = "nuevo" /\ pcH'[h] = "pendiente"
    BY <1>3, IrLema DEF Conectar, Relevar, Llegar, TypeOK
  <2>3. TypeOK'
    BY <1>3, <2>1 DEF Conectar, Relevar, Llegar, Ir, TypeOK
  <2>4. HttpAbierto' /\ NumerosAjenos' /\ ReservaInv'
    BY <2>1 DEF HttpAbierto, NumerosAjenos, ReservaInv
  <2>5. ConexionConDueno'
    BY <2>1, <2>2 DEF ConexionConDueno
  <2> QED
    BY <2>3, <2>4, <2>5
<1> QED
  BY <1>2, <1>3, PasoCierre DEF hilo_Cliente

\* The replacement of the broadcast socket keeps the invariant.
LEMMA PasoBroadcast ==
    ASSUME Inv, RecibirAnuncio \/ CerrarBroadcast \/ AbrirBroadcast
    PROVE  Inv'
<1> USE DEF Inv
<1>1. idHttp \in Numeros /\ -1 \notin Numeros
  BY DescriptoresAssumption DEF idHttp, Numeros
<1>2. CASE CerrarBroadcast
  <2>1. idBroadcast \in Numeros \union {-1} /\ idBroadcast # idHttp /\ Cerrar(idBroadcast)
    BY <1>2 DEF CerrarBroadcast, NumerosAjenos, TypeOK
  <2>2. /\ tabla' \in [Numeros -> Archivos] /\ tabla'[idHttp] = Http
        /\ \A d \in Numeros :
              tabla'[d] = IF d = idBroadcast /\ tabla[d] # Reservado THEN Libre ELSE tabla[d]
        /\ \A d \in Numeros : tabla'[d] = Reservado <=> tabla[d] = Reservado
    BY <2>1, CerrarLema
  <2>4. TypeOK' /\ HttpAbierto' /\ NumerosAjenos' /\ ReservaInv'
    BY <1>2, <2>2
       DEF CerrarBroadcast, TypeOK, HttpAbierto, NumerosAjenos, ReservaInv, hilos
  <2>5. ConexionConDueno'
    BY <1>2, <2>2, Distintos DEF CerrarBroadcast, ConexionConDueno, hilos
  <2> QED
    BY <2>4, <2>5
<1>3. CASE AbrirBroadcast
  <2>1. PICK n \in Numeros \union {-1} :
           Menor(n) /\ idBroadcast' = n /\ Abre(n, Broadcast)
    BY <1>3 DEF AbrirBroadcast
  <2>2. /\ n # idHttp /\ (n # -1 => tabla[n] = Libre)
        /\ tabla' \in [Numeros -> Archivos] /\ tabla'[idHttp] = Http
        /\ \A d \in Numeros : tabla'[d] = IF d = n THEN Broadcast ELSE tabla[d]
    BY <2>1, AbrirLema, Distintos
  <2>3. TypeOK' /\ HttpAbierto' /\ NumerosAjenos'
    BY <1>3, <2>1, <2>2 DEF AbrirBroadcast, TypeOK, HttpAbierto, NumerosAjenos, hilos
  <2>4. ReservaInv'
    BY <1>1, <1>3, <2>2, Distintos DEF AbrirBroadcast, ReservaInv
  <2>5. ConexionConDueno'
    BY <1>3, <2>2, Distintos DEF AbrirBroadcast, ConexionConDueno, hilos
  <2> QED
    BY <2>3, <2>4, <2>5
<1>4. CASE RecibirAnuncio
  <2>1. altas \in Nat /\ altas' \in 0 .. MaxAltas
    BY <1>4, DescriptoresAssumption DEF RecibirAnuncio, TypeOK
  <2> QED
    BY <1>4, <2>1 DEF RecibirAnuncio, TypeOK, HttpAbierto, NumerosAjenos, ReservaInv,
       ConexionConDueno, hilos
<1> QED
  BY <1>2, <1>3, <1>4

\* The invariant is inductive.
LEMMA Paso == Inv /\ [Next]_vars => Inv'
<1> SUFFICES ASSUME Inv, [Next]_vars PROVE Inv'
  OBVIOUS
<1>1. CASE UNCHANGED vars
  BY <1>1 DEF vars, hilos, Inv, TypeOK, HttpAbierto, NumerosAjenos, ReservaInv, ConexionConDueno
<1> QED
  BY <1>1, PasoEscuchador, PasoHilo, PasoBroadcast DEF Next

\* Every state of the table and of the numbers is well typed.
THEOREM TypeOKDescriptores == Spec => []TypeOK
BY Inicial, Paso, PTL DEF Spec, Inv

\* However many requests close their sockets twice, and at whatever moment,
\* the socket that listens for clients stays open under its number.
THEOREM HttpSiempreAbierto == Spec => []HttpAbierto
BY Inicial, Paso, PTL DEF Spec, Inv

\* No connection stays open once its request has closed it, even when the
\* number was closed by another thread and given to a third.
THEOREM ConexionSiempreConDueno == Spec => []ConexionConDueno
BY Inicial, Paso, PTL DEF Spec, Inv
===============================================================================
