---------------------------- MODULE PeticionHTTP_proofs ----------------------------
(*****************************************************************************)
(* What -download leaves, for files and buffers of any size and however the   *)
(* answer is cut: the pieces on their way are, at every moment, a run of        *)
(* consecutive pieces of the answer, that starts where the client is.          *)
(*****************************************************************************)
EXTENDS PeticionHTTP, SequenceTheorems, TLAPS

Bien == respuesta_estadoCodigo = 200

\* The answer as the pieces 0, 1, 2...: its header, and its body.
Pieza(i) == IF i = 0 THEN recuperarHeader ELSE IF Bien THEN i ELSE "pagina"
Piezas == {Pieza(i) : i \in Nat}
Tramo(p, n) == [i \in 1 .. n |-> Pieza(p + i - 1)]

\* The lengths of what is in the three places that follow one another.
EnCamino(r, a, b, c) ==
    /\ recibido = Tramo(r, a) /\ aCliente = Tramo(r + a, b) /\ deServidor = Tramo(r + a + b, c)

\* How many pieces have come out of the server, t, while somebody reads them.
Total(t) ==
    /\ hilo # "fin" /\ servidor \in {"espera", "lee", "responde"} => t = 0
    /\ hilo # "fin" /\ servidor = "cuerpo" => IF Bien THEN t = 1 + posicionBuffer ELSE t >= 1
    /\ Bien => t <= 1 + tamanoArchivo
    /\ Bien /\ servidor = "fin" /\ caidos = {} => t = 1 + tamanoArchivo

\* The client has got the pieces before r.
Flujo(r) == \E a, b, c \in Nat : a <= BUFFER_SIZE /\ EnCamino(r, a, b, c) /\ Total(r + a + b + c)

\* The file as DescargaFiel has it.
Parcial(k, j) ==
    [i \in 1 .. sizePostSplit + j - k |->
        IF i <= k THEN i ELSE IF i <= sizePostSplit THEN Basura ELSE i - sizePostSplit + k]

TiposH ==
    /\ opcion \in Opciones /\ recurso \in Recursos
    /\ cliente \in {"inicio", "primera", "resto", "fin"} /\ descargable \in BOOLEAN
    /\ hilo \in {"espera", "pedido", "respuesta", "fin"}
    /\ servidor \in {"espera", "lee", "responde", "cuerpo", "fin"}
    /\ posicionBuffer \in Nat /\ bytesFaltantes \in Int

\* What the server has left by its count, and what it has left.
CuentaInv ==
    /\ servidor \in {"espera", "lee", "responde"} => posicionBuffer = 0
    /\ servidor = "cuerpo" /\ Bien =>
        /\ posicionBuffer <= tamanoArchivo
        /\ posicionBuffer + bytesFaltantes = tamanoArchivo
             \/ (posicionBuffer = tamanoArchivo /\ bytesFaltantes <= 0)

\* If nobody went down, the thread ends after the server has.
OrdenInv ==
    /\ cliente = "inicio" => hilo = "espera" /\ servidor = "espera"
    /\ caidos = {} /\ hilo = "fin" => servidor = "fin" /\ deServidor = <<>>

\* The file before the first read has returned, while it is written and at the end.
NoDescargado == ~descargable => descarga \in {<<>>, Vieja}
Antes == cliente \in {"inicio", "primera"} => Flujo(0) /\ ~descargable
Durante ==
    cliente = "resto" /\ descargable =>
        /\ Bien
        /\ \E k \in 0 .. sizePostSplit, j \in Nat :
             /\ k <= j /\ (k < sizePostSplit => corta)
             /\ descarga = Parcial(k, j) /\ posBuffer = sizePostSplit + j - k
             /\ Flujo(j + 1)
Despues ==
    cliente = "fin" /\ descargable =>
        \E k \in 0 .. sizePostSplit, j \in 0 .. tamanoArchivo :
             /\ k <= j /\ (k < sizePostSplit => corta)
             /\ descarga = Parcial(k, j)
             /\ j < tamanoArchivo => vencio \/ caidos # {}
DescargaInv == NoDescargado /\ Antes /\ Durante /\ Despues

Inv == TiposH /\ CuentaInv /\ OrdenInv /\ DescargaInv

-----------------------------------------------------------------------------
(* Runs of pieces.                                                           *)

\* s has the n pieces from p on.
Recorre(s, p, n) ==
    /\ s \in Seq(Piezas) /\ Len(s) = n
    /\ \A i \in 1 .. n : s[i] = Pieza(p + i - 1)

\* A run of pieces is a sequence of pieces, of the length it says.
LEMMA TramoTipo ==
    ASSUME NEW p \in Nat, NEW n \in Nat
    PROVE  Recorre(Tramo(p, n), p, n)
<1>1. \A i \in 1 .. n : Pieza(p + i - 1) \in Piezas
  BY DEF Piezas
<1> DEFINE s == Tramo(p, n)
<1>2. s \in [1 .. n -> Piezas] /\ \A i \in 1 .. n : s[i] = Pieza(p + i - 1)
  BY <1>1 DEF Tramo
<1> HIDE DEF s
<1>3. s \in Seq(Piezas)
  BY <1>2, SeqDef
<1>4. Len(s) = n
  BY <1>2, <1>3, LenProperties
<1>5. Recorre(s, p, n)
  BY <1>2, <1>3, <1>4 DEF Recorre
<1> QED
  BY <1>5 DEF s

\* A sequence of the pieces of a run is the run.
LEMMA EsTramo ==
    ASSUME NEW p \in Nat, NEW n \in Nat, NEW s, Recorre(s, p, n)
    PROVE  s = Tramo(p, n)
<1> DEFINE t == Tramo(p, n)
<1>1. Recorre(t, p, n)
  BY TramoTipo
<1> HIDE DEF t
<1>2. s \in Seq(Piezas) /\ t \in Seq(Piezas) /\ Len(s) = Len(t) /\ \A i \in 1 .. Len(s) : s[i] = t[i]
  BY <1>1 DEF Recorre
<1>3. s = t
  BY <1>2, SeqEqual
<1> QED
  BY <1>3 DEF t

\* Only the empty run is empty.
LEMMA Vacio ==
    ASSUME NEW p \in Nat, NEW n \in Nat
    PROVE  Len(Tramo(p, n)) = n /\ (Tramo(p, n) = <<>> <=> n = 0)
BY TramoTipo, EmptySeq DEF Recorre

\* A run is cut in two, and two that follow one another are one.
LEMMA Corte ==
    ASSUME NEW p \in Nat, NEW n \in Nat, NEW k \in 1 .. n
    PROVE  /\ SubSeq(Tramo(p, n), 1, k) = Tramo(p, k)
           /\ Resto(Tramo(p, n), k) = Tramo(p + k, n - k)
<1> DEFINE s == Tramo(p, n)  u == SubSeq(s, 1, k)  v == SubSeq(s, k + 1, n)
<1>1. s \in Seq(Piezas) /\ Len(s) = n /\ \A i \in 1 .. n : s[i] = Pieza(p + i - 1)
  BY TramoTipo DEF Recorre
<1>2. \A i \in 1 .. n : s[i] \in Piezas
  BY <1>1, ElementOfSeq
<1> HIDE DEF s
<1>3. u \in Seq(Piezas) /\ Len(u) = k /\ \A i \in 1 .. k : u[i] = s[i]
  BY <1>2, SubSeqProperties
<1>4. v \in Seq(Piezas) /\ Len(v) = n - k /\ \A i \in 1 .. n - k : v[i] = s[k + i]
  <2>1. \A i \in k + 1 .. n : s[i] \in Piezas
    BY <1>2
  <2> QED
    BY <2>1, SubSeqProperties
<1> HIDE DEF u, v
<1>5. Recorre(u, p, k)
  BY <1>1, <1>3 DEF Recorre
<1>6. Recorre(v, p + k, n - k)
  <2>1. \A i \in 1 .. n - k : v[i] = Pieza(p + (k + i) - 1)
    BY <1>1, <1>4
  <2>2. \A i \in 1 .. n - k : p + (k + i) - 1 = (p + k) + i - 1
    OBVIOUS
  <2>3. \A i \in 1 .. n - k : v[i] = Pieza((p + k) + i - 1)
    BY <2>1, <2>2
  <2> QED
    BY <1>4, <2>3 DEF Recorre
<1>7. u = Tramo(p, k) /\ v = Tramo(p + k, n - k)
  BY <1>5, <1>6, EsTramo
<1> QED
  BY <1>1, <1>7 DEF Resto, s, u, v

\* Two runs that follow one another are one run.
LEMMA Union ==
    ASSUME NEW p \in Nat, NEW n \in Nat, NEW m \in Nat
    PROVE  Tramo(p, n) \o Tramo(p + n, m) = Tramo(p, n + m)
<1> DEFINE s == Tramo(p, n)  t == Tramo(p + n, m)  u == s \o t
<1>0. Recorre(s, p, n) /\ Recorre(t, p + n, m)
  BY TramoTipo
<1>1. /\ s \in Seq(Piezas) /\ Len(s) = n /\ \A i \in 1 .. n : s[i] = Pieza(p + i - 1)
      /\ t \in Seq(Piezas) /\ Len(t) = m /\ \A i \in 1 .. m : t[i] = Pieza((p + n) + i - 1)
  BY <1>0 DEF Recorre
<1> HIDE DEF s, t
<1>2. /\ u \in Seq(Piezas) /\ Len(u) = n + m
      /\ \A i \in 1 .. n + m : u[i] = IF i <= n THEN s[i] ELSE t[i - n]
  BY <1>1, ConcatProperties
<1> HIDE DEF u
<1>3. ASSUME NEW i \in 1 .. n + m PROVE u[i] = Pieza(p + i - 1)
  <2>1. CASE i <= n
    BY <1>1, <1>2, <2>1
  <2>2. CASE i > n
    <3>1. i - n \in 1 .. m /\ (p + n) + (i - n) - 1 = p + i - 1
      BY <2>2
    <3>2. u[i] = t[i - n] /\ t[i - n] = Pieza((p + n) + (i - n) - 1)
      BY <1>1, <1>2, <2>2, <3>1
    <3> QED
      BY <3>1, <3>2
  <2> QED
    BY <2>1, <2>2
<1>4. Recorre(u, p, n + m)
  BY <1>2, <1>3 DEF Recorre
<1>5. u = Tramo(p, n + m)
  BY <1>4, EsTramo
<1> QED
  BY <1>5 DEF s, t, u

\* One piece goes from the head of a run to the end of the one before.
LEMMA Cabeza ==
    ASSUME NEW p \in Nat, NEW n \in Nat, NEW m \in Nat \ {0}
    PROVE  /\ Head(Tramo(p + n, m)) = Pieza(p + n)
           /\ Append(Tramo(p, n), Head(Tramo(p + n, m))) = Tramo(p, n + 1)
           /\ Tail(Tramo(p + n, m)) = Tramo(p + n + 1, m - 1)
<1> DEFINE s == Tramo(p, n)  t == Tramo(p + n, m)  u == Append(s, Head(t))  v == Tail(t)
<1>0. Recorre(s, p, n) /\ Recorre(t, p + n, m)
  BY TramoTipo
<1>1. /\ s \in Seq(Piezas) /\ Len(s) = n /\ \A i \in 1 .. n : s[i] = Pieza(p + i - 1)
      /\ t \in Seq(Piezas) /\ Len(t) = m /\ \A i \in 1 .. m : t[i] = Pieza((p + n) + i - 1)
  BY <1>0 DEF Recorre
<1>2. t # <<>>
  BY Vacio
<1> HIDE DEF s, t
<1>3. Head(t) = t[1] /\ t[1] = Pieza(p + n)
  <2>1. Head(t) = t[1]
    BY <1>1, <1>2
  <2>2. 1 \in 1 .. m /\ (p + n) + 1 - 1 = p + n
    OBVIOUS
  <2>3. t[1] = Pieza((p + n) + 1 - 1)
    BY <1>1, <2>2
  <2> QED
    BY <2>1, <2>2, <2>3
<1>4. Head(t) \in Piezas
  BY <1>3 DEF Piezas
<1>5. v \in Seq(Piezas) /\ Len(v) = m - 1 /\ \A i \in 1 .. m - 1 : v[i] = t[i + 1]
  BY <1>1, <1>2, HeadTailProperties
<1>6. /\ u \in Seq(Piezas) /\ Len(u) = n + 1
      /\ \A i \in 1 .. n : u[i] = s[i]
      /\ u[n + 1] = Head(t)
  BY <1>1, <1>4, AppendProperties
<1> HIDE DEF u, v
<1>7. Recorre(v, p + n + 1, m - 1)
  <2>1. \A i \in 1 .. m - 1 : i + 1 \in 1 .. m /\ (p + n) + (i + 1) - 1 = (p + n + 1) + i - 1
    OBVIOUS
  <2>2. \A i \in 1 .. m - 1 : v[i] = Pieza((p + n) + (i + 1) - 1)
    BY <1>1, <1>5, <2>1
  <2>3. \A i \in 1 .. m - 1 : v[i] = Pieza((p + n + 1) + i - 1)
    BY <2>1, <2>2
  <2> QED
    BY <1>5, <2>3 DEF Recorre
<1>8. Recorre(u, p, n + 1)
  <2>1. ASSUME NEW i \in 1 .. n + 1 PROVE u[i] = Pieza(p + i - 1)
    <3>1. CASE i \in 1 .. n
      BY <1>1, <1>6, <3>1
    <3>2. CASE i = n + 1
      <4>1. p + (n + 1) - 1 = p + n
        OBVIOUS
      <4> QED
        BY <1>3, <1>6, <3>2, <4>1
    <3> QED
      BY <3>1, <3>2
  <2> QED
    BY <1>6, <2>1 DEF Recorre
<1>9. v = Tramo(p + n + 1, m - 1) /\ u = Tramo(p, n + 1)
  BY <1>7, <1>8, EsTramo
<1> QED
  BY <1>3, <1>9 DEF s, t, u, v

-----------------------------------------------------------------------------
(* The way of the pieces.                                                    *)

\* What the answer is depends only on how the client was called.
LEMMA Constancia ==
    ASSUME UNCHANGED <<opcion, recurso>>
    PROVE  /\ Bien' = Bien /\ tamanoArchivo' = tamanoArchivo /\ recuperarHeader' = recuperarHeader
           /\ respuesta_estadoCodigo' = respuesta_estadoCodigo
           /\ \A p, n : Tramo(p, n)' = Tramo(p, n)
<1>1. metodo' = metodo /\ htmlver' = htmlver /\ rutaFisica' = rutaFisica
  BY DEF metodo, htmlver, rutaFisica
<1>2. request_separado' = request_separado
  BY <1>1 DEF request_separado
<1>3. existeArchivo' = existeArchivo /\ setRespuestaMIME' = setRespuestaMIME /\ tamanoArchivo' = tamanoArchivo
  BY <1>1 DEF existeArchivo, existeDirectorio, esDirectorio, setRespuestaMIME, tamanoArchivo
<1>4. respuesta_estadoCodigo' = respuesta_estadoCodigo
  BY <1>1, <1>2, <1>3 DEF respuesta_estadoCodigo
<1>5. recuperarHeader' = recuperarHeader /\ Bien' = Bien
  BY <1>1, <1>4 DEF recuperarHeader, Bien
<1>6. \A i : Pieza(i)' = Pieza(i)
  BY <1>5 DEF Pieza
<1>7. \A p, n : Tramo(p, n)' = Tramo(p, n)
  BY <1>6 DEF Tramo
<1> QED
  BY <1>3, <1>4, <1>5, <1>7

\* The size of the file that is served is a number, whatever the path.
LEMMA TamanoTipo == ASSUME TiposH PROVE tamanoArchivo \in Nat
<1>1. rutaFisica \in [punto: BOOLEAN, directorio: BOOLEAN, entrada: BOOLEAN, abre: BOOLEAN, MIME: STRING, tamano: Nat]
  BY PeticionAssumption DEF TiposH, rutaFisica
<1> QED
  BY <1>1 DEF tamanoArchivo

\* The pieces are where they were, or go on, and the total fits.
LEMMA Monta ==
    ASSUME UNCHANGED <<opcion, recurso>>, NEW r \in Nat, NEW a \in Nat, NEW b \in Nat, NEW c \in Nat,
           a <= BUFFER_SIZE, recibido' = Tramo(r, a), aCliente' = Tramo(r + a, b),
           deServidor' = Tramo(r + a + b, c), Total(r + a + b + c)'
    PROVE  Flujo(r)'
<1>1. EnCamino(r, a, b, c)'
  BY Constancia DEF EnCamino
<1> QED
  BY <1>1 DEF Flujo

\* What is said of the total of pieces under way, in the state after a step.
LEMMA TotalPrima ==
    ASSUME UNCHANGED <<opcion, recurso>>, NEW t,
           hilo' # "fin" /\ servidor' \in {"espera", "lee", "responde"} => t = 0,
           hilo' # "fin" /\ servidor' = "cuerpo" => IF Bien THEN t = 1 + posicionBuffer' ELSE t >= 1,
           Bien => t <= 1 + tamanoArchivo,
           Bien /\ servidor' = "fin" /\ caidos' = {} => t = 1 + tamanoArchivo
    PROVE  Total(t)'
BY Constancia DEF Total

\* The balancer passes the answer on, to its end or not.
LEMMA FlujoHilo ==
    ASSUME Inv, cliente # "fin", NEW r \in Nat, Flujo(r), Hilo \/ CaeBalanceador
    PROVE  Flujo(r)'
<1>1. PICK a, b, c \in Nat : a <= BUFFER_SIZE /\ EnCamino(r, a, b, c) /\ Total(r + a + b + c)
  BY DEF Flujo
<1>2. recibido = Tramo(r, a) /\ aCliente = Tramo(r + a, b) /\ deServidor = Tramo(r + a + b, c)
  BY <1>1 DEF EnCamino
<1>3. r + a \in Nat /\ r + a + b \in Nat
  OBVIOUS
<1>4. CASE \E n \in 1 .. BUFFER_SIZE : RelevaPedido(n)
  <2>1. /\ UNCHANGED <<opcion, recurso, recibido, aCliente, deServidor, servidor, posicionBuffer, caidos>>
        /\ hilo # "fin"
    BY <1>4 DEF RelevaPedido, vCliente, vServidor
  <2>2. Total(r + a + b + c)'
    BY <1>1, <2>1, TotalPrima DEF Total
  <2> QED
    BY <1>1, <1>2, <2>1, <2>2, Monta
<1>5. ASSUME NEW n \in 1 .. BUFFER_SIZE, RelevaRespuesta(n) PROVE Flujo(r)'
  <2>1. /\ n \in 1 .. Len(deServidor) /\ deServidor' = Resto(deServidor, n)
        /\ aCliente' = aCliente \o SubSeq(deServidor, 1, n)
        /\ UNCHANGED <<opcion, recurso, recibido, hilo, servidor, posicionBuffer, caidos>>
    BY <1>5 DEF RelevaRespuesta, vCliente, vServidor, vHilo
  <2>2. n \in 1 .. c
    BY <1>2, <1>3, <2>1, Vacio
  <2>3. SubSeq(deServidor, 1, n) = Tramo(r + a + b, n) /\ deServidor' = Tramo(r + a + b + n, c - n)
    BY <1>2, <1>3, <2>1, <2>2, Corte
  <2>4. aCliente' = Tramo(r + a, b + n)
    <3>1. r + a \in Nat /\ b \in Nat /\ n \in Nat
      OBVIOUS
    <3>2. Tramo(r + a, b) \o Tramo(r + a + b, n) = Tramo(r + a, b + n)
      BY <3>1, Union
    <3> QED
      BY <1>2, <2>1, <2>3, <3>2
  <2>5. Total(r + a + b + c)'
    BY <1>1, <2>1, TotalPrima DEF Total
  <2>6. b + n \in Nat /\ c - n \in Nat /\ r + a + b + n = r + a + (b + n)
        /\ r + a + (b + n) + (c - n) = r + a + b + c
    BY <2>2
  <2> QED
    BY <1>1, <1>2, <2>1, <2>3, <2>4, <2>5, <2>6, Monta
<1>6. CASE TerminaHilo
  <2>1. /\ UNCHANGED <<opcion, recurso, recibido, aCliente, deServidor, servidor, posicionBuffer, caidos>>
        /\ hilo' = "fin"
    BY <1>6 DEF TerminaHilo, vCliente, vServidor, canales
  <2>2. Total(r + a + b + c)'
    BY <1>1, <2>1, TotalPrima DEF Total
  <2> QED
    BY <1>1, <1>2, <2>1, <2>2, Monta
<1>7. CASE CaeBalanceador
  <2>1. /\ UNCHANGED <<opcion, recurso, recibido, aCliente, servidor, posicionBuffer>>
        /\ hilo' = "fin" /\ deServidor' = <<>> /\ caidos' # {}
    BY <1>7 DEF CaeBalanceador, vCliente, vServidor
  <2>2. deServidor' = Tramo(r + a + b, 0)
    BY <1>3, <2>1, Vacio
  <2>3. Total(r + a + b + 0)'
    <3>1. Bien => r + a + b + 0 <= 1 + tamanoArchivo
      BY <1>1, TamanoTipo DEF Total, Inv
    <3> QED
      BY <2>1, <3>1, TotalPrima
  <2> QED
    BY <1>1, <1>2, <2>1, <2>2, <2>3, Monta
<1> QED
  BY <1>4, <1>5, <1>6, <1>7 DEF Hilo

\* The count by what was asked for never goes past the end of the file, and only
\* stops there.
LEMMA LoQueLee ==
    ASSUME Inv, CuerpoArchivo
    PROVE  LET n == Min({bytesPorLeer(bytesFaltantes', posicionBuffer), tamanoArchivo - posicionBuffer})
           IN  /\ n \in Int /\ posicionBuffer + n <= tamanoArchivo
               /\ n <= 0 => posicionBuffer = tamanoArchivo
               /\ n > 0 => posicionBuffer + n + bytesFaltantes' = tamanoArchivo
                             \/ (posicionBuffer + n = tamanoArchivo /\ bytesFaltantes' <= 0)
<1> DEFINE x == bytesPorLeer(bytesFaltantes', posicionBuffer)
           y == tamanoArchivo - posicionBuffer
           n == Min({x, y})
<1>1. /\ tamanoArchivo \in Nat /\ posicionBuffer \in Nat /\ bytesFaltantes \in Int
      /\ BUFFER_SIZE \in Nat /\ BUFFER_SIZE > 2
  BY TamanoTipo, PeticionAssumption DEF Inv, TiposH
<1>2. /\ posicionBuffer <= tamanoArchivo
      /\ posicionBuffer + bytesFaltantes = tamanoArchivo
           \/ (posicionBuffer = tamanoArchivo /\ bytesFaltantes <= 0)
      /\ bytesFaltantes' = bytesFaltantes - BUFFER_SIZE
  BY DEF Inv, CuentaInv, CuerpoArchivo, Bien
<1>3. x \in Int /\ y \in Int /\ x = (IF bytesFaltantes' > 0 THEN BUFFER_SIZE ELSE y)
  BY <1>1, <1>2 DEF bytesPorLeer
<1> HIDE DEF x, y
<1>4. n \in {x, y} /\ n <= x /\ n <= y
  <2>1. \E z \in {x, y} : \A w \in {x, y} : z <= w
    BY <1>3
  <2> QED
    BY <2>1 DEF Min
<1> HIDE DEF n
<1>5. /\ n \in Int /\ posicionBuffer + n <= tamanoArchivo
      /\ n <= 0 => posicionBuffer = tamanoArchivo
      /\ n > 0 => posicionBuffer + n + bytesFaltantes' = tamanoArchivo
                    \/ (posicionBuffer + n = tamanoArchivo /\ bytesFaltantes' <= 0)
  BY <1>1, <1>2, <1>3, <1>4 DEF y
<1> QED
  BY <1>5 DEF n, x, y

\* A write of the next pieces, or none if the balancer is gone.
LEMMA FlujoEscribe ==
    ASSUME Inv, NEW r \in Nat, NEW a \in Nat, NEW b \in Nat, NEW c \in Nat, NEW n \in Nat,
           a <= BUFFER_SIZE, EnCamino(r, a, b, c), Total(r + a + b + c),
           NEW s, s = Tramo(r + a + b + c, n) \/ hilo = "fin",
           Escribe(s, "cuerpo"), servidor # "fin", UNCHANGED <<opcion, recurso, recibido, aCliente, hilo, caidos>>,
           posicionBuffer' \in Int,
           hilo # "fin" => IF Bien THEN r + a + b + c + n = 1 + posicionBuffer' /\ posicionBuffer' <= tamanoArchivo
                                   ELSE r + a + b + c + n >= 1
    PROVE  Flujo(r)'
<1> DEFINE t == r + a + b + c
<1>1. recibido' = Tramo(r, a) /\ aCliente' = Tramo(r + a, b) /\ deServidor = Tramo(r + a + b, c)
  BY DEF EnCamino
<1>2. CASE hilo # "fin"
  <2>1. deServidor' = deServidor \o Tramo(t, n) /\ servidor' = "cuerpo"
    BY <1>2 DEF Escribe
  <2>2. r + a + b \in Nat /\ c \in Nat /\ n \in Nat /\ c + n \in Nat /\ r + a + b + (c + n) = t + n
    OBVIOUS
  <2>3. deServidor' = Tramo(r + a + b, c + n)
    BY <1>1, <2>1, <2>2, Union
  <2>4. Total(t + n)'
    <3>1. tamanoArchivo \in Nat /\ t \in Nat
      BY TamanoTipo DEF Inv
    <3>2. IF Bien THEN t + n = 1 + posicionBuffer' /\ posicionBuffer' <= tamanoArchivo ELSE t + n >= 1
      BY <1>2
    <3> HIDE DEF t
    <3>3. ASSUME Bien PROVE t + n <= 1 + tamanoArchivo
      <4>1. t + n = 1 + posicionBuffer' /\ posicionBuffer' <= tamanoArchivo
        BY <3>2, <3>3
      <4>2. \A x, y, z \in Int : x = 1 + y /\ y <= z => x <= 1 + z
        OBVIOUS
      <4>3. t + n \in Int /\ posicionBuffer' \in Int /\ tamanoArchivo \in Int
        BY <3>1
      <4> QED
        BY <4>1, <4>2, <4>3
    <3> QED
      BY <1>2, <2>1, <3>2, <3>3, TotalPrima
  <2> QED
    BY <1>1, <2>2, <2>3, <2>4, Monta
<1>3. CASE hilo = "fin"
  <2>1. deServidor' = deServidor /\ servidor' = "fin" /\ caidos' # {} /\ hilo' = "fin"
    BY <1>3 DEF Escribe, Inv, OrdenInv
  <2>2. Total(t)'
    <3>1. Bien => t <= 1 + tamanoArchivo
      BY DEF Total
    <3> QED
      BY <2>1, <3>1, TotalPrima
  <2> QED
    BY <1>1, <2>1, <2>2, Monta
<1> QED
  BY <1>2, <1>3

\* The server: what it adds is what comes next, and what it ends with is the end.
LEMMA FlujoServidor ==
    ASSUME Inv, cliente # "fin", NEW r \in Nat, Flujo(r), Servidor \/ CaeServidor
    PROVE  Flujo(r)'
<1>1. PICK a, b, c \in Nat : a <= BUFFER_SIZE /\ EnCamino(r, a, b, c) /\ Total(r + a + b + c)
  BY DEF Flujo
<1>2. recibido = Tramo(r, a) /\ aCliente = Tramo(r + a, b) /\ deServidor = Tramo(r + a + b, c)
  BY <1>1 DEF EnCamino
<1> DEFINE t == r + a + b + c
<1>3. t \in Nat /\ tamanoArchivo \in Nat /\ posicionBuffer \in Nat /\ bytesFaltantes \in Int
  BY TamanoTipo DEF Inv, TiposH
<1>4. CASE \E n \in 1 .. BUFFER_SIZE : Lee(n)
  <2>1. /\ UNCHANGED <<opcion, recurso, recibido, aCliente, deServidor, hilo, posicionBuffer, caidos>>
        /\ servidor = "lee" /\ servidor' \in {"lee", "responde"}
    BY <1>4 DEF Lee, vCliente, vHilo
  <2>2. Total(t)'
    BY <1>1, <2>1, TotalPrima DEF Total
  <2> QED
    BY <1>1, <1>2, <2>1, <2>2, Monta
<1>5. CASE CaeServidor
  <2>1. /\ UNCHANGED <<opcion, recurso, recibido, aCliente, deServidor, hilo, posicionBuffer>>
        /\ servidor' = "fin" /\ caidos' # {}
    BY <1>5 DEF CaeServidor, vCliente, vHilo, canales
  <2>2. Total(t)'
    BY <1>1, <2>1, TotalPrima DEF Total
  <2> QED
    BY <1>1, <1>2, <2>1, <2>2, Monta
<1>6. CASE Responde
  <2>1. /\ UNCHANGED <<opcion, recurso, recibido, aCliente, hilo, posicionBuffer, caidos>>
        /\ servidor = "responde" /\ Escribe(<<recuperarHeader>>, "cuerpo") /\ posicionBuffer = 0
    BY <1>6 DEF Responde, vCliente, vHilo, Inv, CuentaInv
  <2>2. hilo # "fin" => t = 0
    BY <1>1, <2>1 DEF Total
  <2>3. Tramo(0, 1) = <<recuperarHeader>>
    <3>1. Tramo(0, 1) = [i \in 1 .. 1 |-> recuperarHeader]
      BY DEF Tramo, Pieza
    <3> QED
      BY <3>1
  <2>4. <<recuperarHeader>> = Tramo(t, 1) \/ hilo = "fin"
    BY <2>2, <2>3
  <2> HIDE DEF t
  <2>5. hilo # "fin" => IF Bien THEN t + 1 = 1 + posicionBuffer' /\ posicionBuffer' <= tamanoArchivo ELSE t + 1 >= 1
    BY <1>3, <2>1, <2>2
  <2> QED
    BY <1>1, <2>1, <2>4, <2>5, FlujoEscribe DEF t
<1>7. CASE CuerpoError
  <2>1. /\ UNCHANGED <<opcion, recurso, recibido, aCliente, hilo, posicionBuffer, caidos>>
        /\ servidor = "cuerpo" /\ ~Bien
        /\ IF errorOcurrido THEN servidor' = "fin" /\ UNCHANGED deServidor
                            ELSE Escribe(<<"pagina">>, "cuerpo")
    BY <1>7 DEF CuerpoError, vCliente, vHilo, Bien
  <2>2. CASE errorOcurrido
    <3>1. Total(t)'
      BY <1>1, <2>1, <2>2, TotalPrima DEF Total
    <3> QED
      BY <1>1, <1>2, <2>1, <2>2, <3>1, Monta
  <2>3. CASE ~errorOcurrido
    <3>1. hilo # "fin" => t >= 1
      BY <1>1, <2>1 DEF Total
    <3>2. t >= 1 => Tramo(t, 1) = <<"pagina">>
      <4>1. t >= 1 => \A i \in 1 .. 1 : Pieza(t + i - 1) = "pagina"
        BY <1>3, <2>1 DEF Pieza
      <4>2. t >= 1 => Tramo(t, 1) = [i \in 1 .. 1 |-> "pagina"]
        BY <4>1 DEF Tramo
      <4> QED
        BY <4>2
    <3> HIDE DEF t
    <3>3. <<"pagina">> = Tramo(t, 1) \/ hilo = "fin"
      BY <3>1, <3>2
    <3>4. hilo # "fin" => IF Bien THEN t + 1 = 1 + posicionBuffer' /\ posicionBuffer' <= tamanoArchivo ELSE t + 1 >= 1
      BY <1>3, <2>1, <3>1
    <3>5. posicionBuffer' \in Int
      BY <1>3, <2>1
    <3> QED
      BY <1>1, <2>1, <2>3, <3>3, <3>4, <3>5, FlujoEscribe DEF t
  <2> QED
    BY <2>2, <2>3
<1>8. CASE CuerpoArchivo
  <2>1. /\ UNCHANGED <<opcion, recurso, recibido, aCliente, hilo, caidos>>
        /\ servidor = "cuerpo" /\ Bien
        /\ \E n \in {Min({bytesPorLeer(bytesFaltantes', posicionBuffer), tamanoArchivo - posicionBuffer})} :
             IF n > 0
             THEN /\ Escribe(Trozos(posicionBuffer, n), "cuerpo")
                  /\ posicionBuffer' = posicionBuffer + n
             ELSE servidor' = "fin" /\ UNCHANGED <<deServidor, posicionBuffer>>
    BY <1>8 DEF CuerpoArchivo, vCliente, vHilo, Bien
  <2> DEFINE n == Min({bytesPorLeer(bytesFaltantes', posicionBuffer), tamanoArchivo - posicionBuffer})
  <2>2. n \in Int /\ posicionBuffer + n <= tamanoArchivo /\ (n <= 0 => posicionBuffer = tamanoArchivo)
    BY <1>8, LoQueLee
  <2>3. IF n > 0
        THEN /\ Escribe(Trozos(posicionBuffer, n), "cuerpo")
             /\ posicionBuffer' = posicionBuffer + n
        ELSE servidor' = "fin" /\ UNCHANGED <<deServidor, posicionBuffer>>
    BY <2>1
  <2> HIDE DEF n
  <2>4. hilo # "fin" => t = 1 + posicionBuffer
    BY <1>1, <2>1 DEF Total
  <2>5. CASE n > 0
    <3>1. Tramo(1 + posicionBuffer, n) = Trozos(posicionBuffer, n)
      <4>1. \A i \in 1 .. n : Pieza((1 + posicionBuffer) + i - 1) = posicionBuffer + i
        BY <1>3, <2>1, <2>2 DEF Pieza
      <4> QED
        BY <4>1 DEF Tramo, Trozos
    <3> HIDE DEF t
    <3>2. Trozos(posicionBuffer, n) = Tramo(t, n) \/ hilo = "fin"
      BY <2>4, <3>1
    <3>3. hilo # "fin" => IF Bien THEN t + n = 1 + posicionBuffer' /\ posicionBuffer' <= tamanoArchivo ELSE t + n >= 1
      BY <1>3, <2>1, <2>2, <2>3, <2>4, <2>5
    <3>4. n \in Nat /\ posicionBuffer' \in Int
      BY <1>3, <2>2, <2>3, <2>5
    <3> QED
      BY <1>1, <2>1, <2>3, <2>5, <3>2, <3>3, <3>4, FlujoEscribe DEF t
  <2>6. CASE ~(n > 0)
    <3>1. servidor' = "fin" /\ UNCHANGED <<deServidor, posicionBuffer>> /\ posicionBuffer = tamanoArchivo
      BY <2>2, <2>3, <2>6
    <3>2. caidos = {} => hilo # "fin"
      BY <2>1 DEF Inv, OrdenInv
    <3>3. Total(t)'
      <4>1. Bien => t <= 1 + tamanoArchivo
        BY <1>1 DEF Total
      <4> HIDE DEF t
      <4> QED
        BY <2>1, <2>4, <3>1, <3>2, <4>1, TotalPrima
    <3> QED
      BY <1>1, <1>2, <2>1, <3>1, <3>3, Monta
  <2> QED
    BY <2>5, <2>6
<1> QED
  BY <1>4, <1>5, <1>6, <1>7, <1>8 DEF Servidor

-----------------------------------------------------------------------------
(* The file.                                                                 *)

\* Steps of the others leave the file and the client as they are.
LEMMA DescargaOtros ==
    ASSUME Inv, UNCHANGED vCliente,
           \A r \in Nat : cliente # "fin" /\ Flujo(r) => Flujo(r)',
           caidos \subseteq caidos'
    PROVE  DescargaInv'
<1>1. UNCHANGED <<opcion, recurso, cliente, descarga, descargable, posBuffer, corta, vencio>>
  BY DEF vCliente, disco
<1>2. Bien' = Bien /\ tamanoArchivo' = tamanoArchivo
  BY <1>1, Constancia
<1>3. (~descargable => descarga \in {<<>>, Vieja})'
  BY <1>1 DEF Inv, DescargaInv, NoDescargado, Antes, Durante, Despues, Vieja
<1>4. (cliente \in {"inicio", "primera"} => Flujo(0) /\ ~descargable)'
  BY <1>1 DEF Inv, DescargaInv, NoDescargado, Antes, Durante, Despues
<1>5. ASSUME cliente = "resto", descargable
      PROVE  /\ Bien'
             /\ \E k \in 0 .. sizePostSplit, j \in Nat :
                  /\ k <= j /\ (k < sizePostSplit => corta')
                  /\ descarga' = Parcial(k, j) /\ posBuffer' = sizePostSplit + j - k
                  /\ Flujo(j + 1)'
  <2>1. Bien
    BY <1>5 DEF Inv, DescargaInv, NoDescargado, Antes, Durante, Despues
  <2>2. PICK k \in 0 .. sizePostSplit, j \in Nat :
          /\ k <= j /\ (k < sizePostSplit => corta)
          /\ descarga = Parcial(k, j) /\ posBuffer = sizePostSplit + j - k
          /\ Flujo(j + 1)
    BY <1>5 DEF Inv, DescargaInv, NoDescargado, Antes, Durante, Despues
  <2>3. Flujo(j + 1)'
    BY <1>5, <2>2
  <2> QED
    BY <1>1, <1>2, <2>1, <2>2, <2>3
<1>6. ASSUME cliente = "fin", descargable
      PROVE  \E k \in 0 .. sizePostSplit, j \in 0 .. tamanoArchivo' :
                  /\ k <= j /\ (k < sizePostSplit => corta')
                  /\ descarga' = Parcial(k, j)
                  /\ j < tamanoArchivo' => vencio' \/ caidos' # {}
  <2>1. PICK k \in 0 .. sizePostSplit, j \in 0 .. tamanoArchivo :
          /\ k <= j /\ (k < sizePostSplit => corta)
          /\ descarga = Parcial(k, j)
          /\ j < tamanoArchivo => vencio \/ caidos # {}
    BY <1>6 DEF Inv, DescargaInv, NoDescargado, Antes, Durante, Despues
  <2>2. caidos # {} => caidos' # {}
    OBVIOUS
  <2> QED
    BY <1>1, <1>2, <2>1, <2>2
<1>7. Parcial(0, 0)' = Parcial(0, 0) /\ \A k, j : Parcial(k, j)' = Parcial(k, j)
  BY DEF Parcial, sizePostSplit
<1> QED
  BY <1>1, <1>3, <1>4, <1>5, <1>6, <1>7 DEF DescargaInv, NoDescargado, Antes, Durante, Despues, sizePostSplit

\* A piece reaches the read under way.
LEMMA FlujoRecibe ==
    ASSUME Inv, NEW r \in Nat, Flujo(r), Recibe
    PROVE  Flujo(r)'
<1>1. PICK a, b, c \in Nat : a <= BUFFER_SIZE /\ EnCamino(r, a, b, c) /\ Total(r + a + b + c)
  BY DEF Flujo
<1>2. recibido = Tramo(r, a) /\ aCliente = Tramo(r + a, b) /\ deServidor = Tramo(r + a + b, c)
  BY <1>1 DEF EnCamino
<1>3. /\ aCliente # <<>> /\ Len(recibido) < BUFFER_SIZE
      /\ recibido' = Append(recibido, Head(aCliente)) /\ aCliente' = Tail(aCliente)
      /\ UNCHANGED <<opcion, recurso, deServidor, hilo, servidor, posicionBuffer, caidos>>
  BY DEF Recibe, vHilo, vServidor
<1>4. b \in Nat \ {0} /\ a < BUFFER_SIZE /\ r + a \in Nat
  BY <1>2, <1>3, Vacio
<1>5. recibido' = Tramo(r, a + 1) /\ aCliente' = Tramo(r + a + 1, b - 1)
  BY <1>2, <1>3, <1>4, Cabeza
<1>6. /\ a + 1 \in Nat /\ b - 1 \in Nat /\ a + 1 <= BUFFER_SIZE /\ r + a + 1 = r + (a + 1)
      /\ r + a + b = r + (a + 1) + (b - 1) /\ r + a + b + c = r + (a + 1) + (b - 1) + c
  BY <1>4, PeticionAssumption
<1>7. Total(r + a + b + c)'
  BY <1>1, <1>3, TotalPrima DEF Total
<1> QED
  BY <1>2, <1>3, <1>5, <1>6, <1>7, Monta

\* A read that returns takes its pieces.
LEMMA FlujoLectura ==
    ASSUME Inv, NEW r \in Nat, NEW a \in Nat, NEW b \in Nat, NEW c \in Nat, EnCamino(r, a, b, c),
           Total(r + a + b + c), recibido' = <<>>,
           UNCHANGED <<opcion, recurso, aCliente, deServidor, hilo, servidor, posicionBuffer, caidos>>
    PROVE  Flujo(r + a)'
<1>1. aCliente' = Tramo(r + a, b) /\ deServidor' = Tramo(r + a + b, c)
  BY DEF EnCamino
<1>2. r + a \in Nat /\ r + a + 0 = r + a
  OBVIOUS
<1>3. recibido' = Tramo(r + a, 0)
  BY <1>2, Vacio
<1>4. Total(r + a + 0 + b + c)'
  BY <1>2, TotalPrima DEF Total
<1> QED
  BY <1>1, <1>2, <1>3, <1>4, Monta, PeticionAssumption

\* What a run of pieces adds at the end of the file.
LEMMA Anadido ==
    ASSUME Bien, NEW k \in 0 .. sizePostSplit, NEW j \in Nat, k <= j, NEW m \in Nat
    PROVE  escribirArchivo(Parcial(k, j), Tramo(j + 1, m), sizePostSplit + j - k) = Parcial(k, j + m)
<1> DEFINE f == Parcial(k, j)  s == Tramo(j + 1, m)  pos == sizePostSplit + j - k
<1>1. sizePostSplit \in Nat /\ pos \in Nat /\ pos >= sizePostSplit
  BY PeticionAssumption DEF sizePostSplit
<1>2. DOMAIN f = 1 .. pos /\ Len(f) = pos
  <2>1. DOMAIN f = 1 .. pos
    BY DEF Parcial
  <2>2. f = [i \in 1 .. pos |-> f[i]]
    BY DEF Parcial
  <2> HIDE DEF f, pos
  <2> DEFINE valores == {f[i] : i \in 1 .. pos}
  <2>3. f \in [1 .. pos -> valores]
    BY <2>2
  <2> HIDE DEF valores
  <2>4. f \in Seq(valores)
    BY <1>1, <2>3, SeqDef
  <2>5. Len(f) = pos
    BY <1>1, <2>1, <2>4, LenProperties
  <2> QED
    BY <2>1, <2>5
<1>3. Len(s) = m /\ \A i \in 1 .. m : s[i] = j + i
  <2>1. Recorre(s, j + 1, m)
    BY TramoTipo
  <2> HIDE DEF s
  <2>2. \A i \in 1 .. m : Pieza((j + 1) + i - 1) = j + i
    BY DEF Pieza
  <2> QED
    BY <2>1, <2>2 DEF Recorre
<1>4. DOMAIN s = 1 .. m
  BY DEF Tramo
<1>5. Max({Len(f), pos + Len(s)}) = pos + m
  <2>1. \A x \in {pos, pos + m} : (\A y \in {pos, pos + m} : x >= y) => x = pos + m
    BY <1>1
  <2>2. \A y \in {pos, pos + m} : pos + m >= y
    BY <1>1
  <2> HIDE DEF f, s, pos
  <2> QED
    BY <1>2, <1>3, <2>1, <2>2 DEF Max
<1>6. \A i \in 1 .. pos : f[i] = (IF i <= k THEN i ELSE IF i <= sizePostSplit THEN Basura ELSE i - sizePostSplit + k)
  BY DEF Parcial
<1> HIDE DEF f, s
<1>7. \A i \in 1 .. pos + m : (IF i - pos \in DOMAIN s THEN s[i - pos] ELSE f[i])
        = (IF i <= k THEN i ELSE IF i <= sizePostSplit THEN Basura ELSE i - sizePostSplit + k)
  <2> SUFFICES ASSUME NEW i \in 1 .. pos + m
               PROVE  (IF i - pos \in DOMAIN s THEN s[i - pos] ELSE f[i])
                        = (IF i <= k THEN i ELSE IF i <= sizePostSplit THEN Basura ELSE i - sizePostSplit + k)
    OBVIOUS
  <2>1. CASE i <= pos
    BY <1>1, <1>4, <1>6, <2>1
  <2>2. CASE i > pos
    <3>1. i - pos \in 1 .. m /\ ~(i <= k) /\ ~(i <= sizePostSplit)
      BY <1>1, <2>2
    <3>2. s[i - pos] = j + (i - pos) /\ j + (i - pos) = i - sizePostSplit + k
      BY <1>1, <1>3, <3>1
    <3> QED
      BY <1>4, <3>1, <3>2
  <2> QED
    BY <1>1, <2>1, <2>2
<1>8. escribirArchivo(f, s, pos)
        = [i \in 1 .. pos + m |-> IF i <= k THEN i ELSE IF i <= sizePostSplit THEN Basura ELSE i - sizePostSplit + k]
  BY <1>5, <1>7 DEF escribirArchivo
<1>9. pos + m = sizePostSplit + (j + m) - k
  BY <1>1
<1> QED
  BY <1>8, <1>9 DEF f, s, Parcial

\* The first read: the file is made, with what came after the header and, where
\* the buffer was not full, what it had.
LEMMA PrimeraLema ==
    ASSUME Inv, PrimeraLectura
    PROVE  DescargaInv'
<1>1. /\ cliente = "primera" /\ recibido' = <<>> /\ ~descargable
      /\ corta' = (Len(recibido) < BUFFER_SIZE)
      /\ cliente' = (IF Sigue THEN "resto" ELSE "fin")
      /\ descargable' = (Sigue /\ DescargaPedida)
      /\ aCliente' = (IF Sigue THEN aCliente ELSE <<>>)
      /\ UNCHANGED <<opcion, recurso, deServidor, hilo, servidor, posicionBuffer, caidos>>
      /\ Flujo(0) /\ descarga \in {<<>>, Vieja}
  BY DEF PrimeraLectura, Vuelve, vHilo, vServidor, Inv, DescargaInv, NoDescargado, Antes, Durante, Despues
<1>2. PICK a, b, c \in Nat : a <= BUFFER_SIZE /\ EnCamino(0, a, b, c) /\ Total(0 + a + b + c)
  BY <1>1 DEF Flujo
<1>3. recibido = Tramo(0, a) /\ Len(recibido) = a
  BY <1>2, Vacio DEF EnCamino
<1>4. CASE ~descargable'
  <2>1. UNCHANGED descarga
    BY <1>4 DEF PrimeraLectura, disco
  <2>2. cliente' \notin {"inicio", "primera"}
    BY <1>1
  <2>3. (~descargable => descarga \in {<<>>, Vieja})'
    BY <1>1, <2>1 DEF Vieja
  <2>4. NoDescargado' /\ Antes' /\ Durante' /\ Despues'
    BY <1>4, <2>2, <2>3 DEF NoDescargado, Antes, Durante, Despues
  <2> QED
    BY <2>4 DEF DescargaInv
<1>5. CASE descargable'
  <2>1. /\ Sigue /\ DescargaPedida /\ cliente' = "resto"
        /\ descarga' = escribirArchivo(crearArchivo, TrasHeader, 0) /\ posBuffer' = sizePostSplit
    BY <1>1, <1>5 DEF PrimeraLectura
  <2>2. a \in Nat \ {0} /\ recibido[1] = Pieza(0) /\ Head(recibido) = Pieza(0)
    <3>1. recibido # <<>>
      BY <2>1 DEF Sigue
    <3>2. a # 0
      BY <1>3, <3>1, Vacio
    <3>3. Head(Tramo(0 + 0, a)) = Pieza(0 + 0)
      BY <3>2, Cabeza
    <3>4. Recorre(recibido, 0, a)
      BY <1>3, TramoTipo
    <3>5. recibido[1] = Pieza(0 + 1 - 1)
      BY <3>2, <3>4 DEF Recorre
    <3> QED
      BY <1>3, <3>2, <3>3, <3>5
  <2>3. Bien
    <3>1. Pieza(0) = recuperarHeader
      BY DEF Pieza
    <3>2. Head(recibido).estado = 200
      BY <2>1 DEF DescargaPedida
    <3>3. recuperarHeader.estado = respuesta_estadoCodigo
      BY DEF recuperarHeader
    <3> QED
      BY <2>2, <3>1, <3>2, <3>3 DEF Bien
  <2> DEFINE k == a - 1
  <2>4. k \in 0 .. sizePostSplit /\ k \in Nat /\ sizePostSplit \in Nat
    BY <1>2, <2>2, PeticionAssumption DEF sizePostSplit
  <2>5. \A i \in 1 .. sizePostSplit : TrasHeader[i] = (IF i <= k THEN i ELSE Basura)
    <3>1. Recorre(recibido, 0, a)
      BY <1>3, TramoTipo
    <3>2. \A i \in 1 .. k : i + 1 \in 1 .. a /\ Pieza(0 + (i + 1) - 1) = i
      BY <2>3, <2>4 DEF Pieza
    <3>3. \A i \in 1 .. k : recibido[i + 1] = i
      BY <3>1, <3>2 DEF Recorre
    <3> QED
      BY <1>3, <2>4, <3>3 DEF TrasHeader
  <2>6. DOMAIN TrasHeader = 1 .. sizePostSplit /\ Len(TrasHeader) = sizePostSplit
    <3> DEFINE f == TrasHeader  valores == {f[i] : i \in 1 .. sizePostSplit}
    <3>1. DOMAIN f = 1 .. sizePostSplit /\ f = [i \in 1 .. sizePostSplit |-> f[i]]
      BY DEF TrasHeader
    <3> HIDE DEF f
    <3>2. f \in [1 .. sizePostSplit -> valores]
      BY <3>1
    <3> HIDE DEF valores
    <3>3. f \in Seq(valores)
      BY <2>4, <3>2, SeqDef
    <3>4. Len(f) = sizePostSplit
      BY <2>4, <3>1, <3>3, LenProperties
    <3> QED
      BY <3>1, <3>4 DEF f
  <2>7. descarga' = Parcial(k, k)
    <3>1. Max({Len(<<>>), 0 + Len(TrasHeader)}) = sizePostSplit
      <4>1. \A x \in {0, sizePostSplit} : (\A y \in {0, sizePostSplit} : x >= y) => x = sizePostSplit
        BY <2>4
      <4>2. \A y \in {0, sizePostSplit} : sizePostSplit >= y
        BY <2>4
      <4>3. Len(<<>>) = 0 /\ 0 + Len(TrasHeader) = sizePostSplit
        BY <2>4, <2>6
      <4> QED
        BY <4>1, <4>2, <4>3 DEF Max
    <3>2. descarga' = [i \in 1 .. sizePostSplit |-> IF i - 0 \in 1 .. sizePostSplit THEN TrasHeader[i - 0] ELSE <<>>[i]]
      BY <2>1, <2>6, <3>1 DEF escribirArchivo, crearArchivo
    <3>3. sizePostSplit + k - k = sizePostSplit
      BY <2>4
    <3> HIDE DEF k
    <3>4. descarga' = [i \in 1 .. sizePostSplit |-> IF i <= k THEN i ELSE Basura]
      BY <2>4, <2>5, <3>2
    <3>5. Parcial(k, k) = [i \in 1 .. sizePostSplit |-> IF i <= k THEN i ELSE Basura]
      BY <2>4, <3>3 DEF Parcial
    <3> QED
      BY <3>4, <3>5
  <2>8. Flujo(k + 1)'
    <3>1. aCliente' = aCliente
      BY <1>1, <2>1
    <3>2. Flujo(0 + a)'
      BY <1>1, <1>2, <3>1, FlujoLectura
    <3>3. 0 + a = k + 1
      BY <2>2
    <3> QED
      BY <3>2, <3>3
  <2>9. k < sizePostSplit => corta'
    <3>1. ASSUME k < sizePostSplit PROVE corta'
      <4>1. Len(recibido) < BUFFER_SIZE
        BY <1>3, <2>4, <3>1, PeticionAssumption DEF sizePostSplit
      <4>2. corta' = (Len(recibido) < BUFFER_SIZE)
        BY <1>1
      <4> QED
        BY <4>1, <4>2, Zenon
    <3> QED
      BY <3>1
  <2>10. Bien' /\ posBuffer' = sizePostSplit + k - k
    BY <1>1, <2>1, <2>3, <2>4, Constancia
  <2>11. \A x, y : Parcial(x, y)' = Parcial(x, y)
    BY DEF Parcial, sizePostSplit
  <2> HIDE DEF k
  <2>12. \E kk \in 0 .. sizePostSplit, j \in Nat :
             /\ kk <= j /\ (kk < sizePostSplit => corta')
             /\ descarga' = Parcial(kk, j) /\ posBuffer' = sizePostSplit + j - kk
             /\ Flujo(j + 1)'
    BY <2>4, <2>7, <2>8, <2>9, <2>10
  <2>13. NoDescargado' /\ Antes' /\ Despues'
    BY <1>5, <2>1 DEF NoDescargado, Antes, Despues
  <2>14. Durante'
    BY <2>10, <2>11, <2>12 DEF Durante, sizePostSplit
  <2> QED
    BY <2>13, <2>14 DEF DescargaInv
<1> QED
  BY <1>4, <1>5

\* A later read: what it brings goes behind, and one that brings nothing is the
\* end of the answer, if it did not run out of time.
LEMMA OtraLema ==
    ASSUME Inv, OtraLectura
    PROVE  DescargaInv'
<1>1. /\ cliente = "resto" /\ recibido' = <<>> /\ vencio' = (vencio \/ ~(Lleno \/ Final))
      /\ UNCHANGED <<opcion, recurso, descargable, corta, deServidor, hilo, servidor, posicionBuffer, caidos>>
  BY DEF OtraLectura, Vuelve, vHilo, vServidor
<1>2. cliente' \in {"resto", "fin"} /\ (~descargable => descarga' = descarga)
  BY <1>1 DEF OtraLectura
<1>3. NoDescargado' /\ Antes'
  BY <1>1, <1>2 DEF Inv, DescargaInv, NoDescargado, Antes, Vieja
<1>4. CASE ~descargable
  BY <1>1, <1>3, <1>4 DEF DescargaInv, Durante, Despues
<1>5. CASE descargable
  <2>1. Bien
    BY <1>1, <1>5 DEF Inv, DescargaInv, Durante
  <2>2. PICK k \in 0 .. sizePostSplit, j \in Nat :
          /\ k <= j /\ (k < sizePostSplit => corta)
          /\ descarga = Parcial(k, j) /\ posBuffer = sizePostSplit + j - k
          /\ Flujo(j + 1)
    BY <1>1, <1>5 DEF Inv, DescargaInv, Durante
  <2>3. PICK a, b, c \in Nat : a <= BUFFER_SIZE /\ EnCamino(j + 1, a, b, c) /\ Total(j + 1 + a + b + c)
    BY <2>2 DEF Flujo
  <2>4. /\ j + 1 \in Nat /\ recibido = Tramo(j + 1, a) /\ aCliente = Tramo(j + 1 + a, b)
        /\ deServidor = Tramo(j + 1 + a + b, c)
    BY <2>3 DEF EnCamino
  <2>5. Bien' = Bien /\ tamanoArchivo' = tamanoArchivo /\ tamanoArchivo \in Nat
    BY <1>1, Constancia, TamanoTipo DEF Inv
  <2>6. \A x, y : Parcial(x, y)' = Parcial(x, y)
    BY DEF Parcial, sizePostSplit
  <2>7. CASE recibido = <<>>
    <3>1. cliente' = "fin" /\ descarga' = descarga
      BY <2>7 DEF OtraLectura
    <3>2. a = 0
      BY <2>4, <2>7, Vacio
    <3>3. j <= tamanoArchivo
      <4>1. j + 1 + a + b + c <= 1 + tamanoArchivo
        BY <2>1, <2>3 DEF Total
      <4> QED
        BY <2>2, <2>5, <4>1
    <3>4. ASSUME j < tamanoArchivo PROVE vencio' \/ caidos' # {}
      <4> SUFFICES ASSUME ~vencio', caidos = {} PROVE FALSE
        BY <1>1
      <4>1. Lleno \/ Final
        BY <1>1
      <4>2. hilo = "fin" /\ aCliente = <<>>
        BY <2>7, <4>1, PeticionAssumption DEF Lleno, Final
      <4>3. servidor = "fin" /\ deServidor = <<>>
        BY <4>2 DEF Inv, OrdenInv
      <4>4. b = 0
        BY <2>4, <4>2, Vacio
      <4>5. c = 0
        <5>1. j + 1 + a + b \in Nat
          OBVIOUS
        <5> QED
          BY <2>4, <4>3, <5>1, Vacio
      <4>6. j + 1 + a + b + c = 1 + tamanoArchivo
        BY <2>1, <2>3, <4>3 DEF Total
      <4> QED
        BY <2>5, <3>2, <3>4, <4>4, <4>5, <4>6
    <3>5. j \in 0 .. tamanoArchivo
      BY <2>5, <3>3
    <3>6. Despues'
      BY <1>1, <2>2, <2>5, <2>6, <3>1, <3>4, <3>5 DEF Despues, sizePostSplit
    <3>7. Durante'
      BY <3>1 DEF Durante
    <3> QED
      BY <1>3, <3>6, <3>7 DEF DescargaInv
  <2>8. CASE recibido # <<>>
    <3>1. /\ cliente' = "resto" /\ aCliente' = aCliente /\ posBuffer' = posBuffer + Len(recibido)
          /\ descarga' = escribirArchivo(descarga, recibido, posBuffer)
      BY <1>1, <1>5, <2>8 DEF OtraLectura
    <3>2. Len(recibido) = a
      BY <2>4, Vacio
    <3>3. descarga' = Parcial(k, j + a)
      BY <2>1, <2>2, <2>4, <3>1, Anadido
    <3>4. posBuffer' = sizePostSplit + (j + a) - k
      <4>1. sizePostSplit \in Int
        BY PeticionAssumption DEF sizePostSplit
      <4> QED
        BY <2>2, <3>1, <3>2, <4>1
    <3>5. Flujo((j + a) + 1)'
      <4>1. Flujo(j + 1 + a)'
        BY <1>1, <2>3, <2>4, <3>1, FlujoLectura
      <4>2. j + 1 + a = (j + a) + 1
        OBVIOUS
      <4> QED
        BY <4>1, <4>2
    <3>6. j + a \in Nat /\ k <= j + a
      BY <2>2
    <3>7. \E kk \in 0 .. sizePostSplit, jj \in Nat :
             /\ kk <= jj /\ (kk < sizePostSplit => corta')
             /\ descarga' = Parcial(kk, jj) /\ posBuffer' = sizePostSplit + jj - kk
             /\ Flujo(jj + 1)'
      BY <1>1, <2>2, <3>3, <3>4, <3>5, <3>6
    <3>8. Durante'
      BY <2>1, <2>5, <2>6, <3>7 DEF Durante, sizePostSplit
    <3>9. Despues'
      BY <3>1 DEF Despues
    <3> QED
      BY <1>3, <3>8, <3>9 DEF DescargaInv
  <2> QED
    BY <2>7, <2>8
<1> QED
  BY <1>4, <1>5

-----------------------------------------------------------------------------
(* Every step.                                                               *)

\* Steps that leave the server, and how the client was called, as they are.
LEMMA CuentaOtros ==
    ASSUME Inv, UNCHANGED <<opcion, recurso, servidor, posicionBuffer, bytesFaltantes>>
    PROVE  CuentaInv'
BY Constancia DEF Inv, CuentaInv

\* The client calls, reads and writes its file.
LEMMA PasoCliente == Inv /\ Cliente => Inv'
<1> SUFFICES ASSUME Inv, Cliente PROVE Inv'
  OBVIOUS
<1>1. CASE realizarPeticion
  <2>1. /\ cliente = "inicio" /\ caidos = {} /\ cliente' = "primera" /\ hilo' = "pedido" /\ servidor' = "lee"
        /\ UNCHANGED <<opcion, recurso, recibido, descarga, descargable, deServidor, aCliente, posicionBuffer,
                       bytesFaltantes, caidos>>
    BY <1>1 DEF realizarPeticion, disco
  <2>2. TiposH'
    BY <2>1 DEF Inv, TiposH
  <2>3. CuentaInv'
    BY <2>1 DEF Inv, CuentaInv, OrdenInv
  <2>4. OrdenInv'
    BY <2>1 DEF Inv, OrdenInv
  <2>5. Flujo(0)'
    <3>1. Flujo(0) /\ hilo = "espera" /\ servidor = "espera"
      BY <2>1 DEF Inv, DescargaInv, Antes, OrdenInv
    <3>2. PICK a, b, c \in Nat : a <= BUFFER_SIZE /\ EnCamino(0, a, b, c) /\ Total(0 + a + b + c)
      BY <3>1 DEF Flujo
    <3>3. recibido' = Tramo(0, a) /\ aCliente' = Tramo(0 + a, b) /\ deServidor' = Tramo(0 + a + b, c)
      BY <2>1, <3>2 DEF EnCamino
    <3>4. Total(0 + a + b + c)'
      BY <2>1, <3>1, <3>2, TotalPrima DEF Total
    <3> QED
      BY <2>1, <3>2, <3>3, <3>4, Monta
  <2>6. NoDescargado'
    BY <2>1 DEF Inv, DescargaInv, NoDescargado, Vieja
  <2>7. Antes'
    BY <2>1, <2>5 DEF Inv, DescargaInv, Antes
  <2>8. Durante' /\ Despues'
    BY <2>1 DEF Durante, Despues
  <2> QED
    BY <2>2, <2>3, <2>4, <2>6, <2>7, <2>8 DEF Inv, DescargaInv
<1>2. CASE Recibe
  <2>1. /\ cliente \in {"primera", "resto"}
        /\ UNCHANGED <<opcion, recurso, cliente, hilo, servidor, posBuffer, descarga, descargable, corta, vencio,
                       deServidor, posicionBuffer, bytesFaltantes, caidos>>
    BY <1>2 DEF Recibe, disco, vHilo, vServidor
  <2>2. TiposH'
    BY <2>1 DEF Inv, TiposH
  <2>3. CuentaInv'
    BY <2>1, CuentaOtros
  <2>4. OrdenInv'
    BY <2>1 DEF Inv, OrdenInv
  <2>5. NoDescargado'
    BY <2>1 DEF Inv, DescargaInv, NoDescargado, Vieja
  <2>6. Antes'
    <3>1. Flujo(0) => Flujo(0)'
      BY <1>2, FlujoRecibe
    <3> QED
      BY <2>1, <3>1 DEF Inv, DescargaInv, Antes
  <2>7. Durante'
    <3>1. ASSUME cliente = "resto", descargable
          PROVE  /\ Bien'
                 /\ \E k \in 0 .. sizePostSplit, j \in Nat :
                      /\ k <= j /\ (k < sizePostSplit => corta')
                      /\ descarga' = Parcial(k, j) /\ posBuffer' = sizePostSplit + j - k
                      /\ Flujo(j + 1)'
      <4>1. Bien'
        BY <2>1, <3>1, Constancia DEF Inv, DescargaInv, Durante
      <4>2. PICK k \in 0 .. sizePostSplit, j \in Nat :
              /\ k <= j /\ (k < sizePostSplit => corta)
              /\ descarga = Parcial(k, j) /\ posBuffer = sizePostSplit + j - k
              /\ Flujo(j + 1)
        BY <3>1 DEF Inv, DescargaInv, Durante
      <4>3. Flujo(j + 1)'
        <5>1. j + 1 \in Nat
          OBVIOUS
        <5> QED
          BY <1>2, <4>2, <5>1, FlujoRecibe
      <4> QED
        BY <2>1, <4>1, <4>2, <4>3
    <3>2. \A x, y : Parcial(x, y)' = Parcial(x, y)
      BY DEF Parcial, sizePostSplit
    <3> QED
      BY <2>1, <3>1, <3>2 DEF Durante, sizePostSplit
  <2>8. Despues'
    BY <2>1 DEF Despues
  <2> QED
    BY <2>2, <2>3, <2>4, <2>5, <2>6, <2>7, <2>8 DEF Inv, DescargaInv
<1>3. CASE PrimeraLectura
  <2>1. /\ cliente = "primera" /\ cliente' \in {"resto", "fin"} /\ descargable' = (Sigue /\ DescargaPedida)
        /\ UNCHANGED <<opcion, recurso, hilo, servidor, deServidor, posicionBuffer, bytesFaltantes, caidos>>
    BY <1>3 DEF PrimeraLectura, vHilo, vServidor
  <2>2. descargable' \in BOOLEAN
    BY <2>1
  <2>3. TiposH' /\ OrdenInv'
    BY <2>1, <2>2 DEF Inv, TiposH, OrdenInv
  <2>4. CuentaInv'
    BY <2>1, CuentaOtros
  <2> QED
    BY <1>3, <2>3, <2>4, PrimeraLema DEF Inv
<1>4. CASE OtraLectura
  <2>1. /\ cliente = "resto" /\ cliente' \in {"resto", "fin"}
        /\ UNCHANGED <<opcion, recurso, descargable, hilo, servidor, deServidor, posicionBuffer, bytesFaltantes, caidos>>
    BY <1>4 DEF OtraLectura, vHilo, vServidor
  <2>2. TiposH' /\ OrdenInv'
    BY <2>1 DEF Inv, TiposH, OrdenInv
  <2>3. CuentaInv'
    BY <2>1, CuentaOtros
  <2> QED
    BY <1>4, <2>2, <2>3, OtraLema DEF Inv
<1> QED
  BY <1>1, <1>2, <1>3, <1>4 DEF Cliente

\* The balancer.
LEMMA PasoHilo == Inv /\ (Hilo \/ CaeBalanceador) => Inv'
<1> SUFFICES ASSUME Inv, Hilo \/ CaeBalanceador PROVE Inv'
  OBVIOUS
<1>1. UNCHANGED vCliente /\ UNCHANGED vServidor
  BY DEF Hilo, RelevaPedido, RelevaRespuesta, TerminaHilo, CaeBalanceador, vCliente
<1>2. UNCHANGED <<opcion, recurso, cliente, descargable, servidor, posicionBuffer, bytesFaltantes>>
  BY <1>1 DEF vCliente, vServidor
<1>3. caidos \subseteq caidos' /\ hilo \in {"pedido", "respuesta"} /\ hilo' \in {"pedido", "respuesta", "fin"}
  BY DEF Hilo, RelevaPedido, RelevaRespuesta, TerminaHilo, CaeBalanceador, vHilo
<1>4. caidos' = {} /\ hilo' = "fin" => servidor = "fin" /\ deServidor' = <<>>
  BY DEF Hilo, RelevaPedido, RelevaRespuesta, TerminaHilo, CaeBalanceador, vHilo, canales
<1>5. TiposH'
  BY <1>2, <1>3 DEF Inv, TiposH
<1>6. OrdenInv'
  BY <1>2, <1>3, <1>4 DEF Inv, OrdenInv
<1>7. CuentaInv'
  BY <1>2, CuentaOtros
<1>8. DescargaInv'
  <2>1. \A r \in Nat : cliente # "fin" /\ Flujo(r) => Flujo(r)'
    BY FlujoHilo
  <2> QED
    BY <1>1, <1>3, <2>1, DescargaOtros
<1> QED
  BY <1>5, <1>6, <1>7, <1>8 DEF Inv

\* The server.
LEMMA PasoServidor == Inv /\ (Servidor \/ CaeServidor) => Inv'
<1> SUFFICES ASSUME Inv, Servidor \/ CaeServidor PROVE Inv'
  OBVIOUS
<1>1. UNCHANGED vCliente /\ UNCHANGED hilo
  BY DEF Servidor, Lee, Responde, CuerpoArchivo, CuerpoError, CaeServidor, vHilo
<1>2. UNCHANGED <<opcion, recurso, cliente, descargable, hilo>>
  BY <1>1 DEF vCliente
<1>3. /\ caidos \subseteq caidos' /\ servidor \in {"lee", "responde", "cuerpo"}
      /\ servidor' \in {"lee", "responde", "cuerpo", "fin"}
  BY DEF Servidor, Lee, Responde, CuerpoArchivo, CuerpoError, CaeServidor, Escribe
<1>4. OrdenInv'
  <2>1. cliente # "inicio" /\ (caidos = {} => hilo # "fin")
    BY <1>3 DEF Inv, OrdenInv
  <2>2. caidos' = {} => caidos = {}
    BY <1>3
  <2> QED
    BY <1>2, <2>1, <2>2 DEF OrdenInv
<1>5. DescargaInv'
  <2>1. \A r \in Nat : cliente # "fin" /\ Flujo(r) => Flujo(r)'
    BY FlujoServidor
  <2> QED
    BY <1>1, <1>3, <2>1, DescargaOtros
<1>6. posicionBuffer \in Nat /\ bytesFaltantes \in Int /\ tamanoArchivo \in Nat /\ tamanoArchivo' = tamanoArchivo
      /\ Bien' = Bien
  BY <1>2, Constancia, TamanoTipo DEF Inv, TiposH
<1>7. posicionBuffer' \in Nat /\ bytesFaltantes' \in Int /\ CuentaInv'
  <2>1. CASE \E n \in 1 .. BUFFER_SIZE : Lee(n)
    <3>1. UNCHANGED <<posicionBuffer, bytesFaltantes>> /\ servidor = "lee" /\ servidor' \in {"lee", "responde"}
      BY <2>1 DEF Lee
    <3> QED
      BY <1>6, <3>1 DEF Inv, CuentaInv
  <2>2. CASE Responde
    <3>1. /\ UNCHANGED posicionBuffer /\ bytesFaltantes' = tamanoArchivo /\ servidor = "responde"
          /\ servidor' \in {"cuerpo", "fin"} /\ posicionBuffer = 0
      BY <2>2 DEF Responde, Escribe, Inv, CuentaInv
    <3> QED
      BY <1>6, <3>1 DEF CuentaInv
  <2>3. CASE CuerpoError
    <3>1. UNCHANGED <<posicionBuffer, bytesFaltantes>> /\ ~Bien /\ servidor' \in {"cuerpo", "fin"}
      BY <2>3 DEF CuerpoError, Escribe, Bien
    <3> QED
      BY <1>6, <3>1 DEF CuentaInv
  <2>4. CASE CaeServidor
    <3>1. UNCHANGED <<posicionBuffer, bytesFaltantes>> /\ servidor' = "fin"
      BY <2>4 DEF CaeServidor
    <3> QED
      BY <1>6, <3>1 DEF CuentaInv
  <2>5. CASE CuerpoArchivo
    <3> DEFINE n == Min({bytesPorLeer(bytesFaltantes', posicionBuffer), tamanoArchivo - posicionBuffer})
    <3>1. /\ bytesFaltantes' = bytesFaltantes - BUFFER_SIZE
          /\ IF n > 0 THEN servidor' \in {"cuerpo", "fin"} /\ posicionBuffer' = posicionBuffer + n
                      ELSE servidor' = "fin" /\ UNCHANGED posicionBuffer
      BY <2>5 DEF CuerpoArchivo, Escribe
    <3>2. /\ n \in Int /\ posicionBuffer + n <= tamanoArchivo
          /\ n > 0 => posicionBuffer + n + bytesFaltantes' = tamanoArchivo
                        \/ (posicionBuffer + n = tamanoArchivo /\ bytesFaltantes' <= 0)
      BY <2>5, LoQueLee
    <3> HIDE DEF n
    <3>3. bytesFaltantes' \in Int
      BY <1>6, <3>1, PeticionAssumption
    <3> QED
      BY <1>6, <3>1, <3>2, <3>3 DEF CuentaInv
  <2> QED
    BY <2>1, <2>2, <2>3, <2>4, <2>5 DEF Servidor
<1>8. TiposH'
  BY <1>2, <1>3, <1>7 DEF Inv, TiposH
<1> QED
  BY <1>4, <1>5, <1>7, <1>8 DEF Inv

\* At the start nothing is on its way.
LEMMA Inicial == Init => Inv
<1> SUFFICES ASSUME Init PROVE Inv
  OBVIOUS
<1>1. TiposH /\ CuentaInv /\ OrdenInv
  <2>1. TiposH
    <3>1. /\ opcion \in Opciones /\ recurso \in Recursos /\ cliente = "inicio" /\ descargable = FALSE
          /\ hilo = "espera" /\ servidor = "espera" /\ posicionBuffer = 0 /\ bytesFaltantes = 0
      BY DEF Init
    <3>2. descargable \in BOOLEAN
      BY <3>1
    <3>3. posicionBuffer \in Nat /\ bytesFaltantes \in Int
      BY <3>1
    <3> QED
      BY <3>1, <3>2, <3>3 DEF TiposH
  <2>2. CuentaInv /\ OrdenInv
    BY DEF Init, CuentaInv, OrdenInv
  <2> QED
    BY <2>1, <2>2
<1>2. Flujo(0)
  <2>1. Tramo(0, 0) = <<>>
    BY Vacio
  <2>2. 0 + 0 = 0 /\ 0 + 0 + 0 = 0
    OBVIOUS
  <2>3. EnCamino(0, 0, 0, 0)
    BY <2>1, <2>2 DEF Init, EnCamino
  <2>4. tamanoArchivo \in Nat
    BY <1>1, TamanoTipo
  <2>5. Total(0 + 0 + 0 + 0)
    BY <2>4 DEF Init, Total
  <2> QED
    BY <2>3, <2>5, PeticionAssumption DEF Flujo
<1>3. NoDescargado /\ Antes /\ Durante /\ Despues
  BY <1>2 DEF Init, NoDescargado, Antes, Durante, Despues
<1> QED
  BY <1>1, <1>3 DEF Inv, DescargaInv

\* The invariant speaks of the variables alone: a step that changes none keeps it.
LEMMA Quieto == Inv /\ UNCHANGED vars => Inv'
<1> SUFFICES ASSUME Inv, UNCHANGED vars PROVE Inv'
  OBVIOUS
<1>1. UNCHANGED vCliente /\ UNCHANGED <<hilo, servidor, posicionBuffer, bytesFaltantes, aCliente, deServidor, caidos>>
  BY DEF vars, vHilo, vServidor, canales
<1>2. UNCHANGED <<opcion, recurso, cliente, recibido, descargable>>
  BY <1>1 DEF vCliente
<1>3. TiposH' /\ OrdenInv'
  BY <1>1, <1>2 DEF Inv, TiposH, OrdenInv
<1>4. CuentaInv'
  BY <1>1, <1>2, CuentaOtros
<1>5. ASSUME NEW r \in Nat, Flujo(r) PROVE Flujo(r)'
  <2>1. PICK a, b, c \in Nat : a <= BUFFER_SIZE /\ EnCamino(r, a, b, c) /\ Total(r + a + b + c)
    BY <1>5 DEF Flujo
  <2>2. recibido' = Tramo(r, a) /\ aCliente' = Tramo(r + a, b) /\ deServidor' = Tramo(r + a + b, c)
    BY <1>1, <1>2, <2>1 DEF EnCamino
  <2>3. Total(r + a + b + c)'
    BY <1>1, <1>2, <2>1, TotalPrima DEF Total
  <2> QED
    BY <1>2, <2>1, <2>2, <2>3, Monta
<1>6. DescargaInv'
  BY <1>1, <1>5, DescargaOtros
<1> QED
  BY <1>3, <1>4, <1>6 DEF Inv

\* The pieces on their way are always a run of the answer.
THEOREM Invariante == Spec => []Inv
<1>1. Inv /\ [Next]_vars => Inv'
  BY PasoCliente, PasoHilo, PasoServidor, Quieto DEF Next
<1> QED
  BY Inicial, <1>1, PTL DEF Spec

\* The pieces of the file, what lacked of the first buffer, and the rest.
LEMMA ParcialEsFiel ==
    ASSUME NEW k \in 0 .. sizePostSplit, NEW j \in Nat, k <= j
    PROVE  Parcial(k, j) = Trozos(0, k) \o [i \in 1 .. sizePostSplit - k |-> Basura] \o Trozos(k, j - k)
<1> DEFINE S == Nat \cup {Basura}
           A == Trozos(0, k)  B == [i \in 1 .. sizePostSplit - k |-> Basura]  C == Trozos(k, j - k)
           m == sizePostSplit - k  n == j - k  D == A \o B  E == D \o C  F == Parcial(k, j)
<1>0. /\ sizePostSplit \in Nat /\ k \in Nat /\ m \in Nat /\ n \in Nat
      /\ k + m = sizePostSplit /\ k + m + n = sizePostSplit + j - k
  BY PeticionAssumption DEF sizePostSplit
<1>1. A \in [1 .. k -> S] /\ \A i \in 1 .. k : A[i] = i
  BY <1>0 DEF Trozos
<1>2. B \in [1 .. m -> S] /\ \A i \in 1 .. m : B[i] = Basura
  OBVIOUS
<1>3. C \in [1 .. n -> S] /\ \A i \in 1 .. n : C[i] = k + i
  BY <1>0 DEF Trozos
<1>4. /\ F \in [1 .. k + m + n -> S]
      /\ \A i \in 1 .. k + m + n :
            F[i] = IF i <= k THEN i ELSE IF i <= sizePostSplit THEN Basura ELSE i - sizePostSplit + k
  <2>1. F = [i \in 1 .. k + m + n |->
               IF i <= k THEN i ELSE IF i <= sizePostSplit THEN Basura ELSE i - sizePostSplit + k]
    BY <1>0 DEF Parcial
  <2>2. \A i \in 1 .. k + m + n :
          (IF i <= k THEN i ELSE IF i <= sizePostSplit THEN Basura ELSE i - sizePostSplit + k) \in S
    BY <1>0
  <2> HIDE DEF F, S, m, n
  <2> QED
    BY <2>1, <2>2
<1> HIDE DEF A, B, C, F, S, m, n
<1>5. A \in Seq(S) /\ Len(A) = k
  <2>1. A \in Seq(S)
    BY <1>0, <1>1, SeqDef
  <2> QED
    BY <1>0, <1>1, <2>1, LenProperties
<1>6. B \in Seq(S) /\ Len(B) = m
  <2>1. B \in Seq(S)
    BY <1>0, <1>2, SeqDef
  <2> QED
    BY <1>0, <1>2, <2>1, LenProperties
<1>7. C \in Seq(S) /\ Len(C) = n
  <2>1. C \in Seq(S)
    BY <1>0, <1>3, SeqDef
  <2> QED
    BY <1>0, <1>3, <2>1, LenProperties
<1>8. F \in Seq(S) /\ Len(F) = k + m + n
  <2>1. k + m + n \in Nat
    BY <1>0
  <2>2. F \in Seq(S)
    BY <1>4, <2>1, SeqDef
  <2> QED
    BY <1>4, <2>1, <2>2, LenProperties
<1>9. D \in Seq(S) /\ Len(D) = k + m /\ \A i \in 1 .. k + m : D[i] = IF i <= k THEN A[i] ELSE B[i - k]
  BY <1>5, <1>6, ConcatProperties
<1> HIDE DEF D
<1>10. /\ E \in Seq(S) /\ Len(E) = k + m + n
       /\ \A i \in 1 .. k + m + n : E[i] = IF i <= k + m THEN D[i] ELSE C[i - (k + m)]
  <2>1. /\ E \in Seq(S) /\ Len(E) = Len(D) + Len(C)
        /\ \A i \in 1 .. Len(D) + Len(C) : E[i] = IF i <= Len(D) THEN D[i] ELSE C[i - Len(D)]
    BY <1>7, <1>9, ConcatProperties
  <2> HIDE DEF E
  <2>2. Len(D) = k + m /\ Len(C) = n
    BY <1>7, <1>9
  <2> QED
    BY <2>1, <2>2
<1> HIDE DEF E
<1>11. ASSUME NEW i \in 1 .. k + m + n PROVE F[i] = E[i]
  <2>1. CASE i <= k
    <3>1. i \in 1 .. k /\ i \in 1 .. k + m /\ i <= k + m
      BY <1>0, <2>1
    <3> QED
      BY <1>1, <1>4, <1>9, <1>10, <2>1, <3>1
  <2>2. CASE i > k /\ i <= k + m
    <3>1. i - k \in 1 .. m /\ i \in 1 .. k + m /\ ~(i <= k) /\ i <= sizePostSplit
      BY <1>0, <2>2
    <3>2. F[i] = Basura
      BY <1>4, <3>1
    <3>3. E[i] = B[i - k]
      BY <1>9, <1>10, <2>2, <3>1
    <3> QED
      BY <1>2, <3>1, <3>2, <3>3
  <2>3. CASE i > k + m
    <3>1. i - (k + m) \in 1 .. n /\ ~(i <= k) /\ ~(i <= sizePostSplit) /\ ~(i <= k + m)
      BY <1>0, <2>3
    <3>2. F[i] = i - sizePostSplit + k
      BY <1>4, <3>1
    <3>3. E[i] = k + (i - (k + m))
      BY <1>3, <1>10, <3>1
    <3>4. i - sizePostSplit + k = k + (i - (k + m))
      BY <1>0
    <3> QED
      BY <3>2, <3>3, <3>4
  <2> QED
    BY <1>0, <2>1, <2>2, <2>3
<1>12. F = E
  BY <1>8, <1>10, <1>11, SeqEqual
<1>13. F = D \o C
  BY <1>12 DEF E
<1>14. F = (A \o B) \o C
  BY <1>13 DEF D
<1> QED
  BY <1>14 DEF A, B, C, F, m, n

\* What -download leaves is the file, or its beginning if somebody went down or a
\* read ran out of time, and there is something else in it only where the first
\* read did not fill the buffer (WebCliente.cpp:205-291, Balanceador.cpp:245-259,
\* FileSystem.cpp:267-300).
THEOREM DescargaSiempre == Spec => []DescargaFiel
<1>1. Inv => DescargaFiel
  <2> SUFFICES ASSUME Inv PROVE DescargaFiel
    OBVIOUS
  <2>1. CASE ~descargable
    BY <2>1 DEF Inv, DescargaInv, NoDescargado, DescargaFiel
  <2>2. ASSUME descargable, cliente = "fin"
        PROVE  \E k \in 0 .. sizePostSplit, j \in 0 .. tamanoArchivo :
                 /\ descarga = Trozos(0, k) \o [i \in 1 .. sizePostSplit - k |-> Basura] \o Trozos(k, j - k)
                 /\ k <= j /\ (k < sizePostSplit => corta)
                 /\ j < tamanoArchivo => vencio \/ caidos # {}
    <3>1. PICK k \in 0 .. sizePostSplit, j \in 0 .. tamanoArchivo :
            /\ k <= j /\ (k < sizePostSplit => corta)
            /\ descarga = Parcial(k, j)
            /\ j < tamanoArchivo => vencio \/ caidos # {}
      BY <2>2 DEF Inv, DescargaInv, Despues
    <3>2. j \in Nat
      OBVIOUS
    <3>3. descarga = Trozos(0, k) \o [i \in 1 .. sizePostSplit - k |-> Basura] \o Trozos(k, j - k)
      BY <3>1, <3>2, ParcialEsFiel
    <3> QED
      BY <3>1, <3>3
  <2> QED
    BY <2>1, <2>2 DEF DescargaFiel
<1> QED
  BY <1>1, Invariante, PTL
====================================================================================
