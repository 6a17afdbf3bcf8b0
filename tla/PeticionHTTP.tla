------------------------------ MODULE PeticionHTTP ------------------------------
(*****************************************************************************)
(* A request from end to end: WebCliente asks, a thread of the balancer       *)
(* (hilo_Cliente, once it has a server) relays, a process of WebServidor      *)
(* answers with InterpreteHTTP and FileSystem, and the client prints the      *)
(* answer or writes it to a file.                                             *)
(*                                                                            *)
(* What goes through the sockets is told apart by pieces: the request is its  *)
(* text and the two halves of the blank line that ends it; the answer is its  *)
(* header and the pieces of its body, in order; a buffer has BUFFER_SIZE      *)
(* pieces.  A read gives any part of what has arrived.  The client gives up a *)
(* read after five seconds, and nobody else does.  The balancer may be closed *)
(* with Ctrl-C and the server may go down at any point.                       *)
(*****************************************************************************)
EXTENDS Integers, Sequences, FiniteSetsExt

CONSTANTS
    BUFFER_SIZE,
    Recursos,       \* what may be asked for
    raiz,           \* "/"
    HOME_HTML,      \* what is served instead
    archivo,        \* of each resource: has its name a point, is its directory there, has it an
                    \* entry in it, does it open for reading and writing, the type MIMETYPES gives
                    \* what follows the first point ("" if none), its size
    Basura          \* what a buffer nobody has written to may hold, other than a request

ASSUME PeticionAssumption ==
    /\ BUFFER_SIZE \in Nat /\ BUFFER_SIZE > 2
    /\ raiz \in Recursos /\ HOME_HTML \in Recursos
    /\ archivo \in [Recursos -> [punto: BOOLEAN, directorio: BOOLEAN, entrada: BOOLEAN, abre: BOOLEAN,
                                 MIME: STRING, tamano: Nat]]

Opciones == {"ninguna", "-headers", "-download", "-testBADR", "-testHTML"}

VARIABLES
    opcion, recurso,    \* how the client was called
    cliente,            \* "inicio", "primera", "resto", "fin"
    recibido,           \* what the read under way of the client has so far
    posBuffer,          \* of the client
    carpeta, descarga,  \* the directory descargas, the file of that name in it
    descargable,        \* of the client, once it has an answer
    hilo,               \* of the balancer: "espera", "pedido", "respuesta", "fin"
    httpRequest,        \* its buffer
    servidor,           \* "espera", "lee", "responde", "cuerpo", "fin"
    bufferServidor, peticion,
    posicionBuffer, bytesFaltantes, errorOcurrido,      \* of the server
    aBalanceador, aServidor, deServidor, aCliente,      \* what is in the sockets
    vencio,             \* a read of the client ran out of time
    corta,              \* its first read did not fill the buffer
    partido,            \* a read of the request did not bring it whole
    caidos              \* of "balanceador" and "servidor", those that went down

disco == <<carpeta, descarga>>
vCliente == <<opcion, recurso, cliente, recibido, posBuffer, disco, descargable, vencio, corta>>
vHilo == <<hilo, httpRequest>>
vServidor == <<servidor, bufferServidor, peticion, posicionBuffer, bytesFaltantes, errorOcurrido>>
canales == <<aBalanceador, aServidor, deServidor, aCliente>>
vars == <<vCliente, vHilo, vServidor, canales, partido, caidos>>

-----------------------------------------------------------------------------
(* Texts.                                                                   *)

\* What WebCliente::realizarPeticion writes, all at once.
Pedido == <<"pedido", "crlf1", "crlf2">>

\* string::find("\r\n\r\n"), and a buffer taken as a string: up to its first zero.
TieneFinal(s) == \E i \in 1 .. Len(s) - 1 : s[i] = "crlf1" /\ s[i + 1] = "crlf2"
Texto(b) ==
    LET ceros == {i \in DOMAIN b : b[i] = "cero"}
    IN  IF ceros = {} THEN b ELSE SubSeq(b, 1, Min(ceros) - 1)

\* A read of n pieces into a buffer leaves what was behind them.
Sobre(b, s, n) == [i \in DOMAIN b |-> IF i <= n THEN s[i] ELSE b[i]]
Resto(s, n) == SubSeq(s, n + 1, Len(s))

\* Buffers of the stack, as they are found.
Limpio == [i \in DOMAIN Pedido |-> "cero"]
Sucio == [i \in DOMAIN Pedido |-> Basura]

\* A file that an earlier call of the client left.
Vieja == [i \in 1 .. 4 * BUFFER_SIZE |-> Basura]

-----------------------------------------------------------------------------
(* InterpreteHTTP.                                                          *)

\* The request line of each option, as main of WebCliente sets it.
metodo == CASE opcion = "-headers" -> "HEAD" [] opcion = "-testBADR" -> "" [] OTHER -> "GET"
htmlver == CASE opcion = "-testHTML" -> "2.0" [] opcion = "-testBADR" -> "" [] OTHER -> "1.1"

\* The request line, split by its spaces.
request_separado == <<metodo, recurso, htmlver>>

\* setRutaRecurso: the file the request is about.
rutaFisica == archivo[IF recurso = raiz THEN HOME_HTML ELSE recurso]

\* FileSystem: a last part without a point is that of a directory, and then there
\* is no name of a file to look for among the entries.
esDirectorio == ~rutaFisica.punto
existeDirectorio == rutaFisica.directorio
existeArchivo == existeDirectorio /\ ~esDirectorio /\ rutaFisica.entrada

\* getInformacionArchivo: what does not open has no size.
tamanoArchivo == IF rutaFisica.abre THEN rutaFisica.tamano ELSE 0

\* extensionArchivo and setRespuestaMIME.
setRespuestaMIME == rutaFisica.MIME # ""

\* construirRespuesta and procesarRequest.  An empty part of the request line is
\* found before anything else; the header host is always there.
respuesta_estadoCodigo ==
    CASE \E i \in DOMAIN request_separado : request_separado[i] = "" -> 400
      [] htmlver \notin {"1.0", "1.1"} -> IF htmlver = "3.0" THEN 400 ELSE 505
      [] ~existeArchivo -> 404
      [] ~setRespuestaMIME -> 501
      [] OTHER -> 200

\* recuperarHeader: only a 200 says of what type it is.
recuperarHeader ==
    [estado |-> respuesta_estadoCodigo,
     contentType |-> IF respuesta_estadoCodigo = 200 THEN rutaFisica.MIME ELSE ""]

\* FileSystem::leerArchivo: how much it reads from a position.  What is left is
\* counted by what was asked for, not by what was read.
\* Mutant: the last part is what is left once it has been discounted.
bytesPorLeerDescontado(faltan, pos) == IF faltan > 0 THEN BUFFER_SIZE ELSE faltan
bytesPorLeer(faltan, pos) == IF faltan > 0 THEN BUFFER_SIZE ELSE tamanoArchivo - pos

\* The pieces of the file from a position.
Trozos(pos, n) == [i \in 1 .. n |-> pos + i]

-----------------------------------------------------------------------------
(* Start.                                                                   *)

Init ==
    /\ opcion \in Opciones /\ recurso \in Recursos
    /\ cliente = "inicio" /\ recibido = <<>> /\ posBuffer = 0 /\ descargable = FALSE
    \* A download of before may be there, longer than this one; only -download looks.
    /\ \/ carpeta = FALSE /\ descarga = <<>>
       \/ carpeta = TRUE /\ opcion = "-download" /\ descarga \in {<<>>, Vieja}
    /\ hilo = "espera" /\ servidor = "espera"
    \* The stack of a thread is that of one that ended before, its request there.
    /\ httpRequest \in {Limpio, Sucio, Pedido}
    /\ bufferServidor \in {Limpio, Sucio} /\ peticion = <<>>
    /\ posicionBuffer = 0 /\ bytesFaltantes = 0 /\ errorOcurrido = FALSE
    /\ aBalanceador = <<>> /\ aServidor = <<>> /\ deServidor = <<>> /\ aCliente = <<>>
    /\ vencio = FALSE /\ corta = FALSE /\ partido = FALSE /\ caidos = {}

\* The constructor of WebCliente and realizarPeticion.  The balancer has accepted
\* the client and connected with the server, that has accepted too.
realizarPeticion ==
    /\ cliente = "inicio" /\ caidos = {}
    /\ cliente' = "primera" /\ aBalanceador' = Pedido
    /\ hilo' = "pedido" /\ servidor' = "lee"
    /\ UNCHANGED <<opcion, recurso, recibido, posBuffer, disco, descargable, vencio, corta, httpRequest, bufferServidor,
                   peticion, posicionBuffer, bytesFaltantes, errorOcurrido, aServidor, deServidor, aCliente,
                   partido, caidos>>

-----------------------------------------------------------------------------
(* The thread of the balancer.                                              *)

\* The loop of the request: what is read is passed on, and the end is looked for
\* in the buffer alone.
RelevaPedido(n) ==
    /\ hilo = "pedido" /\ n \in 1 .. Len(aBalanceador)
    /\ httpRequest' = Sobre(httpRequest, aBalanceador, n)
    /\ aServidor' = aServidor \o SubSeq(aBalanceador, 1, n)
    /\ aBalanceador' = Resto(aBalanceador, n)
    /\ hilo' = IF TieneFinal(Texto(httpRequest')) THEN "respuesta" ELSE "pedido"
    /\ partido' = (partido \/ n < Len(Pedido))
    /\ UNCHANGED <<vCliente, vServidor, deServidor, aCliente, caidos>>

\* The loop of the answer.  If the client is gone the write fails, and the loop
\* goes on (controladorBrokenPipe).
RelevaRespuesta(n) ==
    /\ hilo = "respuesta" /\ n \in 1 .. Len(deServidor) /\ n <= BUFFER_SIZE
    /\ \/ cliente = "fin" /\ UNCHANGED aCliente
       \/ /\ cliente # "fin" /\ Len(aCliente) + n <= BUFFER_SIZE
          /\ aCliente' = aCliente \o SubSeq(deServidor, 1, n)
    /\ deServidor' = Resto(deServidor, n)
    /\ UNCHANGED <<vCliente, vHilo, vServidor, aBalanceador, aServidor, partido, caidos>>

\* The server has closed: the thread closes both sockets.
TerminaHilo ==
    /\ hilo = "respuesta" /\ servidor = "fin" /\ deServidor = <<>>
    /\ hilo' = "fin"
    /\ UNCHANGED <<vCliente, httpRequest, vServidor, canales, partido, caidos>>

\* Ctrl-C in the balancer.
CaeBalanceador ==
    /\ hilo \in {"pedido", "respuesta"} /\ hilo' = "fin"
    /\ caidos' = caidos \cup {"balanceador"}
    /\ aBalanceador' = <<>> /\ deServidor' = <<>>
    /\ UNCHANGED <<vCliente, httpRequest, vServidor, aServidor, aCliente, partido>>

-----------------------------------------------------------------------------
(* The process of the server.                                               *)

\* Socket::leer into a string and the loop that looks for the end in all that
\* has been read.
Lee(n) ==
    /\ servidor = "lee" /\ n \in 1 .. Len(aServidor)
    /\ bufferServidor' = Sobre(bufferServidor, aServidor, n)
    /\ peticion' = peticion \o Texto(bufferServidor')
    /\ aServidor' = Resto(aServidor, n)
    /\ servidor' = IF TieneFinal(peticion') THEN "responde" ELSE "lee"
    /\ partido' = (partido \/ n < Len(Pedido))
    /\ UNCHANGED <<vCliente, vHilo, posicionBuffer, bytesFaltantes, errorOcurrido, aBalanceador, deServidor,
                   aCliente, caidos>>

\* A write to a balancer that is gone ends the process (SIGPIPE).
Escribe(s, sigue) ==
    \/ /\ hilo # "fin" /\ Len(deServidor) + Len(s) <= BUFFER_SIZE
       /\ deServidor' = deServidor \o s /\ servidor' = sigue
    \/ hilo = "fin" /\ servidor' = "fin" /\ UNCHANGED deServidor

\* construirRespuesta, with FileSystem::setRuta, and the header.
Responde ==
    /\ servidor = "responde"
    /\ bytesFaltantes' = tamanoArchivo
    /\ Escribe(<<recuperarHeader>>, "cuerpo")
    /\ UNCHANGED <<vCliente, vHilo, bufferServidor, peticion, posicionBuffer, errorOcurrido, aBalanceador, aServidor,
                   aCliente, partido, caidos>>

\* recuperarBody of a file: HEAD gets it too.
CuerpoArchivo ==
    /\ servidor = "cuerpo" /\ respuesta_estadoCodigo = 200
    /\ bytesFaltantes' = bytesFaltantes - BUFFER_SIZE
    /\ \E n \in {Min({bytesPorLeer(bytesFaltantes', posicionBuffer), tamanoArchivo - posicionBuffer})} :
        IF n > 0
        THEN /\ Escribe(Trozos(posicionBuffer, n), "cuerpo")
             /\ posicionBuffer' = posicionBuffer + n
        ELSE servidor' = "fin" /\ UNCHANGED <<deServidor, posicionBuffer>>
    /\ UNCHANGED <<vCliente, vHilo, bufferServidor, peticion, errorOcurrido, aBalanceador, aServidor, aCliente,
                   partido, caidos>>

\* recuperarBody of anything else: a page, once.
\* Mutant: the process waits for the other to close.
CuerpoSinCerrar ==
    /\ servidor = "cuerpo" /\ respuesta_estadoCodigo # 200
    /\ ~errorOcurrido /\ Escribe(<<"pagina">>, "cuerpo")
    /\ errorOcurrido' = TRUE
    /\ UNCHANGED <<vCliente, vHilo, bufferServidor, peticion, posicionBuffer, bytesFaltantes, aBalanceador, aServidor,
                   aCliente, partido, caidos>>
CuerpoError ==
    /\ servidor = "cuerpo" /\ respuesta_estadoCodigo # 200
    /\ IF errorOcurrido THEN servidor' = "fin" /\ UNCHANGED deServidor
                        ELSE Escribe(<<"pagina">>, "cuerpo")
    /\ errorOcurrido' = TRUE
    /\ UNCHANGED <<vCliente, vHilo, bufferServidor, peticion, posicionBuffer, bytesFaltantes, aBalanceador, aServidor,
                   aCliente, partido, caidos>>

CaeServidor ==
    /\ servidor \in {"lee", "responde", "cuerpo"} /\ servidor' = "fin"
    /\ caidos' = caidos \cup {"servidor"}
    /\ UNCHANGED <<vCliente, vHilo, bufferServidor, peticion, posicionBuffer, bytesFaltantes, errorOcurrido, canales,
                   partido>>

-----------------------------------------------------------------------------
(* The client.                                                              *)

\* recv with MSG_WAITALL goes on until the buffer is full.
Recibe ==
    /\ cliente \in {"primera", "resto"} /\ aCliente # <<>> /\ Len(recibido) < BUFFER_SIZE
    /\ recibido' = Append(recibido, Head(aCliente)) /\ aCliente' = Tail(aCliente)
    /\ UNCHANGED <<opcion, recurso, cliente, posBuffer, disco, descargable, vencio, corta, vHilo, vServidor, aBalanceador,
                   aServidor, deServidor, partido, caidos>>

\* It returns: full, at the end of the answer, or because it took too long.
Lleno == Len(recibido) = BUFFER_SIZE
Final == hilo = "fin" /\ aCliente = <<>>
Vuelve == /\ vencio' = (vencio \/ ~(Lleno \/ Final))
          /\ recibido' = <<>>

\* FileSystem::escribirArchivo: the pieces at a position.
escribirArchivo(f, s, pos) ==
    [i \in 1 .. Max({Len(f), pos + Len(s)}) |-> IF i - pos \in DOMAIN s THEN s[i - pos] ELSE f[i]]

\* Utilidades::extraerValorHeader: what the header says of the type.
mimetipo == Head(recibido).contentType

DescargaPedida == opcion = "-download" /\ Head(recibido).estado = 200
imprimible == mimetipo \in {"text/html", "text/javascript"} \/ Head(recibido).estado # 200

\* crearDirectorios makes the directory if it is not there, and crearArchivo leaves
\* a file of that name empty.
crearDirectorios == carpeta' = TRUE
crearArchivo == <<>>

\* splitRespuesta takes it that the buffer is full: behind what was read there is
\* what the stack had, and it is written too.
sizePostSplit == BUFFER_SIZE - 1
TrasHeader == [i \in 1 .. sizePostSplit |-> IF i + 1 <= Len(recibido) THEN recibido[i + 1] ELSE Basura]

\* After the first read: with nothing in it the split breaks off, as do -headers
\* and what is neither printed nor downloaded.
Sigue == recibido # <<>> /\ opcion # "-headers" /\ (opcion = "-download" \/ imprimible)

PrimeraLectura ==
    /\ cliente = "primera" /\ Vuelve
    /\ corta' = (Len(recibido) < BUFFER_SIZE)
    /\ cliente' = IF Sigue THEN "resto" ELSE "fin"
    /\ descargable' = (Sigue /\ DescargaPedida)
    /\ IF descargable'
       THEN /\ crearDirectorios
            /\ descarga' = escribirArchivo(crearArchivo, TrasHeader, 0)
            /\ posBuffer' = sizePostSplit
       ELSE UNCHANGED <<disco, posBuffer>>
    /\ aCliente' = IF Sigue THEN aCliente ELSE <<>>
    /\ UNCHANGED <<opcion, recurso, vHilo, vServidor, aBalanceador, aServidor, deServidor, partido, caidos>>

\* The loop of the rest, that ends with a read that brings nothing.
OtraLectura ==
    /\ cliente = "resto" /\ Vuelve
    /\ IF recibido = <<>>
       THEN cliente' = "fin" /\ aCliente' = <<>> /\ UNCHANGED <<descarga, posBuffer>>
       ELSE /\ posBuffer' = posBuffer + Len(recibido)
            /\ descarga' = IF descargable THEN escribirArchivo(descarga, recibido, posBuffer) ELSE descarga
            /\ UNCHANGED <<cliente, aCliente>>
    /\ UNCHANGED <<opcion, recurso, carpeta, descargable, corta, vHilo, vServidor, aBalanceador, aServidor, deServidor, partido, caidos>>

-----------------------------------------------------------------------------

Cliente == realizarPeticion \/ Recibe \/ PrimeraLectura \/ OtraLectura
Hilo == (\E n \in 1 .. BUFFER_SIZE : RelevaPedido(n) \/ RelevaRespuesta(n)) \/ TerminaHilo
Servidor == (\E n \in 1 .. BUFFER_SIZE : Lee(n)) \/ Responde \/ CuerpoArchivo \/ CuerpoError

Next == Cliente \/ Hilo \/ Servidor \/ CaeBalanceador \/ CaeServidor

\* Each program runs, and the kernel wakes a read that has data or has run out
\* of time.
Spec == Init /\ [][Next]_vars
FairSpec == Spec /\ WF_vars(Cliente) /\ WF_vars(Hilo) /\ WF_vars(Servidor)

-----------------------------------------------------------------------------
(* Properties.                                                              *)

\* What -download leaves is the file, piece by piece, through three programs that
\* cut it each in its own way and a count of what is left that does not look at
\* what was read, and nothing of what an earlier call had left there.  It is cut
\* short only if somebody went down or ran out of time, and it has something else
\* in it only if the first read did not fill the buffer: what lacked, between the
\* pieces that it brought and those that came later (WebCliente.cpp:212).  An
\* answer other than 200 leaves the file as it was (248).
DescargaFiel ==
    IF ~descargable THEN descarga \in {<<>>, Vieja}
    ELSE cliente = "fin" =>
        \E k \in 0 .. sizePostSplit, j \in 0 .. tamanoArchivo :
            /\ descarga = Trozos(0, k) \o [i \in 1 .. sizePostSplit - k |-> Basura] \o Trozos(k, j - k)
            /\ k <= j /\ (k < sizePostSplit => corta)
            /\ j < tamanoArchivo => vencio \/ caidos # {}

\* The end of the request has passed a reader by: the thread looks for it in its
\* buffer alone, where it also finds that of an older request, and the process
\* finds what its buffer had between two reads.
Perdido ==
    /\ partido
    /\ \/ hilo = "pedido" /\ aBalanceador = <<>>
       \/ hilo = "respuesta" /\ aBalanceador # <<>>
       \/ servidor = "lee" /\ aServidor = <<>> /\ aBalanceador = <<>>

\* Nobody is left waiting: the client never, whatever happens to the others, and
\* the thread and the process only if the request came in parts and its end was
\* lost in them, or if the balancer was closed before it had passed the request on
\* (Balanceador.cpp:245-259, WebServidor.cpp:232-240).
NadieSeQueda ==
    /\ cliente # "inicio" ~> cliente = "fin"
    /\ hilo = "pedido" ~> hilo = "fin" \/ Perdido
    /\ servidor = "lee" ~> servidor = "fin" \/ Perdido \/ "balanceador" \in caidos
================================================================================
