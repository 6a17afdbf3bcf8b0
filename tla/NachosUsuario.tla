------------------------------ MODULE NachosUsuario ------------------------------
(***************************************************************************)
(* A user program under NachOS: StartProcess and its address space         *)
(* (userprog/progtest.cc, addrspace.cc, bitmap.cc), the system calls it     *)
(* makes (userprog/exception.cc) and the table of open files they share     *)
(* (userprog/openfiletable.cc).  NachOS is built over UNIX files            *)
(* (FILESYS_STUB), so an open file is a descriptor of the NachOS process.   *)
(*                                                                          *)
(* One step is one system call of the one user program there is: StartProcess*)
(* is only called from main and never returns, and Fork and Exec are empty. *)
(* The program may make any calls in any order.  Names, buffers and bytes   *)
(* read or written are left out; whether a buffer lies in the program's     *)
(* memory is kept, and of a result its sign.  vivos, limpio, coincide and   *)
(* abiertos record what the program has been told; the code keeps nothing   *)
(* of the kind.                                                             *)
(***************************************************************************)
EXTENDS Integers, FiniteSets

CONSTANTS
    fileLimit,      \* entries of the table of open files (32 in the code)
    MaxFD,          \* bound: highest UNIX descriptor NachOS may be given
    PageSize, NumPhysPages, UserStackSize,
    Contados,       \* length of threadsOnPhyPage (32, for 1024 frames)
    Ejecutables,    \* NOFF headers: records [code, initData, uninitData]
    MaxLlamadas     \* bound: system calls a program makes

ASSUME UsuarioAssumption ==
    /\ fileLimit \in Nat /\ fileLimit > 3
    /\ MaxFD \in Nat /\ MaxFD > 3
    /\ PageSize \in Nat \ {0} /\ NumPhysPages \in Nat /\ UserStackSize \in Nat
    /\ Contados \in 0..NumPhysPages
    /\ Ejecutables \subseteq [code : Nat, initData : Nat, uninitData : Nat]
    /\ MaxLlamadas \in Nat

VARIABLES
    estado,         \* of the program: "arranque", "ejecuta", "terminado", "detenido", "aborta"
    r2,             \* the result of the last call: "bien", or a negative number, "error"
    llamadas,       \* system calls made
    usage,          \* OpenFilesTable::usage
    openFiles,      \* OpenFilesTable::openFiles
    openFilesMap,   \* OpenFilesTable::openFilesMap, the marked entries
    unix,           \* what each UNIX descriptor of NachOS is open on
    vivos,          \* by number of the call that gave it: each id the program has not
                    \* closed, its descriptor, and the calls of Close since
    limpio,         \* the program has only closed ids it had open
    coincide,       \* ... and has called nothing that hands out descriptors but Socket
    abiertos,       \* calls of Open
    programa,       \* the header of the executable
    pageTable,      \* frame of each page of the program
    memoryBitMap,   \* frames in use
    threadsOnPhyPage, \* users of each frame
    mainMemory      \* by physical address: <<"archivo", offset in the executable>> or "cero"

archivos == <<usage, openFiles, openFilesMap>>
registro == <<vivos, limpio, coincide, abiertos>>
espacio == <<programa, pageTable, memoryBitMap, threadsOnPhyPage, mainMemory>>
vars == <<estado, r2, llamadas, archivos, unix, registro, espacio>>

Consola == 0..2
NoFD == -1
SinEscribir == -2

-----------------------------------------------------------------------------
(* UNIX.                                                                    *)

Libres == {d \in 0..MaxFD : unix[d] = "libre"}

\* open(), socket() and accept(): -1, or the lowest free descriptor.
Nuevos == {NoFD} \cup {d \in Libres : \A x \in Libres : d <= x}
Abre(d, cosa) == IF d = NoFD THEN unix ELSE [unix EXCEPT ![d] = cosa]
Es(d, cosas) == d \in 0..MaxFD /\ unix[d] \in cosas

-----------------------------------------------------------------------------
(* The table of open files.                                                 *)

\* OpenFilesTable::Open(fd) followed by mas calls of addThread.  Outside the
\* table, BitMap::Mark asserts.
\* Mutant: the entry is written after the last one in use.
RegistraTarde(fd, mas) ==
    /\ openFiles' = [openFiles EXCEPT ![usage + mas] = fd]
    /\ openFilesMap' = openFilesMap \cup {usage}
    /\ usage' = usage + 1 + mas
\* Mutant: a failed call of UNIX gives back the place it took.
RegistraSinFallos(fd, mas) ==
    /\ openFiles' = [openFiles EXCEPT ![usage] = fd]
    /\ openFilesMap' = openFilesMap \cup {usage}
    /\ usage' = usage + (IF fd = NoFD THEN 0 ELSE 1 + mas)
Registra(fd, mas) ==
    /\ openFiles' = [openFiles EXCEPT ![usage] = fd]
    /\ openFilesMap' = openFilesMap \cup {usage}
    /\ usage' = usage + 1 + mas
Cabe == usage \in 0 .. fileLimit - 1

\* What getUnixHandle may return: an entry never written holds whatever the
\* memory held, and so does the memory around the table.
getUnixHandle(id) ==
    IF id \in 0 .. fileLimit - 1 /\ openFiles[id] # SinEscribir
    THEN {openFiles[id]} ELSE {NoFD} \cup 0..MaxFD

\* OpenFilesTable::delThread: the last one clears the table.
delThread ==
    /\ usage' = usage - 1
    /\ IF usage' = 0
       THEN openFiles' = [i \in 0 .. fileLimit - 1 |-> 0] /\ openFilesMap' = {}
       ELSE UNCHANGED <<openFiles, openFilesMap>>
-----------------------------------------------------------------------------
(* The address space.                                                       *)

divRoundUp(n, m) == (n + m - 1) \div m
Copiables(h) == h.code + h.initData
NumPages(h) == divRoundUp(Copiables(h) + h.uninitData + UserStackSize, PageSize)
Paginas == DOMAIN pageTable

\* BitMap::Find n times over a map whose marked bits are usados.
\* Mutant: the search goes on after the last bit found taken.
HallaSeguidos(usados, n) ==
    LET desde == Cardinality(usados)
    IN [i \in 0 .. n - 1 |-> IF i = 0 THEN desde ELSE (desde + i + 1) % NumPhysPages]
Halla(usados, n) ==
    LET libres == (0 .. NumPhysPages - 1) \ usados
    IN [i \in 0 .. n - 1 |->
            CHOOSE f \in libres : Cardinality({x \in libres : x < f}) = i]

\* StartProcess: the address space of the executable, its registers and its
\* page table in the machine, and Run.  A program that does not fit ends NachOS
\* in an ASSERT.  Each page reads one page of the file from the offset of its
\* frame; the file ends where the initialised data end.
StartProcess ==
    /\ estado = "arranque"
    /\ \E h \in Ejecutables :
         /\ programa' = h
         /\ IF NumPages(h) > NumPhysPages
            THEN estado' = "aborta" /\ UNCHANGED <<pageTable, memoryBitMap, threadsOnPhyPage, mainMemory>>
            ELSE LET n == NumPages(h)
                     tabla == Halla(memoryBitMap, n)
                     marcos == {tabla[i] : i \in 0 .. n - 1}
                     ceros == n * PageSize * tabla[0] .. n * PageSize * (tabla[0] + 1) - 1
                     copiados == {tabla[k] : k \in 0 .. divRoundUp(Copiables(h), PageSize) - 1}
                 IN /\ estado' = "ejecuta"
                    /\ pageTable' = tabla
                    /\ memoryBitMap' = memoryBitMap \cup marcos
                    /\ threadsOnPhyPage' = [f \in DOMAIN threadsOnPhyPage |->
                            threadsOnPhyPage[f] + (IF f \in marcos THEN 1 ELSE 0)]
                    /\ mainMemory' = [a \in DOMAIN mainMemory |->
                            IF a \div PageSize \in copiados /\ a < Copiables(h)
                            THEN <<"archivo", a>>
                            ELSE IF a \in ceros THEN <<"cero", 0>> ELSE mainMemory[a]]
    /\ UNCHANGED <<r2, llamadas, archivos, unix, registro>>

\* NachOS_Exit: ~AddrSpace gives back the frames nobody else counts, and the
\* thread finishes.
\* Mutant: the frames are never given back.
ExitSinLiberar ==
    /\ estado = "ejecuta"
    /\ estado' = "terminado"
    /\ llamadas' = llamadas + 1
    /\ threadsOnPhyPage' = [f \in DOMAIN threadsOnPhyPage |->
            threadsOnPhyPage[f] - (IF \E i \in Paginas : pageTable[i] = f THEN 1 ELSE 0)]
    /\ pageTable' = <<>>
    /\ UNCHANGED <<r2, archivos, unix, registro, programa, memoryBitMap, mainMemory>>
Exit ==
    /\ estado = "ejecuta"
    /\ estado' = "terminado"
    /\ llamadas' = llamadas + 1
    /\ threadsOnPhyPage' = [f \in DOMAIN threadsOnPhyPage |->
            threadsOnPhyPage[f] - (IF \E i \in Paginas : pageTable[i] = f THEN 1 ELSE 0)]
    /\ memoryBitMap' = memoryBitMap \
            {f \in DOMAIN threadsOnPhyPage :
                (\E i \in Paginas : pageTable[i] = f) /\ threadsOnPhyPage'[f] = 0}
    /\ pageTable' = <<>>
    /\ UNCHANGED <<r2, archivos, unix, registro, programa, mainMemory>>

-----------------------------------------------------------------------------
(* System calls that return.                                                *)

Llama == estado = "ejecuta" /\ llamadas < MaxLlamadas /\ llamadas' = llamadas + 1
Vuelve(res) == r2' = res /\ UNCHANGED <<estado, espacio>>
Signo(n) == IF n < 0 THEN "error" ELSE "bien"

\* The program is told id for the descriptor fd.  It may have been told the same
\* id before and not have closed it: it then has the id twice.
Entrega(id, fd, mas) ==
    /\ vivos' = [n \in DOMAIN vivos \cup {llamadas + 1} |->
                    IF n = llamadas + 1
                    THEN [id |-> id, fd |-> fd, peso |-> 1 + mas, cierres |-> 0]
                    ELSE vivos[n]]
    /\ abiertos' = abiertos + mas
    /\ coincide' = (coincide /\ mas = 0 /\ fd # NoFD)
    /\ UNCHANGED limpio

\* The program is done with one of the times it was told id, if it was.
Veces(id) == {n \in DOMAIN vivos : vivos[n].id = id}
Olvida(id) ==
    /\ \E una \in (IF Veces(id) = {} THEN {0} ELSE Veces(id)) :
         vivos' = [n \in DOMAIN vivos \ {una} |-> [vivos[n] EXCEPT !.cierres = @ + 1]]
    /\ limpio' = (limpio /\ Veces(id) # {})
    /\ coincide' = FALSE
    /\ UNCHANGED abiertos

\* NachOS_Open and NachOS_Socket.  A failed open() or socket() is registered
\* all the same; only Open counts a thread more.
AbreEntrada(cosa, mas) ==
    /\ Llama
    /\ \E d \in Nuevos :
         /\ unix' = Abre(d, cosa)
         /\ IF Cabe
            THEN /\ Registra(d, mas) /\ Entrega(usage, d, mas)
                 /\ Vuelve("bien")
            ELSE /\ estado' = "aborta"
                 /\ UNCHANGED <<r2, archivos, registro, espacio>>
Open == AbreEntrada("archivo", 1)
Socket == AbreEntrada("socket", 0)

\* NachOS_Socket with a family or a type it does not know.
SocketDesconocido ==
    /\ Llama /\ Vuelve("error")
    /\ UNCHANGED <<archivos, unix, registro>>

\* NachOS_Create: the file is created and stays open as a raw descriptor.
Create ==
    /\ Llama
    /\ \E d \in Nuevos : unix' = Abre(d, "archivo") /\ Vuelve(Signo(d))
    /\ coincide' = FALSE
    /\ UNCHANGED <<archivos, vivos, limpio, abiertos>>

\* NachOS_Close: the entry keeps the descriptor it has just closed.
Close(id) ==
    /\ Llama
    /\ \E d \in getUnixHandle(id) :
         unix' = IF d \in 0..MaxFD THEN [unix EXCEPT ![d] = "libre"] ELSE unix
    /\ delThread
    /\ Olvida(id)
    /\ Vuelve(r2)

\* NachOS_Write and NachOS_Read: on the console, on a descriptor, or failing.
\* Read receives with recv(), which only sockets answer.
PuedeIr(d, bien) == \E res \in (IF bien THEN {"bien", "error"} ELSE {"error"}) : Vuelve(res)
Write(id) ==
    /\ Llama
    /\ \E d \in getUnixHandle(id) :
         CASE id = 0 -> Vuelve("error")
           [] id \in {1, 2} -> Vuelve("bien")
           [] OTHER -> PuedeIr(d, ~Es(d, {"libre"}))
    /\ UNCHANGED <<archivos, unix, registro>>
Read(id) ==
    /\ Llama
    /\ \E d \in getUnixHandle(id) :
         CASE id = 1 -> Vuelve("error")
           [] id \in {0, 2} -> Vuelve("bien")
           [] OTHER -> PuedeIr(d, Es(d, {"conexion"}))
    /\ UNCHANGED <<archivos, unix, registro>>

\* NachOS_Connect, Listen, Bind and Shutdown take the NachOS id for a UNIX
\* descriptor; what is there becomes a connection, or listens.
EnSocket(id, antes, despues) ==
    /\ Llama
    /\ \/ Es(id, antes) /\ unix' = [unix EXCEPT ![id] = despues] /\ Vuelve("bien")
       \/ Vuelve("error") /\ UNCHANGED unix
    /\ UNCHANGED <<archivos, registro>>
Connect(id) == EnSocket(id, {"socket"}, "conexion")
Listen(id) == EnSocket(id, {"socket", "escucha"}, "escucha")
BindOShutdown(id) ==
    /\ Llama /\ PuedeIr(id, Es(id, {"socket", "escucha", "conexion"}))
    /\ UNCHANGED <<archivos, unix, registro>>

\* NachOS_Accept: the new connection never enters the table.
Accept(id) ==
    /\ Llama
    /\ \E d \in (IF Es(id, {"escucha"}) THEN Nuevos ELSE {NoFD}) :
         unix' = Abre(d, "conexion") /\ Vuelve(Signo(d))
    /\ coincide' = FALSE
    /\ UNCHANGED <<archivos, vivos, limpio, abiertos>>

\* Exec, Join, Fork, Yield and the semaphores, locks and conditions have an empty
\* body: the result register keeps the number of the call, no error.
LlamadaVacia ==
    /\ Llama /\ Vuelve("bien")
    /\ UNCHANGED <<archivos, unix, registro>>

-----------------------------------------------------------------------------
(* Calls and exceptions that do not return.                                 *)

Halt ==
    /\ Llama /\ estado' = "detenido"
    /\ UNCHANGED <<r2, archivos, unix, registro, espacio>>

\* systemToNachos and nachosToSystem with an address outside the program, an
\* unknown call, and every exception but a page fault: ASSERT(false).
Aborta ==
    /\ Llama /\ estado' = "aborta"
    /\ UNCHANGED <<r2, archivos, unix, registro, espacio>>

\* ExceptionHandler.
Llamada ==
    \/ Halt \/ Exit \/ Create \/ Open \/ Socket \/ SocketDesconocido \/ Aborta
    \/ LlamadaVacia
    \/ \E id \in 0 .. fileLimit :
         \/ Close(id) \/ Connect(id) \/ Listen(id) \/ BindOShutdown(id) \/ Accept(id)
         \/ Write(id) \/ Read(id)

\* Initialize: the table is built with the three entries of the console, which
\* nothing ever reads; beyond threadsOnPhyPage lie words of other variables.
Init ==
    /\ estado = "arranque" /\ r2 = "bien" /\ llamadas = 0
    /\ usage = 3
    /\ openFiles = [i \in 0 .. fileLimit - 1 |-> IF i \in Consola THEN NoFD ELSE SinEscribir]
    /\ openFilesMap = Consola
    /\ unix = [d \in 0..MaxFD |-> IF d \in Consola THEN "terminal" ELSE "libre"]
    /\ vivos = <<>> /\ limpio = TRUE /\ coincide = TRUE /\ abiertos = 0
    /\ programa = [code |-> 0, initData |-> 0, uninitData |-> 0]
    /\ pageTable = <<>> /\ memoryBitMap = {}
    /\ threadsOnPhyPage \in [0 .. NumPhysPages - 1 -> {0, 1}]
    /\ \A f \in 0 .. Contados - 1 : threadsOnPhyPage[f] = 0
    /\ mainMemory = [a \in 0 .. NumPhysPages * PageSize - 1 |-> <<"cero", 0>>]

Next == StartProcess \/ Llamada

Spec == Init /\ [][Next]_vars
-----------------------------------------------------------------------------
(* Properties.                                                              *)

\* The table and the descriptors keep their types; usage may go anywhere a
\* program takes it.
TypeOK ==
    /\ estado \in {"arranque", "ejecuta", "terminado", "detenido", "aborta"}
    /\ usage \in Int /\ r2 \in {"bien", "error"} /\ llamadas \in Nat
    /\ openFiles \in [0 .. fileLimit - 1 -> {SinEscribir, NoFD} \cup 0..MaxFD]
    /\ openFilesMap \subseteq 0 .. fileLimit - 1
    /\ unix \in [0..MaxFD -> {"libre", "terminal", "archivo", "socket", "escucha", "conexion"}]
    /\ DOMAIN vivos \subseteq 1..llamadas
    /\ \A n \in DOMAIN vivos :
         vivos[n] \in [id : 0 .. fileLimit - 1, fd : {NoFD} \cup 0..MaxFD, peso : {1, 2}, cierres : Nat]
    /\ limpio \in BOOLEAN /\ coincide \in BOOLEAN /\ abiertos \in Nat

\* usage is both the next entry and a count of threads that Close lowers
\* (openfiletable.cc:23, 50).  An id in use is ahead of usage by no more than the
\* calls of Close since it was given.
HuecoDetras ==
    \A n \in DOMAIN vivos : usage + vivos[n].cierres >= vivos[n].id + vivos[n].peso

\* While the program closes only what it was given, usage is the console, what it
\* has not closed and one entry more for each Open it ever called: the table is
\* used up by opening and closing, however little is open at a time, and never
\* gets down to the clearing of openfiletable.cc:51.
UsoExacto ==
    limpio => usage = 3 + Cardinality(DOMAIN vivos) + abiertos

\* For such a program an id leads to the descriptor it was given for until the
\* program has called Close once since, or twice if it came from Open: Open takes
\* the entry at usage, which Close lowers, whoever has that id (openfiletable.cc:
\* 24-27, 50), and from then on the id may be given again and its entry written
\* over.  Connect, Bind, Listen, Accept and Shutdown use the id itself as a
\* descriptor (exception.cc:405-553): it is the right one as long as the program
\* has only created sockets and none has failed.
ManejoFiel ==
    /\ limpio => \A n \in DOMAIN vivos :
         openFiles[vivos[n].id] = vivos[n].fd \/ vivos[n].cierres >= vivos[n].peso
    /\ coincide => \A n \in DOMAIN vivos : vivos[n].fd = vivos[n].id

\* The program finds in its memory, page by page, its code and initialised data
\* and zeros after them: the constructor reads the file at the offset of the
\* frame, not of the page (addrspace.cc:158-159).
CodigoEnSuSitio ==
    estado = "ejecuta" =>
        \A v \in 0 .. Cardinality(Paginas) * PageSize - 1 :
            mainMemory[pageTable[v \div PageSize] * PageSize + (v % PageSize)]
                = IF v < Copiables(programa) THEN <<"archivo", v>> ELSE <<"cero", 0>>

\* The frames in use are the program's, each one once; when it exits they are
\* all given back, but for those counted outside threadsOnPhyPage.
MarcosCuadran ==
    /\ estado = "ejecuta" =>
         /\ memoryBitMap = {pageTable[i] : i \in Paginas}
         /\ Cardinality(memoryBitMap) = Cardinality(Paginas)
    /\ estado = "terminado" => \A f \in memoryBitMap : f >= Contados
    /\ \A f \in 0 .. Contados - 1 :
         threadsOnPhyPage[f] = Cardinality({i \in Paginas : pageTable[i] = f})
================================================================================
