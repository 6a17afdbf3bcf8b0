# Server – LoadBalancer – Client: the verification project

This directory holds TLA+ models of the programs of this repository, the TLC
configurations that check them on small instances, and theorems about them
checked by TLAPS. Paths below are relative to the root of the repository.
Definitions keep the (Spanish) names of the code wherever TLA+ allows it.

    tlc -workers 2 -config bajas.cfg MCBalanceador      # one run
    tlapm Balanceador_proofs.tla                        # one set of proofs

## 1. The system

The repository holds two programs that share only their course.

**The C++ system** (`src/`, `include/`): clients send HTTP requests to a load
*balancer*, which relays each to one of the *web servers* that announced
themselves by broadcast.

**NachOS** (`nachOS/code/`): the teaching kernel, with its threads, semaphores,
locks, simulated machine, file system, network and system calls, some of them
(locks, conditions, mutexes, barriers, system calls, open files, address spaces)
written for this repository.

### 1.1 Components of the C++ system

| component | state it keeps | operations | talks to |
|---|---|---|---|
| `Balanceador` | vector of registered servers with their load, round-robin cursor, method, vector of clients, counters, three mutexes | one thread accepts clients, one listens to server datagrams, one reads commands, and one **detached thread per request**; Ctrl-C handler | clients and servers by TCP, servers by UDP broadcast |
| `WebServidor` | two flags in shared memory, sockets | **three processes**: main, announcer, listener; `S/C`, `S/D` and `B/C`, `B/D` datagrams; one request at a time | balancer |
| `Socket` | a descriptor *number* | constructor, `aceptar`, `asignarID`, `cerrar`, destructor, datagrams | kernel |
| `InterpreteHTTP` | the parsed request | parse, status code, headers, body | `FileSystem` |
| `FileSystem` | paths, log file | existence, MIME type, chunked read, log | disk |
| `WebCliente` | one URL | one request, prints the response | balancer |
| `Utilidades` | – | string helpers, `getBroadcastIP`, shared memory | – |

### 1.2 Components of NachOS

| component | state it keeps | operations |
|---|---|---|
| threads and scheduler (`thread.cc`, `scheduler.cc`, `switch.s`) | current thread, ready list, `threadToBeDestroyed` | Fork, Yield, Sleep, Finish, Run |
| semaphores (`synch.cc`) | value and queue of each | P, V, Destroy |
| locks, conditions, mutexes, barriers (`synch.cc`) | holder and a semaphore; a list of threads; a counter | Acquire, Release, Wait, Signal, Broadcast, Lock, Unlock |
| interrupts, timer, preemption (`interrupt.cc`, `timer.cc`, `preemptive.cc`) | level, pending list, status | SetLevel, OneTick, CheckIfDue, Idle, Schedule |
| disk and `SynchDisk` | `active`, a lock and a semaphore | ReadSector, WriteSector, RequestDone |
| post office and network device | mailboxes, one packet in, one packet out | Send, Receive, PostalDelivery |
| file system | free map, directory, headers, open files | Create, Open, Remove, ReadAt, WriteAt |
| system calls, open file table | table of Unix descriptors, bitmap, threads | the handlers of `exception.cc` |
| address spaces, bitmap | page tables, physical frames | constructor, copy for Fork |
| console, host dependent code, MIPS simulator, object file tools | – | – |

### 1.3 What is hard

* **The request threads use the registry outside the lock** they looked it up
  under: the index chosen in one critical section is used in four later steps
  (`Balanceador.cpp:227,232,264`), while the listener erases and appends.
* **Look-up and change are two critical sections** in `agregarServidor` and
  `eliminarServidor`.
* **A busy search with the lock held** (`Balanceador.cpp:195`).
* **Descriptors are numbers**: each is closed twice (`cerrar`, then the
  destructor), with other threads opening in between; `aceptar` loses one.
* **Datagrams** are lost, repeated and reordered; `avisarServidores` replaces
  the socket that receives them.
* **Ctrl-C** runs in a thread while the others use what it deletes.
* **A request goes through four buffers** in three programs, each cutting it in its own
  way; buffers are not initialised, reads are taken to be full, and only the client
  ever gives up waiting.
* **NachOS**: a switch may come at any instruction while interrupts are on;
  a woken thread does not own what it was woken for; a finished thread is
  deleted by another one; the machine halts itself when it believes that
  nothing can happen any more.
* **NachOS user level**: one counter is the next entry, the number of threads and
  what `Close` lowers; ids and Unix descriptors are mixed up; a loaded register
  changes one instruction late, and a trap may come in between.
* **NachOS files**: map, directory and header are three places on disk, written one
  after another.

The complete list, one entry per line of code, is `hazards` in `PROJECT.json`.

### 1.4 What makes each part correct

* *Balancer*: an index never leaves the memory of the vector; the registry is an
  ordered set and each announcement is atomic on it; a request goes to the server
  that was chosen for it; loads count the requests in progress; requests are dealt
  in turn; every request ends.
* *Sockets*: the listener survives; a connection has one owner and does not
  outlive it; connections go on being accepted.
* *A download*: the client ends up with the file, or with its beginning; nobody is
  left waiting.
* *Web server*: once started with a balancer up, it ends up registered; after
  Ctrl-C it is not, and none of the three processes remains.
* *NachOS threads*: each thread in one place; no wake-up lost; no thread deleted
  twice or revived; no halt while something could run.
* *NachOS locks and what rests on them*: mutual exclusion, one disk request at a
  time, a barrier opens after the last arrival, a mailbox loses nothing.
* *NachOS machine and system calls*: exact arithmetic, instructions that can be
  started again; an id leads to what it was given for; a program finds its image in
  memory and gives its frames back.
* *NachOS files*: bitmap, directory and headers agree, also across a crash.

## 2. The modules

| module | models | theorems in |
|---|---|---|
| `Registro` | abstract: the registry as an ordered set, one atomic announcement at a time; implemented by `Balanceador`, used by `WebServidor` | – |
| `Balanceador` | `Balanceador.cpp` while it serves: registry, cursor, loads, the threads of requests, the listener of servers, the operator | `Balanceador_proofs` |
| `Descriptores` | the descriptor table of the balancer under `Socket.cpp` | `Descriptores_proofs` |
| `WebServidor` | the three processes of each web server, the announcements, Ctrl-C on both sides, with the balancer's listener of servers | `WebServidor_proofs` |
| `NachosHilos` | threads, scheduler, semaphores, interrupts, preemption | `NachosCerrojos_proofs`, first part |
| `PeticionHTTP` | one request through `WebCliente`, the thread of the balancer, the process of the server with `InterpreteHTTP` and `FileSystem`, and back | `PeticionHTTP_proofs` |
| `NachosCerrojos` | `Lock`, `Mutex`, `Barrier`, `SynchDisk`, `Disk`, as programs over `NachosHilos` | `NachosCerrojos_proofs` |
| `NachosRed` | the post office, mailboxes with their `SynchList`, the network device, and `MailTest` on several machines | `NachosRed_proofs` |
| `NachosArchivos` | free map, directory, headers and open files on a disk that survives crashes | `NachosArchivos_proofs` |
| `NachosUsuario` | system calls, table of open files, address space and bitmap of frames of a user program | `NachosUsuario_proofs` |
| `NachosMaquina` | the MIPS simulator, with its page table, traps and delayed loads | – |

The `MC*` modules give the constants of the runs their values. The `map` of
`PROJECT.json` names the lines that each definition stands for.

### 2.1 Balanceador

The vector of servers is `buffer` (the slots of its storage that were ever
written) and `tam` (`size()`): the code indexes it without a check after the
registry may have shrunk, so what lies in the storage past the end matters.
`proceso` becomes `danado` when a write leaves the vector and `caido` when the
process dies of a signal, which is the modulo by the size of an empty registry.

A request thread goes through `revisar` (is there a server, lines 140–150), the
branch of the method (`rr`, `pesos`/`girar`, `direccion`/`agregar`/`asociar`,
`conexiones`), `sumar` (load up), `conectar`, `puerto`, `reenviar`, `responder`,
`restar` (load down). Every one of these is a critical section or an unlocked
access of the code. The listener of servers does `buscarAgregar` and `insertar`, or
`buscarEliminar` and `borrar`: the look-up and the change are two critical
sections in the code, and the requests run in between. `mutex_servidores` is a
variable for the one critical section that is a loop (line 195); the rest are
single steps.

Two history variables are for the properties: `tocados`, the requests whose slot a
change of the registry emptied or gave to another server, and `vuelta`, the slots dealt
in the present lap of `ROUND_ROBIN`.

`Registro` states what the registry promises, and `EsRegistro` that the balancer
keeps it: an announcement is carried out when the second critical section ends.

### 2.2 Descriptores

Which file is open under each number of the process, and the number that each
`Socket` object holds. One step is one system call. The balancer closes every
socket of a request twice, `cerrar` and then the destructor, and `aceptar`
overwrites the number its constructor opened: both are as in the code.
`avisarServidores` is two steps after the announcement it answers (`RecibirAnuncio`):
`CerrarBroadcast` closes whatever the number of the old socket leads to by then, which
may be the socket of a request, and `AbrirBroadcast` opens the new one.

### 2.3 NachosHilos

A step is one kernel call with interrupts off, from `SetLevel` to `SetLevel`,
or the part of it up to the switch. The thread that is switched to comes out of
its own `SWITCH` in `Reanudar`: it deletes the carcass of a finished thread and
finishes its own `Yield` or `P`. A thread that never ran comes out in
`ThreadRoot` instead, and deletes nothing (`switch.s:124`).

What the threads do with the kernel is left open: at any point of its program
(`Puntos`) the running one may make any call. So whatever holds here holds of
every program, and modules of programs over it only have to show that their
steps are steps of `NachosHilos`.

Preemption: with `-rs` the timer and with `-p` the monitor make the running
thread call `Yield` wherever interrupts are on (`preemptive.cc:133`), so that a
point of a program is any place between two accesses to shared memory. The
insertion of a pending interrupt (`Interrupt::Schedule`) and the operations on a
`List` are taken as atomic.

### 2.4 NachosCerrojos

Each thread of `Lectores` calls `ReadSector` or `WriteSector` as often as it
likes, each of `Citados` waits at a barrier, and both finish. The accesses to
`holdingThread`, `counter` and `active` are steps of their own, as the code does
not protect them. `Punto` says where in its program a thread is, also while it
is switched out inside `Yield` or `P`; `abortado` is an ASSERT that failed.

Every action is written as one of `NachosHilos` with changes to the variables of the
objects, so that what is proved of `NachosHilos` holds here.

### 2.5 WebServidor

A web server is three processes: `pcM` forks the other two, spins on the shared
flag `ejecutandose` and then kills them and says good-bye; `pcA` announces the
server, waits for `B/C`, announces it again and serves; `pcE` waits for `B/D`
once the server is `conectado`. Who reads which socket is in `Leen`: the announcer
replaces its own copy twice (`avisarBalanceadores`), so that a `B/C` queued in
the socket of the constructor is never read, and a `B/D` queued there waits until a later
balancer answers. Of `B/C` and `B/D` only the first one matters, so a flag per socket
(`hayBC`, `hayBD`) replaces its queue.

The other side is `hilo_Escuchador_Servidores` of the balancer. Dealing with an
announcement is one step here, of `Registro`, which `Balanceador` was proved to
implement; `avisarServidores` is three (close, open, send), since what arrives
before the new socket is bound is lost. Both programs may be killed and started
again. `FallarFork` is a fork that fails: its `exit(1)` ends the calling process
alone, so that the first process leaves its announcer behind when the second fork fails (`pcM` is then
`abortado`), and an announcer that cannot fork for a request leaves the other two.
`ultimo` is a history variable: the last announcement of each server
that reached the queue of the present balancer.

When Ctrl-C of the balancer finds its listener inside `avisarServidores`, both
threads replace the same socket. The model lets the listener go on to send its `B/C`
and then end; which of the two descriptors is lost is not in this module.

### 2.6 PeticionHTTP

One request, from the line the client writes to what it prints or leaves in
`descargas/`. `Cliente`, `Hilo` and `Servidor` are the three programs; the four
channels are the two directions of two TCP connections; a read gives any part of
what has arrived. The text is told apart by pieces: the request is its text and the
two halves of the blank line; the answer is its header and the pieces of the body. A
buffer has `BUFFER_SIZE` pieces, and a header is one. `respuesta_estadoCodigo` is
the order in which `construirRespuesta` and `procesarRequest` look at things.

`hilo_Cliente` appears here past the choice of the server, which is `Balanceador`;
its two loops are `Hilo`, with the buffer it looks for the blank line in
(`httpRequest`). `WebServidor` hands its accepted connection to a process that is
`Servidor`. `Ctrl-C` of the balancer and a server that goes down are
`CaeBalanceador` and `CaeServidor`: their ends of the connections close. `vencio`,
`corta`, `partido` and `caidos` are for the properties.

### 2.7 NachosRed

Machines that run `MailTest` against each other: each sends a message to the
machine of its `-o`, answers the one it gets, and stops when it has an answer. Each
has two threads, `main` and the postal worker, and one processor, which a
thread leaves only when it waits; with `-p` it may leave it at any access. The
steps are what lies between two places where an interrupt or the other thread
can come in. The lock of a mailbox is `Lock` as in section 2.4 (its semaphore, and
`holdingThread`, read and written without protection). A machine may be stopped with
Ctrl-C and started again; a datagram may be lost; one sent to a machine that is not
there aborts the sender, as `sendto` fails. `historia`, `tomados` and `pisado` are for
the properties.

`Condition::Wait` ends NachOS, as it calls `Sleep` with interrupts on
(section 6): `SacarDeVacio` is that end. So nobody is ever asleep in a condition, and
`Signal` only releases the lock.

### 2.8 NachosArchivos

The disk is a function from sectors to what they hold. An operation reads and
decides in memory and then writes whole sectors, one per step (`Escribir`), in the
order of the code; `Caida` may come between any two, and `Montar` starts again from
the disk, without a look at it: where the formatting was not finished the machine is `perdida`,
which goes on with headers and maps that nobody wrote and is not followed. `Create`, `Remove`, `Open`, `Read`,
`Write`, `Seek` are the operations; `Ilegible` is a header whose sector holds something else: NachOS
ends, or goes on with bytes that pass for one (`perdida`). The code assumes no
two operations at a time (`filesys.cc:167`), and so does the module.

### 2.9 NachosUsuario

`StartProcess` builds the address space, page by page with the offsets of the
constructor, and then each step is one system call, in any order and on any
handle. `unix` is the descriptor table of the NachOS process underneath. As the code
has it, `usage` is at once the next entry and a count that `Close` lowers; a
failed open is registered too; and half of the socket calls use the id as a
descriptor. `vivos` and the rest of `registro` say what the program was told: `vivos` has an entry
for each call that gave an id and was not matched by a `Close`, so that an id that was given twice
has two, each with the descriptor it was given for.

### 2.10 NachosMaquina

A step is one `OneInstruction`, the handler of a trap, or an interrupt between two
instructions (`OneTick`), which lets a delayed load arrive early. Words have `4*B` bits and
wrap around as the C code's do; `Mult` is the shift-and-add of the code, compared with
the product. The program is chosen as it is fetched, from `Palabras`.

## 3. The runs

| run | question | distinct states |
|---|---|---|
| `bajas` | Two servers come and go, the operator changes the method, the cursor starts with garbage: do indices stay in the storage of the vector, what can damage the process, do loads match the requests, is the registry an ordered set with atomic announcements? | 3 515 588 |
| `turnos` | Three requests under ROUND_ROBIN while servers come and go: does every server get a request before any gets another, between two changes of the registry? | 4 927 545 |
| `progreso` | Does anything but the endless search of ROUND_ROBIN_PESOS, and the end of the process, keep a request from its end or the listener from listening? | 178 343 |
| `descriptores` | Do double closes ever hit the listener, does a connection outlive its request? | 1 623 662 |
| `web` | Two web servers and a balancer started three times in all, forks that fail, one loss, Ctrl-C anywhere: which processes can be left behind, does the last announcement decide, does a server told to end do so, and does one alone with a balancer get registered? | 552 185 |
| `http` | One request, of any kind and size, cut anywhere, with a timeout and programs that go down: is what was downloaded the file, is anybody left waiting? | 462 779 |
| `hilos` | Four threads, a semaphore of the program and one of a device: the properties of section 1.4 | 220 857 |
| `cerrojos` | Two readers of the disk, two threads at a barrier, preempted anywhere | 790 119 |
| `red` | Two machines, one with `-p` and started twice, one lost packet, Ctrl-C anywhere: does each packet reach its mailbox once and in order, is a good end always one with an answer, does every machine end? | 329 170 |
| `archivos` | Three names in a directory of two, one handle that may outlive its file, two crashes: do map, directory and headers agree, what does a crash cost, does a read give what was written? | 1 660 407 |
| `usuario` | Six calls, in any order and on any handle: how the table is used up, until when an id leads to its descriptor, what is in memory, which frames come back | 3 495 294 |
| `maquina` | Every opcode on the edges of the word, two instructions and a trap deep, interrupts in between: is arithmetic exact, can a trapped instruction start again, do loads arrive, does memory hold what was stored? | 263 807 |

No run expects a violation: what the code says of itself and does not keep is in
section 6.

### 3.1 Bounds, and why they are enough

* *Balanceador.* Every flaw of index sharing needs one request between its look-up
  and its use, and one announcement; two requests and two servers give every
  pair of them (`bajas`). A request thread serves one request, as in the code; servers come back any number of
  times. The load limit is 1 instead of 5 to 10, so that it is reached, and 0 in `progreso`,
  where one request on the only server is enough for the search to go round for ever.
  `CursorInicial` is what the never initialised cursor holds: negative, in range, or past
  the end (`Basura`). A lap over two servers and the first request of the next take three
  requests (`turnos`), with a departure or an arrival at any point of it; there the operator keeps
  to ROUND_ROBIN, as the other methods leave the cursor alone.
* *Descriptores.* Seven numbers for a listener, a broadcast socket and
  two requests: enough for a number to be closed, reused and closed again, and
  few enough for the table to fill up. `MaxAltas` bounds how often the broadcast
  socket is replaced, once to be closed by a request and once more to recover.
* *NachosHilos.* `MaxValor` = 2 bounds how far a program raises a semaphore; a V
  beyond it is not taken, pending completions included. Overtaking needs a woken
  thread, the one that overtakes it and one that stays queued, and the fourth
  thread is one that finishes.
* *NachosCerrojos.* `MaxValor` = 4 never binds: `UnSoloDueno` and
  `UnaCompletadaPorEspera` bound the semaphores. One thread is both a reader and
  at the barrier, one only the first, one only the second.
* *WebServidor.* Three starts are two servers and a balancer, or one server and a
  balancer of which one comes back. `MaxBuzon` = 3 datagrams queued are both announcements of
  one server and one of the other; `Anunciar` waits beyond it, and the balancer always
  empties the queue. One loss shows what the properties
  exempt; a crash of the balancer counts as one.

* *PeticionHTTP.* A buffer of 3 pieces and files of 0, 1, 2, 4 and 7: nothing, less than a
  buffer, exactly the first buffer (header and 2), and more than one and than two, with
  the last part short. The resources are one of each outcome: served, no type, a
  directory, absent, in an absent directory, not openable. A file left by an earlier call
  is longer than any answer.
* *NachosRed.* Two machines, of which one, started twice, finds packets of its own
  earlier life. One loss. The buffer of the device holds one packet, and each machine gets
  at most four.
* *NachosArchivos.* Eight sectors, of which four are the system's: a file of two sectors
  and one of one do not fit in the rest, so that Create fails for want of sectors, and for
  want of an entry after a crash. Files end in the middle of a sector of two bytes. The second
  crash comes during what follows the first.
* *NachosUsuario.* Three calls and a `Close` give an id that is still in use again; six leave
  two calls to use or close what was written over, and let an `Open`, which counts twice, be closed past.
  A table of 7 and 6 descriptors both fill up. Three of four frames are counted
  in `threadsOnPhyPage`, 32 of 1024 in the code.
* *NachosMaquina.* `B` = 2, words of 8 bits with registers that start at their edges. Two
  instructions are a load and what follows it; the third step is the trap. `OneTick` is not counted.

Deadlock is not checked, as every one of these systems may rightly stop: all requests
served, the machine halted, the starts used up, or, in the bounded modules, no step left.

### 3.2 Fairness

* *Balanceador*: the operating system runs every thread that can run, and the
  servers that accepted a connection sooner or later close it. Nothing is assumed
  of clients, of the operator or of the datagrams: a request in `reenviar` waits in a read
  without a timeout (`Balanceador.cpp:246`), and the fairness of its thread leaves that step out. There
  are finitely many requests, so that weak fairness is enough for the mutex.
* *WebServidor*: weak fairness of each process of a server and of the balancer's
  listener, all independent processes or threads that wait only for a
  datagram or for a flag that they poll. Nobody has to start a program, press
  Ctrl-C or lose a datagram, and a fork need not fail.
* *PeticionHTTP*: each of the three programs runs, and the kernel wakes a read that has
  data, whose other end has closed, or (of the client) whose time is out. Nobody has
  to close a program or take long to answer.
* *NachosRed*: on each machine main, the worker and the device each get their
  turn, as `Idle` advances the clock to the next interrupt and a ready thread is run. Nobody
  has to start or stop a machine.
* *NachosHilos*: a thread that was switched to goes on, the idle loop is left
  when there is a ready thread, and an interrupt that is pending fires, as the
  simulated clock advances in the idle loop and in every call. The last conjunct is the
  time slice, which only exists with `-rs` or `-p`: without it a thread that
  never calls the kernel keeps the processor.

## 4. The proofs

All are for any number of servers, requests, descriptors, threads, semaphores, devices,
machines, sectors and files. They rest on the `ASSUME`s of the modules, which TLC evaluates in every run; `CargaSiempre`
alone has a hypothesis of its own, that there are finitely many requests, as it counts them.

* **Balanceador.** `RegistroInv` is inductive: `TypeOK`, what the listener knows
  between its two critical sections (`ListenerOK`: the server it is about to
  append is not registered, the position it is about to erase still holds the
  server it found, as nobody else changes the vector), `RegistroSinDuplicados`
  and the counter at every point of the listener (`ContadorOK`). From it,
  `TypeOKSiempre`, `SinDuplicadosSiempre`, `EstadisticaSiempre` and the refinement
  `ImplementaRegistro`. The rest let servers leave and the cursor start anywhere.
  `IndiceSiempre`: `AlcanceInv` says that the cursor and every index are in the storage, but for the first value
  of the cursor, which the cursor holds only until one request has taken it, and for the -1 of a registry that was
  emptied, which only a request in `tocados` gets. `ProcesoSanoSiempre`: what damages the process is a request with
  one of the two, or one at `rand() % 0` (`Culpable`, `CulpaInv`), and an index once chosen does not change (`EleccionFija`).
  `CargaSiempre`: `CargaInv` gives each request the slot where its unit of load is now and the slot where it took
  one (`Rastro`), which are that of its index unless a change caught it; the load of a slot is the difference of the two
  counts, and each request in `tocados` makes them differ from what is in progress by one at most. `RepartoSiempre`:
  the slots dealt since the last change of the registry are an arc of the vector that ends at the cursor (`VueltaInv`), so
  that the next one is of the arc only when the arc is the whole vector.
* **Descriptores.** `HttpSiempreAbierto` needs that no object of a request ever
  holds the number of the listener (`NumerosAjenos`), which holds because that
  number is never free; `ConexionSiempreConDueno` needs where each thread is when
  it closes for the first and the second time, and that a number reserved inside
  `accept` is nobody's (`ReservaInv`).
* **WebServidor.** `Inv` is `TypeOK`, where the other two processes may be at each
  point of the first one (`Control`, from which `SinHuerfanos`: an announcer may be there beside
  `abortado`, a first process whose second fork failed, and beside no other that has ended), that the registry
  has no repetitions (`SinRepetidos`: else erasing one entry would not remove a server),
  `UltimoAvisoManda` and `DespedidaLlega`. The second to last is inductive because
  each announcement goes to the end of the queue, the balancer takes the first one
  and `Registro` does with it what it says; whoever empties the queue forgets `ultimo`.
* **NachosHilos.** `Inv` adds to the properties what a thread's status says of
  where it is in the kernel (`Control`) and splits `CadaHiloEnUnSitio` into the
  ready list, the processor and the queues (`Sitios`). `SinDespertarPerdido` counts
  the woken threads of a semaphore: a V adds a unit and, while threads are
  queued, a woken thread; a P takes a unit and at most one woken thread.
* **NachosUsuario.** `Inv` is `TypeOK`, `HuecoDetras` (an id is ahead of
  `usage` by no more than the closes since it was given: true of any program),
  `UsoExacto`, `ManejoFiel` and `Orden`. An entry is only written at `usage`. By `HuecoDetras`, when that is an id the program
  has, it has called `Close` since as often as the id counted, which is the exception that `ManejoFiel` makes; before that the entry is
  whole. While it has only created sockets, the free descriptors are exactly those from `usage` on (`Orden`). `UsoSiempre`
  needs the number of entries of `vivos` to go up and down by one, hence their finiteness.
  `MemInv` is about memory, for any number of frames and any sizes. The constructor of the address space asks
  the bitmap for a frame per page, but copies from the offset of the *frame* (`addrspace.cc:158-159`); this is right because
  the bitmap is empty when it starts (`Recien`), so that the n-th free frame is frame n (`Espacio`:
  `pageTable[i] = i`). `EnSuSitio` says what each place of memory then holds and `Cuentas`
  ties the bitmap and `threadsOnPhyPage` to the pages. `CodigoSiempre` and `MarcosSiempre` follow.
* **PeticionHTTP.** `DescargaSiempre`: with pieces numbered from the header on, what the client is reading,
  the two channels towards it and what the server has still to write are at every
  point consecutive runs of pieces (`Flujo`), each where the one before ends; what the
  client has written is a run that ends where they begin (`Durante`); and the count of what
  is left in the file, which goes below zero, goes with the position (`CuentaInv`). A close
  may cut the last run, never the middle. The proof has one step per action and, in
  the reads, one per part of the run that moves.
* **NachosCerrojos.** Its steps are steps of `NachosHilos` as they are written (`PasoEsPaso`, a lemma), and
  so `Inv` holds here. `InvC` adds
  which semaphore each point waits on (`EsperaC`), and that whoever the lock has
  noted is between noting itself and clearing the note (`TitularC`): the latter is
  why a thread that skipped the P never passes `isHeldByCurrentThread` and
  never does a V. `UnSoloDuenoSiempre` and `UnaCompletadaSiempre` follow, one step
  per call: each call leaves the semaphore of an object alone, takes its unit or
  gives back the one it holds. `BarreraCerradaSiempre` counts: `counter` and the threads that
  have lowered it add up to `Cuantos` at every point (`BarreraInv`), because whoever is between reading
  and writing it holds the mutex and so has read what is still there; what a thread read later in
  its loop is never less than `counter`, so whoever reads a value that lets it pass does so after the last arrival.
* **NachosRed.** For any number of machines, with or without `-p`. `RedInv` ties the phase of `MailTest` to the point of
  `main`, `messageAvailable` to the packet in the device, what the worker copies to the header it took
  (`WorkerBien`: the same packet unless one was written over, which takes `-p`), and a Receive that is over to its packet.
  `AcuseCiertoSiempre`: `CiertosInv` says of every place a packet can be (socket, device, hands of the worker, mailbox, what
  was read) that a message there is what its sender sends, to whom it writes to, and that an answer there
  means that its message was read. What was read stays read as long as nobody starts again, so that no step makes a packet
  false (`LleganCrece`). `EntregaFielSiempre`: `FielInv` is the property, an equation between sequences that each step
  moves one packet along; it needs the laws of `Para` for a packet that comes last (`ParaAppend`) or first (`ParaPrimero`).
  Nothing is needed of the lock of the mailboxes.
* **NachosArchivos.** `ArchivosInv` says of every operation under way which of its writes are still to be done,
  against what is on the disk *now* (`Formateando`, `Creando`, `Borrando`, `Escribiendo`): thus the map that is to be written
  last is the one on disk plus the new file. `SinPerdida` (a marked sector belongs to an entry whose own header is
  marked) holds through crashes; `Coherente` (map, directory and headers agree but for the
  entry in between, `EnVilo`) until the first damage. `ConcuerdanSiempre` is both, between operations. `CaidaSiempre`: a crash
  keeps the disk, and of what it leaves half done only the entry `EnVilo` is not whole. A disk whose formatting was
  not finished is mounted as `perdida`, of which nothing is claimed. `BytesInv` says
  that each byte that was written is on the disk or, while a write is under way, in the sector that is still to be
  written (`ByteBien`): the first and last sectors of a write are read before and must bring back what they do not change.
  The arithmetic of sectors and bytes, and that `Allocate` picks distinct free sectors, are lemmas of their own.

Two proofs need induction over data: that a CHOOSE of the n-th free sector picks one (`Rango`), and the laws of the recursive
`Para`. No induction theorem is used: a property that fails for some length or rank fails for a least one (`PrimerNatural`,
from `NatLessThanWellFounded` and `WFMin`), and the step from the one before contradicts it.

Only model-checked:

* everything temporal with fairness, which the prover does not reach: `TodosAvanzan`,
  `NadieEsperaConValor`, `TerminaSiSeLePide`, `LlegaARegistrarse`, `Termina`, `NadieSeQueda`;
* `NachosMaquina`, whose instructions use the operators of `Bitwise`, which the prover cannot expand, and whose `Mult`
  goes bit by bit: `AritmeticaExacta`, `Reiniciable`, `CargaLlega`, `LeeLoEscrito`.

All the other safety invariants and action properties of the runs are theorems.

## 5. What is not modelled

* The end of the balancer after Ctrl-C, where one thread deletes the objects that others
  still use: its outcome is the allocator's. `WebServidor` and `PeticionHTTP` end with it.
* Several requests at once in `PeticionHTTP` (what they share is in `Balanceador` and
  `Descriptores`), combined options of `WebCliente`, other HTTP clients, a file that changes while it
  is served, the log files.
* Of NachOS: the simulated times (which of the pending interrupts comes first is left open), `Semaphore::Destroy`
  and `Condition::Broadcast` (no caller), the TLB, the byte order of other hosts, the address space for a Fork
  (no caller: `NachOS_Fork` and `Exec` are empty), the debugger, more than one operation of the file
  system at a time (`filesys.cc:167`).
* What NachOS does after it has mounted a disk whose formatting was not finished, or has taken for a header a sector that holds
  something else: `NachosArchivos` takes the step and stops there (`perdida`).
* What the handlers of interrupts do between two instructions of a user program, beyond the delayed load that
  `CheckIfDue` applies (`interrupt.cc:323-326`): they, and the `Yield` at the end of `OneTick`, do not touch this program's registers.
* A web server started again beside an announcer of its own that a failed fork left behind, which `SO_REUSEPORT`
  (`Socket.cpp:176`) would allow.
* The dining philosophers, whose use is commented out (`threadtest.cc:93-101`); the console,
  used only by its own test (`-c`); the object file tools of `bin/`, run by hand; the wrappers of host calls.
* Log lines, help texts, formatting, the text of error pages: no property is about them.

## 6. What the models show of the code

Four things the code or its comments say and do not keep. Each is stated in its module;
adding it to the cfg named, as INVARIANT or PROPERTY, shows the counterexample.

* `IndiceEstable` (as PROPERTY of `bajas`): a server leaves between the choice of an index and its use, and the
  request goes to another server, or to none (`Balanceador.cpp:232`).
* `CadaUnoLoSuyo` (`descriptores`): the second close of a socket closes another request's connection.
* `UnaPeticion` (`cerrojos`): `Lock::Acquire` lets a second thread reach the disk, whose ASSERT fails.
* `CierreSeguro` (`web`): a server closed after its first `S/C` and before it sets `conectado`
  says no good-bye and stays registered (`WebServidor.cpp:89`).

Met while modelling, and kept in the models as the code has them:

* When all servers are loaded, the search at `Balanceador.cpp:195` spins with the
  mutex the decrements need: hence `Atascado` in `TodosAvanzan`. The same happens in an emptied registry whose slot 0
  kept a load above its limit.
* `roundRobin_Actual` is never initialised (`Balanceador.hpp:61`): one request may index the vector with what the memory
  held, a negative number included. Hence the exceptions of `IndiceEnBuffer` and `ProcesoSano`.
* `aceptar` leaks one descriptor per connection (`Socket.cpp:236`; `Sobrante` in
  `Descriptores`), until no client is accepted any more.
* After a departure the cursor of ROUND_ROBIN may be past the end, and one
  request is sent to the slot that was vacated. After one at a slot before the cursor, the server that moves into the
  place before the cursor misses its turn. Hence laps between two changes in `ReparteEnOrden`.
* A request caught by a departure adds its unit to one server and takes it from another, and the loads stay wrong for good:
  by one unit per such request (`CargaCuadra`), and possibly below zero.
* A server's load may exceed `carga_maxima`: the check and the increment are two
  critical sections.
* `DIRECCION_CLIENTE` compares `char *` results of `inet_ntoa`, which share one
  static buffer: any known client matches (`Balanceador.cpp:599`).
* When `Conectar` fails the thread returns without giving its load back
  (`CargaCuadra` counts `fallida` for that reason).
* The second close of a request may close the broadcast socket, until the next
  new server replaces it.
* Two servers that wait when the balancer starts both answer its greeting. It replaces
  its socket to greet the first one, and the answer of the second, if queued in the
  old socket, is gone: that server counts itself connected and is never registered.
  Hence "the only one" in `LlegaARegistrarse`.
* The listener may still send its `B/C` after Ctrl-C has sent `B/D`: a server then
  believes itself connected to a balancer that has ended. A server whose balancer crashed and came back
  does not announce itself again either; and a `B/D` that
  was queued before a server was connected ends it as soon as it is.
* When a read of datagrams fails (-1), both programs write a zero one byte before their
  buffer (`Balanceador.cpp:312`, `WebServidor.cpp:183,208`), which Ctrl-C of the balancer
  brings about. The models take a failed read as no read.
* When the second fork of a server fails, its first process ends with `exit(1)` (`WebServidor.cpp:112-116`) and the announcer
  goes on alone: it registers, serves requests, and never says good-bye. When the fork for a request fails the
  announcer ends, and a server that serves nobody stays registered. Hence the exception of `SinHuerfanos`.
* A server killed without a good-bye and started again is still registered: the
  balancer does not greet it, and it waits in stand-by.
* `Release` clears `holdingThread` after its V: the next holder's note may be
  erased, and then the lock is never given back. A contended `Mutex` is not given
  back either, as the waiter's note replaces the holder's: its users block for good.
  `UnSoloDueno` holds all the same: these errors only lose units.
* `Lock` does not initialise `holdingThread`; if it is not null, no thread takes the lock.
* A finished thread is never deleted when the next thread to run is new and
  finishes too (`thread.cc:136`, `scheduler.cc:116`).
* `Condition::Wait` enables interrupts again before `Sleep` (`synch.cc:178`), whose ASSERT
  (`thread.cc:220`) then fails: a `Receive` on an empty mailbox ends NachOS. `AcuseCierto` and `Termina` are about what is left.

Of the request:

* The balancer looks for the blank line in its own buffer only, uninitialised and read up to its first zero
  (`Balanceador.cpp:245-252`): one that is split between two reads is missed, and one of an older request is found.
  The server's loop adds whatever its buffer held to the request. Hence `Perdido`.
* `WebCliente` takes it that its first read filled the buffer (`WebCliente.cpp:212-216`): when it did not, the file is
  padded with what the stack held. A file shorter than the buffer always is; a timed-out first read puts it in the middle.
  `Content-Length` is never looked at.
* `HTTP/3.0` is answered 400 and any other unknown version 505 (`InterpreteHTTP.cpp:80-88`); HEAD is answered
  with a body; a 400 for a missing `Host` has an empty protocol.
* The extension is what follows the *first* point (`FileSystem.cpp:257`), so that `a.tar.gz` is answered 501; a path
  without a point is taken for a directory, and answered 404.
* Files are opened for reading and writing (`FileSystem.cpp:109`): one that may only be read is answered 200, with size 0.

Of NachOS:

* `BitMap` has no `FetchFrom` or `WriteBack`, which `filesys.cc` calls (lines 125, 192, 207, 276, 282): the builds with the
  real file system (`filesys/`, `network/`) do not compile. `NachosArchivos` models the two members by those calls.
* A crash between directory and map leaves a file whose sectors are free, which the next file may take; when the
  next file takes the sector of its header, its entry cannot be opened any more. Removing one of two files that share a sector
  unmarks what is the other's: the third file to come may then take its header, and with it the only
  record of the sectors it had, which stay marked for ever. `SinFugas` therefore leaves out a disk where such a file was
  removed or written to (`intruso`). The proof found this; the small disk of the run does not reach it.
* `FileHeader::Allocate` does not compare the size with `NumDirect` (hence an assumption of `NachosArchivos`); the
  `PerformanceTest` of `fstest.cc:126-137` writes to a file that it created with size 0, and its first write fails.
* `Close` lowers the next entry whoever has it (`openfiletable.cc:24-27, 50`): `Socket`, `Socket`, `Close(3)`, `Socket` gives 4
  twice, and the first holder's 4 leads to the other's descriptor from then on. Hence `cierres` in `ManejoFiel`.
* A disk is mounted without a look at what is on it (`filesys.cc:137-142`).
* The table of open files is used up by opening and closing (`UsoExacto`). `Close` frees the descriptor but `Connect`,
  `Bind`, `Listen`, `Accept` and `Shutdown` use ids as descriptors; `Accept` gives back a raw descriptor; `Read` calls `recv`,
  which fails on files; `Create` leaks the descriptor it opens; a failed `Open` is registered.
* `threadsOnPhyPage` counts 32 frames of 1024 (`system.cc:41`); beyond them the code reads and writes past the array. A
  pointer to within 64 bytes of the end of the memory ends NachOS.
* `OP_OR` reads `rs` twice (`mipssim.cc:376`), `SRL` and `SRLV` shift a signed value (447, 453), and `DIV` of the lowest
  word by -1 stops the host.
* `Network::Receive` marks the device empty before it copies the packet (`network.cc:132-134`): with `-p` a packet may be
  written over (`pisado`). The worker then has the header of one packet and the contents of another, and the answer goes to
  the wrong machine: with three machines one may stop with an answer to a message that nobody read. Hence the `pisado` in
  `AcuseCierto`, which the two machines of the run would not need. `SendToSocket` aborts when the other machine is not up (`sysdep.cc:350`).

## 7. Plan

What is left, in the order of its use:

1. An abstract mailbox (a FIFO queue between machines) for `NachosRed` to implement without `-p`, and an abstract file
   (a function from positions to bytes) for `NachosArchivos`.
2. `NachosRed` over `NachosCerrojos`, so that its lock is the one proved about there.
3. The sorted list of pending interrupts with its times.
