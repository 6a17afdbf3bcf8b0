----------------------------- MODULE NachosArchivos -----------------------------
(***************************************************************************)
(* The file system of NachOS (filesys/filesys.cc, directory.cc, filehdr.cc, *)
(* openfile.cc and the bitmap they share, userprog/bitmap.cc), with a crash *)
(* at any sector write.                                                     *)
(*                                                                          *)
(* "This implementation assumes there is no concurrent access"              *)
(* (filesys.cc:167): one operation runs at a time.  It reads what it needs  *)
(* and decides in memory; what it writes are whole sectors, one after       *)
(* another, and that is the grain of a step: the operation leaves in        *)
(* pendientes the sectors it is going to write.  The free map and the       *)
(* directory take a sector each (disk.h:49-52: 128 and 200 bytes of 4096).  *)
(*                                                                          *)
(* escrito and dano are for the properties: what was written to each byte   *)
(* of each file since it was created, and whether something has happened    *)
(* that the code does not guard against.                                    *)
(***************************************************************************)
EXTENDS Integers, Sequences, FiniteSets

CONSTANTS
    NumSectors, SectorSize,
    NumDirect,          \* sectors a header has room for
    NumDirEntries,
    Nombres,            \* names of files, told apart by FileNameMaxLen characters
    Tamanos,            \* sizes asked of Create
    Manejos,            \* the OpenFile objects of the program
    Valores,            \* what is written, a byte repeated
    Nadie,              \* no name, no handle, or a byte nobody knows
    MaxCaidas           \* bound: crashes and reboots

\* Create does not compare the size with NumDirect (filehdr.cc:41-52): with
\* these sizes of sector and disk the free sectors run out before.
ASSUME ArchivosAssumption ==
    /\ NumSectors \in Nat /\ NumSectors > 4 /\ SectorSize \in Nat \ {0}
    /\ NumDirect \in Nat /\ NumSectors - 4 <= NumDirect + 1
    /\ NumDirEntries \in Nat \ {0} /\ Tamanos \subseteq Nat /\ MaxCaidas \in Nat
    /\ Nadie \notin Nombres \cup Valores

Sectores == 0 .. NumSectors - 1
Bytes == 0 .. SectorSize - 1
Entradas == 1 .. NumDirEntries

VARIABLES
    disco,          \* contents of each sector
    maquina,        \* "apagada", "formatea", "lista", "aborta"; "perdida": it goes on with
                    \* headers nobody wrote, and is not followed
    operacion,      \* the operation that is writing: its kind and file, and the bytes it changes
    pendientes,     \* sectors still to be written, in order
    abiertos,       \* OpenFile objects: header and seekPosition
    escrito,        \* by file and position: the byte last written
    dano,           \* "no"; "caida": a crash between two sectors that have to agree; "intruso"
    caidas          \* crashes so far

vars == <<disco, maquina, operacion, pendientes, abiertos, escrito, dano, caidas>>

-----------------------------------------------------------------------------
(* What a sector holds.                                                     *)

Cabecera(h)   == [clase |-> "cabecera", hdr |-> h]

\* What BitMap::WriteBack would write: the code calls it, but no BitMap of the
\* repository has it.
Mapa(S)       == [clase |-> "mapa", marcados |-> S]

Directorio(t) == [clase |-> "directorio", table |-> t]
Datos(b)      == [clase |-> "datos", bytes |-> b]

\* A sector read as data: those of another kind are bytes nobody wrote there.
Leido(c) == IF c.clase = "datos" THEN c.bytes ELSE [j \in Bytes |-> Nadie]

FreeMapSector == 0
DirectorySector == 1

-----------------------------------------------------------------------------
(* The free map.                                                            *)

divRoundUp(n, m) == (n + m - 1) \div m
NumClear(mapa) == Cardinality(Sectores \ mapa)

\* The k-th clear sector: what the k-th of a run of calls of BitMap::Find gives.
Find(mapa, k) ==
    CHOOSE s \in Sectores \ mapa : Cardinality({t \in Sectores \ mapa : t < s}) = k - 1

-----------------------------------------------------------------------------
(* Headers.                                                                 *)

\* FileHeader::Allocate, where there is room.
Allocate(mapa, fileSize) ==
    [numBytes |-> fileSize,
     dataSectors |-> [k \in 1 .. divRoundUp(fileSize, SectorSize) |-> Find(mapa, k)]]
Cabe(mapa, fileSize) == NumClear(mapa) >= divRoundUp(fileSize, SectorSize)

SectoresDe(hdr) == {hdr.dataSectors[k] : k \in DOMAIN hdr.dataSectors}

\* FileHeader::ByteToSector of the i-th sector of the file, counted from 0.
ByteToSector(hdr, i) == hdr.dataSectors[i + 1]

-----------------------------------------------------------------------------
(* The disk after FileSystem::FileSystem(true).                             *)

MapaHdr == Allocate({FreeMapSector, DirectorySector}, 1)
DirHdr == Allocate({FreeMapSector, DirectorySector} \cup SectoresDe(MapaHdr), 1)
MapaDatos == ByteToSector(MapaHdr, 0)
DirDatos == ByteToSector(DirHdr, 0)
Reservados == {FreeMapSector, DirectorySector, MapaDatos, DirDatos}

SinUso == [inUse |-> FALSE, name |-> Nadie, sector |-> 0]
Vacio == [e \in Entradas |-> SinUso]

Nueva(sector, contenido) == [sector |-> sector, contenido |-> contenido]

-----------------------------------------------------------------------------
(* The directory.  FetchFrom reads it whole at the start of each operation.  *)

mapaDisco == disco[MapaDatos].marcados
dirDisco == disco[DirDatos].table

\* Directory::FindIndex and Find, in a directory where a name is at most once.
Ocupa(tabla, f) == {e \in Entradas : tabla[e].inUse /\ tabla[e].name = f}
Existe(f) == Ocupa(dirDisco, f) # {}
Sector(f) == dirDisco[CHOOSE e \in Ocupa(dirDisco, f) : TRUE].sector

\* Directory::Add, in the first entry that is free.
Huecos(tabla) == {e \in Entradas : ~tabla[e].inUse}
Add(tabla, f, s) ==
    LET e == CHOOSE e \in Huecos(tabla) : \A i \in Huecos(tabla) : e <= i
    IN  [tabla EXCEPT ![e] = [inUse |-> TRUE, name |-> f, sector |-> s]]

\* Directory::Remove.
Quita(tabla, f) == [e \in Entradas |-> IF e \in Ocupa(tabla, f) THEN [tabla[e] EXCEPT !.inUse = FALSE] ELSE tabla[e]]

EsCabecera(s) == disco[s].clase = "cabecera"
HdrDe(f) == disco[Sector(f)].hdr

\* The sectors that an entry of the directory stands for.
Ocupados(e) ==
    LET s == dirDisco[e].sector IN {s} \cup (IF EsCabecera(s) THEN SectoresDe(disco[s].hdr) ELSE {})
EnUso == {e \in Entradas : dirDisco[e].inUse}

\* The file shares no sector with another.
Aparte(f) == \A e \in Ocupa(dirDisco, f), i \in EnUso : i # e => Ocupados(i) \cap Ocupados(e) = {}

-----------------------------------------------------------------------------
(* Steps.                                                                   *)

Ninguna == [tipo |-> "ninguna", nombre |-> Nadie, desde |-> 0, hasta |-> 0]
Cerrado == [nombre |-> Nadie]
SinEscribir == [i \in 0 .. NumDirect * SectorSize - 1 |-> Nadie]

Ociosa == maquina = "lista" /\ pendientes = <<>>

\* A disk nobody has used: its file was just made, and it has zeros in it
\* (disk.cc:58-66).
Init ==
    /\ disco = [s \in Sectores |-> Datos([j \in Bytes |-> Nadie])]
    /\ maquina = "apagada" /\ operacion = Ninguna /\ pendientes = <<>>
    /\ abiertos = [m \in Manejos |-> Cerrado]
    /\ escrito = [f \in Nombres |-> SinEscribir]
    /\ dano = "no" /\ caidas = 0

\* nachos -f: the constructor marks and allocates the two files of the system,
\* writes their headers, opens them and writes what they hold.
Formatear ==
    /\ maquina = "apagada"
    /\ maquina' = "formatea"
    /\ operacion' = [Ninguna EXCEPT !.tipo = "formato"]
    /\ pendientes' = << Nueva(FreeMapSector, Cabecera(MapaHdr)), Nueva(DirectorySector, Cabecera(DirHdr)),
                        Nueva(MapaDatos, Mapa(Reservados)), Nueva(DirDatos, Directorio(Vacio)) >>
    /\ escrito' = [f \in Nombres |-> SinEscribir]
    /\ UNCHANGED <<disco, abiertos, dano, caidas>>

\* nachos without -f.  Nothing is checked: on a disk that was never formatted to
\* the end, the free map and the directory are whatever is there.
Formateado ==
    /\ EsCabecera(FreeMapSector) /\ EsCabecera(DirectorySector)
    /\ disco[MapaDatos].clase = "mapa" /\ disco[DirDatos].clase = "directorio"
Montar ==
    /\ maquina = "apagada"
    /\ maquina' = IF Formateado THEN "lista" ELSE "perdida"
    /\ UNCHANGED <<disco, operacion, pendientes, abiertos, escrito, dano, caidas>>

\* SynchDisk::WriteSector returns: the sector is on disk.
Escribir ==
    /\ maquina \in {"formatea", "lista"} /\ pendientes # <<>>
    /\ disco' = [disco EXCEPT ![Head(pendientes).sector] = Head(pendientes).contenido]
    /\ pendientes' = Tail(pendientes)
    /\ IF pendientes' = <<>>
       THEN /\ maquina' = "lista" /\ operacion' = Ninguna
            /\ dano' = IF operacion.tipo = "formato" THEN "no" ELSE dano
       ELSE UNCHANGED <<maquina, operacion, dano>>
    /\ UNCHANGED <<abiertos, escrito, caidas>>

\* FileSystem::Create.  The header goes in the first free sector; the data goes
\* in the next ones.  Where it fails it has only changed its copies in memory.
PuedeCrear(f, tam) ==
    /\ ~Existe(f)
    /\ NumClear(mapaDisco) > 0
    /\ Huecos(dirDisco) # {}
    /\ Cabe(mapaDisco \cup {Find(mapaDisco, 1)}, tam)

\* Mutant: the map that is written has only the sectors of the new file.
EscriturasMapaNuevo(f, tam) ==
    LET s   == Find(mapaDisco, 1)
        hdr == Allocate(mapaDisco \cup {s}, tam)
    IN  << Nueva(s, Cabecera(hdr)), Nueva(DirDatos, Directorio(Add(dirDisco, f, s))),
           Nueva(MapaDatos, Mapa(Reservados \cup {s} \cup SectoresDe(hdr))) >>
Escrituras(f, tam) ==
    LET s   == Find(mapaDisco, 1)
        hdr == Allocate(mapaDisco \cup {s}, tam)
    IN  << Nueva(s, Cabecera(hdr)), Nueva(DirDatos, Directorio(Add(dirDisco, f, s))),
           Nueva(MapaDatos, Mapa(mapaDisco \cup {s} \cup SectoresDe(hdr))) >>

Create(f, tam) ==
    /\ Ociosa /\ PuedeCrear(f, tam)
    /\ pendientes' = Escrituras(f, tam)
    /\ operacion' = [Ninguna EXCEPT !.tipo = "create", !.nombre = f]
    /\ escrito' = [escrito EXCEPT ![f] = SinEscribir]
    /\ UNCHANGED <<disco, maquina, abiertos, dano, caidas>>

\* FileSystem::Remove, and the ASSERT of FileHeader::Deallocate.  The free map
\* is written first.  Nothing stops the removal of a file that a crash has left
\* sharing its sectors.
\* Mutant: the sector of the header is not given back.
LiberadosSinCabecera(f) == SectoresDe(HdrDe(f))
Liberados(f) == SectoresDe(HdrDe(f)) \cup {Sector(f)}

Remove(f) ==
    /\ Ociosa /\ Existe(f) /\ EsCabecera(Sector(f))
    /\ IF SectoresDe(HdrDe(f)) \subseteq mapaDisco
       THEN /\ pendientes' = << Nueva(MapaDatos, Mapa(mapaDisco \ Liberados(f))),
                                Nueva(DirDatos, Directorio(Quita(dirDisco, f))) >>
            /\ operacion' = [Ninguna EXCEPT !.tipo = "remove", !.nombre = f]
            /\ UNCHANGED maquina
       ELSE maquina' = "aborta" /\ UNCHANGED <<pendientes, operacion>>
    /\ escrito' = [escrito EXCEPT ![f] = SinEscribir]
    /\ dano' = IF Aparte(f) THEN dano ELSE "intruso"
    /\ UNCHANGED <<disco, abiertos, caidas>>

\* FileSystem::Open: the header is read once, and kept while the file is open.
Open(m, f) ==
    /\ Ociosa /\ abiertos[m] = Cerrado /\ Existe(f) /\ EsCabecera(Sector(f))
    /\ abiertos' = [abiertos EXCEPT ![m] = [nombre |-> f, hdr |-> HdrDe(f), seekPosition |-> 0]]
    /\ UNCHANGED <<disco, maquina, operacion, pendientes, escrito, dano, caidas>>

\* OpenFile::~OpenFile.
Cerrar(m) ==
    /\ Ociosa /\ abiertos[m] # Cerrado
    /\ abiertos' = [abiertos EXCEPT ![m] = Cerrado]
    /\ UNCHANGED <<disco, maquina, operacion, pendientes, escrito, dano, caidas>>

\* Open or Remove of a file whose header is what a crash has left in its place.
\* The disk refuses a sector out of range and the free map one not marked, and
\* NachOS ends (disk.cc:121, 143); bytes that pass for a header it goes on with.
Ilegible(f) ==
    /\ Ociosa /\ Existe(f) /\ ~EsCabecera(Sector(f))
    /\ maquina' \in {"aborta", "perdida"}
    /\ UNCHANGED <<disco, operacion, pendientes, abiertos, escrito, dano, caidas>>

-----------------------------------------------------------------------------
(* OpenFile::ReadAt and WriteAt.                                            *)

\* The bytes that a request of n at position reaches: none past the end.
Cuantos(hdr, n, position) ==
    IF n <= 0 \/ position >= hdr.numBytes THEN 0
    ELSE IF position + n > hdr.numBytes THEN hdr.numBytes - position ELSE n

\* ReadAt reads whole sectors and copies the part asked for.
ReadAt(hdr, n, position) ==
    [i \in 1 .. Cuantos(hdr, n, position) |->
        LET p == position + i - 1
        IN  Leido(disco[ByteToSector(hdr, p \div SectorSize)])[p % SectorSize]]

\* The buffer of WriteAt for the sector k of the file: the first and the last
\* are read in when they are written in part, up to the end of the file; beyond,
\* and in a sector not read in, there is what the heap held.
\* Mutant: the last sector is not read in when it is not the first.
BuferSinUltimo(hdr, k, n, position) ==
    LET primero == position \div SectorSize
        entero == k # primero \/ position % SectorSize = 0
        lee == IF entero THEN <<>> ELSE ReadAt(hdr, SectorSize, k * SectorSize)
    IN  [j \in Bytes |-> IF j + 1 \in DOMAIN lee THEN lee[j + 1] ELSE Nadie]
Bufer(hdr, k, n, position) ==
    LET primero == position \div SectorSize
        ultimo == (position + n - 1) \div SectorSize
        firstAligned == position = primero * SectorSize
        lastAligned == position + n = (ultimo + 1) * SectorSize
        lee == IF (k = primero /\ ~firstAligned) \/ (k = ultimo /\ ~lastAligned)
               THEN ReadAt(hdr, SectorSize, k * SectorSize) ELSE <<>>
    IN  [j \in Bytes |-> IF j + 1 \in DOMAIN lee THEN lee[j + 1] ELSE Nadie]

\* The sectors WriteAt writes, in order, n > 0 bytes v at position.
WriteAt(hdr, n, position, v) ==
    LET primero == position \div SectorSize
        ultimo == (position + n - 1) \div SectorSize
        Parte(k) == [j \in Bytes |-> IF k * SectorSize + j \in position .. position + n - 1
                                     THEN v ELSE Bufer(hdr, k, n, position)[j]]
    IN  [i \in 1 .. ultimo - primero + 1 |->
            Nueva(ByteToSector(hdr, primero + i - 1), Datos(Parte(primero + i - 1)))]

\* The sectors of a file are marked, and nobody else's.
Entero(f) ==
    /\ Aparte(f)
    /\ \A e \in Ocupa(dirDisco, f) :
        EsCabecera(dirDisco[e].sector) /\ Ocupados(e) \subseteq mapaDisco \ Reservados

\* The file of the handle is still the one it was opened on.
Vigente(m) ==
    LET a == abiertos[m] IN Existe(a.nombre) /\ EsCabecera(Sector(a.nombre)) /\ HdrDe(a.nombre) = a.hdr

\* OpenFile::Write.  Nothing stops a handle of a file that was removed, nor one of
\* a file that a crash has left sharing its sectors.
Write(m, n, v) ==
    /\ Ociosa /\ abiertos[m] # Cerrado
    /\ \E hdr \in {abiertos[m].hdr}, pos \in {abiertos[m].seekPosition}, f \in {abiertos[m].nombre} :
       \E c \in {Cuantos(hdr, n, pos)} :
        /\ c > 0
        /\ pendientes' = WriteAt(hdr, c, pos, v)
        /\ operacion' = [tipo |-> "write", nombre |-> f, desde |-> pos, hasta |-> pos + c - 1]
        /\ abiertos' = [abiertos EXCEPT ![m].seekPosition = pos + c]
        /\ IF Vigente(m) /\ Entero(f)
           THEN /\ escrito' = [escrito EXCEPT ![f] = [i \in DOMAIN @ |-> IF i \in pos .. pos + c - 1 THEN v ELSE @[i]]]
                /\ UNCHANGED dano
           ELSE dano' = "intruso" /\ UNCHANGED escrito
    /\ UNCHANGED <<disco, maquina, caidas>>

\* OpenFile::Read and Seek move the position of the handle.
Mover(m, p) ==
    /\ Ociosa /\ abiertos[m] # Cerrado
    /\ abiertos[m].seekPosition # p
    /\ abiertos' = [abiertos EXCEPT ![m].seekPosition = p]
    /\ UNCHANGED <<disco, maquina, operacion, pendientes, escrito, dano, caidas>>
Read(m, n) == Mover(m, abiertos[m].seekPosition + Cuantos(abiertos[m].hdr, n, abiertos[m].seekPosition))
Seek(m, p) == Mover(m, p)

-----------------------------------------------------------------------------
(* NachOS ends, at its own wish or not: memory is lost, the disk stays.      *)

\* What a crash leaves in doubt of a file being written.
EnDuda(i) ==
    /\ operacion.tipo = "write" /\ i \in operacion.desde .. operacion.hasta

\* The directory and the free map are being written, and one has been.
AMedias ==
    \/ operacion.tipo \in {"create", "remove"} /\ Len(pendientes) = 1
    \/ operacion.tipo = "formato"

Caida ==
    /\ maquina \in {"formatea", "lista"} /\ caidas < MaxCaidas
    /\ maquina' = "apagada" /\ pendientes' = <<>> /\ operacion' = Ninguna
    /\ abiertos' = [m \in Manejos |-> Cerrado]
    /\ escrito' = [f \in Nombres |->
                      IF f = operacion.nombre
                      THEN [i \in DOMAIN escrito[f] |-> IF EnDuda(i) THEN Nadie ELSE escrito[f][i]]
                      ELSE escrito[f]]
    /\ dano' = IF dano = "no" /\ AMedias THEN "caida" ELSE dano
    /\ caidas' = caidas + 1
    /\ UNCHANGED disco

Next ==
    \/ Formatear \/ Montar \/ Escribir \/ Caida
    \/ \E f \in Nombres, tam \in Tamanos : Create(f, tam)
    \/ \E f \in Nombres : Remove(f) \/ Ilegible(f)
    \/ \E m \in Manejos, f \in Nombres : Open(m, f)
    \/ \E m \in Manejos : Cerrar(m)
    \/ \E m \in Manejos, n \in Tamanos, v \in Valores : Write(m, n, v)
    \/ \E m \in Manejos, n \in Tamanos : abiertos[m] # Cerrado /\ (Read(m, n) \/ Seek(m, n))

Spec == Init /\ [][Next]_vars

-----------------------------------------------------------------------------
(* Properties.                                                              *)

\* Between operations, with the map and the directory where they should be.
Estable == Ociosa /\ disco[MapaDatos].clase = "mapa" /\ disco[DirDatos].clase = "directorio"

\* Disks hold sectors, and what is under way is known.
TypeOK ==
    /\ maquina \in {"apagada", "formatea", "lista", "aborta", "perdida"}
    /\ \A k \in DOMAIN pendientes : pendientes[k].sector \in Sectores
    /\ operacion.nombre \in Nombres \cup {Nadie}
    /\ \A m \in Manejos : abiertos[m] = Cerrado \/ abiertos[m].nombre \in Nombres
    /\ escrito \in [Nombres -> [0 .. NumDirect * SectorSize - 1 -> Valores \cup {Nadie}]]
    /\ dano \in {"no", "caida", "intruso"} /\ caidas \in 0 .. MaxCaidas

\* Create writes the directory before the map and Remove the map before the
\* directory (filesys.cc:205-207, 282-283): however many crashes, no sector is
\* left marked without a file it belongs to, as long as nobody writes through a
\* handle of a removed file, nor writes to or removes a file that shares its
\* sectors.  Removing one frees the header of another, and the next file to get
\* that sector takes the only record of what the other one had.
SinFugas ==
    Estable /\ dano # "intruso" => mapaDisco \subseteq Reservados \cup UNION {Ocupados(e) : e \in EnUso}

\* Map, directory and headers, three places written one after another, agree
\* between operations: the sectors marked are those of the system and those of
\* the files, and no sector has two owners.  No operation runs into an ASSERT,
\* and no crash disturbs that but one between the directory and the map; and
\* even then no sector is lost.
Concuerdan ==
    /\ SinFugas
    /\ maquina = "aborta" => dano # "no"
    /\ Estable /\ dano = "no" =>
        /\ mapaDisco = Reservados \cup UNION {Ocupados(e) : e \in EnUso}
        /\ \A e \in EnUso :
             /\ EsCabecera(dirDisco[e].sector)
             /\ Cardinality(Ocupados(e)) = 1 + Len(disco[dirDisco[e].sector].hdr.dataSectors)
             /\ Ocupados(e) \cap Reservados = {}
             /\ \A i \in EnUso \ {e} :
                  dirDisco[i].name # dirDisco[e].name /\ Ocupados(i) \cap Ocupados(e) = {}

\* The price: the file whose directory entry was being written may have sectors
\* that are not marked.  The first crash leaves every other file whole.
CaidaAcotada ==
    [][caidas' # caidas /\ dano = "no" /\ operacion.tipo # "formato" /\ maquina = "lista" =>
        \A f \in Nombres \ {operacion.nombre} : Existe(f)' = Existe(f) /\ Entero(f)']_vars

\* Reading any part of a file gives what was last written to each of its bytes,
\* whatever sectors the request and the writes before it began and ended in,
\* also after a crash, but for the bytes that were being written then.
LeeLoEscrito ==
    Estable /\ dano = "no" =>
        \A f \in Nombres, n \in Tamanos, p \in 0 .. NumDirect * SectorSize - 1 : Existe(f) =>
            \E r \in {ReadAt(HdrDe(f), n, p)} :
                /\ Len(r) = Cardinality((p .. p + n - 1) \cap (0 .. HdrDe(f).numBytes - 1))
                /\ \A i \in DOMAIN r : escrito[f][p + i - 1] \in {Nadie, r[i]}
================================================================================
