-------------------------- MODULE NachosArchivos_proofs --------------------------
(***************************************************************************)
(* The file system of NachOS, for disks, directories and sectors of any     *)
(* size, any number of files and of crashes: map, directory and headers     *)
(* agree between operations, no sector is lost, the first crash harms only  *)
(* the file that was being created or removed, and each byte holds what was *)
(* last written to it.                                                      *)
(***************************************************************************)
EXTENDS NachosArchivos, FiniteSetTheorems, FunctionTheorems, WellFoundedInduction, TLAPS

-----------------------------------------------------------------------------
(* Numbers                                                                  *)

\* A set of numbers has a first one.
LEMMA PrimerNatural ==
    ASSUME NEW T \in SUBSET Nat, T # {}
    PROVE  \E x \in T : \A y \in T : x <= y
<1>1. IsWellFoundedOn(OpToRel(<,Nat), Nat)
  BY NatLessThanWellFounded
<1>2. PICK x \in T : \A y \in T : ~(<<y, x>> \in OpToRel(<,Nat))
  BY <1>1, WFMin
<1>3. ASSUME NEW y \in T PROVE x <= y
  <2>1. ~(<<y, x>> \in {ss \in Nat \X Nat : ss[1] < ss[2]})
    BY <1>2 DEF OpToRel
  <2> QED
    BY <2>1
<1> QED
  BY <1>3

Antes(L, s) == {t \in L : t < s}

\* The elements of a finite set of numbers can be counted off.
LEMMA Rango ==
    ASSUME NEW L \in SUBSET Nat, IsFiniteSet(L), NEW k \in Nat, k < Cardinality(L)
    PROVE  \E s \in L : Cardinality(Antes(L, s)) = k
<1> DEFINE Malos == {n \in Nat : n < Cardinality(L) /\ \A s \in L : Cardinality(Antes(L, s)) # n}
<1>0. Cardinality(L) \in Nat
  BY FS_CardinalityType
<1>1. SUFFICES ASSUME Malos # {} PROVE FALSE
  BY DEF Malos
<1>2. PICK n \in Malos : \A y \in Malos : n <= y
  BY <1>1, PrimerNatural
<1>3. n \in Nat /\ n < Cardinality(L) /\ \A s \in L : Cardinality(Antes(L, s)) # n
  BY <1>2
<1>4. PICK D \in SUBSET L : Cardinality(D) = n /\ IsFiniteSet(D) /\ \A d \in D, e \in L : e <= d => e \in D
  <2>1. CASE n = 0
    BY <2>1, FS_EmptySet
  <2>2. CASE n # 0
    <3>1. n - 1 \in Nat /\ n - 1 \notin Malos
      BY <1>2, <1>3, <2>2
    <3>2. PICK s \in L : Cardinality(Antes(L, s)) = n - 1
      BY <1>0, <1>3, <3>1
    <3> DEFINE D == Antes(L, s) \cup {s}
    <3>3. D \in SUBSET L /\ s \notin Antes(L, s) /\ Antes(L, s) \in SUBSET L
      BY DEF Antes
    <3>4. IsFiniteSet(Antes(L, s))
      BY <3>3, FS_Subset
    <3>5. /\ IsFiniteSet(D)
          /\ Cardinality(D) = Cardinality(Antes(L, s)) + 1
      BY <3>3, <3>4, FS_AddElement
    <3>7. Cardinality(D) = n
      BY <1>3, <3>2, <3>5
    <3>6. \A d \in D, e \in L : e <= d => e \in D
      BY DEF Antes
    <3> QED
      BY <3>3, <3>5, <3>6, <3>7
  <2> QED
    BY <2>1, <2>2
<1>5. L \ D # {}
  <2>1. D # L
    BY <1>0, <1>3, <1>4
  <2> QED
    BY <2>1
<1>6. PICK s \in L \ D : \A y \in L \ D : s <= y
  BY <1>5, PrimerNatural
<1>7. Antes(L, s) = D
  <2>1. ASSUME NEW t \in L, t < s PROVE t \in D
    BY <1>6, <2>1
  <2>2. ASSUME NEW t \in D PROVE t < s
    BY <1>4, <1>6
  <2> QED
    BY <2>1, <2>2 DEF Antes
<1> QED
  BY <1>3, <1>4, <1>6, <1>7

\* What the division of C leaves, of numbers that are not negative.
LEMMA Division ==
    ASSUME NEW a \in Int, NEW p \in Nat \ {0}
    PROVE  /\ a \div p \in Int /\ a % p \in 0 .. p - 1
           /\ a = p * (a \div p) + (a % p)
OBVIOUS

\* The quotient of two naturals is one.
LEMMA CocienteNat ==
    ASSUME NEW a \in Nat, NEW p \in Nat \ {0}
    PROVE  a \div p \in Nat
<1> DEFINE d == a \div p
<1>1. d \in Int /\ a % p \in 0 .. p - 1 /\ a = p * d + (a % p)
  BY Division
<1> DEFINE r == a % p
<1> HIDE DEF d, r
<1>2. ASSUME d < 0 PROVE FALSE
  <2>1. p * (d + 1) <= 0
    BY <1>1, <1>2
  <2> QED
    BY <1>1, <2>1 DEF r
<1>3. d \in Nat
  BY <1>1, <1>2
<1> QED
  BY <1>3 DEF d

\* The quotient is the number of whole times p fits.
LEMMA Cociente ==
    ASSUME NEW a \in Int, NEW p \in Nat \ {0}, NEW q \in Int, p * q <= a, a < p * q + p
    PROVE  a \div p = q
<1> DEFINE d == a \div p
<1>1. d \in Int /\ a % p \in 0 .. p - 1 /\ a = p * d + (a % p)
  BY Division
<1> HIDE DEF d
<1>2. p * d < p * (q + 1) /\ p * q < p * (d + 1)
  BY <1>1
<1>3. d < q + 1 /\ q < d + 1
  <2>1. ASSUME d >= q + 1 PROVE FALSE
    BY <1>1, <1>2, <2>1
  <2>2. ASSUME q >= d + 1 PROVE FALSE
    BY <1>1, <1>2, <2>2
  <2> QED BY <1>1, <2>1, <2>2
<1>4. d = q
  BY <1>1, <1>3
<1> QED
  BY <1>4 DEF d

\* A byte is before sector n exactly when its sector is.
LEMMA MenorCociente ==
    ASSUME NEW v \in Nat, NEW p \in Nat \ {0}, NEW n \in Nat
    PROVE  v < n * p <=> v \div p < n
<1> DEFINE d == v \div p
<1>1. d \in Int /\ v % p \in 0 .. p - 1 /\ v = p * d + (v % p)
  BY Division
<1> HIDE DEF d
<1>2. ASSUME v < n * p, d >= n PROVE FALSE
  <2>1. p * d >= p * n
    BY <1>1, <1>2
  <2> QED BY <1>1, <1>2, <2>1
<1>3. ASSUME v >= n * p, d < n PROVE FALSE
  <2>1. p * (d + 1) <= p * n
    BY <1>1, <1>3
  <2>2. p * d + p <= p * n
    BY <1>1, <2>1
  <2> QED BY <1>1, <1>3, <2>2
<1>4. v < n * p <=> d < n
  BY <1>1, <1>2, <1>3
<1> QED
  BY <1>4 DEF d

\* divRoundUp counts the sectors that hold c bytes.
LEMMA Redondeo ==
    ASSUME NEW c \in Nat, NEW p \in Nat \ {0}
    PROVE  /\ divRoundUp(c, p) \in Nat
           /\ \A v \in Nat : v < c => v \div p < divRoundUp(c, p)
           /\ \A t \in Nat : c <= t => divRoundUp(c, p) <= divRoundUp(t, p)
<1> DEFINE d == divRoundUp(c, p)
<1>1. d \in Int /\ (c + p - 1) % p \in 0 .. p - 1 /\ c + p - 1 = p * d + ((c + p - 1) % p)
  <2>1. c + p - 1 \in Int
    OBVIOUS
  <2> QED
    BY <2>1, Division DEF divRoundUp
<1> DEFINE r == (c + p - 1) % p
<1> HIDE DEF d, r
<1>2. d \in Nat
  <2>1. ASSUME d < 0 PROVE FALSE
    <3>1. p * (d + 1) <= 0
      BY <1>1, <2>1
    <3> QED BY <1>1, <3>1 DEF r
  <2> QED BY <1>1, <2>1
<1>3. c <= d * p
  BY <1>1 DEF r
<1>4. ASSUME NEW v \in Nat, v < c PROVE v \div p < d
  BY <1>2, <1>3, <1>4, MenorCociente
<1>5. ASSUME NEW t \in Nat, c <= t PROVE d <= divRoundUp(t, p)
  <2> DEFINE e == divRoundUp(t, p)
  <2>1. e \in Int /\ (t + p - 1) % p \in 0 .. p - 1 /\ t + p - 1 = p * e + ((t + p - 1) % p)
    <3>1. t + p - 1 \in Int
      OBVIOUS
    <3> QED
      BY <3>1, Division DEF divRoundUp
  <2> DEFINE s == (t + p - 1) % p
  <2> HIDE DEF e, s
  <2>2. ASSUME e < d PROVE FALSE
    <3>1. p * (e + 1) <= p * d
      BY <1>1, <2>1, <2>2
    <3>2. p * e + p <= p * d
      BY <1>1, <2>1, <3>1
    <3> QED BY <1>1, <1>5, <2>1, <3>2 DEF r, s
  <2>3. d <= e
    BY <1>1, <2>1, <2>2
  <2> QED BY <2>3 DEF e
<1> QED
  BY <1>2, <1>4, <1>5 DEF d

\* A division grows with what is divided.
LEMMA CocienteCrece ==
    ASSUME NEW a \in Nat, NEW b \in Nat, a <= b, NEW p \in Nat \ {0}
    PROVE  a \div p <= b \div p
<1> DEFINE q == a \div p
           r == b \div p
<1>1. q \in Nat /\ r \in Nat /\ r + 1 \in Nat
  BY CocienteNat
<1>2. r < r + 1
  BY <1>1
<1>3. b < (r + 1) * p
  BY <1>1, <1>2, MenorCociente
<1>4. (r + 1) * p \in Nat
  BY <1>1
<1>5. a < (r + 1) * p
  BY <1>3, <1>4
<1>6. q < r + 1
  BY <1>1, <1>5, MenorCociente
<1> HIDE DEF q, r
<1>7. q <= r
  BY <1>1, <1>6
<1> QED
  BY <1>7 DEF q, r


-----------------------------------------------------------------------------
(* The free map and the headers                                             *)

\* The disk has NumSectors sectors.
LEMMA SectoresFinitos == IsFiniteSet(Sectores) /\ Cardinality(Sectores) = NumSectors
<1>1. NumSectors \in Nat /\ NumSectors > 4
  BY ArchivosAssumption
<1> QED
  BY <1>1, FS_Interval DEF Sectores

\* BitMap::Find gives a sector that is clear, and another one each time.
LEMMA FindBien ==
    ASSUME NEW S \in SUBSET Sectores, NEW k \in 1 .. NumClear(S)
    PROVE  /\ Find(S, k) \in Sectores \ S
           /\ Cardinality(Antes(Sectores \ S, Find(S, k))) = k - 1
<1> DEFINE L == Sectores \ S
<1>1. IsFiniteSet(L) /\ L \in SUBSET Nat
  <2>1. Sectores \in SUBSET Nat
    BY ArchivosAssumption DEF Sectores
  <2> QED
    BY <2>1, SectoresFinitos, FS_Subset
<1>2. Cardinality(L) = NumClear(S) /\ Cardinality(L) \in Nat
  BY <1>1, FS_CardinalityType DEF NumClear
<1>3. k - 1 \in Nat /\ k - 1 < Cardinality(L)
  BY <1>2
<1> HIDE DEF L
<1>4. \E s \in L : Cardinality(Antes(L, s)) = k - 1
  BY <1>1, <1>3, Rango
<1>5. Find(S, k) = CHOOSE s \in L : Cardinality(Antes(L, s)) = k - 1
  BY DEF Find, Antes, L
<1>6. Find(S, k) \in L /\ Cardinality(Antes(L, Find(S, k))) = k - 1
  BY <1>4, <1>5
<1> QED
  BY <1>6 DEF L

\* FileHeader::Allocate gives a file sectors that were clear, each one once.
LEMMA AllocateBien ==
    ASSUME NEW S \in SUBSET Sectores, NEW n \in Nat, Cabe(S, n)
    PROVE  /\ Allocate(S, n).numBytes = n
           /\ divRoundUp(n, SectorSize) \in Nat
           /\ Allocate(S, n).dataSectors \in [1 .. divRoundUp(n, SectorSize) -> Sectores \ S]
           /\ \A i, j \in 1 .. divRoundUp(n, SectorSize) :
                 i # j => Allocate(S, n).dataSectors[i] # Allocate(S, n).dataSectors[j]
<1> DEFINE d == divRoundUp(n, SectorSize)
<1>1. d \in Nat
  BY ArchivosAssumption, Redondeo
<1>2. NumClear(S) \in Nat /\ d <= NumClear(S)
  <2>1. IsFiniteSet(Sectores \ S)
    BY SectoresFinitos, FS_Subset
  <2> QED
    BY <2>1, FS_CardinalityType DEF NumClear, Cabe
<1> HIDE DEF d
<1>3. \A k \in 1 .. d : k \in 1 .. NumClear(S)
  BY <1>1, <1>2
<1>4. \A k \in 1 .. d : Find(S, k) \in Sectores \ S /\ Cardinality(Antes(Sectores \ S, Find(S, k))) = k - 1
  BY <1>3, FindBien
<1>5. ASSUME NEW i \in 1 .. d, NEW j \in 1 .. d, i # j PROVE Find(S, i) # Find(S, j)
  <2>1. i - 1 # j - 1
    BY <1>1, <1>5
  <2> QED
    BY <1>4, <2>1
<1>6. Allocate(S, n) = [numBytes |-> n, dataSectors |-> [k \in 1 .. d |-> Find(S, k)]]
  BY DEF Allocate, d
<1>7. /\ Allocate(S, n).numBytes = n
      /\ Allocate(S, n).dataSectors \in [1 .. d -> Sectores \ S]
      /\ \A i, j \in 1 .. d : i # j => Allocate(S, n).dataSectors[i] # Allocate(S, n).dataSectors[j]
  BY <1>4, <1>5, <1>6
<1> QED
  BY <1>1, <1>7 DEF d

\* A file of one byte takes one sector: those of the map and of the directory.
LEMMA UnSector ==
    ASSUME NEW S \in SUBSET Sectores, Cardinality(Sectores \ S) >= 1
    PROVE  /\ ByteToSector(Allocate(S, 1), 0) \in Sectores \ S
           /\ SectoresDe(Allocate(S, 1)) = {ByteToSector(Allocate(S, 1), 0)}
<1>1. divRoundUp(1, SectorSize) = 1
  <2>1. SectorSize \in Nat \ {0} /\ 1 + SectorSize - 1 \in Int
    BY ArchivosAssumption
  <2>2. SectorSize * 1 <= 1 + SectorSize - 1 /\ 1 + SectorSize - 1 < SectorSize * 1 + SectorSize
    BY <2>1
  <2> QED
    BY <2>1, <2>2, Cociente DEF divRoundUp
<1>2. Cabe(S, 1)
  BY <1>1 DEF Cabe, NumClear
<1>3. Allocate(S, 1).dataSectors \in [1 .. 1 -> Sectores \ S]
  BY <1>1, <1>2, AllocateBien
<1>4. 0 + 1 \in 1 .. 1 /\ \A k \in 1 .. 1 : k = 0 + 1
  OBVIOUS
<1> QED
  BY <1>3, <1>4 DEF ByteToSector, SectoresDe


\* Counting a set of sectors, the rest, and the set less one.
LEMMA SinUno ==
    ASSUME NEW S \in SUBSET Sectores
    PROVE  /\ IsFiniteSet(S) /\ Cardinality(S) \in Nat /\ Cardinality(S) <= NumSectors
           /\ Cardinality(Sectores \ S) = NumSectors - Cardinality(S)
<1>1. IsFiniteSet(S) /\ Cardinality(S) \in Nat /\ Cardinality(S) <= NumSectors
  BY SectoresFinitos, FS_Subset, FS_CardinalityType
<1>2. Sectores \cap S = S
  OBVIOUS
<1>3. Cardinality(Sectores \ S) = Cardinality(Sectores) - Cardinality(Sectores \cap S)
  BY SectoresFinitos, FS_Difference
<1> QED
  BY <1>1, <1>2, <1>3, SectoresFinitos

\* The four sectors of the system are different ones.
LEMMA Sistema ==
    /\ FreeMapSector \in Sectores /\ DirectorySector \in Sectores
    /\ MapaDatos \in Sectores /\ DirDatos \in Sectores
    /\ FreeMapSector # DirectorySector /\ MapaDatos # DirDatos
    /\ FreeMapSector # MapaDatos /\ FreeMapSector # DirDatos
    /\ DirectorySector # MapaDatos /\ DirectorySector # DirDatos
    /\ Reservados \subseteq Sectores /\ IsFiniteSet(Reservados) /\ Cardinality(Reservados) = 4
<1> DEFINE A == {FreeMapSector, DirectorySector}
<1>0. NumSectors \in Nat /\ NumSectors > 4
  BY ArchivosAssumption
<1>1. /\ FreeMapSector \in Sectores /\ DirectorySector \in Sectores /\ FreeMapSector # DirectorySector
  BY <1>0 DEF FreeMapSector, DirectorySector, Sectores
<1>2. IsFiniteSet(A) /\ Cardinality(A) = 2 /\ A \in SUBSET Sectores
  <2>1. IsFiniteSet({FreeMapSector}) /\ Cardinality({FreeMapSector}) = 1
    BY FS_Singleton
  <2>2. A = {FreeMapSector} \cup {DirectorySector} /\ DirectorySector \notin {FreeMapSector}
    BY <1>1
  <2>3. IsFiniteSet(A) /\ Cardinality(A) = 1 + 1
    BY <2>1, <2>2, FS_AddElement
  <2> QED
    BY <1>1, <2>3
<1> HIDE DEF A
<1>3. Cardinality(Sectores \ A) = NumSectors - 2
  BY <1>2, SinUno
<1>4. MapaDatos \in Sectores \ A /\ SectoresDe(MapaHdr) = {MapaDatos}
  BY <1>0, <1>2, <1>3, UnSector DEF MapaDatos, MapaHdr, A
<1> DEFINE C == A \cup SectoresDe(MapaHdr)
<1>5. IsFiniteSet(C) /\ Cardinality(C) = 3 /\ C \in SUBSET Sectores
  <2>1. C = A \cup {MapaDatos}
    BY <1>4
  <2> HIDE DEF C
  <2>2. IsFiniteSet(C) /\ Cardinality(C) = 2 + 1
    BY <1>2, <1>4, <2>1, FS_AddElement
  <2> QED
    BY <1>2, <1>4, <2>1, <2>2
<1> HIDE DEF C
<1>6. Cardinality(Sectores \ C) = NumSectors - 3
  BY <1>5, SinUno
<1>7. DirDatos \in Sectores \ C
  BY <1>0, <1>5, <1>6, UnSector DEF DirDatos, DirHdr, A, C
<1>8. DirDatos \notin A /\ DirDatos # MapaDatos
  BY <1>4, <1>7 DEF C
<1>9. Reservados = C \cup {DirDatos}
  BY <1>4 DEF Reservados, C, A
<1>10. IsFiniteSet(Reservados) /\ Cardinality(Reservados) = 3 + 1
  BY <1>5, <1>7, <1>9, FS_AddElement
<1>11. MapaDatos \notin A
  BY <1>4
<1> QED
  BY <1>1, <1>4, <1>5, <1>7, <1>8, <1>9, <1>10, <1>11 DEF A

-----------------------------------------------------------------------------
(* The invariant                                                            *)

\* A map: the sectors of the system are in it.
MapaBien(S) == S \in SUBSET Sectores /\ Reservados \subseteq S

\* A header: as many sectors as its bytes take, each of them once, none of the system's.
HdrBien(h) ==
    /\ h.numBytes \in Nat
    /\ divRoundUp(h.numBytes, SectorSize) \in Nat
    /\ h.dataSectors \in [1 .. divRoundUp(h.numBytes, SectorSize) -> Sectores \ Reservados]
    /\ \A i, j \in DOMAIN h.dataSectors : i # j => h.dataSectors[i] # h.dataSectors[j]

\* A directory: a name is in it at most once, and no header is in a sector of the system.
DirBien(t) ==
    /\ t \in [Entradas -> [inUse : BOOLEAN, name : Nombres \cup {Nadie}, sector : Sectores]]
    /\ \A e \in Entradas : t[e].inUse => t[e].name \in Nombres /\ t[e].sector \notin Reservados
    /\ \A e, i \in Entradas : t[e].inUse /\ t[i].inUse /\ t[e].name = t[i].name => e = i

ContenidoBien(s, c) ==
    /\ s = MapaDatos /\ c.clase = "mapa" => MapaBien(c.marcados)
    /\ s = DirDatos /\ c.clase = "directorio" => DirBien(c.table)
    /\ s \notin Reservados /\ c.clase = "cabecera" => HdrBien(c.hdr) /\ s \notin SectoresDe(c.hdr)

DiscoBien == DOMAIN disco = Sectores /\ \A s \in Sectores : ContenidoBien(s, disco[s])

Montado == disco[MapaDatos].clase = "mapa" /\ disco[DirDatos].clase = "directorio"

AbiertosBien ==
    /\ DOMAIN abiertos = Manejos
    /\ \A m \in Manejos :
          \/ abiertos[m] = Cerrado
          \/ /\ abiertos[m] = [nombre |-> abiertos[m].nombre, hdr |-> abiertos[m].hdr, seekPosition |-> abiertos[m].seekPosition]
             /\ abiertos[m].nombre \in Nombres /\ HdrBien(abiertos[m].hdr) /\ abiertos[m].seekPosition \in Nat

Control ==
    /\ maquina \in {"apagada", "formatea", "lista", "aborta", "perdida"}
    /\ operacion.tipo \in {"ninguna", "formato", "create", "remove", "write"}
    /\ operacion.nombre \in Nombres \cup {Nadie}
    /\ operacion.tipo \in {"create", "remove", "write"} => operacion.nombre \in Nombres
    /\ (maquina = "formatea") = (operacion.tipo = "formato")
    /\ (pendientes = <<>>) = (operacion.tipo = "ninguna")
    /\ maquina \in {"apagada", "aborta", "perdida"} => pendientes = <<>>
    /\ maquina = "lista" => Montado
    /\ escrito \in [Nombres -> [0 .. NumDirect * SectorSize - 1 -> Valores \cup {Nadie}]]
    /\ dano \in {"no", "caida", "intruso"} /\ caidas \in 0 .. MaxCaidas

\* The sectors that each operation has still to write.
EscribeDir(f, s) == Nueva(DirDatos, Directorio(Add(dirDisco, f, s)))
EscribeMapa(s, h) == Nueva(MapaDatos, Mapa(mapaDisco \cup {s} \cup SectoresDe(h)))

Formateando ==
    operacion.tipo = "formato" =>
        LET A == Nueva(FreeMapSector, Cabecera(MapaHdr))
            B == Nueva(DirectorySector, Cabecera(DirHdr))
            C == Nueva(MapaDatos, Mapa(Reservados))
            D == Nueva(DirDatos, Directorio(Vacio))
        IN  \/ pendientes \in {<<A, B, C, D>>, <<B, C, D>>, <<C, D>>}
            \/ pendientes = <<D>> /\ disco[MapaDatos] = Mapa(Reservados)

CreandoCon(f, s, h) ==
    /\ HdrBien(h) /\ s \notin SectoresDe(h) /\ SectoresDe(h) \cap mapaDisco = {}
    /\ \/ /\ ~Existe(f) /\ Huecos(dirDisco) # {}
          /\ \/ pendientes = <<Nueva(s, Cabecera(h)), EscribeDir(f, s), EscribeMapa(s, h)>>
             \/ pendientes = <<EscribeDir(f, s), EscribeMapa(s, h)>> /\ disco[s] = Cabecera(h)
       \/ /\ pendientes = <<EscribeMapa(s, h)>> /\ disco[s] = Cabecera(h)
          /\ \E e \in EnUso : dirDisco[e].name = f /\ dirDisco[e].sector = s

Creando == operacion.tipo = "create" => \E s \in Sectores \ mapaDisco : \E h : CreandoCon(operacion.nombre, s, h)

EscribeQuita(f) == Nueva(DirDatos, Directorio(Quita(dirDisco, f)))

Borrando ==
    operacion.tipo = "remove" =>
        LET f == operacion.nombre
        IN  /\ Existe(f) /\ EsCabecera(Sector(f))
            /\ \/ /\ pendientes = <<Nueva(MapaDatos, Mapa(mapaDisco \ Liberados(f))), EscribeQuita(f)>>
                  /\ dano # "intruso" => Aparte(f)
               \/ pendientes = <<EscribeQuita(f)>>

Escribiendo ==
    operacion.tipo = "write" =>
        LET f == operacion.nombre
        IN  /\ pendientes \in Seq({pendientes[k] : k \in DOMAIN pendientes})
            /\ \A k \in DOMAIN pendientes :
                  pendientes[k].sector \in Sectores \ Reservados /\ pendientes[k].contenido.clase = "datos"
            /\ dano # "intruso" =>
                  /\ Existe(f) /\ EsCabecera(Sector(f))
                  /\ \A k \in DOMAIN pendientes :
                        /\ pendientes[k].sector \in SectoresDe(HdrDe(f))
                        /\ \A e \in EnUso : dirDisco[e].sector # pendientes[k].sector

\* One of the two places has been written.
AMitad == operacion.tipo \in {"create", "remove"} /\ Len(pendientes) = 1
EnVilo == IF AMitad THEN Ocupa(dirDisco, operacion.nombre) ELSE {}

SinPerdida ==
    Montado /\ dano # "intruso" =>
        \A x \in mapaDisco \ Reservados :
            \E e \in EnUso \ EnVilo : dirDisco[e].sector \in mapaDisco /\ x \in Ocupados(e)

Coherente ==
    Montado /\ dano = "no" /\ operacion.tipo # "formato" =>
        /\ mapaDisco = Reservados \cup UNION {Ocupados(e) : e \in EnUso \ EnVilo}
        /\ \A e \in EnUso : EsCabecera(dirDisco[e].sector)
        /\ \A e, i \in EnUso : i # e => Ocupados(i) \cap Ocupados(e) = {}
        /\ \A e \in EnVilo : Ocupados(e) \cap mapaDisco = {}

Parada == maquina = "aborta" => dano # "no"

ArchivosInv ==
    /\ DiscoBien /\ AbiertosBien /\ Control
    /\ Formateando /\ Creando /\ Borrando /\ Escribiendo
    /\ SinPerdida /\ Coherente /\ Parada

\* The byte p of the file of header h, on disk.
EnDisco(h, p) == Leido(disco[ByteToSector(h, p \div SectorSize)])[p % SectorSize]

Suyo(f) == operacion.tipo = "write" /\ f = operacion.nombre

\* What was written to a byte is on disk, unless it is among the bytes that a
\* write is changing; and it is in the sectors that the write has still to do.
ByteBien(f, p) ==
    LET s == ByteToSector(HdrDe(f), p \div SectorSize)
    IN  /\ ~(Suyo(f) /\ p \in operacion.desde .. operacion.hasta) =>
              escrito[f][p] \in {Nadie, EnDisco(HdrDe(f), p)}
        /\ Suyo(f) =>
             /\ \A k \in DOMAIN pendientes : pendientes[k].sector = s =>
                    escrito[f][p] \in {Nadie, pendientes[k].contenido.bytes[p % SectorSize]}
             /\ (\A k \in DOMAIN pendientes : pendientes[k].sector # s) =>
                    escrito[f][p] \in {Nadie, EnDisco(HdrDe(f), p)}

SinNada == operacion.tipo \in {"create", "remove"} => escrito[operacion.nombre] = SinEscribir

BytesInv ==
    /\ SinNada
    /\ Montado /\ dano = "no" /\ operacion.tipo # "formato" =>
          \A f \in Nombres : Existe(f) => \A p \in 0 .. HdrDe(f).numBytes - 1 : ByteBien(f, p)

-----------------------------------------------------------------------------
(* What a sector stands for, by the contents of the disk.                   *)

Suyos(c, s) == {s} \cup (IF c.clase = "cabecera" THEN SectoresDe(c.hdr) ELSE {})

\* The sectors of an entry depend on one sector of the disk.
LEMMA OcupadosSuyos == \A e : Ocupados(e) = Suyos(disco[dirDisco[e].sector], dirDisco[e].sector)
  BY DEF Ocupados, Suyos, EsCabecera

\* Headers are outside the sectors of the system, and so is what they list.
LEMMA HdrSectores ==
    ASSUME NEW h, HdrBien(h)
    PROVE  SectoresDe(h) \subseteq Sectores \ Reservados
  BY DEF HdrBien, SectoresDe

\* A name is in the directory once: Directory::FindIndex finds that entry.
LEMMA UnaEntrada ==
    ASSUME DirBien(dirDisco), NEW f, NEW e \in Ocupa(dirDisco, f)
    PROVE  /\ Ocupa(dirDisco, f) = {e} /\ e \in EnUso
           /\ Existe(f) /\ Sector(f) = dirDisco[e].sector
           /\ Sector(f) \in Sectores \ Reservados /\ f \in Nombres
<1>1. e \in Entradas /\ dirDisco[e].inUse /\ dirDisco[e].name = f
  BY DEF Ocupa
<1>2. \A i \in Ocupa(dirDisco, f) : i = e
  BY <1>1 DEF DirBien, Ocupa
<1>3. Ocupa(dirDisco, f) = {e}
  BY <1>2
<1>4. (CHOOSE i \in Ocupa(dirDisco, f) : TRUE) = e
  BY <1>2, <1>3
<1>5. Sector(f) = dirDisco[e].sector
  BY <1>4 DEF Sector
<1>6. dirDisco[e].sector \in Sectores \ Reservados /\ f \in Nombres
  BY <1>1 DEF DirBien
<1> QED
  BY <1>1, <1>3, <1>5, <1>6 DEF Existe, EnUso

\* What an entry in use says.
LEMMA EnUsoBien ==
    ASSUME DirBien(dirDisco), NEW e \in EnUso
    PROVE  /\ e \in Entradas /\ dirDisco[e].sector \in Sectores \ Reservados
           /\ dirDisco[e].name \in Nombres /\ e \in Ocupa(dirDisco, dirDisco[e].name)
  BY DEF DirBien, EnUso, Ocupa

\* Directory::Add fills an entry that was free, and leaves the others.
LEMMA AddBien ==
    ASSUME NEW t, DirBien(t), NEW f \in Nombres, Ocupa(t, f) = {}, Huecos(t) # {},
           NEW s \in Sectores \ Reservados
    PROVE  /\ DirBien(Add(t, f, s))
           /\ \E e \in Huecos(t) : /\ e \in Entradas /\ ~t[e].inUse
                                   /\ Add(t, f, s)[e] = [inUse |-> TRUE, name |-> f, sector |-> s]
                                   /\ \A i \in Entradas \ {e} : Add(t, f, s)[i] = t[i]
<1> DEFINE e == CHOOSE e \in Huecos(t) : \A i \in Huecos(t) : e <= i
<1>1. Huecos(t) \in SUBSET Nat
  BY ArchivosAssumption DEF Huecos, Entradas
<1>2. \E x \in Huecos(t) : \A i \in Huecos(t) : x <= i
  BY <1>1, PrimerNatural
<1>3. e \in Huecos(t)
  BY <1>2
<1>4. Add(t, f, s) = [t EXCEPT ![e] = [inUse |-> TRUE, name |-> f, sector |-> s]]
  BY DEF Add
<1> HIDE DEF e
<1>5. e \in Entradas /\ ~t[e].inUse
  BY <1>3 DEF Huecos
<1> DEFINE u == Add(t, f, s)
<1>6. t \in [Entradas -> [inUse : BOOLEAN, name : Nombres \cup {Nadie}, sector : Sectores]]
  BY DEF DirBien
<1>7. /\ u \in [Entradas -> [inUse : BOOLEAN, name : Nombres \cup {Nadie}, sector : Sectores]]
      /\ u[e] = [inUse |-> TRUE, name |-> f, sector |-> s]
      /\ \A i \in Entradas \ {e} : u[i] = t[i]
  BY <1>4, <1>5, <1>6
<1>8. \A i \in Entradas : t[i].inUse => t[i].name # f
  BY DEF Ocupa
<1> HIDE DEF u
<1>9. \A i \in Entradas : u[i].inUse => u[i].name \in Nombres /\ u[i].sector \notin Reservados
  BY <1>7 DEF DirBien
<1>10. \A i, j \in Entradas : u[i].inUse /\ u[j].inUse /\ u[i].name = u[j].name => i = j
  BY <1>7, <1>8 DEF DirBien
<1>11. DirBien(u)
  BY <1>7, <1>9, <1>10 DEF DirBien
<1> QED
  BY <1>3, <1>5, <1>7, <1>11 DEF u

\* Directory::Remove frees the entries of the name, and leaves the others.
LEMMA QuitaBien ==
    ASSUME NEW t, DirBien(t), NEW f
    PROVE  /\ DirBien(Quita(t, f))
           /\ \A e \in Entradas : /\ e \in Ocupa(t, f) => ~Quita(t, f)[e].inUse
                                  /\ e \notin Ocupa(t, f) => Quita(t, f)[e] = t[e]
<1> DEFINE u == Quita(t, f)
<1>1. t \in [Entradas -> [inUse : BOOLEAN, name : Nombres \cup {Nadie}, sector : Sectores]]
  BY DEF DirBien
<1>2. \A e \in Entradas : u[e] = IF e \in Ocupa(t, f) THEN [t[e] EXCEPT !.inUse = FALSE] ELSE t[e]
  BY DEF Quita
<1>3. u = [e \in Entradas |-> u[e]]
  BY DEF Quita
<1> HIDE DEF u
<1>4. \A e \in Entradas :
         /\ u[e] \in [inUse : BOOLEAN, name : Nombres \cup {Nadie}, sector : Sectores]
         /\ e \in Ocupa(t, f) => ~u[e].inUse
         /\ e \notin Ocupa(t, f) => u[e] = t[e]
  BY <1>1, <1>2
<1>5. u \in [Entradas -> [inUse : BOOLEAN, name : Nombres \cup {Nadie}, sector : Sectores]]
  BY <1>3, <1>4
<1>6. \A e \in Entradas : u[e].inUse => u[e] = t[e]
  BY <1>4
<1>7. DirBien(u)
  BY <1>5, <1>6 DEF DirBien
<1> QED
  BY <1>4, <1>7 DEF u

\* An empty directory is well formed.
LEMMA VacioBien == DirBien(Vacio) /\ \A e \in Entradas : ~Vacio[e].inUse
<1>1. 0 \in Sectores
  BY Sistema DEF FreeMapSector
<1>2. SinUso \in [inUse : BOOLEAN, name : Nombres \cup {Nadie}, sector : Sectores] /\ ~SinUso.inUse
  BY <1>1 DEF SinUso
<1> QED
  BY <1>2 DEF Vacio, DirBien

\* The header that Create makes, in a sector of its own.
LEMMA CrearBien ==
    ASSUME NEW S, MapaBien(S), NumClear(S) > 0, NEW n \in Nat, Cabe(S \cup {Find(S, 1)}, n)
    PROVE  LET s == Find(S, 1)
               h == Allocate(S \cup {s}, n)
           IN  /\ s \in Sectores \ S /\ HdrBien(h) /\ s \notin SectoresDe(h) /\ SectoresDe(h) \cap S = {}
<1> DEFINE s == Find(S, 1)
           h == Allocate(S \cup {s}, n)
<1>1. S \in SUBSET Sectores /\ Reservados \subseteq S
  BY DEF MapaBien
<1>2. NumClear(S) \in Nat
  BY <1>1, SinUno, FS_CardinalityType, SectoresFinitos, FS_Subset DEF NumClear
<1>3. 1 \in 1 .. NumClear(S)
  BY <1>2
<1>4. s \in Sectores \ S
  BY <1>1, <1>3, FindBien
<1> HIDE DEF s
<1>5. S \cup {s} \in SUBSET Sectores
  BY <1>1, <1>4
<1>6. Cabe(S \cup {s}, n)
  BY DEF s
<1>7. /\ h.numBytes = n
      /\ divRoundUp(n, SectorSize) \in Nat
      /\ h.dataSectors \in [1 .. divRoundUp(n, SectorSize) -> Sectores \ (S \cup {s})]
      /\ \A i, j \in 1 .. divRoundUp(n, SectorSize) : i # j => h.dataSectors[i] # h.dataSectors[j]
  BY <1>5, <1>6, AllocateBien
<1> HIDE DEF h
<1>8. h.dataSectors \in [1 .. divRoundUp(n, SectorSize) -> Sectores \ Reservados]
  BY <1>1, <1>7
<1>9. HdrBien(h)
  BY <1>7, <1>8 DEF HdrBien
<1>10. SectoresDe(h) \cap (S \cup {s}) = {}
  BY <1>7 DEF SectoresDe
<1> QED
  BY <1>4, <1>9, <1>10 DEF s, h

-----------------------------------------------------------------------------
(* Steps that write no sector.                                              *)

\* While the disk does not change, nothing read from it does.
LEMMA MismoDisco ==
    ASSUME disco' = disco
    PROVE  /\ mapaDisco' = mapaDisco /\ dirDisco' = dirDisco /\ EnUso' = EnUso /\ Montado' = Montado
           /\ \A e : Ocupados(e)' = Ocupados(e)
           /\ \A f : (Existe(f)' <=> Existe(f)) /\ Sector(f)' = Sector(f) /\ HdrDe(f)' = HdrDe(f)
           /\ \A f : Liberados(f)' = Liberados(f) /\ (Aparte(f)' <=> Aparte(f))
           /\ \A s : EsCabecera(s)' <=> EsCabecera(s)
<1>1. mapaDisco' = mapaDisco /\ dirDisco' = dirDisco /\ Montado' = Montado
  BY DEF mapaDisco, dirDisco, Montado
<1>2. EnUso' = EnUso
  BY <1>1 DEF EnUso
<1>3. \A s : EsCabecera(s)' <=> EsCabecera(s)
  BY DEF EsCabecera
<1>4. \A e : Ocupados(e)' = Ocupados(e)
  BY <1>1 DEF Ocupados, EsCabecera
<1>5. \A f : (Existe(f)' <=> Existe(f)) /\ Sector(f)' = Sector(f) /\ HdrDe(f)' = HdrDe(f)
  BY <1>1 DEF Existe, Sector, HdrDe
<1>6. \A f : Liberados(f)' = Liberados(f)
  BY <1>5 DEF Liberados
<1>7. \A f : Aparte(f)' <=> Aparte(f)
  BY <1>1, <1>2, <1>4 DEF Aparte
<1> QED
  BY <1>1, <1>2, <1>3, <1>4, <1>5, <1>6, <1>7

\* Nor does it stop being well formed.
LEMMA DiscoQuieto ==
    ASSUME DiscoBien, disco' = disco
    PROVE  DiscoBien'
  BY DEF DiscoBien

\* What the invariant says of an operation, when it does not advance.
LEMMA Quieta ==
    ASSUME ArchivosInv, UNCHANGED <<disco, operacion, pendientes, dano>>,
           AbiertosBien', Control', maquina' = "aborta" => dano # "no"
    PROVE  ArchivosInv'
<1> USE DEF ArchivosInv
<1>1. DiscoBien'
  BY DiscoQuieto
<1>2. Formateando'
  BY DEF Formateando
<1>3. Creando'
  <2>1. \A f, s, h : CreandoCon(f, s, h)' <=> CreandoCon(f, s, h)
    BY MismoDisco DEF CreandoCon, EscribeDir, EscribeMapa
  <2> QED
    BY <2>1, MismoDisco DEF Creando
<1>4. Borrando'
  <2>1. \A f : EscribeQuita(f)' = EscribeQuita(f)
    BY MismoDisco DEF EscribeQuita
  <2> QED
    BY <2>1, MismoDisco DEF Borrando
<1>5. Escribiendo'
  BY MismoDisco DEF Escribiendo
<1>6. EnVilo' = EnVilo
  BY MismoDisco DEF EnVilo, AMitad
<1>7. SinPerdida'
  BY <1>6, MismoDisco DEF SinPerdida
<1>8. Coherente'
  BY <1>6, MismoDisco DEF Coherente
<1>9. Parada'
  BY DEF Parada
<1> QED
  BY <1>1, <1>2, <1>3, <1>4, <1>5, <1>7, <1>8, <1>9

\* An operation begins: what it is about to write is as its code prepares it.
LEMMA Empieza ==
    ASSUME ArchivosInv, disco' = disco, AbiertosBien', Control', maquina # "aborta" /\ maquina' # "aborta",
           Formateando', Creando', Borrando', Escribiendo', EnVilo = {}, EnVilo' = {},
           dano' \in {dano, "intruso"},
           dano' = "no" /\ operacion'.tipo # "formato" => operacion.tipo # "formato"
    PROVE  ArchivosInv'
<1> USE DEF ArchivosInv
<1>1. DiscoBien'
  BY DiscoQuieto
<1>2. SinPerdida'
  <2>1. dano' # "intruso" => dano # "intruso"
    OBVIOUS
  <2>2. mapaDisco' = mapaDisco /\ dirDisco' = dirDisco /\ EnUso' \ EnVilo' = EnUso \ EnVilo /\ Montado' = Montado
        /\ \A e : Ocupados(e)' = Ocupados(e)
    BY MismoDisco
  <2> QED
    BY <2>1, <2>2 DEF SinPerdida
<1>3. Coherente'
  <2> SUFFICES ASSUME Montado', dano' = "no", operacion'.tipo # "formato" PROVE Coherente'
    BY DEF Coherente
  <2>1. Montado /\ dano = "no" /\ operacion.tipo # "formato"
    BY MismoDisco
  <2>2. mapaDisco' = mapaDisco /\ dirDisco' = dirDisco /\ EnUso' = EnUso
        /\ (\A e : Ocupados(e)' = Ocupados(e)) /\ \A s : EsCabecera(s)' <=> EsCabecera(s)
    BY MismoDisco
  <2>3. (UNION {Ocupados(e) : e \in EnUso \ EnVilo})' = UNION {Ocupados(e) : e \in EnUso \ EnVilo}
    BY <2>2
  <2> QED
    BY <2>1, <2>2, <2>3 DEF Coherente
<1>4. Parada'
  BY DEF Parada
<1> QED
  BY <1>1, <1>2, <1>3, <1>4

\* The invariant holds before the disk is formatted.
LEMMA Inicial == Init => ArchivosInv
<1> SUFFICES ASSUME Init PROVE ArchivosInv
  OBVIOUS
<1>1. /\ disco = [s \in Sectores |-> Datos([j \in Bytes |-> Nadie])]
      /\ maquina = "apagada" /\ operacion = Ninguna /\ pendientes = <<>>
      /\ abiertos = [m \in Manejos |-> Cerrado]
      /\ escrito = [f \in Nombres |-> SinEscribir]
      /\ dano = "no" /\ caidas = 0
  BY DEF Init
<1>2. \A s \in Sectores : disco[s].clase = "datos"
  BY <1>1 DEF Datos
<1>3. DiscoBien
  BY <1>1, <1>2 DEF DiscoBien, ContenidoBien
<1>4. ~Montado
  BY <1>2, Sistema DEF Montado
<1>5. AbiertosBien
  BY <1>1 DEF AbiertosBien
<1>6. operacion.tipo = "ninguna" /\ operacion.nombre = Nadie
  BY <1>1 DEF Ninguna
<1>7. Control
  <2>1. SinEscribir \in [0 .. NumDirect * SectorSize - 1 -> Valores \cup {Nadie}]
    BY DEF SinEscribir
  <2>2. 0 \in 0 .. MaxCaidas
    BY ArchivosAssumption
  <2> QED
    BY <1>1, <1>6, <2>1, <2>2 DEF Control
<1>8. Formateando /\ Creando /\ Borrando /\ Escribiendo
  BY <1>6 DEF Formateando, Creando, Borrando, Escribiendo
<1>9. SinPerdida /\ Coherente
  BY <1>4 DEF SinPerdida, Coherente
<1>10. Parada
  BY <1>1 DEF Parada
<1> QED
  BY <1>3, <1>5, <1>7, <1>8, <1>9, <1>10 DEF ArchivosInv

\* Nothing is under way.
LEMMA Libre ==
    ASSUME Control, pendientes = <<>>
    PROVE  operacion.tipo = "ninguna" /\ ~AMitad /\ EnVilo = {}
  BY DEF Control, AMitad, EnVilo

\* Mounting reads the two files of the system and writes nothing.
LEMMA PasoMontar == ASSUME ArchivosInv, Montar PROVE ArchivosInv'
<1>1. /\ maquina = "apagada"
      /\ (maquina' = "lista" /\ Montado) \/ maquina' = "perdida"
      /\ UNCHANGED <<disco, operacion, pendientes, abiertos, escrito, dano, caidas>>
  BY DEF Montar, Formateado, Montado
<1>2. pendientes = <<>> /\ operacion.tipo = "ninguna"
  BY <1>1, Libre DEF ArchivosInv, Control
<1>3. AbiertosBien'
  BY <1>1 DEF ArchivosInv, AbiertosBien
<1>4. Control'
  BY <1>1, <1>2, MismoDisco DEF ArchivosInv, Control
<1> QED
  BY <1>1, <1>3, <1>4, Quieta

\* A file that cannot be opened changes nothing.
LEMMA PasoIlegible == ASSUME ArchivosInv, NEW f \in Nombres, Ilegible(f) PROVE ArchivosInv'
<1>1. /\ maquina = "lista" /\ pendientes = <<>> /\ maquina' \in {"aborta", "perdida"} /\ Existe(f) /\ ~EsCabecera(Sector(f))
      /\ UNCHANGED <<disco, operacion, pendientes, abiertos, escrito, dano, caidas>>
  BY DEF Ilegible, Ociosa
<1>2. operacion.tipo = "ninguna"
  BY <1>1, Libre DEF ArchivosInv
<1>3. AbiertosBien'
  BY <1>1 DEF ArchivosInv, AbiertosBien
<1>4. Control'
  BY <1>1, <1>2, MismoDisco DEF ArchivosInv, Control
<1>5. dano # "no"
  <2>1. Montado
    BY <1>1 DEF ArchivosInv, Control
  <2>2. DirBien(dirDisco)
    BY <2>1, Sistema DEF Montado, ArchivosInv, DiscoBien, ContenidoBien, dirDisco
  <2>3. PICK e \in Ocupa(dirDisco, f) : TRUE
    BY <1>1 DEF Existe
  <2>4. e \in EnUso /\ Sector(f) = dirDisco[e].sector
    BY <2>2, <2>3, UnaEntrada
  <2> QED
    BY <1>1, <1>2, <2>1, <2>4 DEF ArchivosInv, Coherente
<1> QED
  BY <1>1, <1>3, <1>4, <1>5, Quieta

\* Closing forgets a handle.
LEMMA PasoCerrar == ASSUME ArchivosInv, NEW m \in Manejos, Cerrar(m) PROVE ArchivosInv'
<1>1. /\ abiertos' = [abiertos EXCEPT ![m] = Cerrado]
      /\ UNCHANGED <<disco, maquina, operacion, pendientes, escrito, dano, caidas>>
  BY DEF Cerrar
<1>2. AbiertosBien'
  BY <1>1 DEF ArchivosInv, AbiertosBien
<1>3. Control'
  BY <1>1, MismoDisco DEF ArchivosInv, Control
<1>4. maquina' = "aborta" => dano # "no"
  BY <1>1 DEF ArchivosInv, Parada
<1> QED
  BY <1>1, <1>2, <1>3, <1>4, Quieta

\* A mounted disk has a map and a directory.
LEMMA Montada ==
    ASSUME ArchivosInv, Montado
    PROVE  MapaBien(mapaDisco) /\ DirBien(dirDisco)
  BY Sistema DEF Montado, ArchivosInv, DiscoBien, ContenidoBien, dirDisco, mapaDisco

\* A header on the disk is well formed and does not list itself.
LEMMA CabeceraBien ==
    ASSUME DiscoBien, NEW s \in Sectores \ Reservados, EsCabecera(s)
    PROVE  HdrBien(disco[s].hdr) /\ s \notin SectoresDe(disco[s].hdr)
  BY DEF DiscoBien, ContenidoBien, EsCabecera

\* Opening copies the header of the file from the disk.
LEMMA PasoOpen == ASSUME ArchivosInv, NEW m \in Manejos, NEW f \in Nombres, Open(m, f) PROVE ArchivosInv'
<1>1. /\ maquina = "lista" /\ Existe(f) /\ EsCabecera(Sector(f))
      /\ abiertos' = [abiertos EXCEPT ![m] = [nombre |-> f, hdr |-> HdrDe(f), seekPosition |-> 0]]
      /\ UNCHANGED <<disco, maquina, operacion, pendientes, escrito, dano, caidas>>
  BY DEF Open, Ociosa
<1>2. HdrBien(HdrDe(f))
  <2>1. DirBien(dirDisco)
    BY <1>1, Montada DEF ArchivosInv, Control
  <2>2. Sector(f) \in Sectores \ Reservados
    BY <1>1, <2>1, UnaEntrada DEF Existe
  <2> QED
    BY <1>1, <2>2, CabeceraBien DEF HdrDe, ArchivosInv
<1>3. AbiertosBien'
  BY <1>1, <1>2 DEF ArchivosInv, AbiertosBien
<1>4. Control'
  BY <1>1, MismoDisco DEF ArchivosInv, Control
<1>5. maquina' = "aborta" => dano # "no"
  BY <1>1
<1> QED
  BY <1>1, <1>3, <1>4, <1>5, Quieta


\* The sectors that WriteAt writes are of the file, one after another.
LEMMA WriteAtParte ==
    ASSUME NEW h, HdrBien(h), NEW pos \in Nat, NEW c \in Nat \ {0}, pos + c <= h.numBytes, NEW v
    PROVE  /\ pos \div SectorSize \in Nat /\ (pos + c - 1) \div SectorSize \in Nat
           /\ pos \div SectorSize <= (pos + c - 1) \div SectorSize
           /\ DOMAIN WriteAt(h, c, pos, v) = 1 .. ((pos + c - 1) \div SectorSize) - (pos \div SectorSize) + 1
           /\ \A k \in DOMAIN WriteAt(h, c, pos, v) :
                 /\ (pos \div SectorSize) + k \in DOMAIN h.dataSectors
                 /\ WriteAt(h, c, pos, v)[k].sector = h.dataSectors[(pos \div SectorSize) + k]
<1> DEFINE a == pos \div SectorSize
           b == (pos + c - 1) \div SectorSize
           W == WriteAt(h, c, pos, v)
<1>0. SectorSize \in Nat \ {0} /\ pos + c - 1 \in Nat /\ pos <= pos + c - 1
  BY ArchivosAssumption
<1>1. a \in Nat /\ b \in Nat /\ a <= b
  BY <1>0, CocienteNat, CocienteCrece
<1>2. b < divRoundUp(h.numBytes, SectorSize) /\ divRoundUp(h.numBytes, SectorSize) \in Nat
  <2>1. h.numBytes \in Nat /\ pos + c - 1 < h.numBytes
    BY <1>0 DEF HdrBien
  <2> QED
    BY <1>0, <2>1, Redondeo
<1>3. W = [i \in 1 .. b - a + 1 |->
              Nueva(ByteToSector(h, a + i - 1),
                    Datos([j \in Bytes |-> IF (a + i - 1) * SectorSize + j \in pos .. pos + c - 1
                                           THEN v ELSE Bufer(h, a + i - 1, c, pos)[j]]))]
  BY DEF WriteAt
<1>4. DOMAIN W = 1 .. b - a + 1 /\ b - a + 1 \in Nat \ {0}
  BY <1>1, <1>3
<1>5. DOMAIN h.dataSectors = 1 .. divRoundUp(h.numBytes, SectorSize)
  BY DEF HdrBien
<1>6. ASSUME NEW k \in DOMAIN W
      PROVE  /\ a + k \in DOMAIN h.dataSectors
             /\ W[k].sector = h.dataSectors[a + k]
  <2>1. k \in 1 .. b - a + 1
    BY <1>4
  <2> DEFINE d == divRoundUp(h.numBytes, SectorSize)
  <2> HIDE DEF a, b, d
  <2>2. a + k \in 1 .. d
    BY <1>1, <1>2, <2>1 DEF d
  <2>3. a + k - 1 + 1 = a + k
    BY <1>1, <2>1
  <2>4. W[k].sector = h.dataSectors[a + k]
    BY <1>3, <2>1, <2>3 DEF Nueva, ByteToSector
  <2> QED
    BY <1>5, <2>2, <2>4 DEF d
<1> HIDE DEF W, a, b
<1> QED
  BY <1>1, <1>4, <1>6 DEF W, a, b

\* What WriteAt is going to write: whole sectors of the file, of data.
LEMMA WriteAtBien ==
    ASSUME NEW h, HdrBien(h), NEW pos \in Nat, NEW c \in Nat \ {0}, pos + c <= h.numBytes, NEW v
    PROVE  /\ WriteAt(h, c, pos, v) # <<>>
           /\ WriteAt(h, c, pos, v) \in Seq({WriteAt(h, c, pos, v)[k] : k \in DOMAIN WriteAt(h, c, pos, v)})
           /\ \A k \in DOMAIN WriteAt(h, c, pos, v) :
                 /\ WriteAt(h, c, pos, v)[k].sector \in SectoresDe(h)
                 /\ WriteAt(h, c, pos, v)[k].contenido.clase = "datos"
<1> DEFINE a == pos \div SectorSize
           b == (pos + c - 1) \div SectorSize
           W == WriteAt(h, c, pos, v)
<1>1. a \in Nat /\ b \in Nat /\ a <= b
  BY WriteAtParte
<1>2. DOMAIN W = 1 .. b - a + 1
  BY WriteAtParte
<1>3. W = [i \in 1 .. b - a + 1 |-> W[i]]
  BY DEF WriteAt
<1>4. DOMAIN W = 1 .. b - a + 1 /\ b - a + 1 \in Nat \ {0}
  BY <1>1, <1>2
<1>5. \A k \in DOMAIN W : W[k].sector \in SectoresDe(h)
  <2>1. \A k \in DOMAIN W : a + k \in DOMAIN h.dataSectors /\ W[k].sector = h.dataSectors[a + k]
    BY WriteAtParte
  <2> HIDE DEF W, a
  <2> QED
    BY <2>1 DEF SectoresDe
<1>6. \A k \in DOMAIN W : W[k].contenido.clase = "datos"
  BY DEF WriteAt, Nueva, Datos
<1>7. W \in Seq({W[k] : k \in DOMAIN W})
  <2> DEFINE R == {W[k] : k \in DOMAIN W}
             n == b - a + 1
  <2>1. W \in [1 .. n -> R]
    BY <1>3, <1>4
  <2>2. n \in Nat
    BY <1>4
  <2> HIDE DEF W, R, n
  <2>3. W \in Seq(R)
    BY <2>1, <2>2
  <2> QED
    BY <2>3 DEF R
<1>8. W # <<>>
  <2>1. 1 \in DOMAIN W
    BY <1>1, <1>4
  <2> HIDE DEF W
  <2> QED
    BY <2>1
<1> HIDE DEF W, a, b
<1> QED
  BY <1>5, <1>6, <1>7, <1>8 DEF W

\* How many bytes a transfer moves, and which.
LEMMA CuantosBien ==
    ASSUME NEW h, HdrBien(h), NEW n \in Nat, NEW pos \in Nat
    PROVE  /\ Cuantos(h, n, pos) \in Nat
           /\ Cuantos(h, n, pos) > 0 => pos + Cuantos(h, n, pos) <= h.numBytes
           /\ \A i \in Nat \ {0} : i <= Cuantos(h, n, pos) <=> i <= n /\ pos + i - 1 < h.numBytes
<1>1. h.numBytes \in Nat
  BY DEF HdrBien
<1> QED
  BY <1>1 DEF Cuantos

\* Moving the position of a handle.
LEMMA PasoMover == ASSUME ArchivosInv, NEW m \in Manejos, NEW p \in Nat, Mover(m, p) PROVE ArchivosInv'
<1>1. /\ abiertos[m] # Cerrado
      /\ abiertos' = [abiertos EXCEPT ![m].seekPosition = p]
      /\ UNCHANGED <<disco, maquina, operacion, pendientes, escrito, dano, caidas>>
  BY DEF Mover
<1>2. AbiertosBien'
  <2>1. DOMAIN abiertos = Manejos
    BY DEF ArchivosInv, AbiertosBien
  <2>2. abiertos'[m] = [abiertos[m] EXCEPT !.seekPosition = p] /\ \A i \in Manejos \ {m} : abiertos'[i] = abiertos[i]
    BY <1>1, <2>1
  <2>3. /\ abiertos[m] = [nombre |-> abiertos[m].nombre, hdr |-> abiertos[m].hdr, seekPosition |-> abiertos[m].seekPosition]
        /\ abiertos[m].nombre \in Nombres /\ HdrBien(abiertos[m].hdr)
    BY <1>1 DEF ArchivosInv, AbiertosBien
  <2>4. abiertos'[m] = [nombre |-> abiertos[m].nombre, hdr |-> abiertos[m].hdr, seekPosition |-> p]
    BY <2>2, <2>3
  <2>5. DOMAIN abiertos' = Manejos
    BY <1>1, <2>1
  <2> QED
    BY <2>2, <2>3, <2>4, <2>5 DEF ArchivosInv, AbiertosBien
<1>3. Control'
  BY <1>1, MismoDisco DEF ArchivosInv, Control
<1>4. maquina' = "aborta" => dano # "no"
  BY <1>1 DEF ArchivosInv, Parada
<1> QED
  BY <1>1, <1>2, <1>3, <1>4, Quieta

\* Reading, and moving with Seek.
LEMMA PasoLeer ==
    ASSUME ArchivosInv, NEW m \in Manejos, NEW n \in Tamanos, abiertos[m] # Cerrado, Read(m, n) \/ Seek(m, n)
    PROVE  ArchivosInv'
<1>1. n \in Nat
  BY ArchivosAssumption
<1>2. HdrBien(abiertos[m].hdr) /\ abiertos[m].seekPosition \in Nat
  BY DEF ArchivosInv, AbiertosBien
<1> DEFINE c == Cuantos(abiertos[m].hdr, n, abiertos[m].seekPosition)
           q == abiertos[m].seekPosition + c
<1>0. c \in Nat
  BY <1>1, <1>2, CuantosBien
<1> HIDE DEF c
<1>3. q \in Nat
  BY <1>0, <1>2
<1>4. Mover(m, q) \/ Mover(m, n)
  BY DEF Read, Seek, c
<1> HIDE DEF q
<1> QED
  BY <1>1, <1>3, <1>4, PasoMover

\* Formatting plans its writes over a blank map.
LEMMA PasoFormatear == ASSUME ArchivosInv, Formatear PROVE ArchivosInv'
<1>1. /\ maquina = "apagada" /\ maquina' = "formatea"
      /\ operacion' = [Ninguna EXCEPT !.tipo = "formato"]
      /\ pendientes' = << Nueva(FreeMapSector, Cabecera(MapaHdr)), Nueva(DirectorySector, Cabecera(DirHdr)),
                          Nueva(MapaDatos, Mapa(Reservados)), Nueva(DirDatos, Directorio(Vacio)) >>
      /\ escrito' = [f \in Nombres |-> SinEscribir]
      /\ UNCHANGED <<disco, abiertos, dano, caidas>>
  BY DEF Formatear
<1>2. operacion'.tipo = "formato" /\ operacion'.nombre = Nadie
  BY <1>1 DEF Ninguna
<1>3. pendientes = <<>> /\ EnVilo = {}
  BY <1>1, Libre DEF ArchivosInv, Control
<1>4. AbiertosBien'
  BY <1>1 DEF ArchivosInv, AbiertosBien
<1>5. Control'
  <2>1. SinEscribir \in [0 .. NumDirect * SectorSize - 1 -> Valores \cup {Nadie}]
    BY DEF SinEscribir
  <2>2. pendientes' # <<>>
    BY <1>1
  <2>3. dano' \in {"no", "caida", "intruso"} /\ caidas' \in 0 .. MaxCaidas
    BY <1>1 DEF ArchivosInv, Control
  <2>4. escrito' \in [Nombres -> [0 .. NumDirect * SectorSize - 1 -> Valores \cup {Nadie}]]
    BY <1>1, <2>1
  <2> QED
    BY <1>1, <1>2, <2>2, <2>3, <2>4 DEF Control
<1>6. Formateando'
  BY <1>1 DEF Formateando
<1>7. Creando' /\ Borrando' /\ Escribiendo' /\ EnVilo' = {}
  BY <1>2 DEF Creando, Borrando, Escribiendo, EnVilo, AMitad
<1> QED
  BY <1>1, <1>2, <1>3, <1>4, <1>5, <1>6, <1>7, Empieza

\* A crash keeps what is on the disk and drops what was planned.
LEMMA PasoCaida == ASSUME ArchivosInv, Caida PROVE ArchivosInv'
<1>1. /\ caidas < MaxCaidas /\ maquina' = "apagada" /\ pendientes' = <<>> /\ operacion' = Ninguna
      /\ abiertos' = [m \in Manejos |-> Cerrado]
      /\ dano' = (IF dano = "no" /\ AMedias THEN "caida" ELSE dano)
      /\ caidas' = caidas + 1
      /\ disco' = disco
  BY DEF Caida
<1>2. operacion'.tipo = "ninguna" /\ operacion'.nombre = Nadie
  BY <1>1 DEF Ninguna
<1>3. AbiertosBien'
  BY <1>1 DEF AbiertosBien
<1>4. Control'
  <2>1. escrito' \in [Nombres -> [0 .. NumDirect * SectorSize - 1 -> Valores \cup {Nadie}]]
    <3> DEFINE E == 0 .. NumDirect * SectorSize - 1
    <3>1. escrito \in [Nombres -> [E -> Valores \cup {Nadie}]]
      BY DEF ArchivosInv, Control
    <3>2. escrito' = [f \in Nombres |->
                      IF f = operacion.nombre
                      THEN [i \in DOMAIN escrito[f] |-> IF EnDuda(i) THEN Nadie ELSE escrito[f][i]]
                      ELSE escrito[f]]
      BY DEF Caida
    <3> HIDE DEF E
    <3>3. \A f \in Nombres : [i \in DOMAIN escrito[f] |-> IF EnDuda(i) THEN Nadie ELSE escrito[f][i]] \in [E -> Valores \cup {Nadie}]
      BY <3>1
    <3>4. escrito' \in [Nombres -> [E -> Valores \cup {Nadie}]]
      BY <3>1, <3>2, <3>3
    <3> QED
      BY <3>4 DEF E
  <2>2. caidas' \in 0 .. MaxCaidas
    BY <1>1, ArchivosAssumption DEF ArchivosInv, Control
  <2>3. dano' \in {"no", "caida", "intruso"}
    BY <1>1 DEF ArchivosInv, Control
  <2> QED
    BY <1>1, <1>2, <2>1, <2>2, <2>3 DEF Control
<1>5. DiscoBien'
  BY <1>1, DiscoQuieto DEF ArchivosInv
<1>6. Formateando' /\ Creando' /\ Borrando' /\ Escribiendo' /\ EnVilo' = {}
  BY <1>2 DEF Formateando, Creando, Borrando, Escribiendo, EnVilo, AMitad
<1>7. SinPerdida'
  <2>1. dano' # "intruso" => dano # "intruso"
    BY <1>1
  <2>2. mapaDisco' = mapaDisco /\ dirDisco' = dirDisco /\ EnUso' = EnUso /\ (Montado' <=> Montado)
        /\ \A e : Ocupados(e)' = Ocupados(e)
    BY <1>1, MismoDisco
  <2>3. EnUso' \ EnVilo' = EnUso
    BY <1>6, <2>2
  <2> SUFFICES ASSUME Montado, dano # "intruso", NEW x \in mapaDisco \ Reservados
               PROVE  \E e \in EnUso : dirDisco[e].sector \in mapaDisco /\ x \in Ocupados(e)
    BY <2>1, <2>2, <2>3 DEF SinPerdida
  <2>4. \E e \in EnUso \ EnVilo : dirDisco[e].sector \in mapaDisco /\ x \in Ocupados(e)
    BY DEF ArchivosInv, SinPerdida
  <2> QED
    BY <2>4
<1>8. Coherente'
  <2> SUFFICES ASSUME Montado', dano' = "no" PROVE Coherente'
    BY DEF Coherente
  <2>1. Montado /\ dano = "no" /\ ~AMedias
    BY <1>1, MismoDisco
  <2>2. operacion.tipo # "formato" /\ EnVilo = {}
    BY <2>1 DEF AMedias, EnVilo, AMitad
  <2>3. mapaDisco' = mapaDisco /\ dirDisco' = dirDisco /\ EnUso' = EnUso
        /\ (\A e : Ocupados(e)' = Ocupados(e)) /\ \A s : EsCabecera(s)' <=> EsCabecera(s)
    BY <1>1, MismoDisco
  <2>4. (UNION {Ocupados(e) : e \in EnUso \ EnVilo})' = UNION {Ocupados(e) : e \in EnUso \ EnVilo}
    BY <1>6, <2>2, <2>3
  <2> QED
    BY <1>6, <2>1, <2>2, <2>3, <2>4 DEF ArchivosInv, Coherente
<1>9. Parada'
  BY <1>1 DEF Parada
<1> QED
  BY <1>3, <1>4, <1>5, <1>6, <1>7, <1>8, <1>9 DEF ArchivosInv

\* A creation plans three writes from the map and directory on the disk.
LEMMA PasoCreate == ASSUME ArchivosInv, NEW f \in Nombres, NEW tam \in Tamanos, Create(f, tam) PROVE ArchivosInv'
<1>0. PICK s, h : s = Find(mapaDisco, 1) /\ h = Allocate(mapaDisco \cup {s}, tam)
  OBVIOUS
<1>1. /\ maquina = "lista" /\ pendientes = <<>> /\ PuedeCrear(f, tam)
      /\ pendientes' = << Nueva(s, Cabecera(h)), Nueva(DirDatos, Directorio(Add(dirDisco, f, s))),
                          Nueva(MapaDatos, Mapa(mapaDisco \cup {s} \cup SectoresDe(h))) >>
      /\ operacion' = [Ninguna EXCEPT !.tipo = "create", !.nombre = f]
      /\ escrito' = [escrito EXCEPT ![f] = SinEscribir]
      /\ UNCHANGED <<disco, maquina, abiertos, dano, caidas>>
  BY <1>0 DEF Create, Ociosa, Escrituras
<1>2. operacion'.tipo = "create" /\ operacion'.nombre = f
  BY <1>1 DEF Ninguna
<1>3. Montado /\ MapaBien(mapaDisco) /\ DirBien(dirDisco) /\ operacion.tipo = "ninguna" /\ EnVilo = {}
  BY <1>1, Montada, Libre DEF ArchivosInv, Control
<1>4. tam \in Nat
  BY ArchivosAssumption
<1>5. s \in Sectores \ mapaDisco /\ HdrBien(h) /\ s \notin SectoresDe(h) /\ SectoresDe(h) \cap mapaDisco = {}
  BY <1>0, <1>1, <1>3, <1>4, CrearBien DEF PuedeCrear
<1>6. ~Existe(f) /\ Huecos(dirDisco) # {}
  BY <1>1 DEF PuedeCrear
<1>7. AbiertosBien'
  BY <1>1 DEF ArchivosInv, AbiertosBien
<1>8. pendientes' # <<>> /\ Len(pendientes') = 3
  BY <1>1
<1>9. Control'
  <2>1. SinEscribir \in [0 .. NumDirect * SectorSize - 1 -> Valores \cup {Nadie}]
    BY DEF SinEscribir
  <2>2. escrito' \in [Nombres -> [0 .. NumDirect * SectorSize - 1 -> Valores \cup {Nadie}]]
    BY <1>1, <2>1 DEF ArchivosInv, Control
  <2> QED
    BY <1>1, <1>2, <1>8, <2>2, MismoDisco DEF ArchivosInv, Control
<1>10. Creando'
  <2>1. mapaDisco' = mapaDisco /\ dirDisco' = dirDisco /\ (Existe(f)' <=> Existe(f))
    BY <1>1, MismoDisco
  <2>2. CreandoCon(f, s, h)'
    BY <1>1, <1>5, <1>6, <2>1 DEF CreandoCon, EscribeDir, EscribeMapa
  <2>3. s \in (Sectores \ mapaDisco)'
    BY <1>5, <2>1
  <2> QED
    BY <1>2, <2>2, <2>3 DEF Creando
<1>11. Formateando' /\ Borrando' /\ Escribiendo' /\ EnVilo' = {}
  BY <1>2, <1>8 DEF Formateando, Borrando, Escribiendo, EnVilo, AMitad
<1> QED
  BY <1>1, <1>2, <1>3, <1>7, <1>9, <1>10, <1>11, Empieza

\* A removal plans two writes, and says whether the file shared sectors.
LEMMA PasoRemove == ASSUME ArchivosInv, NEW f \in Nombres, Remove(f) PROVE ArchivosInv'
<1>1. /\ maquina = "lista" /\ pendientes = <<>> /\ Existe(f) /\ EsCabecera(Sector(f))
      /\ escrito' = [escrito EXCEPT ![f] = SinEscribir]
      /\ dano' = (IF Aparte(f) THEN dano ELSE "intruso")
      /\ UNCHANGED <<disco, abiertos, caidas>>
  BY DEF Remove, Ociosa
<1>3. Montado /\ MapaBien(mapaDisco) /\ DirBien(dirDisco) /\ operacion.tipo = "ninguna" /\ EnVilo = {}
  BY <1>1, Montada, Libre DEF ArchivosInv, Control
<1>4. AbiertosBien'
  BY <1>1 DEF ArchivosInv, AbiertosBien
<1>5. escrito' \in [Nombres -> [0 .. NumDirect * SectorSize - 1 -> Valores \cup {Nadie}]]
  <2>1. SinEscribir \in [0 .. NumDirect * SectorSize - 1 -> Valores \cup {Nadie}]
    BY DEF SinEscribir
  <2> QED
    BY <1>1, <2>1 DEF ArchivosInv, Control
<1>6. dano' \in {"no", "caida", "intruso"} /\ caidas' \in 0 .. MaxCaidas /\ dano' \in {dano, "intruso"}
  BY <1>1 DEF ArchivosInv, Control
<1>7. CASE SectoresDe(HdrDe(f)) \subseteq mapaDisco
  <2>1. /\ pendientes' = << Nueva(MapaDatos, Mapa(mapaDisco \ Liberados(f))), EscribeQuita(f) >>
        /\ operacion' = [Ninguna EXCEPT !.tipo = "remove", !.nombre = f]
        /\ maquina' = maquina
    BY <1>7 DEF Remove, EscribeQuita
  <2>2. operacion'.tipo = "remove" /\ operacion'.nombre = f
    BY <2>1 DEF Ninguna
  <2>3. pendientes' # <<>> /\ Len(pendientes') = 2
    BY <2>1
  <2>4. Control'
    BY <1>1, <1>3, <1>5, <1>6, <2>1, <2>2, <2>3, MismoDisco DEF Control
  <2>5. Borrando'
    <3>1. (Existe(f)' <=> Existe(f)) /\ Sector(f)' = Sector(f) /\ mapaDisco' = mapaDisco /\ Liberados(f)' = Liberados(f)
          /\ (Aparte(f)' <=> Aparte(f)) /\ dirDisco' = dirDisco
      BY <1>1, MismoDisco
    <3>2. EscribeQuita(f)' = EscribeQuita(f) /\ EsCabecera(Sector(f))'
      BY <1>1, <3>1 DEF EscribeQuita, EsCabecera
    <3>3. dano' # "intruso" => Aparte(f)
      BY <1>1
    <3> QED
      BY <1>1, <2>1, <2>2, <3>1, <3>2, <3>3 DEF Borrando
  <2>6. Formateando' /\ Creando' /\ Escribiendo' /\ EnVilo' = {}
    BY <2>2, <2>3 DEF Formateando, Creando, Escribiendo, EnVilo, AMitad
  <2> QED
    BY <1>1, <1>3, <1>4, <1>6, <2>1, <2>2, <2>4, <2>5, <2>6, Empieza
<1>8. CASE ~(SectoresDe(HdrDe(f)) \subseteq mapaDisco)
  <2>1. UNCHANGED <<pendientes, operacion>> /\ maquina' = "aborta"
    BY <1>8 DEF Remove
  <2>2. Control'
    BY <1>1, <1>3, <1>5, <1>6, <2>1, MismoDisco DEF ArchivosInv, Control
  <2>3. dano' # "no"
    <3> SUFFICES ASSUME dano = "no" PROVE FALSE
      BY <1>1
    <3>1. PICK e \in Ocupa(dirDisco, f) : TRUE
      BY <1>1 DEF Existe
    <3>2. e \in EnUso /\ Sector(f) = dirDisco[e].sector
      BY <1>3, <3>1, UnaEntrada
    <3>3. mapaDisco = Reservados \cup UNION {Ocupados(i) : i \in EnUso \ EnVilo}
      BY <1>3 DEF ArchivosInv, Coherente
    <3>4. Ocupados(e) \subseteq mapaDisco
      BY <1>3, <3>2, <3>3
    <3>5. SectoresDe(HdrDe(f)) \subseteq Ocupados(e)
      BY <1>1, <3>2 DEF Ocupados, HdrDe
    <3> QED
      BY <1>8, <3>4, <3>5
  <2>4. Formateando' /\ Creando' /\ Borrando' /\ Escribiendo' /\ EnVilo' = {}
    BY <1>3, <2>1 DEF Formateando, Creando, Borrando, Escribiendo, EnVilo, AMitad
  <2>5. DiscoBien'
    BY <1>1, DiscoQuieto DEF ArchivosInv
  <2>6. SinPerdida'
    <3>1. dano' # "intruso" => dano # "intruso"
      BY <1>6
    <3>2. mapaDisco' = mapaDisco /\ dirDisco' = dirDisco /\ EnUso' \ EnVilo' = EnUso \ EnVilo /\ (Montado' <=> Montado)
          /\ \A e : Ocupados(e)' = Ocupados(e)
      BY <1>1, <1>3, <2>4, MismoDisco
    <3> QED
      BY <3>1, <3>2 DEF ArchivosInv, SinPerdida
  <2>7. Coherente' /\ Parada'
    BY <2>3 DEF Coherente, Parada
  <2> QED
    BY <1>4, <2>2, <2>4, <2>5, <2>6, <2>7 DEF ArchivosInv
<1> QED
  BY <1>7, <1>8

\* What a write does, with a name for the header and the position of its handle.
EsWrite(m, n, v, h, pos, f, c) ==
         /\ h = abiertos[m].hdr /\ pos = abiertos[m].seekPosition
         /\ f = abiertos[m].nombre /\ c = Cuantos(h, n, pos)
         /\ maquina = "lista" /\ pendientes = <<>> /\ abiertos[m] # Cerrado
         /\ c > 0
         /\ pendientes' = WriteAt(h, c, pos, v)
         /\ operacion' = [tipo |-> "write", nombre |-> f, desde |-> pos, hasta |-> pos + c - 1]
         /\ abiertos' = [abiertos EXCEPT ![m].seekPosition = pos + c]
         /\ IF Vigente(m) /\ Entero(f)
            THEN /\ escrito' = [escrito EXCEPT ![f] = [i \in DOMAIN @ |-> IF i \in pos .. pos + c - 1 THEN v ELSE @[i]]]
                 /\ UNCHANGED dano
            ELSE dano' = "intruso" /\ UNCHANGED escrito
         /\ UNCHANGED <<disco, maquina, caidas>>

\* A write, with its header, position, file and count named.
LEMMA WriteEs ==
    ASSUME NEW m, NEW n, NEW v, Write(m, n, v)
    PROVE  \E h, pos, f, c : EsWrite(m, n, v, h, pos, f, c)
<1>1. maquina = "lista" /\ pendientes = <<>> /\ abiertos[m] # Cerrado /\ UNCHANGED <<disco, maquina, caidas>>
  BY DEF Write, Ociosa
<1>2. PICK h \in {abiertos[m].hdr}, pos \in {abiertos[m].seekPosition}, f \in {abiertos[m].nombre} :
       \E c \in {Cuantos(h, n, pos)} :
        /\ c > 0
        /\ pendientes' = WriteAt(h, c, pos, v)
        /\ operacion' = [tipo |-> "write", nombre |-> f, desde |-> pos, hasta |-> pos + c - 1]
        /\ abiertos' = [abiertos EXCEPT ![m].seekPosition = pos + c]
        /\ IF Vigente(m) /\ Entero(f)
           THEN /\ escrito' = [escrito EXCEPT ![f] = [i \in DOMAIN @ |-> IF i \in pos .. pos + c - 1 THEN v ELSE @[i]]]
                /\ UNCHANGED dano
           ELSE dano' = "intruso" /\ UNCHANGED escrito
  BY Zenon DEF Write
<1>3. EsWrite(m, n, v, h, pos, f, Cuantos(h, n, pos))
  BY <1>1, <1>2 DEF EsWrite
<1> QED
  BY <1>3

\* A write plans one sector after another of its file.
LEMMA PasoWrite ==
    ASSUME ArchivosInv, NEW m \in Manejos, NEW n \in Tamanos, NEW v \in Valores, Write(m, n, v)
    PROVE  ArchivosInv'
<1>0. PICK h, pos, f, c : EsWrite(m, n, v, h, pos, f, c)
  BY WriteEs
<1>1. /\ h = abiertos[m].hdr /\ pos = abiertos[m].seekPosition
      /\ f = abiertos[m].nombre /\ c = Cuantos(h, n, pos)
      /\ maquina = "lista" /\ pendientes = <<>> /\ abiertos[m] # Cerrado
      /\ c > 0
      /\ pendientes' = WriteAt(h, c, pos, v)
      /\ operacion' = [tipo |-> "write", nombre |-> f, desde |-> pos, hasta |-> pos + c - 1]
      /\ abiertos' = [abiertos EXCEPT ![m].seekPosition = pos + c]
      /\ IF Vigente(m) /\ Entero(f)
         THEN /\ escrito' = [escrito EXCEPT ![f] = [i \in DOMAIN @ |-> IF i \in pos .. pos + c - 1 THEN v ELSE @[i]]]
              /\ UNCHANGED dano
         ELSE dano' = "intruso" /\ UNCHANGED escrito
      /\ UNCHANGED <<disco, maquina, caidas>>
  BY <1>0 DEF EsWrite
<1>2. /\ abiertos[m] = [nombre |-> f, hdr |-> h, seekPosition |-> pos]
      /\ f \in Nombres /\ HdrBien(h) /\ pos \in Nat /\ DOMAIN abiertos = Manejos
  BY <1>0, <1>1 DEF ArchivosInv, AbiertosBien
<1>3. Montado /\ MapaBien(mapaDisco) /\ DirBien(dirDisco) /\ operacion.tipo = "ninguna" /\ EnVilo = {}
  BY <1>1, Montada, Libre DEF ArchivosInv, Control
<1>4. c \in Nat \ {0} /\ pos + c <= h.numBytes
  <2>1. n \in Nat
    BY ArchivosAssumption
  <2>2. Cuantos(h, n, pos) \in Nat /\ (Cuantos(h, n, pos) > 0 => pos + Cuantos(h, n, pos) <= h.numBytes)
    BY <1>2, <2>1, CuantosBien
  <2> QED
    BY <1>0, <1>1, <2>2
<1>5. /\ pendientes' # <<>>
      /\ pendientes' \in Seq({pendientes'[k] : k \in DOMAIN pendientes'})
      /\ \A k \in DOMAIN pendientes' : pendientes'[k].sector \in SectoresDe(h) /\ pendientes'[k].contenido.clase = "datos"
  <2> DEFINE W == WriteAt(h, c, pos, v)
  <2>1. /\ W # <<>> /\ W \in Seq({W[k] : k \in DOMAIN W})
        /\ \A k \in DOMAIN W : W[k].sector \in SectoresDe(h) /\ W[k].contenido.clase = "datos"
    <3>1. W # <<>>
      BY <1>2, <1>4, WriteAtBien
    <3>2. W \in Seq({W[k] : k \in DOMAIN W})
      BY <1>2, <1>4, WriteAtBien
    <3>3. \A k \in DOMAIN W : W[k].sector \in SectoresDe(h)
      BY <1>2, <1>4, WriteAtBien
    <3>4. \A k \in DOMAIN W : W[k].contenido.clase = "datos"
      BY DEF WriteAt, Nueva, Datos
    <3> QED
      BY <3>1, <3>2, <3>3, <3>4
  <2>2. pendientes' = W
    BY <1>1
  <2> HIDE DEF W
  <2> QED
    BY <2>1, <2>2
<1>6. abiertos'[m] = [nombre |-> f, hdr |-> h, seekPosition |-> pos + c] /\ \A i \in Manejos \ {m} : abiertos'[i] = abiertos[i]
  BY <1>1, <1>2
<1>7. DOMAIN abiertos' = Manejos
  BY <1>1, <1>2
<1>8. AbiertosBien'
  <2>1. pos + c \in Nat
    BY <1>2, <1>4
  <2> QED
    BY <1>2, <1>6, <1>7, <2>1 DEF ArchivosInv, AbiertosBien
<1>9. escrito' \in [Nombres -> [0 .. NumDirect * SectorSize - 1 -> Valores \cup {Nadie}]]
  <2> DEFINE E == 0 .. NumDirect * SectorSize - 1
  <2>1. escrito \in [Nombres -> [E -> Valores \cup {Nadie}]]
    BY DEF ArchivosInv, Control
  <2> HIDE DEF E
  <2>2. [i \in DOMAIN escrito[f] |-> IF i \in pos .. pos + c - 1 THEN v ELSE escrito[f][i]] \in [E -> Valores \cup {Nadie}]
    BY <1>2, <2>1
  <2>3. escrito' \in [Nombres -> [E -> Valores \cup {Nadie}]]
    BY <1>1, <1>2, <2>1, <2>2
  <2> QED
    BY <2>3 DEF E
<1>10. dano' \in {"no", "caida", "intruso"} /\ caidas' \in 0 .. MaxCaidas /\ dano' \in {dano, "intruso"}
  BY <1>1 DEF ArchivosInv, Control
<1>11. operacion'.tipo = "write" /\ operacion'.nombre = f
  BY <1>1
<1>12. Control'
  BY <1>1, <1>2, <1>3, <1>5, <1>9, <1>10, <1>11, MismoDisco DEF Control
<1>13. Escribiendo'
  <2>1. SectoresDe(h) \subseteq Sectores \ Reservados
    BY <1>2, HdrSectores
  <2>2. ASSUME dano' # "intruso"
        PROVE  /\ Existe(f) /\ EsCabecera(Sector(f)) /\ HdrDe(f) = h
               /\ \A e \in EnUso : dirDisco[e].sector \notin SectoresDe(h)
    <3>1. Vigente(m) /\ Entero(f)
      BY <1>1, <2>2
    <3>2. Existe(f) /\ EsCabecera(Sector(f)) /\ HdrDe(f) = h
      BY <1>1, <3>1 DEF Vigente
    <3>3. PICK o \in Ocupa(dirDisco, f) : TRUE
      BY <3>2 DEF Existe
    <3>4. o \in EnUso /\ Sector(f) = dirDisco[o].sector /\ Sector(f) \in Sectores \ Reservados
      BY <1>3, <3>3, UnaEntrada
    <3>5. SectoresDe(h) \subseteq Ocupados(o)
      BY <3>2, <3>4 DEF Ocupados, HdrDe
    <3>6. Sector(f) \notin SectoresDe(h)
      BY <3>2, <3>4, CabeceraBien DEF HdrDe, ArchivosInv
    <3>7. ASSUME NEW e \in EnUso PROVE dirDisco[e].sector \notin SectoresDe(h)
      <4>1. CASE e = o
        BY <3>4, <3>6, <4>1
      <4>2. CASE e # o
        <5>1. Ocupados(e) \cap Ocupados(o) = {}
          BY <3>1, <3>3, <4>2 DEF Entero, Aparte
        <5>2. dirDisco[e].sector \in Ocupados(e)
          BY DEF Ocupados
        <5> QED
          BY <3>5, <5>1, <5>2
      <4> QED
        BY <4>1, <4>2
    <3> QED
      BY <3>2, <3>7
  <2>3. /\ dirDisco' = dirDisco /\ EnUso' = EnUso
        /\ (Existe(f)' <=> Existe(f)) /\ Sector(f)' = Sector(f) /\ HdrDe(f)' = HdrDe(f)
        /\ \A s : EsCabecera(s)' <=> EsCabecera(s)
    BY <1>1, MismoDisco
  <2>4. EsCabecera(Sector(f))' <=> EsCabecera(Sector(f))
    BY <1>1, <2>3 DEF EsCabecera
  <2> QED
    BY <1>5, <1>11, <2>1, <2>2, <2>3, <2>4 DEF Escribiendo
<1>14. Formateando' /\ Creando' /\ Borrando' /\ EnVilo' = {}
  BY <1>11 DEF Formateando, Creando, Borrando, EnVilo, AMitad
<1> QED
  BY <1>1, <1>3, <1>8, <1>10, <1>12, <1>13, <1>14, Empieza

-----------------------------------------------------------------------------
(* A sector is written.                                                     *)

\* A sector is written with content that is good for it: the others stay.
LEMMA Marco ==
    ASSUME DiscoBien, NEW x \in Sectores, NEW c, disco' = [disco EXCEPT ![x] = c], ContenidoBien(x, c)
    PROVE  /\ disco'[x] = c /\ \A s \in Sectores \ {x} : disco'[s] = disco[s]
           /\ DiscoBien'
           /\ x \notin {MapaDatos, DirDatos} =>
                 mapaDisco' = mapaDisco /\ dirDisco' = dirDisco /\ (Montado' <=> Montado)
           /\ x = MapaDatos => mapaDisco' = c.marcados /\ dirDisco' = dirDisco
           /\ x = DirDatos => mapaDisco' = mapaDisco /\ dirDisco' = c.table
<1>1. DOMAIN disco = Sectores
  BY DEF DiscoBien
<1>2. disco'[x] = c /\ (\A s \in Sectores \ {x} : disco'[s] = disco[s]) /\ DOMAIN disco' = Sectores
  BY <1>1
<1>3. \A s \in Sectores : ContenidoBien(s, disco'[s])
  BY <1>2 DEF DiscoBien
<1>4. DiscoBien'
  BY <1>2, <1>3 DEF DiscoBien, ContenidoBien
<1>5. MapaDatos \in Sectores /\ DirDatos \in Sectores /\ MapaDatos # DirDatos
  BY Sistema
<1> QED
  BY <1>2, <1>4, <1>5 DEF mapaDisco, dirDisco, Montado

\* While the directory stays, so do the entries.
LEMMA MismoDir ==
    ASSUME dirDisco' = dirDisco
    PROVE  /\ EnUso' = EnUso
           /\ \A f : (Existe(f)' <=> Existe(f)) /\ Sector(f)' = Sector(f)
  BY DEF EnUso, Existe, Sector

\* What an entry stands for, when its header is not the sector that is written.
LEMMA MismaEntrada ==
    ASSUME NEW e, dirDisco'[e] = dirDisco[e], disco'[dirDisco[e].sector] = disco[dirDisco[e].sector]
    PROVE  /\ Ocupados(e)' = Ocupados(e)
           /\ EsCabecera(dirDisco[e].sector)' <=> EsCabecera(dirDisco[e].sector)
  BY DEF Ocupados, EsCabecera

\* What is left of a plan after its first write.
LEMMA Cola ==
    ASSUME NEW q, q \in Seq({q[k] : k \in DOMAIN q}), q # <<>>
    PROVE  /\ Len(q) \in Nat \ {0} /\ DOMAIN q = 1 .. Len(q) /\ 1 \in DOMAIN q /\ Head(q) = q[1]
           /\ Tail(q) \in Seq({Tail(q)[k] : k \in DOMAIN Tail(q)})
           /\ \A k \in DOMAIN Tail(q) : k + 1 \in DOMAIN q /\ Tail(q)[k] = q[k + 1]
           /\ \A k \in DOMAIN q : k # 1 => k - 1 \in DOMAIN Tail(q)
<1> DEFINE R == {q[k] : k \in DOMAIN q}
<1>1. q \in Seq(R)
  OBVIOUS
<1> HIDE DEF R
<1>2. Len(q) \in Nat \ {0} /\ DOMAIN q = 1 .. Len(q) /\ Head(q) = q[1]
  BY <1>1
<1> DEFINE t == Tail(q)
<1>3. t \in Seq(R) /\ Len(t) = Len(q) - 1 /\ DOMAIN t = 1 .. Len(q) - 1
      /\ \A k \in 1 .. Len(q) - 1 : t[k] = q[k + 1]
  BY <1>1, <1>2
<1> HIDE DEF t
<1>4. t \in Seq({t[k] : k \in DOMAIN t})
  <2> DEFINE U == {t[k] : k \in DOMAIN t}
             n == Len(q) - 1
  <2>1. t = [k \in 1 .. n |-> t[k]]
    BY <1>3
  <2>2. \A k \in 1 .. n : t[k] \in U
    BY <1>3
  <2>3. n \in Nat
    BY <1>2
  <2> HIDE DEF U, n
  <2>4. t \in [1 .. n -> U]
    BY <2>1, <2>2
  <2>5. t \in Seq(U)
    BY <2>3, <2>4
  <2> QED
    BY <2>5 DEF U
<1> QED
  <2>1. \A k \in DOMAIN t : k + 1 \in DOMAIN q /\ t[k] = q[k + 1]
    BY <1>2, <1>3
  <2>2. \A k \in DOMAIN q : k # 1 => k - 1 \in DOMAIN t
    BY <1>2, <1>3
  <2>3. 1 \in DOMAIN q
    BY <1>2
  <2> QED
    BY <1>2, <1>4, <2>1, <2>2, <2>3 DEF t

\* How an operation goes on, and how it ends.
LEMMA Avance ==
    ASSUME ArchivosInv, Escribir
    PROVE  /\ maquina \in {"formatea", "lista"} /\ pendientes # <<>>
           /\ operacion.tipo \in {"formato", "create", "remove", "write"}
           /\ maquina = "lista" => Montado
           /\ disco' = [disco EXCEPT ![Head(pendientes).sector] = Head(pendientes).contenido]
           /\ pendientes' = Tail(pendientes)
           /\ pendientes' # <<>> => maquina' = maquina /\ operacion' = operacion /\ dano' = dano
           /\ pendientes' = <<>> => /\ maquina' = "lista" /\ operacion'.tipo = "ninguna" /\ EnVilo' = {}
                                    /\ dano' = IF operacion.tipo = "formato" THEN "no" ELSE dano
           /\ AbiertosBien' /\ Parada'
           /\ (maquina' = "lista" => Montado') => Control'
<1>1. /\ maquina \in {"formatea", "lista"} /\ pendientes # <<>>
      /\ disco' = [disco EXCEPT ![Head(pendientes).sector] = Head(pendientes).contenido]
      /\ pendientes' = Tail(pendientes)
      /\ IF pendientes' = <<>>
         THEN /\ maquina' = "lista" /\ operacion' = Ninguna
              /\ dano' = IF operacion.tipo = "formato" THEN "no" ELSE dano
         ELSE UNCHANGED <<maquina, operacion, dano>>
      /\ UNCHANGED <<abiertos, escrito, caidas>>
  BY DEF Escribir
<1>2. AbiertosBien'
  BY <1>1 DEF ArchivosInv, AbiertosBien
<1>3. operacion.tipo # "ninguna" /\ (maquina = "lista" => Montado)
  BY <1>1 DEF ArchivosInv, Control
<1>4. pendientes' = <<>> => operacion'.tipo = "ninguna" /\ operacion'.nombre = Nadie
  BY <1>1 DEF Ninguna
<1>5. pendientes' = <<>> => EnVilo' = {}
  BY <1>4 DEF EnVilo, AMitad
<1>6. Parada'
  BY <1>1 DEF Parada
<1>7. (maquina' = "lista" => Montado') => Control'
  BY <1>1, <1>3, <1>4 DEF ArchivosInv, Control
<1> QED
  BY <1>1, <1>2, <1>3, <1>4, <1>5, <1>6, <1>7 DEF ArchivosInv, Control

\* A formatting goes on to its next write.
LEMMA SigueFormato == ASSUME ArchivosInv, Escribir, operacion.tipo = "formato" PROVE ArchivosInv'
<1> DEFINE A == Nueva(FreeMapSector, Cabecera(MapaHdr))
           B == Nueva(DirectorySector, Cabecera(DirHdr))
           C == Nueva(MapaDatos, Mapa(Reservados))
           D == Nueva(DirDatos, Directorio(Vacio))
<1>1. \/ pendientes \in {<<A, B, C, D>>, <<B, C, D>>, <<C, D>>}
      \/ pendientes = <<D>> /\ disco[MapaDatos] = Mapa(Reservados)
  BY DEF ArchivosInv, Formateando
<1>2. /\ A.sector = FreeMapSector /\ A.contenido.clase = "cabecera"
      /\ B.sector = DirectorySector /\ B.contenido.clase = "cabecera"
      /\ C.sector = MapaDatos /\ C.contenido = Mapa(Reservados)
      /\ D.sector = DirDatos /\ D.contenido = Directorio(Vacio)
  BY DEF Nueva, Cabecera
<1> HIDE DEF A, B, C, D
<1>3. /\ FreeMapSector \in Reservados /\ DirectorySector \in Reservados
      /\ MapaDatos \in Reservados /\ DirDatos \in Reservados
  BY DEF Reservados
<1>4. maquina = "formatea" /\ EnVilo = {}
  BY DEF ArchivosInv, Control, EnVilo, AMitad
<1>5. CASE pendientes \in {<<A, B, C, D>>, <<B, C, D>>}
  <2>1. PICK x, c :
           /\ x \in {FreeMapSector, DirectorySector}
           /\ Head(pendientes).sector = x /\ Head(pendientes).contenido = c /\ c.clase = "cabecera"
           /\ pendientes' \in {<<B, C, D>>, <<C, D>>}
    <3>1. Tail(<<A, B, C, D>>) = <<B, C, D>> /\ Head(<<A, B, C, D>>) = A
      OBVIOUS
    <3>2. Tail(<<B, C, D>>) = <<C, D>> /\ Head(<<B, C, D>>) = B
      OBVIOUS
    <3>3. pendientes' = Tail(pendientes)
      BY Avance
    <3>4. CASE pendientes = <<A, B, C, D>>
      <4>1. Head(pendientes) = A /\ pendientes' = <<B, C, D>>
        BY <3>1, <3>3, <3>4
      <4> QED
        BY <1>2, <4>1
    <3>5. CASE pendientes = <<B, C, D>>
      <4>1. Head(pendientes) = B /\ pendientes' = <<C, D>>
        BY <3>2, <3>3, <3>5
      <4> QED
        BY <1>2, <4>1
    <3> QED
      BY <1>5, <3>4, <3>5
  <2>2. x \in Sectores /\ x \notin {MapaDatos, DirDatos} /\ x \in Reservados
    BY <1>3, <2>1, Sistema
  <2>3. ContenidoBien(x, c)
    BY <2>1, <2>2 DEF ContenidoBien
  <2>4. disco' = [disco EXCEPT ![x] = c]
    BY <2>1, Avance
  <2>5. /\ \A s \in Sectores \ {x} : disco'[s] = disco[s]
        /\ DiscoBien' /\ mapaDisco' = mapaDisco /\ dirDisco' = dirDisco /\ (Montado' <=> Montado)
    BY <2>2, <2>3, <2>4, Marco DEF ArchivosInv
  <2>6. pendientes' # <<>>
    BY <2>1
  <2>7. maquina' = maquina /\ operacion' = operacion /\ dano' = dano /\ EnVilo' = {}
    BY <2>6, Avance DEF EnVilo, AMitad
  <2>8. Control' /\ AbiertosBien' /\ Parada'
    BY <1>4, <2>7, Avance
  <2>9. Formateando'
    BY <2>1 DEF Formateando, A, B, C, D
  <2>10. Creando' /\ Borrando' /\ Escribiendo'
    BY <2>7 DEF Creando, Borrando, Escribiendo
  <2>11. SinPerdida'
    <3> SUFFICES ASSUME Montado', dano' # "intruso", NEW y \in mapaDisco' \ Reservados
                 PROVE  \E e \in EnUso' : dirDisco'[e].sector \in mapaDisco' /\ y \in Ocupados(e)'
      BY <2>7 DEF SinPerdida
    <3>1. PICK e \in EnUso : dirDisco[e].sector \in mapaDisco /\ y \in Ocupados(e)
      BY <1>4, <2>5, <2>7 DEF ArchivosInv, SinPerdida
    <3>2. dirDisco[e].sector \in Sectores \ Reservados
      BY <2>5, <3>1, Montada, EnUsoBien
    <3>3. Ocupados(e)' = Ocupados(e)
      BY <2>2, <2>5, <3>2, MismaEntrada
    <3> QED
      BY <2>5, <3>1, <3>3, MismoDir
  <2>12. Coherente'
    BY <2>7 DEF Coherente
  <2> QED
    BY <2>5, <2>8, <2>9, <2>10, <2>11, <2>12 DEF ArchivosInv
<1>6. CASE pendientes = <<C, D>>
  <2>1. Head(pendientes) = C /\ pendientes' = <<D>>
    BY <1>6, Avance
  <2>2. disco' = [disco EXCEPT ![MapaDatos] = Mapa(Reservados)]
    BY <1>2, <2>1, Avance
  <2>3. ContenidoBien(MapaDatos, Mapa(Reservados)) /\ MapaDatos \in Sectores
    BY <1>3, Sistema DEF ContenidoBien, Mapa, MapaBien
  <2>4. disco'[MapaDatos] = Mapa(Reservados) /\ DiscoBien' /\ mapaDisco' = Reservados
    BY <2>2, <2>3, Marco DEF ArchivosInv, Mapa
  <2>6. pendientes' # <<>>
    BY <2>1
  <2>7. maquina' = maquina /\ operacion' = operacion /\ dano' = dano
    BY <2>6, Avance
  <2>8. Control' /\ AbiertosBien' /\ Parada'
    BY <1>4, <2>7, Avance
  <2>9. Formateando'
    BY <2>1, <2>4 DEF Formateando, A, B, C, D
  <2>10. Creando' /\ Borrando' /\ Escribiendo'
    BY <2>7 DEF Creando, Borrando, Escribiendo
  <2>11. SinPerdida'
    BY <2>4 DEF SinPerdida
  <2>12. Coherente'
    BY <2>7 DEF Coherente
  <2> QED
    BY <2>4, <2>8, <2>9, <2>10, <2>11, <2>12 DEF ArchivosInv
<1>7. CASE pendientes = <<D>> /\ disco[MapaDatos] = Mapa(Reservados)
  <2>1. Head(pendientes) = D /\ pendientes' = <<>>
    BY <1>7, Avance
  <2>2. disco' = [disco EXCEPT ![DirDatos] = Directorio(Vacio)]
    BY <1>2, <2>1, Avance
  <2>3. ContenidoBien(DirDatos, Directorio(Vacio)) /\ DirDatos \in Sectores
    BY <1>3, Sistema, VacioBien DEF ContenidoBien, Directorio
  <2>4. /\ disco'[DirDatos] = Directorio(Vacio) /\ DiscoBien' /\ mapaDisco' = mapaDisco /\ dirDisco' = Vacio
        /\ disco'[MapaDatos] = disco[MapaDatos]
    <3>1. DiscoBien /\ MapaDatos \in Sectores \ {DirDatos}
      BY Sistema DEF ArchivosInv
    <3>2. Directorio(Vacio).table = Vacio
      BY DEF Directorio
    <3> QED
      BY <2>2, <2>3, <3>1, <3>2, Marco
  <2>5. mapaDisco' = Reservados /\ Montado' /\ EnUso' = {}
    BY <1>7, <2>4, VacioBien DEF mapaDisco, Mapa, Montado, Directorio, EnUso
  <2>7. maquina' = "lista" /\ operacion'.tipo = "ninguna" /\ EnVilo' = {}
    BY <2>1, Avance
  <2>8. Control' /\ AbiertosBien' /\ Parada'
    BY <2>5, Avance
  <2>10. Formateando' /\ Creando' /\ Borrando' /\ Escribiendo'
    BY <2>7 DEF Formateando, Creando, Borrando, Escribiendo
  <2>11. SinPerdida'
    BY <2>5 DEF SinPerdida
  <2>12. Coherente'
    <3>1. (UNION {Ocupados(e) : e \in EnUso \ EnVilo})' = {}
      BY <2>5
    <3> QED
      BY <2>5, <2>7, <3>1 DEF Coherente
  <2> QED
    BY <2>4, <2>8, <2>10, <2>11, <2>12 DEF ArchivosInv
<1> QED
  BY <1>1, <1>5, <1>6, <1>7

\* The sector of the header, which was free, then the directory, then the map.
LEMMA SigueCreate == ASSUME ArchivosInv, Escribir, operacion.tipo = "create" PROVE ArchivosInv'
<1>0. PICK f : f = operacion.nombre
  OBVIOUS
<1>1. f \in Nombres /\ maquina = "lista" /\ Montado
  BY <1>0, Avance DEF ArchivosInv, Control
<1>2. MapaBien(mapaDisco) /\ DirBien(dirDisco)
  BY <1>1, Montada
<1>3. PICK s, h : s \in Sectores \ mapaDisco /\ CreandoCon(f, s, h)
  BY <1>0 DEF ArchivosInv, Creando
<1>4. /\ HdrBien(h) /\ s \notin SectoresDe(h) /\ SectoresDe(h) \cap mapaDisco = {}
      /\ s \in Sectores \ Reservados /\ SectoresDe(h) \subseteq Sectores \ Reservados
      /\ s \notin {MapaDatos, DirDatos}
  <2>1. s \in Sectores \ Reservados
    BY <1>2, <1>3 DEF MapaBien
  <2>2. HdrBien(h) /\ s \notin SectoresDe(h) /\ SectoresDe(h) \cap mapaDisco = {}
    BY <1>3 DEF CreandoCon
  <2> QED
    BY <2>1, <2>2, HdrSectores DEF Reservados
<1>5. Cabecera(h).clase = "cabecera" /\ Cabecera(h).hdr = h
  BY DEF Cabecera
<1> DEFINE A == Nueva(s, Cabecera(h))
           B == EscribeDir(f, s)
           C == EscribeMapa(s, h)
           u == Add(dirDisco, f, s)
           M == mapaDisco \cup {s} \cup SectoresDe(h)
<1>6. /\ A.sector = s /\ A.contenido = Cabecera(h)
      /\ B.sector = DirDatos /\ B.contenido = Directorio(u)
      /\ C.sector = MapaDatos /\ C.contenido = Mapa(M)
  BY DEF Nueva, EscribeDir, EscribeMapa
<1>7. \/ ~Existe(f) /\ Huecos(dirDisco) # {} /\ pendientes = <<A, B, C>>
      \/ ~Existe(f) /\ Huecos(dirDisco) # {} /\ pendientes = <<B, C>> /\ disco[s] = Cabecera(h)
      \/ /\ pendientes = <<C>> /\ disco[s] = Cabecera(h)
         /\ \E e \in EnUso : dirDisco[e].name = f /\ dirDisco[e].sector = s
  BY <1>3 DEF CreandoCon
<1>8. Mapa(M).clase = "mapa" /\ Mapa(M).marcados = M /\ Directorio(u).clase = "directorio" /\ Directorio(u).table = u
  BY DEF Mapa, Directorio
<1>9. MapaDatos \in Sectores /\ DirDatos \in Sectores /\ MapaDatos # DirDatos
      /\ MapaDatos \in Reservados /\ DirDatos \in Reservados
  BY Sistema DEF Reservados
<1> HIDE DEF A, B, C, u, M
<1>10. CASE ~Existe(f) /\ Huecos(dirDisco) # {} /\ pendientes = <<A, B, C>>
  <2>1. Head(pendientes) = A /\ pendientes' = <<B, C>> /\ Len(pendientes) = 3 /\ Len(pendientes') = 2 /\ pendientes' # <<>>
    BY <1>10, Avance
  <2>2. disco' = [disco EXCEPT ![s] = Cabecera(h)]
    BY <1>6, <2>1, Avance
  <2>3. ContenidoBien(s, Cabecera(h))
    BY <1>4, <1>5, <1>9 DEF ContenidoBien
  <2>4. /\ disco'[s] = Cabecera(h) /\ \A x \in Sectores \ {s} : disco'[x] = disco[x]
        /\ DiscoBien' /\ mapaDisco' = mapaDisco /\ dirDisco' = dirDisco /\ (Montado' <=> Montado)
    BY <1>4, <2>2, <2>3, Marco DEF ArchivosInv
  <2>5. maquina' = maquina /\ operacion' = operacion /\ dano' = dano /\ EnVilo = {} /\ EnVilo' = {}
    BY <2>1, Avance DEF EnVilo, AMitad
  <2>6. Control' /\ AbiertosBien' /\ Parada'
    BY <1>1, <2>4, Avance
  <2>7. Formateando' /\ Borrando' /\ Escribiendo'
    BY <2>5 DEF Formateando, Borrando, Escribiendo
  <2>8. EnUso' = EnUso /\ (Existe(f)' <=> Existe(f))
    BY <2>4, MismoDir
  <2>9. Creando'
    <3>1. B = EscribeDir(f, s)' /\ C = EscribeMapa(s, h)'
      BY <2>4 DEF B, C, EscribeDir, EscribeMapa
    <3>2. CreandoCon(f, s, h)'
      BY <1>4, <1>10, <2>1, <2>4, <2>8, <3>1 DEF CreandoCon
    <3> QED
      BY <1>0, <1>3, <2>4, <2>5, <3>2 DEF Creando
  <2>10. ASSUME NEW e \in EnUso, dirDisco[e].sector \in mapaDisco
         PROVE  Ocupados(e)' = Ocupados(e) /\ (EsCabecera(dirDisco[e].sector)' <=> EsCabecera(dirDisco[e].sector))
    <3>1. dirDisco[e].sector \in Sectores \ {s}
      BY <1>2, <1>3, <2>10, EnUsoBien
    <3> QED
      BY <2>4, <3>1, MismaEntrada
  <2>11. SinPerdida'
    <3> SUFFICES ASSUME dano # "intruso", NEW y \in mapaDisco \ Reservados
                 PROVE  \E e \in EnUso : dirDisco[e].sector \in mapaDisco /\ y \in Ocupados(e)'
      BY <2>4, <2>5, <2>8 DEF SinPerdida
    <3>1. PICK e \in EnUso : dirDisco[e].sector \in mapaDisco /\ y \in Ocupados(e)
      BY <1>1, <2>5 DEF ArchivosInv, SinPerdida
    <3> QED
      BY <2>10, <3>1
  <2>12. Coherente'
    <3> SUFFICES ASSUME dano = "no" PROVE Coherente'
      BY <2>5 DEF Coherente
    <3>1. /\ mapaDisco = Reservados \cup UNION {Ocupados(e) : e \in EnUso}
          /\ \A e \in EnUso : EsCabecera(dirDisco[e].sector)
          /\ \A e, i \in EnUso : i # e => Ocupados(i) \cap Ocupados(e) = {}
      BY <1>1, <2>5 DEF ArchivosInv, Coherente, Control
    <3>2. \A e \in EnUso : dirDisco[e].sector \in mapaDisco
      BY <3>1 DEF Ocupados
    <3>3. \A e \in EnUso : Ocupados(e)' = Ocupados(e) /\ (EsCabecera(dirDisco[e].sector)' <=> EsCabecera(dirDisco[e].sector))
      BY <2>10, <3>2
    <3>4. (UNION {Ocupados(e) : e \in EnUso \ EnVilo})' = UNION {Ocupados(e) : e \in EnUso}
      BY <2>5, <2>8, <3>3
    <3>5. \A e \in EnUso' : EsCabecera(dirDisco[e].sector)'
      BY <2>8, <3>1, <3>3
    <3> QED
      BY <2>4, <2>5, <2>8, <3>1, <3>3, <3>4, <3>5 DEF Coherente
  <2> QED
    BY <2>4, <2>6, <2>7, <2>9, <2>11, <2>12 DEF ArchivosInv
<1>11. CASE ~Existe(f) /\ Huecos(dirDisco) # {} /\ pendientes = <<B, C>> /\ disco[s] = Cabecera(h)
  <2>1. Head(pendientes) = B /\ pendientes' = <<C>> /\ Len(pendientes) = 2 /\ Len(pendientes') = 1 /\ pendientes' # <<>>
    BY <1>11, Avance
  <2>2. disco' = [disco EXCEPT ![DirDatos] = Directorio(u)]
    BY <1>6, <2>1, Avance
  <2>3. Ocupa(dirDisco, f) = {}
    BY <1>11 DEF Existe
  <2>4. DirBien(u) /\ \E e \in Entradas : /\ ~dirDisco[e].inUse
                                          /\ u[e] = [inUse |-> TRUE, name |-> f, sector |-> s]
                                          /\ \A i \in Entradas \ {e} : u[i] = dirDisco[i]
    BY <1>1, <1>2, <1>4, <1>11, <2>3, AddBien DEF u
  <2>5. PICK o \in Entradas : /\ ~dirDisco[o].inUse
                              /\ u[o] = [inUse |-> TRUE, name |-> f, sector |-> s]
                              /\ \A i \in Entradas \ {o} : u[i] = dirDisco[i]
    BY <2>4
  <2>6. ContenidoBien(DirDatos, Directorio(u))
    BY <1>8, <1>9, <2>4 DEF ContenidoBien
  <2>7. /\ \A x \in Sectores \ {DirDatos} : disco'[x] = disco[x]
        /\ disco'[DirDatos] = Directorio(u)
        /\ DiscoBien' /\ mapaDisco' = mapaDisco /\ dirDisco' = u
    BY <1>8, <1>9, <2>2, <2>6, Marco DEF ArchivosInv
  <2>8. Montado'
    BY <1>1, <1>8, <1>9, <2>7 DEF Montado
  <2>9. maquina' = maquina /\ operacion' = operacion /\ dano' = dano /\ EnVilo = {}
    BY <2>1, Avance DEF EnVilo, AMitad
  <2>10. EnUso' = EnUso \cup {o} /\ o \notin EnUso
    BY <2>5, <2>7 DEF EnUso
  <2>11. EnVilo' = {o}
    <3>1. Ocupa(dirDisco', f) = {o}
      BY <2>3, <2>5, <2>7 DEF Ocupa
    <3>2. AMitad' /\ operacion'.nombre = f
      BY <1>0, <2>1, <2>9 DEF AMitad
    <3> QED
      BY <3>1, <3>2 DEF EnVilo
  <2>12. Control' /\ AbiertosBien' /\ Parada'
    BY <2>8, Avance
  <2>13. Formateando' /\ Borrando' /\ Escribiendo'
    BY <2>9 DEF Formateando, Borrando, Escribiendo
  <2>14. Creando'
    <3>1. C = EscribeMapa(s, h)'
      BY <2>7 DEF C, EscribeMapa
    <3>2. disco'[s] = Cabecera(h)
      BY <1>4, <1>11, <2>7
    <3>3. o \in EnUso' /\ dirDisco'[o].name = f /\ dirDisco'[o].sector = s
      BY <2>5, <2>7, <2>10
    <3>4. CreandoCon(f, s, h)'
      BY <1>4, <2>1, <2>7, <3>1, <3>2, <3>3 DEF CreandoCon
    <3> QED
      BY <1>0, <1>3, <2>7, <2>9, <3>4 DEF Creando
  <2>15. ASSUME NEW e \in EnUso
         PROVE  /\ dirDisco'[e] = dirDisco[e]
                /\ Ocupados(e)' = Ocupados(e)
                /\ EsCabecera(dirDisco[e].sector)' <=> EsCabecera(dirDisco[e].sector)
    <3>1. dirDisco[e].sector \in Sectores \ {DirDatos} /\ e \in Entradas \ {o}
      BY <1>2, <1>9, <2>10, EnUsoBien
    <3> QED
      BY <2>5, <2>7, <3>1, MismaEntrada
  <2>16. SinPerdida'
    <3> SUFFICES ASSUME dano # "intruso", NEW y \in mapaDisco \ Reservados
                 PROVE  \E e \in EnUso : dirDisco[e].sector \in mapaDisco /\ y \in Ocupados(e)
      BY <2>7, <2>9, <2>10, <2>11, <2>15 DEF SinPerdida
    <3> QED
      BY <1>1, <2>9 DEF ArchivosInv, SinPerdida
  <2>17. Coherente'
    <3> SUFFICES ASSUME dano = "no" PROVE Coherente'
      BY <2>9 DEF Coherente
    <3>1. /\ mapaDisco = Reservados \cup UNION {Ocupados(e) : e \in EnUso}
          /\ \A e \in EnUso : EsCabecera(dirDisco[e].sector)
          /\ \A e, i \in EnUso : i # e => Ocupados(i) \cap Ocupados(e) = {}
      BY <1>1, <2>9 DEF ArchivosInv, Coherente, Control
    <3>2. dirDisco'[o].sector = s /\ disco'[s] = Cabecera(h)
      BY <1>4, <1>11, <2>5, <2>7
    <3>3. Ocupados(o)' = {s} \cup SectoresDe(h) /\ EsCabecera(dirDisco[o].sector)'
      BY <1>5, <3>2 DEF Ocupados, EsCabecera
    <3>4. Ocupados(o)' \cap mapaDisco = {}
      BY <1>3, <1>4, <3>3
    <3>5. (UNION {Ocupados(e) : e \in EnUso \ EnVilo})' = UNION {Ocupados(e) : e \in EnUso}
      <4>1. (EnUso \ EnVilo)' = EnUso
        BY <2>10, <2>11
      <4> QED
        BY <2>15, <4>1
    <3>6. \A e \in EnUso' : EsCabecera(dirDisco[e].sector)'
      <4> SUFFICES ASSUME NEW e \in EnUso' PROVE EsCabecera(dirDisco[e].sector)'
        OBVIOUS
      <4>1. CASE e = o
        BY <3>3, <4>1
      <4>2. CASE e \in EnUso
        <5>1. EsCabecera(dirDisco[e].sector)' <=> EsCabecera(dirDisco[e].sector)
          BY <2>15, <4>2
        <5> QED
          BY <3>1, <4>2, <5>1
      <4> QED
        BY <2>10, <4>1, <4>2
    <3>7. \A e \in EnUso : Ocupados(e)' = Ocupados(e) /\ Ocupados(e)' \subseteq mapaDisco
      BY <2>15, <3>1
    <3>8. \A e, i \in EnUso' : i # e => Ocupados(i)' \cap Ocupados(e)' = {}
      BY <2>10, <3>1, <3>4, <3>7
    <3> QED
      BY <2>7, <2>11, <3>1, <3>4, <3>5, <3>6, <3>8 DEF Coherente
  <2> QED
    BY <2>7, <2>12, <2>13, <2>14, <2>16, <2>17 DEF ArchivosInv
<1>12. CASE /\ pendientes = <<C>> /\ disco[s] = Cabecera(h)
            /\ \E e \in EnUso : dirDisco[e].name = f /\ dirDisco[e].sector = s
  <2>1. Head(pendientes) = C /\ pendientes' = <<>> /\ Len(pendientes) = 1
    BY <1>12, Avance
  <2>2. disco' = [disco EXCEPT ![MapaDatos] = Mapa(M)]
    BY <1>6, <2>1, Avance
  <2>3. PICK o \in EnUso : dirDisco[o].name = f /\ dirDisco[o].sector = s
    BY <1>12
  <2>4. M \in SUBSET Sectores /\ Reservados \subseteq M
    BY <1>2, <1>3, <1>4 DEF M, MapaBien
  <2>5. ContenidoBien(MapaDatos, Mapa(M))
    BY <1>8, <1>9, <2>4 DEF ContenidoBien, MapaBien
  <2>6. /\ \A x \in Sectores \ {MapaDatos} : disco'[x] = disco[x]
        /\ disco'[MapaDatos] = Mapa(M)
        /\ DiscoBien' /\ mapaDisco' = M /\ dirDisco' = dirDisco
    BY <1>8, <1>9, <2>2, <2>5, Marco DEF ArchivosInv
  <2>7. Montado'
    BY <1>1, <1>8, <1>9, <2>6 DEF Montado
  <2>8. maquina' = "lista" /\ operacion'.tipo = "ninguna" /\ EnVilo' = {} /\ dano' = dano
    BY <2>1, Avance
  <2>9. EnVilo = {o}
    <3>1. o \in Ocupa(dirDisco, f)
      BY <2>3, <1>2, EnUsoBien
    <3>2. Ocupa(dirDisco, f) = {o}
      BY <1>2, <3>1, UnaEntrada
    <3> QED
      BY <1>0, <2>1, <3>2 DEF EnVilo, AMitad
  <2>10. Control' /\ AbiertosBien' /\ Parada'
    BY <2>7, Avance
  <2>11. Formateando' /\ Creando' /\ Borrando' /\ Escribiendo'
    BY <2>8 DEF Formateando, Creando, Borrando, Escribiendo
  <2>12. EnUso' = EnUso
    BY <2>6, MismoDir
  <2>13. ASSUME NEW e \in EnUso
         PROVE  /\ Ocupados(e)' = Ocupados(e)
                /\ EsCabecera(dirDisco[e].sector)' <=> EsCabecera(dirDisco[e].sector)
    <3>1. dirDisco[e].sector \in Sectores \ {MapaDatos}
      BY <1>2, <1>9, EnUsoBien
    <3> QED
      BY <2>6, <3>1, MismaEntrada
  <2>14. Ocupados(o) = {s} \cup SectoresDe(h) /\ EsCabecera(dirDisco[o].sector)
    BY <1>5, <1>12, <2>3 DEF Ocupados, EsCabecera
  <2>15. SinPerdida'
    <3> SUFFICES ASSUME dano # "intruso", NEW y \in M \ Reservados
                 PROVE  \E e \in EnUso : dirDisco[e].sector \in M /\ y \in Ocupados(e)
      BY <2>6, <2>8, <2>12, <2>13 DEF SinPerdida
    <3>1. CASE y \in mapaDisco
      <4>1. \E e \in EnUso \ EnVilo : dirDisco[e].sector \in mapaDisco /\ y \in Ocupados(e)
        BY <1>1, <3>1 DEF ArchivosInv, SinPerdida
      <4> QED
        BY <4>1 DEF M
    <3>2. CASE y \in {s} \cup SectoresDe(h)
      BY <2>3, <2>14, <3>2 DEF M
    <3> QED
      BY <3>1, <3>2 DEF M
  <2>16. Coherente'
    <3> SUFFICES ASSUME dano = "no" PROVE Coherente'
      BY <2>8 DEF Coherente
    <3>1. /\ mapaDisco = Reservados \cup UNION {Ocupados(e) : e \in EnUso \ EnVilo}
          /\ \A e \in EnUso : EsCabecera(dirDisco[e].sector)
          /\ \A e, i \in EnUso : i # e => Ocupados(i) \cap Ocupados(e) = {}
      BY <1>1 DEF ArchivosInv, Coherente, Control
    <3>2. (UNION {Ocupados(e) : e \in EnUso \ EnVilo})' = UNION {Ocupados(e) : e \in EnUso}
      BY <2>8, <2>12, <2>13
    <3> DEFINE U == UNION {Ocupados(e) : e \in EnUso}
               V == UNION {Ocupados(e) : e \in EnUso \ EnVilo}
    <3>3. U = V \cup Ocupados(o)
      <4>1. EnUso = (EnUso \ EnVilo) \cup {o}
        BY <2>9
      <4>2. \A y : y \in U <=> \E e \in EnUso : y \in Ocupados(e)
        OBVIOUS
      <4>3. \A y : y \in V <=> \E e \in EnUso \ EnVilo : y \in Ocupados(e)
        OBVIOUS
      <4> HIDE DEF U, V
      <4> QED
        BY <4>1, <4>2, <4>3
    <3>4. M = Reservados \cup U
      <4>1. mapaDisco = Reservados \cup V
        BY <3>1
      <4> HIDE DEF U, V
      <4> QED
        BY <2>14, <3>3, <4>1 DEF M
    <3>5. \A e \in EnUso' : EsCabecera(dirDisco[e].sector)'
      BY <2>6, <2>12, <2>13, <3>1
    <3> QED
      BY <2>6, <2>8, <2>12, <2>13, <3>1, <3>2, <3>4, <3>5 DEF Coherente
  <2> QED
    BY <2>6, <2>10, <2>11, <2>15, <2>16 DEF ArchivosInv
<1> QED
  BY <1>7, <1>10, <1>11, <1>12

\* The map without the sectors of the file, then the directory without its entry.
LEMMA SigueRemove == ASSUME ArchivosInv, Escribir, operacion.tipo = "remove" PROVE ArchivosInv'
<1>0. PICK f : f = operacion.nombre
  OBVIOUS
<1>1. f \in Nombres /\ maquina = "lista" /\ Montado
  BY <1>0, Avance DEF ArchivosInv, Control
<1>2. MapaBien(mapaDisco) /\ DirBien(dirDisco)
  BY <1>1, Montada
<1>3. /\ Existe(f) /\ EsCabecera(Sector(f))
      /\ \/ /\ pendientes = <<Nueva(MapaDatos, Mapa(mapaDisco \ Liberados(f))), EscribeQuita(f)>>
            /\ dano # "intruso" => Aparte(f)
         \/ pendientes = <<EscribeQuita(f)>>
  BY <1>0 DEF ArchivosInv, Borrando
<1>4. PICK o \in Ocupa(dirDisco, f) : TRUE
  BY <1>3 DEF Existe
<1>5. /\ Ocupa(dirDisco, f) = {o} /\ o \in EnUso /\ o \in Entradas
      /\ Sector(f) = dirDisco[o].sector /\ Sector(f) \in Sectores \ Reservados
  BY <1>2, <1>4, UnaEntrada DEF Ocupa
<1>6. /\ Liberados(f) = Ocupados(o) /\ Liberados(f) \cap Reservados = {}
  <2>1. HdrBien(HdrDe(f))
    BY <1>3, <1>5, CabeceraBien DEF HdrDe, ArchivosInv
  <2>2. SectoresDe(HdrDe(f)) \subseteq Sectores \ Reservados
    BY <2>1, HdrSectores
  <2> QED
    BY <1>3, <1>5, <2>2 DEF Liberados, Ocupados, HdrDe
<1> DEFINE M == mapaDisco \ Liberados(f)
           u == Quita(dirDisco, f)
           A == Nueva(MapaDatos, Mapa(M))
           B == EscribeQuita(f)
<1>7. /\ A.sector = MapaDatos /\ A.contenido = Mapa(M)
      /\ B.sector = DirDatos /\ B.contenido = Directorio(u)
      /\ Mapa(M).clase = "mapa" /\ Mapa(M).marcados = M /\ Directorio(u).clase = "directorio" /\ Directorio(u).table = u
  BY DEF Nueva, EscribeQuita, Mapa, Directorio
<1>8. \/ pendientes = <<A, B>> /\ (dano # "intruso" => Aparte(f))
      \/ pendientes = <<B>>
  BY <1>3
<1>9. MapaDatos \in Sectores /\ DirDatos \in Sectores /\ MapaDatos # DirDatos
      /\ MapaDatos \in Reservados /\ DirDatos \in Reservados
  BY Sistema DEF Reservados
<1>10. DirBien(u) /\ ~u[o].inUse /\ \A e \in Entradas \ {o} : u[e] = dirDisco[e]
  BY <1>2, <1>4, <1>5, QuitaBien
<1> HIDE DEF A, B, M, u
<1>11. CASE pendientes = <<A, B>> /\ (dano # "intruso" => Aparte(f))
  <2>1. Head(pendientes) = A /\ pendientes' = <<B>> /\ Len(pendientes) = 2 /\ Len(pendientes') = 1 /\ pendientes' # <<>>
    BY <1>11, Avance
  <2>2. disco' = [disco EXCEPT ![MapaDatos] = Mapa(M)]
    BY <1>7, <2>1, Avance
  <2>3. M \in SUBSET Sectores /\ Reservados \subseteq M
    BY <1>2, <1>6 DEF M, MapaBien
  <2>4. ContenidoBien(MapaDatos, Mapa(M))
    BY <1>7, <1>9, <2>3 DEF ContenidoBien, MapaBien
  <2>5. /\ \A x \in Sectores \ {MapaDatos} : disco'[x] = disco[x]
        /\ disco'[MapaDatos] = Mapa(M)
        /\ DiscoBien' /\ mapaDisco' = M /\ dirDisco' = dirDisco
    BY <1>7, <1>9, <2>2, <2>4, Marco DEF ArchivosInv
  <2>6. Montado'
    BY <1>1, <1>7, <1>9, <2>5 DEF Montado
  <2>7. maquina' = maquina /\ operacion' = operacion /\ dano' = dano /\ EnVilo = {}
    BY <2>1, Avance DEF EnVilo, AMitad
  <2>8. EnUso' = EnUso /\ (Existe(f)' <=> Existe(f)) /\ Sector(f)' = Sector(f)
    BY <2>5, MismoDir
  <2>9. EnVilo' = {o}
    BY <1>0, <1>5, <2>1, <2>5, <2>7 DEF EnVilo, AMitad
  <2>10. Control' /\ AbiertosBien' /\ Parada'
    BY <2>6, Avance
  <2>11. Formateando' /\ Creando' /\ Escribiendo'
    BY <2>7 DEF Formateando, Creando, Escribiendo
  <2>12. ASSUME NEW e \in EnUso
         PROVE  /\ Ocupados(e)' = Ocupados(e)
                /\ EsCabecera(dirDisco[e].sector)' <=> EsCabecera(dirDisco[e].sector)
    <3>1. dirDisco[e].sector \in Sectores \ {MapaDatos}
      BY <1>2, <1>9, EnUsoBien
    <3> QED
      BY <2>5, <3>1, MismaEntrada
  <2>13. Borrando'
    <3>1. B = EscribeQuita(f)'
      BY <2>5 DEF B, EscribeQuita
    <3>2. EsCabecera(Sector(f))'
      BY <1>3, <1>5, <1>9, <2>5, <2>8 DEF EsCabecera
    <3> QED
      BY <1>0, <1>3, <2>1, <2>7, <2>8, <3>1, <3>2 DEF Borrando
  <2>14. \A e \in EnUso \ {o} : dano # "intruso" => Ocupados(e) \cap Ocupados(o) = {}
    BY <1>4, <1>11 DEF Aparte
  <2>15. SinPerdida'
    <3> SUFFICES ASSUME dano # "intruso", NEW y \in M \ Reservados
                 PROVE  \E e \in EnUso \ {o} : dirDisco[e].sector \in M /\ y \in Ocupados(e)
      BY <2>5, <2>7, <2>8, <2>9, <2>12 DEF SinPerdida
    <3>1. PICK e \in EnUso : dirDisco[e].sector \in mapaDisco /\ y \in Ocupados(e)
      BY <1>1, <2>7 DEF ArchivosInv, SinPerdida, M
    <3>2. e # o
      BY <1>6, <3>1 DEF M
    <3>3. dirDisco[e].sector \in Ocupados(e)
      BY DEF Ocupados
    <3>4. dirDisco[e].sector \in M
      BY <1>6, <2>14, <3>1, <3>2, <3>3 DEF M
    <3> QED
      BY <3>1, <3>2, <3>4
  <2>16. Coherente'
    <3> SUFFICES ASSUME dano = "no" PROVE Coherente'
      BY <2>7 DEF Coherente
    <3> DEFINE U == UNION {Ocupados(e) : e \in EnUso}
               V == UNION {Ocupados(e) : e \in EnUso \ {o}}
    <3>1. /\ mapaDisco = Reservados \cup U
          /\ \A e \in EnUso : EsCabecera(dirDisco[e].sector)
          /\ \A e, i \in EnUso : i # e => Ocupados(i) \cap Ocupados(e) = {}
      BY <1>1, <2>7 DEF ArchivosInv, Coherente, Control
    <3>2. (UNION {Ocupados(e) : e \in EnUso \ EnVilo})' = V
      BY <2>8, <2>9, <2>12
    <3>3. \A y : y \in U <=> \E e \in EnUso : y \in Ocupados(e)
      OBVIOUS
    <3>4. \A y : y \in V <=> \E e \in EnUso \ {o} : y \in Ocupados(e)
      OBVIOUS
    <3> HIDE DEF U, V
    <3>5. M = Reservados \cup V
      BY <1>5, <1>6, <2>14, <3>1, <3>3, <3>4 DEF M
    <3>6. \A e \in EnUso' : EsCabecera(dirDisco[e].sector)'
      BY <2>5, <2>8, <2>12, <3>1
    <3>7. Ocupados(o)' \cap M = {}
      BY <1>5, <1>6, <2>12 DEF M
    <3>8. \A e, i \in EnUso' : i # e => Ocupados(i)' \cap Ocupados(e)' = {}
      BY <2>8, <2>12, <3>1
    <3> QED
      BY <2>5, <2>9, <3>2, <3>5, <3>6, <3>7, <3>8 DEF Coherente
  <2> QED
    BY <2>5, <2>10, <2>11, <2>13, <2>15, <2>16 DEF ArchivosInv
<1>12. CASE pendientes = <<B>>
  <2>1. Head(pendientes) = B /\ pendientes' = <<>> /\ Len(pendientes) = 1
    BY <1>12, Avance
  <2>2. disco' = [disco EXCEPT ![DirDatos] = Directorio(u)]
    BY <1>7, <2>1, Avance
  <2>3. ContenidoBien(DirDatos, Directorio(u))
    BY <1>7, <1>9, <1>10 DEF ContenidoBien
  <2>4. /\ \A x \in Sectores \ {DirDatos} : disco'[x] = disco[x]
        /\ disco'[DirDatos] = Directorio(u)
        /\ DiscoBien' /\ mapaDisco' = mapaDisco /\ dirDisco' = u
    BY <1>7, <1>9, <2>2, <2>3, Marco DEF ArchivosInv
  <2>5. Montado'
    BY <1>1, <1>7, <1>9, <2>4 DEF Montado
  <2>6. maquina' = "lista" /\ operacion'.tipo = "ninguna" /\ EnVilo' = {} /\ dano' = dano
    BY <2>1, Avance
  <2>7. EnVilo = {o}
    BY <1>0, <1>5, <2>1 DEF EnVilo, AMitad
  <2>8. EnUso' = EnUso \ {o}
    BY <1>10, <2>4 DEF EnUso
  <2>9. Control' /\ AbiertosBien' /\ Parada'
    BY <2>5, Avance
  <2>10. Formateando' /\ Creando' /\ Borrando' /\ Escribiendo'
    BY <2>6 DEF Formateando, Creando, Borrando, Escribiendo
  <2>11. ASSUME NEW e \in EnUso \ {o}
         PROVE  /\ dirDisco'[e] = dirDisco[e]
                /\ Ocupados(e)' = Ocupados(e)
                /\ EsCabecera(dirDisco[e].sector)' <=> EsCabecera(dirDisco[e].sector)
    <3>1. dirDisco[e].sector \in Sectores \ {DirDatos} /\ e \in Entradas
      BY <1>2, <1>9, EnUsoBien
    <3> QED
      BY <1>10, <2>4, <3>1, MismaEntrada
  <2>12. SinPerdida'
    <3> SUFFICES ASSUME dano # "intruso", NEW y \in mapaDisco \ Reservados
                 PROVE  \E e \in EnUso \ {o} : dirDisco[e].sector \in mapaDisco /\ y \in Ocupados(e)
      BY <2>4, <2>6, <2>8, <2>11 DEF SinPerdida
    <3> QED
      BY <1>1, <2>7 DEF ArchivosInv, SinPerdida
  <2>13. Coherente'
    <3> SUFFICES ASSUME dano = "no" PROVE Coherente'
      BY <2>6 DEF Coherente
    <3>1. /\ mapaDisco = Reservados \cup UNION {Ocupados(e) : e \in EnUso \ EnVilo}
          /\ \A e \in EnUso : EsCabecera(dirDisco[e].sector)
          /\ \A e, i \in EnUso : i # e => Ocupados(i) \cap Ocupados(e) = {}
      BY <1>1 DEF ArchivosInv, Coherente, Control
    <3>2. (UNION {Ocupados(e) : e \in EnUso \ EnVilo})' = UNION {Ocupados(e) : e \in EnUso \ EnVilo}
      <4>1. (EnUso \ EnVilo)' = EnUso \ {o}
        BY <2>6, <2>8
      <4> QED
        BY <2>7, <2>11, <4>1
    <3>3. \A e \in EnUso' : EsCabecera(dirDisco[e].sector)'
      <4> SUFFICES ASSUME NEW e \in EnUso \ {o} PROVE EsCabecera(dirDisco[e].sector)'
        BY <2>8
      <4>1. EsCabecera(dirDisco[e].sector)' <=> EsCabecera(dirDisco[e].sector)
        BY <2>11
      <4> QED
        BY <3>1, <4>1
    <3>4. \A e, i \in EnUso' : i # e => Ocupados(i)' \cap Ocupados(e)' = {}
      BY <2>8, <2>11, <3>1
    <3> QED
      BY <2>4, <2>6, <3>1, <3>2, <3>3, <3>4 DEF Coherente
  <2> QED
    BY <2>4, <2>9, <2>10, <2>12, <2>13 DEF ArchivosInv
<1> QED
  BY <1>8, <1>11, <1>12

\* Sectors of data change neither the map, nor the directory, nor a header.
LEMMA SigueWrite == ASSUME ArchivosInv, Escribir, operacion.tipo = "write" PROVE ArchivosInv'
<1>0. PICK f : f = operacion.nombre
  OBVIOUS
<1>1. f \in Nombres /\ maquina = "lista" /\ Montado /\ pendientes # <<>>
  BY <1>0, Avance DEF ArchivosInv, Control
<1>2. MapaBien(mapaDisco) /\ DirBien(dirDisco)
  BY <1>1, Montada
<1>3. /\ pendientes \in Seq({pendientes[k] : k \in DOMAIN pendientes})
      /\ \A k \in DOMAIN pendientes :
            pendientes[k].sector \in Sectores \ Reservados /\ pendientes[k].contenido.clase = "datos"
      /\ dano # "intruso" =>
            /\ Existe(f) /\ EsCabecera(Sector(f))
            /\ \A k \in DOMAIN pendientes :
                  /\ pendientes[k].sector \in SectoresDe(HdrDe(f))
                  /\ \A e \in EnUso : dirDisco[e].sector # pendientes[k].sector
  BY <1>0 DEF ArchivosInv, Escribiendo
<1>4. /\ Head(pendientes) = pendientes[1] /\ 1 \in DOMAIN pendientes
      /\ pendientes' \in Seq({pendientes'[k] : k \in DOMAIN pendientes'})
      /\ \A k \in DOMAIN pendientes' : k + 1 \in DOMAIN pendientes /\ pendientes'[k] = pendientes[k + 1]
  <2>1. pendientes' = Tail(pendientes)
    BY Avance
  <2> QED
    BY <1>1, <1>3, <2>1, Cola
<1>5. PICK x, c : x = pendientes[1].sector /\ c = pendientes[1].contenido
  OBVIOUS
<1>6. x \in Sectores \ Reservados /\ c.clase = "datos" /\ x \notin {MapaDatos, DirDatos}
  BY <1>3, <1>4, <1>5 DEF Reservados
<1>7. disco' = [disco EXCEPT ![x] = c]
  BY <1>4, <1>5, Avance
<1>8. ContenidoBien(x, c)
  BY <1>6 DEF ContenidoBien
<1>9. /\ \A s \in Sectores \ {x} : disco'[s] = disco[s]
      /\ DiscoBien' /\ mapaDisco' = mapaDisco /\ dirDisco' = dirDisco /\ (Montado' <=> Montado)
  BY <1>6, <1>7, <1>8, Marco DEF ArchivosInv
<1>10. Control' /\ AbiertosBien' /\ Parada'
  BY <1>1, <1>9, Avance
<1>11. dano' = dano /\ EnVilo = {} /\ EnVilo' = {} /\ operacion'.tipo \in {"write", "ninguna"}
       /\ (operacion'.tipo = "write" => operacion' = operacion)
  BY Avance DEF EnVilo, AMitad
<1>12. EnUso' = EnUso /\ (Existe(f)' <=> Existe(f)) /\ Sector(f)' = Sector(f)
  BY <1>9, MismoDir
<1>13. ASSUME NEW e \in EnUso, dano # "intruso"
       PROVE  /\ disco'[dirDisco[e].sector] = disco[dirDisco[e].sector]
              /\ Ocupados(e)' = Ocupados(e)
              /\ EsCabecera(dirDisco[e].sector)' <=> EsCabecera(dirDisco[e].sector)
  <2>1. dirDisco[e].sector \in Sectores \ {x}
    BY <1>2, <1>3, <1>4, <1>5, <1>13, EnUsoBien
  <2> QED
    BY <1>9, <2>1, MismaEntrada
<1>14. Formateando' /\ Creando' /\ Borrando'
  BY <1>11 DEF Formateando, Creando, Borrando
<1>15. Escribiendo'
  <2> SUFFICES ASSUME operacion'.tipo = "write" PROVE Escribiendo'
    BY DEF Escribiendo
  <2>1. operacion'.nombre = f
    BY <1>0, <1>11
  <2>2. ASSUME dano # "intruso"
        PROVE  Existe(f)' /\ EsCabecera(Sector(f))' /\ HdrDe(f)' = HdrDe(f)
    <3>1. PICK o \in Ocupa(dirDisco, f) : TRUE
      BY <1>3, <2>2 DEF Existe
    <3>2. o \in EnUso /\ Sector(f) = dirDisco[o].sector
      BY <1>2, <3>1, UnaEntrada
    <3>3. disco'[Sector(f)] = disco[Sector(f)]
      BY <1>13, <2>2, <3>2
    <3> QED
      BY <1>3, <1>12, <2>2, <3>3 DEF HdrDe, EsCabecera
  <2>3. \A k \in DOMAIN pendientes' :
            pendientes'[k].sector \in Sectores \ Reservados /\ pendientes'[k].contenido.clase = "datos"
    BY <1>3, <1>4
  <2>4. dano # "intruso" =>
           \A k \in DOMAIN pendientes' :
              /\ pendientes'[k].sector \in SectoresDe(HdrDe(f))
              /\ \A e \in EnUso : dirDisco[e].sector # pendientes'[k].sector
    BY <1>3, <1>4
  <2> QED
    BY <1>4, <1>9, <1>11, <1>12, <2>1, <2>2, <2>3, <2>4 DEF Escribiendo
<1>16. SinPerdida'
  <2> SUFFICES ASSUME dano # "intruso", NEW y \in mapaDisco \ Reservados
               PROVE  \E e \in EnUso : dirDisco[e].sector \in mapaDisco /\ y \in Ocupados(e)
    BY <1>9, <1>11, <1>12, <1>13 DEF SinPerdida
  <2> QED
    BY <1>1, <1>11 DEF ArchivosInv, SinPerdida
<1>17. Coherente'
  <2> SUFFICES ASSUME dano = "no" PROVE Coherente'
    BY <1>11 DEF Coherente
  <2>1. /\ mapaDisco = Reservados \cup UNION {Ocupados(e) : e \in EnUso}
        /\ \A e \in EnUso : EsCabecera(dirDisco[e].sector)
        /\ \A e, i \in EnUso : i # e => Ocupados(i) \cap Ocupados(e) = {}
    BY <1>1, <1>11 DEF ArchivosInv, Coherente, Control
  <2>2. (UNION {Ocupados(e) : e \in EnUso \ EnVilo})' = UNION {Ocupados(e) : e \in EnUso}
    BY <1>11, <1>12, <1>13
  <2>3. \A e \in EnUso' : EsCabecera(dirDisco[e].sector)'
    <3> SUFFICES ASSUME NEW e \in EnUso PROVE EsCabecera(dirDisco[e].sector)'
      BY <1>12
    <3>1. EsCabecera(dirDisco[e].sector)' <=> EsCabecera(dirDisco[e].sector)
      BY <1>13
    <3> QED
      BY <2>1, <3>1
  <2>4. \A e, i \in EnUso' : i # e => Ocupados(i)' \cap Ocupados(e)' = {}
    BY <1>12, <1>13, <2>1
  <2> QED
    BY <1>9, <1>11, <2>1, <2>2, <2>3, <2>4 DEF Coherente
<1> QED
  BY <1>9, <1>10, <1>14, <1>15, <1>16, <1>17 DEF ArchivosInv

\* Every step keeps the invariant.
LEMMA Paso == ASSUME ArchivosInv, [Next]_vars PROVE ArchivosInv'
<1>1. CASE Formatear
  BY <1>1, PasoFormatear
<1>2. CASE Montar
  BY <1>2, PasoMontar
<1>3. CASE Escribir
  BY <1>3, Avance, SigueFormato, SigueCreate, SigueRemove, SigueWrite
<1>4. CASE Caida
  BY <1>4, PasoCaida
<1>5. ASSUME NEW f \in Nombres, NEW tam \in Tamanos, Create(f, tam) PROVE ArchivosInv'
  BY <1>5, PasoCreate
<1>6. ASSUME NEW f \in Nombres, Remove(f) \/ Ilegible(f) PROVE ArchivosInv'
  BY <1>6, PasoRemove, PasoIlegible
<1>7. ASSUME NEW m \in Manejos, NEW f \in Nombres, Open(m, f) PROVE ArchivosInv'
  BY <1>7, PasoOpen
<1>8. ASSUME NEW m \in Manejos, Cerrar(m) PROVE ArchivosInv'
  BY <1>8, PasoCerrar
<1>9. ASSUME NEW m \in Manejos, NEW n \in Tamanos, NEW v \in Valores, Write(m, n, v) PROVE ArchivosInv'
  BY <1>9, PasoWrite
<1>10. ASSUME NEW m \in Manejos, NEW n \in Tamanos, abiertos[m] # Cerrado /\ (Read(m, n) \/ Seek(m, n))
       PROVE ArchivosInv'
  BY <1>10, PasoLeer
<1>11. CASE UNCHANGED vars
  <2>1. UNCHANGED <<disco, maquina, operacion, pendientes, abiertos, escrito, dano, caidas>>
    BY <1>11 DEF vars
  <2>2. AbiertosBien'
    BY <2>1 DEF ArchivosInv, AbiertosBien
  <2>3. Control'
    BY <2>1, MismoDisco DEF ArchivosInv, Control
  <2>4. maquina' = "aborta" => dano # "no"
    BY <2>1 DEF ArchivosInv, Parada
  <2> QED
    BY <2>1, <2>2, <2>3, <2>4, Quieta
<1> QED
  BY <1>1, <1>2, <1>3, <1>4, <1>5, <1>6, <1>7, <1>8, <1>9, <1>10, <1>11 DEF Next

\* The invariant holds for ever.
LEMMA ArchivosSiempre == Spec => []ArchivosInv
  BY Inicial, Paso, PTL DEF Spec

-----------------------------------------------------------------------------
(* What the invariant says between operations.                              *)

\* Disks hold sectors, and what is under way is known.
THEOREM TipoSiempre == Spec => []TypeOK
<1>1. ArchivosInv => TypeOK
  <2> SUFFICES ASSUME ArchivosInv PROVE TypeOK
    OBVIOUS
  <2>1. \A k \in DOMAIN pendientes : pendientes[k].sector \in Sectores
    <3>1. FreeMapSector \in Sectores /\ DirectorySector \in Sectores /\ MapaDatos \in Sectores /\ DirDatos \in Sectores
      BY Sistema
    <3>2. CASE pendientes = <<>>
      BY <3>2
    <3>3. CASE operacion.tipo = "formato"
      BY <3>1, <3>3 DEF ArchivosInv, Formateando, Nueva
    <3>4. CASE operacion.tipo = "create"
      <4>1. PICK s, h : s \in Sectores /\ CreandoCon(operacion.nombre, s, h)
        BY <3>4 DEF ArchivosInv, Creando
      <4> QED
        BY <3>1, <4>1 DEF CreandoCon, EscribeDir, EscribeMapa, Nueva
    <3>5. CASE operacion.tipo = "remove"
      BY <3>1, <3>5 DEF ArchivosInv, Borrando, EscribeQuita, Nueva
    <3>6. CASE operacion.tipo = "write"
      BY <3>6 DEF ArchivosInv, Escribiendo
    <3> QED
      BY <3>2, <3>3, <3>4, <3>5, <3>6 DEF ArchivosInv, Control
  <2>2. \A m \in Manejos : abiertos[m] = Cerrado \/ abiertos[m].nombre \in Nombres
    BY DEF ArchivosInv, AbiertosBien
  <2> QED
    BY <2>1, <2>2 DEF ArchivosInv, Control, TypeOK
<1> QED
  BY <1>1, ArchivosSiempre, PTL

\* A header has as many sectors as it lists.
LEMMA CuentaSectores ==
    ASSUME NEW h, HdrBien(h)
    PROVE  /\ IsFiniteSet(SectoresDe(h))
           /\ Cardinality(SectoresDe(h)) = Len(h.dataSectors)
           /\ Len(h.dataSectors) = divRoundUp(h.numBytes, SectorSize)
<1> DEFINE n == divRoundUp(h.numBytes, SectorSize)
           D == 1 .. n
           F == h.dataSectors
<1>1. n \in Nat /\ F \in [D -> Sectores \ Reservados] /\ \A i, j \in D : i # j => F[i] # F[j]
  BY DEF HdrBien
<1>2. IsFiniteSet(D) /\ Cardinality(D) = n
  <2>1. 1 \in Int /\ n \in Int /\ (1 > n => n = 0) /\ n - 1 + 1 = n
    BY <1>1
  <2> HIDE DEF n
  <2> QED
    BY <2>1, FS_Interval
<1>3. SectoresDe(h) = {F[k] : k \in D}
  BY <1>1 DEF SectoresDe
<1> HIDE DEF F
<1>4. F \in Bijection(D, {F[k] : k \in D})
  <2> DEFINE T == {F[k] : k \in D}
  <2>1. F \in [D -> T]
    BY <1>1
  <2>2. \A i, j \in D : F[i] = F[j] => i = j
    BY <1>1
  <2>3. \A y \in T : \E k \in D : F[k] = y
    OBVIOUS
  <2> HIDE DEF T, D
  <2>4. F \in Bijection(D, T)
    BY <2>1, <2>2, <2>3, Fun_IsBij
  <2> QED
    BY <2>4 DEF T
<1>5. ExistsBijection(D, {F[k] : k \in D})
  BY <1>4 DEF ExistsBijection
<1>6. IsFiniteSet({F[k] : k \in D}) /\ Cardinality({F[k] : k \in D}) = n
  BY <1>2, <1>5, FS_Bijection
<1>7. Len(F) = n
  <2>1. F \in [1 .. n -> Sectores \ Reservados] /\ n \in Nat
    BY <1>1
  <2> HIDE DEF n
  <2> QED
    BY <2>1
<1> QED
  BY <1>3, <1>6, <1>7 DEF F

\* Map, directory and headers agree between operations.
THEOREM ConcuerdanSiempre == Spec => []Concuerdan
<1>1. ArchivosInv => Concuerdan
  <2> SUFFICES ASSUME ArchivosInv PROVE Concuerdan
    OBVIOUS
  <2>1. SinFugas
    <3> SUFFICES ASSUME Estable, dano # "intruso", NEW x \in mapaDisco, x \notin Reservados
                 PROVE  \E e \in EnUso : x \in Ocupados(e)
      BY DEF SinFugas
    <3>1. Montado
      BY DEF Estable, Montado
    <3> QED
      BY <3>1 DEF ArchivosInv, SinPerdida
  <2>2. maquina = "aborta" => dano # "no"
    BY DEF ArchivosInv, Parada
  <2>3. ASSUME Estable, dano = "no"
        PROVE  /\ mapaDisco = Reservados \cup UNION {Ocupados(e) : e \in EnUso}
               /\ \A e \in EnUso :
                    /\ EsCabecera(dirDisco[e].sector)
                    /\ Cardinality(Ocupados(e)) = 1 + Len(disco[dirDisco[e].sector].hdr.dataSectors)
                    /\ Ocupados(e) \cap Reservados = {}
                    /\ \A i \in EnUso \ {e} : dirDisco[i].name # dirDisco[e].name /\ Ocupados(i) \cap Ocupados(e) = {}
    <3>1. Montado /\ operacion.tipo = "ninguna" /\ EnVilo = {}
      BY <2>3, Libre DEF Estable, Ociosa, Montado, ArchivosInv
    <3>2. /\ mapaDisco = Reservados \cup UNION {Ocupados(e) : e \in EnUso}
          /\ \A e \in EnUso : EsCabecera(dirDisco[e].sector)
          /\ \A e, i \in EnUso : i # e => Ocupados(i) \cap Ocupados(e) = {}
      BY <2>3, <3>1 DEF ArchivosInv, Coherente
    <3>3. DirBien(dirDisco)
      BY <3>1, Montada
    <3>4. ASSUME NEW e \in EnUso
          PROVE  /\ Cardinality(Ocupados(e)) = 1 + Len(disco[dirDisco[e].sector].hdr.dataSectors)
                 /\ Ocupados(e) \cap Reservados = {}
      <4>1. PICK s, h : s = dirDisco[e].sector /\ h = disco[s].hdr
        OBVIOUS
      <4>2. s \in Sectores \ Reservados /\ EsCabecera(s)
        BY <3>2, <3>3, <4>1, EnUsoBien
      <4>3. HdrBien(h) /\ s \notin SectoresDe(h)
        BY <4>1, <4>2, CabeceraBien DEF ArchivosInv
      <4>4. Ocupados(e) = SectoresDe(h) \cup {s}
        BY <4>1, <4>2 DEF Ocupados
      <4>5. SectoresDe(h) \subseteq Sectores \ Reservados
        BY <4>3, HdrSectores
      <4>6. IsFiniteSet(SectoresDe(h)) /\ Cardinality(SectoresDe(h)) = Len(h.dataSectors) /\ Len(h.dataSectors) \in Nat
        BY <4>3, CuentaSectores DEF HdrBien
      <4>7. Cardinality(SectoresDe(h) \cup {s}) = Cardinality(SectoresDe(h)) + 1
        BY <4>3, <4>6, FS_AddElement
      <4> QED
        BY <4>1, <4>2, <4>4, <4>5, <4>6, <4>7
    <3>5. \A e, i \in EnUso : i # e => dirDisco[i].name # dirDisco[e].name
      BY <3>3 DEF DirBien, EnUso
    <3> QED
      BY <3>2, <3>4, <3>5
  <2> QED
    BY <2>1, <2>2, <2>3 DEF Concuerdan
<1> QED
  BY <1>1, ArchivosSiempre, PTL

\* The files that are not being created or removed are whole all the time, until a crash.
LEMMA LosDemas ==
    ASSUME ArchivosInv, Montado, dano = "no", operacion.tipo # "formato",
           NEW f \in Nombres \ {operacion.nombre}
    PROVE  Entero(f)
<1>1. DirBien(dirDisco)
  BY Montada
<1>2. /\ mapaDisco = Reservados \cup UNION {Ocupados(e) : e \in EnUso \ EnVilo}
      /\ \A e \in EnUso : EsCabecera(dirDisco[e].sector)
      /\ \A e, i \in EnUso : i # e => Ocupados(i) \cap Ocupados(e) = {}
  BY DEF ArchivosInv, Coherente
<1>3. \A e \in Ocupa(dirDisco, f) : e \in EnUso \ EnVilo
  BY DEF Ocupa, EnUso, EnVilo
<1>4. Aparte(f)
  BY <1>2, <1>3 DEF Aparte
<1>5. ASSUME NEW e \in Ocupa(dirDisco, f)
      PROVE  EsCabecera(dirDisco[e].sector) /\ Ocupados(e) \subseteq mapaDisco \ Reservados
  <2>1. PICK s, h : s = dirDisco[e].sector /\ h = disco[s].hdr
    OBVIOUS
  <2>2. s \in Sectores \ Reservados /\ EsCabecera(s)
    BY <1>1, <1>2, <1>3, <2>1, EnUsoBien
  <2>3. HdrBien(h)
    BY <2>1, <2>2, CabeceraBien DEF ArchivosInv
  <2>4. Ocupados(e) = SectoresDe(h) \cup {s} /\ SectoresDe(h) \subseteq Sectores \ Reservados
    BY <2>1, <2>2, <2>3, HdrSectores DEF Ocupados
  <2>5. Ocupados(e) \subseteq mapaDisco
    BY <1>2, <1>3
  <2> QED
    BY <2>1, <2>2, <2>4, <2>5
<1> QED
  BY <1>4, <1>5 DEF Entero

\* The first crash leaves every other file whole.
THEOREM CaidaSiempre == Spec => CaidaAcotada
<1>1. ASSUME ArchivosInv, [Next]_vars, caidas' # caidas, dano = "no", operacion.tipo # "formato", maquina = "lista"
      PROVE  \A f \in Nombres \ {operacion.nombre} : Existe(f)' = Existe(f) /\ Entero(f)'
  <2>1. disco' = disco
    <3>1. CASE Caida
      BY <3>1 DEF Caida
    <3>2. CASE UNCHANGED vars
      BY <3>2 DEF vars
    <3>3. CASE Formatear \/ Montar \/ Escribir
      BY <1>1, <3>3 DEF Formatear, Montar, Escribir
    <3>4. ASSUME NEW f \in Nombres, NEW tam \in Tamanos, Create(f, tam) PROVE FALSE
      BY <1>1, <3>4 DEF Create
    <3>5. ASSUME NEW f \in Nombres, Remove(f) \/ Ilegible(f) PROVE FALSE
      BY <1>1, <3>5 DEF Remove, Ilegible
    <3>6. ASSUME NEW m \in Manejos, NEW f \in Nombres, Open(m, f) PROVE FALSE
      BY <1>1, <3>6 DEF Open
    <3>7. ASSUME NEW m \in Manejos, Cerrar(m) PROVE FALSE
      BY <1>1, <3>7 DEF Cerrar
    <3>8. ASSUME NEW m \in Manejos, NEW n \in Tamanos, NEW v \in Valores, Write(m, n, v) PROVE FALSE
      BY <1>1, <3>8 DEF Write
    <3>9. ASSUME NEW m \in Manejos, NEW n \in Tamanos, Read(m, n) \/ Seek(m, n) PROVE FALSE
      BY <1>1, <3>9 DEF Read, Seek, Mover
    <3> QED
      BY <1>1, <3>1, <3>2, <3>3, <3>4, <3>5, <3>6, <3>7, <3>8, <3>9 DEF Next
  <2>2. Montado
    BY <1>1 DEF ArchivosInv, Control
  <2> SUFFICES ASSUME NEW f \in Nombres \ {operacion.nombre} PROVE Existe(f)' = Existe(f) /\ Entero(f)'
    OBVIOUS
  <2>3. Entero(f)
    BY <1>1, <2>2, LosDemas
  <2>4. Existe(f)' = Existe(f)
    BY <2>1 DEF Existe, dirDisco
  <2>5. Entero(f)'
    <3>1. (Aparte(f)' <=> Aparte(f)) /\ dirDisco' = dirDisco /\ mapaDisco' = mapaDisco
          /\ (\A e : Ocupados(e)' = Ocupados(e)) /\ \A s : EsCabecera(s)' <=> EsCabecera(s)
      BY <2>1, MismoDisco
    <3>2. \A e : EsCabecera(dirDisco[e].sector)' <=> EsCabecera(dirDisco[e].sector)
      BY <2>1, <3>1 DEF EsCabecera
    <3> QED
      BY <2>3, <3>1, <3>2 DEF Entero
  <2> QED
    BY <2>4, <2>5
<1>2. ArchivosInv /\ [Next]_vars =>
         [caidas' # caidas /\ dano = "no" /\ operacion.tipo # "formato" /\ maquina = "lista" =>
             \A f \in Nombres \ {operacion.nombre} : Existe(f)' = Existe(f) /\ Entero(f)']_vars
  BY <1>1
<1> QED
  BY <1>2, ArchivosSiempre, PTL DEF CaidaAcotada, Spec

-----------------------------------------------------------------------------
(* The bytes of the files.                                                  *)

\* The byte p of a header is in one of its sectors.
LEMMA SectorDelByte ==
    ASSUME NEW h, HdrBien(h), NEW p \in 0 .. h.numBytes - 1
    PROVE  /\ p \in Nat /\ p < h.numBytes
           /\ p \div SectorSize \in Nat /\ (p \div SectorSize) + 1 \in DOMAIN h.dataSectors
           /\ ByteToSector(h, p \div SectorSize) \in SectoresDe(h)
<1>1. h.numBytes \in Nat /\ p \in Nat /\ p < h.numBytes /\ SectorSize \in Nat \ {0}
  BY ArchivosAssumption DEF HdrBien
<1>2. p \div SectorSize \in Nat /\ p \div SectorSize < divRoundUp(h.numBytes, SectorSize)
  BY <1>1, CocienteNat, Redondeo
<1>3. divRoundUp(h.numBytes, SectorSize) \in Nat /\ DOMAIN h.dataSectors = 1 .. divRoundUp(h.numBytes, SectorSize)
  BY DEF HdrBien
<1> DEFINE q == p \div SectorSize
           n == divRoundUp(h.numBytes, SectorSize)
<1>4. q \in Nat /\ q < n /\ n \in Nat /\ DOMAIN h.dataSectors = 1 .. n
  BY <1>2, <1>3
<1> HIDE DEF q, n
<1>5. q + 1 \in DOMAIN h.dataSectors
  BY <1>4
<1>6. ByteToSector(h, q) \in SectoresDe(h)
  BY <1>5 DEF ByteToSector, SectoresDe
<1> QED
  BY <1>1, <1>4, <1>5, <1>6 DEF q

\* No file has more bytes than a header has room for: the disk ends before.
LEMMA Tope ==
    ASSUME NEW h, HdrBien(h), NEW s \in Sectores \ Reservados, s \notin SectoresDe(h),
           NEW p \in 0 .. h.numBytes - 1
    PROVE  p \in 0 .. NumDirect * SectorSize - 1
<1> DEFINE n == divRoundUp(h.numBytes, SectorSize)
           T == SectoresDe(h) \cup {s}
<1>1. n \in Nat /\ IsFiniteSet(SectoresDe(h)) /\ Cardinality(SectoresDe(h)) = n
  BY CuentaSectores DEF HdrBien
<1>2. Cardinality(T) = n + 1
  BY <1>1, FS_AddElement
<1>3. T \subseteq Sectores \ Reservados
  BY HdrSectores
<1>4. Cardinality(Sectores \ Reservados) = NumSectors - 4 /\ IsFiniteSet(Sectores \ Reservados)
  BY Sistema, SinUno
<1> HIDE DEF T
<1>5. Cardinality(T) <= NumSectors - 4
  BY <1>3, <1>4, FS_Subset
<1>6. n <= NumDirect /\ NumDirect \in Nat /\ SectorSize \in Nat \ {0}
  <2> HIDE DEF n
  <2> QED
    BY <1>1, <1>2, <1>5, ArchivosAssumption
<1>7. h.numBytes \in Nat /\ p \in Nat /\ p < h.numBytes
  BY DEF HdrBien
<1>8. p \div SectorSize < n /\ p \div SectorSize \in Nat
  BY <1>6, <1>7, Redondeo, CocienteNat
<1>9. p \div SectorSize < NumDirect
  <2> DEFINE q == p \div SectorSize
  <2>1. q < n /\ q \in Nat
    BY <1>8
  <2> HIDE DEF q, n
  <2>2. q < NumDirect
    BY <1>1, <1>6, <2>1
  <2> QED
    BY <2>2 DEF q
<1>10. p < NumDirect * SectorSize
  BY <1>6, <1>7, <1>9, MenorCociente
<1>11. NumDirect * SectorSize \in Nat
  BY <1>6
<1> QED
  BY <1>7, <1>10, <1>11

\* Of a file on a disk without damage: its header, its entry and its sectors.
LEMMA Fichero ==
    ASSUME ArchivosInv, Montado, dano = "no", operacion.tipo # "formato", NEW f, Existe(f)
    PROVE  /\ f \in Nombres /\ EsCabecera(Sector(f)) /\ Sector(f) \in Sectores \ Reservados
           /\ HdrBien(HdrDe(f)) /\ Sector(f) \notin SectoresDe(HdrDe(f))
           /\ \E e \in EnUso : /\ Ocupa(dirDisco, f) = {e} /\ Sector(f) = dirDisco[e].sector
                               /\ Ocupados(e) = SectoresDe(HdrDe(f)) \cup {Sector(f)}
<1>1. DirBien(dirDisco)
  BY Montada
<1>2. PICK e \in Ocupa(dirDisco, f) : TRUE
  BY DEF Existe
<1>3. /\ Ocupa(dirDisco, f) = {e} /\ e \in EnUso /\ Sector(f) = dirDisco[e].sector
      /\ Sector(f) \in Sectores \ Reservados /\ f \in Nombres
  BY <1>1, <1>2, UnaEntrada
<1>4. EsCabecera(Sector(f))
  BY <1>3 DEF ArchivosInv, Coherente
<1>5. HdrBien(HdrDe(f)) /\ Sector(f) \notin SectoresDe(HdrDe(f))
  BY <1>3, <1>4, CabeceraBien DEF HdrDe, ArchivosInv
<1>6. Ocupados(e) = SectoresDe(HdrDe(f)) \cup {Sector(f)}
  BY <1>3, <1>4 DEF Ocupados, HdrDe
<1> QED
  BY <1>3, <1>4, <1>5, <1>6

\* A byte depends on the sector that holds it.
LEMMA MismoByte ==
    ASSUME NEW h, NEW p, disco'[ByteToSector(h, p \div SectorSize)] = disco[ByteToSector(h, p \div SectorSize)]
    PROVE  EnDisco(h, p)' = EnDisco(h, p)
  BY DEF EnDisco

\* What was written is kept by steps that write nothing.
LEMMA BytesQuieta ==
    ASSUME BytesInv, UNCHANGED <<disco, operacion, pendientes, escrito, dano>>
    PROVE  BytesInv'
<1>1. SinNada'
  BY DEF BytesInv, SinNada
<1>2. \A f : (Existe(f)' <=> Existe(f)) /\ HdrDe(f)' = HdrDe(f) /\ (Suyo(f)' <=> Suyo(f))
  BY MismoDisco DEF Suyo
<1>3. \A h, p : EnDisco(h, p)' = EnDisco(h, p)
  BY MismoByte
<1>4. \A f, p : ByteBien(f, p)' <=> ByteBien(f, p)
  BY <1>2, <1>3 DEF ByteBien
<1>5. Montado' <=> Montado
  BY MismoDisco
<1> QED
  BY <1>1, <1>2, <1>4, <1>5 DEF BytesInv

\* With no write under way, what was written to a byte is on disk.
LEMMA ByteQuieto ==
    ASSUME NEW f, NEW p, ~Suyo(f)
    PROVE  ByteBien(f, p) <=> escrito[f][p] \in {Nadie, EnDisco(HdrDe(f), p)}
  BY DEF ByteBien

\* Nothing has been written at first.
LEMMA BytesInicial == Init => BytesInv
<1> SUFFICES ASSUME Init PROVE BytesInv
  OBVIOUS
<1>1. disco = [s \in Sectores |-> Datos([j \in Bytes |-> Nadie])] /\ operacion = Ninguna
  BY DEF Init
<1>2. ~Montado
  BY <1>1, Sistema DEF Montado, Datos
<1>3. operacion.tipo = "ninguna"
  BY <1>1 DEF Ninguna
<1> QED
  BY <1>2, <1>3 DEF BytesInv, SinNada

\* A crash leaves the bytes on the disk as they are.
LEMMA BytesCaida == ASSUME ArchivosInv, BytesInv, Caida PROVE BytesInv'
<1>1. /\ operacion' = Ninguna /\ disco' = disco
      /\ dano' = (IF dano = "no" /\ AMedias THEN "caida" ELSE dano)
      /\ escrito' = [f \in Nombres |->
                        IF f = operacion.nombre
                        THEN [i \in DOMAIN escrito[f] |-> IF EnDuda(i) THEN Nadie ELSE escrito[f][i]]
                        ELSE escrito[f]]
  BY DEF Caida
<1>2. operacion'.tipo = "ninguna"
  BY <1>1 DEF Ninguna
<1>3. SinNada' /\ \A f : ~Suyo(f)'
  BY <1>2 DEF SinNada, Suyo
<1> SUFFICES ASSUME Montado', dano' = "no", NEW f \in Nombres, Existe(f)', NEW p \in 0 .. HdrDe(f)'.numBytes - 1
             PROVE  ByteBien(f, p)'
  BY <1>3 DEF BytesInv
<1>4. Montado /\ dano = "no" /\ operacion.tipo # "formato" /\ Existe(f) /\ HdrDe(f)' = HdrDe(f)
  BY <1>1, MismoDisco DEF AMedias
<1>5. p \in 0 .. HdrDe(f).numBytes - 1
  BY <1>4
<1>6. ByteBien(f, p)
  BY <1>4, <1>5 DEF BytesInv
<1>7. EnDisco(HdrDe(f), p)' = EnDisco(HdrDe(f), p)
  BY <1>1, <1>4 DEF EnDisco
<1>8. p \in DOMAIN escrito[f]
  <2>1. p \in 0 .. NumDirect * SectorSize - 1
    BY <1>4, <1>5, Fichero, Tope
  <2> DEFINE E == 0 .. NumDirect * SectorSize - 1
  <2>2. p \in E /\ escrito \in [Nombres -> [E -> Valores \cup {Nadie}]]
    BY <2>1 DEF ArchivosInv, Control
  <2> HIDE DEF E
  <2> QED
    BY <2>2
<1>9. escrito'[f][p] \in {Nadie, EnDisco(HdrDe(f), p)}
  <2>1. CASE f # operacion.nombre
    BY <1>1, <1>6, <2>1 DEF ByteBien, Suyo
  <2>2. CASE f = operacion.nombre
    <3>1. escrito'[f][p] = IF EnDuda(p) THEN Nadie ELSE escrito[f][p]
      BY <1>1, <1>8, <2>2
    <3> QED
      BY <1>6, <2>2, <3>1 DEF ByteBien, Suyo, EnDuda
  <2> QED
    BY <2>1, <2>2
<1> QED
  BY <1>3, <1>7, <1>9 DEF ByteBien

\* A file begins with nothing written to it, and ends so.
LEMMA BytesNuevos ==
    ASSUME ArchivosInv, BytesInv, disco' = disco, NEW f \in Nombres, pendientes = <<>>,
           escrito' = [escrito EXCEPT ![f] = SinEscribir],
           (operacion'.tipo \in {"create", "remove"} /\ operacion'.nombre = f) \/ operacion'.tipo = "ninguna",
           dano' = "no" => dano = "no"
    PROVE  BytesInv'
<1>1. operacion.tipo = "ninguna" /\ DOMAIN escrito = Nombres
  BY Libre DEF ArchivosInv, Control
<1>2. escrito'[f] = SinEscribir /\ \A g \in Nombres \ {f} : escrito'[g] = escrito[g]
  BY <1>1
<1>3. SinNada' /\ \A g : ~Suyo(g)' /\ ~Suyo(g)
  BY <1>1, <1>2 DEF SinNada, Suyo
<1> SUFFICES ASSUME Montado', dano' = "no", NEW g \in Nombres, Existe(g)', NEW p \in 0 .. HdrDe(g)'.numBytes - 1
             PROVE  ByteBien(g, p)'
  BY <1>3 DEF BytesInv
<1>4. Montado /\ dano = "no" /\ Existe(g) /\ HdrDe(g)' = HdrDe(g)
  BY MismoDisco
<1>5. p \in 0 .. HdrDe(g).numBytes - 1
  BY <1>4
<1>6. ByteBien(g, p)
  BY <1>1, <1>4, <1>5 DEF BytesInv
<1>7. EnDisco(HdrDe(g), p)' = EnDisco(HdrDe(g), p)
  BY <1>4 DEF EnDisco
<1>8. escrito'[g][p] \in {Nadie, EnDisco(HdrDe(g), p)}
  <2>1. CASE g # f
    BY <1>2, <1>3, <1>6, <2>1 DEF ByteBien
  <2>2. CASE g = f
    <3>1. p \in 0 .. NumDirect * SectorSize - 1
      BY <1>1, <1>4, <1>5, Fichero, Tope
    <3>2. SinEscribir[p] = Nadie
      BY <3>1 DEF SinEscribir
    <3> QED
      BY <1>2, <2>2, <3>2
  <2> QED
    BY <2>1, <2>2
<1> QED
  BY <1>3, <1>7, <1>8 DEF ByteBien

\* A sector that is no file's is written: the other files keep their bytes.
LEMMA BytesAjenos ==
    ASSUME ArchivosInv, BytesInv, Escribir, operacion.tipo \in {"create", "remove"}, Montado, dano = "no",
           NEW g \in Nombres \ {operacion.nombre}, Existe(g)'
    PROVE  /\ Existe(g) /\ HdrDe(g)' = HdrDe(g)
           /\ \A b \in SectoresDe(HdrDe(g)) : disco'[b] = disco[b]
<1>0. PICK f, x, c : /\ f = operacion.nombre
                     /\ x = Head(pendientes).sector /\ c = Head(pendientes).contenido
  OBVIOUS
<1>1. /\ disco' = [disco EXCEPT ![x] = c] /\ DOMAIN disco = Sectores /\ f \in Nombres /\ g # f
      /\ pendientes # <<>>
  BY <1>0, Avance DEF ArchivosInv, Control, DiscoBien
<1>2. MapaBien(mapaDisco) /\ DirBien(dirDisco)
  BY Montada
<1>3. MapaDatos \in Reservados /\ DirDatos \in Reservados /\ MapaDatos # DirDatos /\ Reservados \subseteq Sectores
  BY Sistema DEF Reservados
\* What is written: the directory, where the other entries stay, or a sector of nobody else's.
<1>4. /\ x \in Sectores
      /\ \/ x = MapaDatos
         \/ x \notin Reservados /\ x \notin mapaDisco /\ EnVilo = {}
         \/ /\ x = DirDatos /\ Ocupa(c.table, g) = Ocupa(dirDisco, g)
            /\ \A e \in Ocupa(dirDisco, g) : c.table[e] = dirDisco[e]
  <2>1. CASE operacion.tipo = "create"
    <3>1. PICK s, h : s \in Sectores \ mapaDisco /\ CreandoCon(f, s, h)
      BY <1>0, <2>1 DEF ArchivosInv, Creando
    <3> DEFINE A == Nueva(s, Cabecera(h))
               B == EscribeDir(f, s)
               C == EscribeMapa(s, h)
               u == Add(dirDisco, f, s)
    <3>2. /\ A.sector = s /\ C.sector = MapaDatos
          /\ B.sector = DirDatos /\ B.contenido.table = u
      BY DEF Nueva, EscribeDir, EscribeMapa, Directorio
    <3>3. \/ pendientes = <<A, B, C>>
          \/ ~Existe(f) /\ Huecos(dirDisco) # {} /\ pendientes = <<B, C>>
          \/ pendientes = <<C>>
      BY <3>1 DEF CreandoCon
    <3>4. s \notin Reservados
      BY <1>2, <3>1 DEF MapaBien
    <3> HIDE DEF A, B, C, u
    <3>5. CASE pendientes = <<A, B, C>>
      <4>1. Head(pendientes) = A /\ Len(pendientes) = 3
        BY <3>5
      <4>2. x = s /\ EnVilo = {}
        BY <1>0, <3>2, <4>1 DEF EnVilo, AMitad
      <4> QED
        BY <3>1, <3>4, <4>2
    <3>6. CASE ~Existe(f) /\ Huecos(dirDisco) # {} /\ pendientes = <<B, C>>
      <4>1. Head(pendientes) = B
        BY <3>6
      <4>2. x = DirDatos /\ c.table = u
        BY <1>0, <3>2, <4>1
      <4>3. PICK o \in Entradas : /\ ~dirDisco[o].inUse
                                  /\ u[o] = [inUse |-> TRUE, name |-> f, sector |-> s]
                                  /\ \A i \in Entradas \ {o} : u[i] = dirDisco[i]
        <5>1. Ocupa(dirDisco, f) = {}
          BY <3>6 DEF Existe
        <5> QED
          BY <1>1, <1>2, <3>1, <3>4, <3>6, <5>1, AddBien DEF u
      <4>4. Ocupa(u, g) = Ocupa(dirDisco, g)
        BY <1>1, <4>3 DEF Ocupa
      <4>5. \A e \in Ocupa(dirDisco, g) : u[e] = dirDisco[e]
        BY <4>3 DEF Ocupa
      <4> QED
        BY <1>3, <4>2, <4>4, <4>5
    <3>7. CASE pendientes = <<C>>
      BY <1>0, <1>3, <3>2, <3>7
    <3> QED
      BY <3>3, <3>5, <3>6, <3>7
  <2>2. CASE operacion.tipo = "remove"
    <3> DEFINE A == Nueva(MapaDatos, Mapa(mapaDisco \ Liberados(f)))
               B == EscribeQuita(f)
               u == Quita(dirDisco, f)
    <3>1. A.sector = MapaDatos /\ B.sector = DirDatos /\ B.contenido.table = u
      BY DEF Nueva, EscribeQuita, Directorio
    <3>2. pendientes = <<A, B>> \/ pendientes = <<B>>
      BY <1>0, <2>2 DEF ArchivosInv, Borrando
    <3>3. \A e \in Entradas : /\ e \in Ocupa(dirDisco, f) => ~u[e].inUse
                              /\ e \notin Ocupa(dirDisco, f) => u[e] = dirDisco[e]
      BY <1>2, QuitaBien
    <3> HIDE DEF A, B, u
    <3>4. Head(pendientes) = A \/ Head(pendientes) = B
      BY <3>2
    <3>5. Ocupa(u, g) = Ocupa(dirDisco, g) /\ \A e \in Ocupa(dirDisco, g) : u[e] = dirDisco[e]
      BY <1>1, <3>3 DEF Ocupa
    <3> QED
      BY <1>0, <1>3, <3>1, <3>4, <3>5
  <2> QED
    BY <2>1, <2>2
<1>5. disco'[x] = c /\ \A s \in Sectores \ {x} : disco'[s] = disco[s]
  BY <1>1, <1>4
<1>6. Ocupa(dirDisco', g) = Ocupa(dirDisco, g) /\ \A e \in Ocupa(dirDisco, g) : dirDisco'[e] = dirDisco[e]
  <2>1. CASE x # DirDatos
    BY <1>3, <1>5, <2>1 DEF dirDisco
  <2>2. CASE x = DirDatos
    BY <1>3, <1>4, <1>5, <2>2 DEF dirDisco
  <2> QED
    BY <2>1, <2>2
<1>7. Existe(g)
  BY <1>6 DEF Existe
<1>8. PICK o \in EnUso : /\ Ocupa(dirDisco, g) = {o} /\ Sector(g) = dirDisco[o].sector
                         /\ Ocupados(o) = SectoresDe(HdrDe(g)) \cup {Sector(g)}
  BY <1>7, Fichero
<1>9. Sector(g) \in Sectores \ Reservados /\ SectoresDe(HdrDe(g)) \subseteq Sectores \ Reservados
  BY <1>7, Fichero, HdrSectores
<1>10. x \notin Ocupados(o)
  <2>1. CASE x \in Reservados
    BY <1>8, <1>9, <2>1
  <2>2. CASE x \notin mapaDisco /\ EnVilo = {}
    BY <2>2 DEF ArchivosInv, Coherente
  <2> QED
    BY <1>3, <1>4, <2>1, <2>2
<1>11. Sector(g)' = Sector(g)
  BY <1>6, <1>8 DEF Sector
<1>12. disco'[Sector(g)] = disco[Sector(g)] /\ \A b \in SectoresDe(HdrDe(g)) : disco'[b] = disco[b]
  BY <1>5, <1>8, <1>9, <1>10
<1>13. HdrDe(g)' = HdrDe(g)
  BY <1>11, <1>12 DEF HdrDe
<1> QED
  BY <1>7, <1>12, <1>13

\* The writes of a creation or a removal spare the bytes of the other files.
LEMMA BytesSigue ==
    ASSUME ArchivosInv, BytesInv, Escribir, operacion.tipo \in {"create", "remove"}
    PROVE  BytesInv'
<1>0. PICK f : f = operacion.nombre
  OBVIOUS
<1>1. f \in Nombres /\ Montado /\ escrito' = escrito /\ dano' = dano /\ escrito[f] = SinEscribir
  <2>1. operacion.nombre \in Nombres /\ maquina = "lista"
    BY Avance DEF ArchivosInv, Control
  <2>2. escrito' = escrito
    BY DEF Escribir
  <2> QED
    BY <1>0, <2>1, <2>2, Avance DEF BytesInv, SinNada
<1>2. operacion' = operacion \/ operacion'.tipo = "ninguna"
  BY Avance
<1>3. SinNada' /\ \A g : ~Suyo(g)' /\ ~Suyo(g)
  BY <1>0, <1>1, <1>2 DEF SinNada, Suyo
<1> SUFFICES ASSUME dano = "no", NEW g \in Nombres, Existe(g)', NEW p \in 0 .. HdrDe(g)'.numBytes - 1,
                    Montado', operacion'.tipo # "formato"
             PROVE  ByteBien(g, p)'
  BY <1>1, <1>3 DEF BytesInv
<1>4. CASE g # f
  <2>1. /\ Existe(g) /\ HdrDe(g)' = HdrDe(g)
        /\ \A b \in SectoresDe(HdrDe(g)) : disco'[b] = disco[b]
    BY <1>0, <1>1, <1>4, BytesAjenos
  <2>2. p \in 0 .. HdrDe(g).numBytes - 1
    BY <2>1
  <2>3. ByteBien(g, p)
    BY <1>1, <2>1, <2>2 DEF BytesInv
  <2>4. EnDisco(HdrDe(g), p)' = EnDisco(HdrDe(g), p)
    <3>1. ByteToSector(HdrDe(g), p \div SectorSize) \in SectoresDe(HdrDe(g))
      BY <1>1, <2>1, <2>2, Fichero, SectorDelByte
    <3>2. disco'[ByteToSector(HdrDe(g), p \div SectorSize)] = disco[ByteToSector(HdrDe(g), p \div SectorSize)]
      BY <2>1, <3>1
    <3> QED
      BY <2>1, <3>2 DEF EnDisco
  <2> QED
    BY <1>1, <1>3, <2>3, <2>4 DEF ByteBien
<1>5. CASE g = f
  <2>1. ArchivosInv'
    BY SigueCreate, SigueRemove
  <2>2. /\ HdrBien(HdrDe(g))' /\ Sector(g)' \in Sectores \ Reservados /\ Sector(g)' \notin SectoresDe(HdrDe(g)')
    <3>1. ArchivosInv' /\ Montado' /\ dano' = "no" /\ operacion'.tipo # "formato" /\ Existe(g)'
      BY <1>1, <2>1
    <3>2. DirBien(dirDisco)'
      BY <2>1, Sistema DEF Montado, ArchivosInv, DiscoBien, ContenidoBien, dirDisco
    <3>3. PICK e \in Ocupa(dirDisco', g) : TRUE
      BY DEF Existe
    <3>4. \A i \in Ocupa(dirDisco', g) : i = e
      BY <3>2, <3>3 DEF DirBien, Ocupa
    <3>5. Sector(g)' = dirDisco'[e].sector
      BY <3>3, <3>4 DEF Sector
    <3>6. e \in EnUso' /\ dirDisco'[e].sector \in Sectores \ Reservados
      BY <3>2, <3>3 DEF DirBien, Ocupa, EnUso
    <3>7. disco'[Sector(g)'].clase = "cabecera"
      BY <3>1, <3>5, <3>6 DEF ArchivosInv, Coherente, EsCabecera
    <3> QED
      BY <2>1, <3>5, <3>6, <3>7 DEF ArchivosInv, DiscoBien, ContenidoBien, HdrDe
  <2>3. p \in 0 .. NumDirect * SectorSize - 1
    <3>1. PICK h, s : h = HdrDe(g)' /\ s = Sector(g)'
      OBVIOUS
    <3>2. HdrBien(h) /\ s \in Sectores \ Reservados /\ s \notin SectoresDe(h) /\ p \in 0 .. h.numBytes - 1
      BY <2>2, <3>1 DEF HdrBien
    <3> QED
      BY <3>2, Tope
  <2>4. escrito'[g][p] = Nadie
    BY <1>1, <1>5, <2>3 DEF SinEscribir
  <2> QED
    BY <1>3, <2>4 DEF ByteBien
<1> QED
  BY <1>4, <1>5

\* A formatting forgets all the files.
LEMMA BytesFormato == ASSUME ArchivosInv, BytesInv, Escribir, operacion.tipo = "formato" PROVE BytesInv'
<1>1. operacion' = operacion \/ operacion'.tipo = "ninguna"
  BY Avance
<1>2. SinNada'
  BY <1>1 DEF SinNada
<1> SUFFICES ASSUME operacion'.tipo = "ninguna" PROVE \A f : ~Existe(f)'
  BY <1>1, <1>2 DEF BytesInv
<1>3. pendientes' = <<>> /\ pendientes' = Tail(pendientes)
  BY Avance
<1> DEFINE A == Nueva(FreeMapSector, Cabecera(MapaHdr))
           B == Nueva(DirectorySector, Cabecera(DirHdr))
           C == Nueva(MapaDatos, Mapa(Reservados))
           D == Nueva(DirDatos, Directorio(Vacio))
<1>4. pendientes \in {<<A, B, C, D>>, <<B, C, D>>, <<C, D>>, <<D>>}
  BY DEF ArchivosInv, Formateando
<1>5. D.sector = DirDatos /\ D.contenido = Directorio(Vacio) /\ Directorio(Vacio).table = Vacio
  BY DEF Nueva, Directorio
<1> HIDE DEF A, B, C, D
<1>6. pendientes = <<D>>
  <2>1. /\ Tail(<<A, B, C, D>>) = <<B, C, D>> /\ <<B, C, D>> # <<>>
        /\ Tail(<<B, C, D>>) = <<C, D>> /\ <<C, D>> # <<>>
        /\ Tail(<<C, D>>) = <<D>> /\ <<D>> # <<>>
    OBVIOUS
  <2> QED
    BY <1>3, <1>4, <2>1
<1>7. disco' = [disco EXCEPT ![DirDatos] = Directorio(Vacio)]
  BY <1>5, <1>6, Avance
<1>8. dirDisco' = Vacio
  BY <1>5, <1>7, Sistema DEF ArchivosInv, DiscoBien, dirDisco
<1> QED
  BY <1>8, VacioBien DEF Existe, Ocupa

\* The sector q of the file holds the bytes q * SectorSize, q * SectorSize + 1...
LEMMA Lugar ==
    ASSUME NEW p \in Nat
    PROVE  /\ p \div SectorSize \in Nat /\ p % SectorSize \in Bytes
           /\ (p \div SectorSize) * SectorSize + (p % SectorSize) = p
           /\ (p \div SectorSize) * SectorSize \in Nat /\ (p \div SectorSize) * SectorSize <= p
           /\ p < ((p \div SectorSize) + 1) * SectorSize
<1> DEFINE q == p \div SectorSize
           r == p % SectorSize
<1>1. SectorSize \in Nat \ {0}
  BY ArchivosAssumption
<1>2. q \in Nat /\ r \in 0 .. SectorSize - 1 /\ p = SectorSize * q + r
  <2>1. q \in Nat
    BY <1>1, CocienteNat
  <2>2. p \in Int
    OBVIOUS
  <2>3. r \in 0 .. SectorSize - 1 /\ p = SectorSize * q + r
    BY <1>1, <2>2, Division
  <2> QED
    BY <2>1, <2>3
<1> HIDE DEF q, r
<1>3. q * SectorSize \in Nat /\ q * SectorSize = SectorSize * q /\ (q + 1) * SectorSize = SectorSize * q + SectorSize
  BY <1>1, <1>2
<1>4. q * SectorSize + r = p /\ q * SectorSize <= p /\ p < (q + 1) * SectorSize
  BY <1>1, <1>2, <1>3
<1> QED
  BY <1>2, <1>3, <1>4 DEF q, r, Bytes

\* What ReadAt reads, byte by byte.
LEMMA ReadAtBien ==
    ASSUME NEW h, HdrBien(h), NEW n \in Nat, NEW pos \in Nat
    PROVE  /\ DOMAIN ReadAt(h, n, pos) = 1 .. Cuantos(h, n, pos)
           /\ \A i \in DOMAIN ReadAt(h, n, pos) :
                 /\ i \in Nat \ {0} /\ i <= n /\ pos + i - 1 \in 0 .. h.numBytes - 1
                 /\ ReadAt(h, n, pos)[i] = EnDisco(h, pos + i - 1)
<1>1. /\ Cuantos(h, n, pos) \in Nat
      /\ \A i \in Nat \ {0} : i <= Cuantos(h, n, pos) <=> i <= n /\ pos + i - 1 < h.numBytes
  BY CuantosBien
<1>2. ReadAt(h, n, pos) = [i \in 1 .. Cuantos(h, n, pos) |-> EnDisco(h, pos + i - 1)]
  BY DEF ReadAt, EnDisco
<1>3. h.numBytes \in Nat
  BY DEF HdrBien
<1>4. ASSUME NEW i \in 1 .. Cuantos(h, n, pos)
      PROVE  i \in Nat \ {0} /\ i <= n /\ pos + i - 1 \in 0 .. h.numBytes - 1
  <2>1. i \in Nat \ {0} /\ i <= Cuantos(h, n, pos)
    BY <1>1
  <2>2. i <= n /\ pos + i - 1 < h.numBytes
    BY <1>1, <2>1
  <2> QED
    BY <1>3, <2>1, <2>2
<1> QED
  BY <1>2, <1>4

\* A sector that is written in part keeps the other bytes that it had of the file.
LEMMA BuferBien ==
    ASSUME NEW h, HdrBien(h), NEW pos \in Nat, NEW c \in Nat \ {0}, pos + c <= h.numBytes,
           NEW p \in 0 .. h.numBytes - 1, p \notin pos .. pos + c - 1,
           pos \div SectorSize <= p \div SectorSize,
           p \div SectorSize <= (pos + c - 1) \div SectorSize
    PROVE  Bufer(h, p \div SectorSize, c, pos)[p % SectorSize] = EnDisco(h, p)
<1> DEFINE a == pos \div SectorSize
           b == (pos + c - 1) \div SectorSize
           k == p \div SectorSize
           j == p % SectorSize
           SS == SectorSize
<1>1. SS \in Nat \ {0} /\ h.numBytes \in Nat /\ p \in Nat /\ p < h.numBytes /\ pos + c - 1 \in Nat
  BY ArchivosAssumption DEF HdrBien
<1>2. /\ a \in Nat /\ a * SS \in Nat /\ a * SS <= pos /\ pos < (a + 1) * SS
      /\ b \in Nat /\ b * SS \in Nat /\ b * SS <= pos + c - 1 /\ pos + c - 1 < (b + 1) * SS
      /\ k \in Nat /\ j \in Bytes /\ k * SS + j = p /\ k * SS \in Nat /\ k * SS <= p /\ p < (k + 1) * SS
      /\ a <= k /\ k <= b
  BY <1>1, Lugar
<1>3. (k = a /\ ~(pos = a * SS)) \/ (k = b /\ ~(pos + c = (b + 1) * SS))
  <2> HIDE DEF a, b, k, j, SS
  <2>1. CASE p < pos
    <3>1. k = a
      <4>1. CASE a + 1 <= k
        <5>1. (a + 1) * SS <= k * SS
          BY <1>1, <1>2, <4>1
        <5>2. (a + 1) * SS \in Nat
          BY <1>1, <1>2
        <5> QED
          BY <1>1, <1>2, <2>1, <5>1, <5>2
      <4> QED
        BY <1>2, <4>1
    <3> QED
      BY <1>1, <1>2, <2>1, <3>1
  <2>2. CASE p > pos + c - 1
    <3>1. k = b
      <4>1. CASE k + 1 <= b
        <5>1. (k + 1) * SS <= b * SS
          BY <1>1, <1>2, <4>1
        <5>2. (k + 1) * SS \in Nat
          BY <1>1, <1>2
        <5> QED
          BY <1>1, <1>2, <2>2, <5>1, <5>2
      <4> QED
        BY <1>2, <4>1
    <3>2. (b + 1) * SS \in Nat
      BY <1>1, <1>2
    <3> QED
      BY <1>1, <1>2, <2>2, <3>1, <3>2
  <2> QED
    BY <1>1, <2>1, <2>2
<1> DEFINE lee == ReadAt(h, SectorSize, k * SectorSize)
<1>4. Bufer(h, k, c, pos)[j] = IF j + 1 \in DOMAIN lee THEN lee[j + 1] ELSE Nadie
  BY <1>2, <1>3 DEF Bufer
<1>5. /\ Cuantos(h, SS, k * SS) \in Nat
      /\ \A i \in Nat \ {0} : i <= Cuantos(h, SS, k * SS) <=> i <= SS /\ k * SS + i - 1 < h.numBytes
  BY <1>1, <1>2, CuantosBien
<1>6. j + 1 \in DOMAIN lee
  <2> HIDE DEF k, j
  <2>1. j + 1 \in Nat \ {0} /\ j + 1 <= SectorSize /\ k * SectorSize + (j + 1) - 1 = p
    BY <1>1, <1>2 DEF Bytes
  <2>2. j + 1 <= Cuantos(h, SectorSize, k * SectorSize)
    BY <1>1, <1>5, <2>1
  <2>3. DOMAIN lee = 1 .. Cuantos(h, SectorSize, k * SectorSize)
    BY <1>1, <1>2, ReadAtBien
  <2> QED
    BY <1>5, <2>1, <2>2, <2>3
<1>7. lee[j + 1] = EnDisco(h, p)
  <2> HIDE DEF k, j
  <2>1. k * SectorSize + (j + 1) - 1 = p
    BY <1>1, <1>2 DEF Bytes
  <2>2. lee[j + 1] = EnDisco(h, k * SectorSize + (j + 1) - 1)
    BY <1>1, <1>2, <1>6, ReadAtBien
  <2> QED
    BY <2>1, <2>2
<1> QED
  BY <1>4, <1>6, <1>7

\* What WriteAt is to write in the place of a byte of its sectors: the new value,
\* or what there was.
LEMMA ParteBien ==
    ASSUME NEW h, HdrBien(h), NEW pos \in Nat, NEW c \in Nat \ {0}, pos + c <= h.numBytes, NEW v,
           NEW p \in 0 .. h.numBytes - 1, NEW k \in DOMAIN WriteAt(h, c, pos, v),
           WriteAt(h, c, pos, v)[k].sector = ByteToSector(h, p \div SectorSize)
    PROVE  WriteAt(h, c, pos, v)[k].contenido.bytes[p % SectorSize] =
              IF p \in pos .. pos + c - 1 THEN v ELSE EnDisco(h, p)
<1> DEFINE a == pos \div SectorSize
           b == (pos + c - 1) \div SectorSize
           q == p \div SectorSize
           j == p % SectorSize
           W == WriteAt(h, c, pos, v)
<1>1. /\ a \in Nat /\ b \in Nat /\ a <= b /\ DOMAIN W = 1 .. b - a + 1
      /\ a + k \in DOMAIN h.dataSectors /\ W[k].sector = h.dataSectors[a + k]
  <2>1. a \in Nat /\ b \in Nat /\ a <= b
    BY WriteAtParte
  <2>2. DOMAIN W = 1 .. b - a + 1
    BY WriteAtParte
  <2>3. a + k \in DOMAIN h.dataSectors /\ W[k].sector = h.dataSectors[a + k]
    BY WriteAtParte
  <2> QED
    BY <2>1, <2>2, <2>3
<1>2. q \in Nat /\ q + 1 \in DOMAIN h.dataSectors /\ p \in Nat
  BY SectorDelByte
<1>3. h.dataSectors[a + k] = h.dataSectors[q + 1]
  BY <1>1 DEF ByteToSector
<1>4. a + k = q + 1
  BY <1>1, <1>2, <1>3 DEF HdrBien
<1>5. k \in 1 .. b - a + 1
  BY <1>1
<1>6. a + k - 1 = q /\ a <= q /\ q <= b
  <2> HIDE DEF a, b, q, W
  <2> QED
    BY <1>1, <1>2, <1>4, <1>5
<1>7. W[k].contenido.bytes = [i \in Bytes |-> IF (a + k - 1) * SectorSize + i \in pos .. pos + c - 1
                                              THEN v ELSE Bufer(h, a + k - 1, c, pos)[i]]
  BY <1>5 DEF WriteAt, Nueva, Datos
<1>8. j \in Bytes /\ q * SectorSize + j = p
  BY <1>2, Lugar
<1>9. W[k].contenido.bytes[j] = IF p \in pos .. pos + c - 1 THEN v ELSE Bufer(h, q, c, pos)[j]
  BY <1>6, <1>7, <1>8
<1>10. p \notin pos .. pos + c - 1 => Bufer(h, q, c, pos)[j] = EnDisco(h, p)
  BY <1>6, BuferBien
<1> QED
  BY <1>9, <1>10

\* The parts of a write that go to the sector of byte p have the byte that is due.
ParteTodas(h, c, pos, v, p) ==
    \A k \in DOMAIN WriteAt(h, c, pos, v) :
        WriteAt(h, c, pos, v)[k].sector = ByteToSector(h, p \div SectorSize) =>
            WriteAt(h, c, pos, v)[k].contenido.bytes[p % SectorSize] =
                IF p \in pos .. pos + c - 1 THEN v ELSE EnDisco(h, p)

\* The same, of any byte, as one predicate.
LEMMA ParteBienTodas ==
    ASSUME NEW h, HdrBien(h), NEW pos \in Nat, NEW c \in Nat \ {0}, pos + c <= h.numBytes, NEW v,
           NEW p \in 0 .. h.numBytes - 1
    PROVE  ParteTodas(h, c, pos, v, p)
BY ParteBien DEF ParteTodas

\* The sector of byte p of the file is among those that a write at pos writes.
SeEscribe(h, c, pos, v, p) ==
    \E k \in DOMAIN WriteAt(h, c, pos, v) : WriteAt(h, c, pos, v)[k].sector = ByteToSector(h, p \div SectorSize)

\* A byte that is asked for is in one of the sectors that WriteAt writes.
LEMMA SuParte ==
    ASSUME NEW h, HdrBien(h), NEW pos \in Nat, NEW c \in Nat \ {0}, pos + c <= h.numBytes, NEW v,
           NEW p \in Nat, pos <= p, p <= pos + c - 1
    PROVE  SeEscribe(h, c, pos, v, p)
<1> DEFINE a == pos \div SectorSize
           b == (pos + c - 1) \div SectorSize
           q == p \div SectorSize
           W == WriteAt(h, c, pos, v)
<1>1. /\ a \in Nat /\ b \in Nat /\ a <= b /\ DOMAIN W = 1 .. b - a + 1
      /\ \A k \in DOMAIN W : W[k].sector = h.dataSectors[a + k]
  <2>1. a \in Nat /\ b \in Nat /\ a <= b
    BY WriteAtParte
  <2>2. DOMAIN W = 1 .. b - a + 1
    BY WriteAtParte
  <2>3. \A k \in DOMAIN W : W[k].sector = h.dataSectors[a + k]
    BY WriteAtParte
  <2> QED
    BY <2>1, <2>2, <2>3
<1>2. SectorSize \in Nat \ {0} /\ p \in Nat /\ pos <= p /\ p <= pos + c - 1 /\ pos + c - 1 \in Nat
  BY ArchivosAssumption
<1>3. q \in Nat /\ a <= q /\ q <= b
  BY <1>2, CocienteNat, CocienteCrece
<1> HIDE DEF a, b, q, W
<1>4. q - a + 1 \in 1 .. b - a + 1 /\ a + (q - a + 1) = q + 1
  BY <1>1, <1>3
<1>5. W[q - a + 1].sector = ByteToSector(h, q)
  BY <1>1, <1>4 DEF ByteToSector
<1>6. \E k \in DOMAIN W : W[k].sector = ByteToSector(h, q)
  BY <1>1, <1>4, <1>5
<1> QED
  BY <1>6 DEF SeEscribe, q, W

\* A write begins: its bytes are in the sectors it is going to write, and so are
\* the other bytes of those sectors.
LEMMA BytesWrite ==
    ASSUME ArchivosInv, BytesInv, NEW m \in Manejos, NEW n \in Tamanos, NEW v \in Valores, Write(m, n, v)
    PROVE  BytesInv'
<1>0. PICK h, pos, f, c : EsWrite(m, n, v, h, pos, f, c)
  BY WriteEs
<1>1. /\ h = abiertos[m].hdr /\ pos = abiertos[m].seekPosition
      /\ f = abiertos[m].nombre /\ c = Cuantos(h, n, pos)
      /\ maquina = "lista" /\ pendientes = <<>> /\ abiertos[m] # Cerrado
      /\ c > 0
      /\ pendientes' = WriteAt(h, c, pos, v)
      /\ operacion' = [tipo |-> "write", nombre |-> f, desde |-> pos, hasta |-> pos + c - 1]
      /\ IF Vigente(m) /\ Entero(f)
         THEN /\ escrito' = [escrito EXCEPT ![f] = [i \in DOMAIN @ |-> IF i \in pos .. pos + c - 1 THEN v ELSE @[i]]]
              /\ UNCHANGED dano
         ELSE dano' = "intruso" /\ UNCHANGED escrito
      /\ UNCHANGED <<disco, maquina, caidas>>
  BY <1>0 DEF EsWrite
<1>2. f \in Nombres /\ HdrBien(h) /\ pos \in Nat
  BY <1>0, <1>1 DEF ArchivosInv, AbiertosBien
<1>3. Montado /\ operacion.tipo = "ninguna"
  BY <1>1, Libre DEF ArchivosInv, Control
<1>4. c \in Nat \ {0} /\ pos + c <= h.numBytes
  <2>1. n \in Nat
    BY ArchivosAssumption
  <2>2. Cuantos(h, n, pos) \in Nat /\ (Cuantos(h, n, pos) > 0 => pos + Cuantos(h, n, pos) <= h.numBytes)
    BY <1>2, <2>1, CuantosBien
  <2> QED
    BY <1>0, <1>1, <2>2
<1>5. operacion'.tipo = "write" /\ operacion'.nombre = f /\ operacion'.desde = pos /\ operacion'.hasta = pos + c - 1
  BY <1>1
<1>6. SinNada' /\ \A g : ~Suyo(g) /\ (Suyo(g)' <=> g = f)
  BY <1>3, <1>5 DEF SinNada, Suyo
<1> SUFFICES ASSUME dano' = "no", NEW g \in Nombres, Existe(g)', NEW p \in 0 .. HdrDe(g)'.numBytes - 1
             PROVE  ByteBien(g, p)'
  BY <1>6 DEF BytesInv
<1>7. /\ dano = "no" /\ Vigente(m)
      /\ escrito' = [escrito EXCEPT ![f] = [i \in DOMAIN @ |-> IF i \in pos .. pos + c - 1 THEN v ELSE @[i]]]
  BY <1>1
<1>8. Existe(g) /\ HdrDe(g)' = HdrDe(g) /\ p \in 0 .. HdrDe(g).numBytes - 1
  BY <1>1, MismoDisco
<1>9. EnDisco(HdrDe(g), p)' = EnDisco(HdrDe(g), p)
  BY <1>1, <1>8 DEF EnDisco
<1>10. escrito[g][p] \in {Nadie, EnDisco(HdrDe(g), p)}
  <2>1. ByteBien(g, p)
    BY <1>3, <1>7, <1>8 DEF BytesInv
  <2> QED
    BY <1>6, <2>1, ByteQuieto
<1>11. g \in DOMAIN escrito /\ p \in DOMAIN escrito[g]
  <2>1. p \in 0 .. NumDirect * SectorSize - 1
    BY <1>3, <1>7, <1>8, Fichero, Tope
  <2> DEFINE E == 0 .. NumDirect * SectorSize - 1
  <2>2. p \in E /\ escrito \in [Nombres -> [E -> Valores \cup {Nadie}]]
    BY <2>1 DEF ArchivosInv, Control
  <2> HIDE DEF E
  <2> QED
    BY <2>2
<1>12. CASE g # f
  <2>1. escrito'[g] = escrito[g]
    BY <1>7, <1>11, <1>12
  <2> QED
    BY <1>6, <1>9, <1>10, <1>12, <2>1 DEF ByteBien
<1>13. CASE g = f
  <2>1. HdrDe(g) = h /\ p \in 0 .. h.numBytes - 1
    BY <1>1, <1>7, <1>8, <1>13 DEF Vigente
  <2>2. escrito'[g][p] = IF p \in pos .. pos + c - 1 THEN v ELSE escrito[g][p]
    BY <1>7, <1>11, <1>13
  <2> DEFINE W == WriteAt(h, c, pos, v)
             s == ByteToSector(h, p \div SectorSize)
  <2>3. \A k \in DOMAIN W : W[k].sector = s =>
            W[k].contenido.bytes[p % SectorSize] = IF p \in pos .. pos + c - 1 THEN v ELSE EnDisco(h, p)
    <3>1. HdrBien(h) /\ pos \in Nat /\ c \in Nat \ {0} /\ pos + c <= h.numBytes /\ p \in 0 .. h.numBytes - 1
      BY <1>2, <1>4, <2>1
    <3>2. ParteTodas(h, c, pos, v, p)
      <4> HIDE DEF W, s
      <4> QED
        BY <3>1, ParteBienTodas
    <3> QED
      BY <3>2 DEF ParteTodas
  <2>4. p \in pos .. pos + c - 1 => \E k \in DOMAIN W : W[k].sector = s
    <3> SUFFICES ASSUME p \in pos .. pos + c - 1 PROVE \E k \in DOMAIN W : W[k].sector = s
      OBVIOUS
    <3>1. HdrBien(h) /\ pos \in Nat /\ c \in Nat \ {0} /\ pos + c <= h.numBytes
      BY <1>2, <1>4
    <3>2. p \in Nat
      BY <2>1, <3>1 DEF HdrBien
    <3>3. pos <= p /\ p <= pos + c - 1
      BY <3>1, <3>2
    <3>4. SeEscribe(h, c, pos, v, p)
      <4> HIDE DEF W, s
      <4> QED
        BY <3>1, <3>2, <3>3, SuParte
    <3> QED
      BY <3>4 DEF SeEscribe
  <2>5. pendientes' = W
    BY <1>1
  <2>6. HdrDe(g)' = h /\ EnDisco(HdrDe(g), p)' = EnDisco(h, p) /\ escrito[g][p] \in {Nadie, EnDisco(h, p)}
    BY <1>8, <1>9, <1>10, <2>1
  <2> HIDE DEF W
  <2>7. p \notin pos .. pos + c - 1 => escrito'[g][p] \in {Nadie, EnDisco(HdrDe(g), p)'}
    BY <2>2, <2>6
  <2>8. \A k \in DOMAIN pendientes' : pendientes'[k].sector = s =>
            escrito'[g][p] \in {Nadie, pendientes'[k].contenido.bytes[p % SectorSize]}
    BY <2>2, <2>3, <2>5, <2>6
  <2>9. (\A k \in DOMAIN pendientes' : pendientes'[k].sector # s) =>
            escrito'[g][p] \in {Nadie, EnDisco(HdrDe(g), p)'}
    BY <2>4, <2>5, <2>7
  <2>10. ByteToSector(HdrDe(g)', p \div SectorSize) = s
    BY <2>6
  <2> HIDE DEF s
  <2> QED
    BY <1>5, <1>6, <1>13, <2>7, <2>8, <2>9, <2>10 DEF ByteBien
<1> QED
  BY <1>12, <1>13

\* A sector of data is written: its bytes are on disk from now on.
LEMMA BytesSector == ASSUME ArchivosInv, BytesInv, Escribir, operacion.tipo = "write" PROVE BytesInv'
<1>0. PICK f, x, c : f = operacion.nombre /\ x = pendientes[1].sector /\ c = pendientes[1].contenido
  OBVIOUS
<1>1. Montado /\ pendientes # <<>> /\ dano' = dano /\ escrito' = escrito
  BY Avance DEF ArchivosInv, Control, Escribir
<1>2. /\ pendientes \in Seq({pendientes[k] : k \in DOMAIN pendientes})
      /\ (pendientes[1].sector \in Sectores \ Reservados /\ pendientes[1].contenido.clase = "datos")
         \/ 1 \notin DOMAIN pendientes
  BY DEF ArchivosInv, Escribiendo
<1>3. /\ 1 \in DOMAIN pendientes /\ Head(pendientes) = pendientes[1] /\ pendientes' = Tail(pendientes)
      /\ \A k \in DOMAIN pendientes' : k + 1 \in DOMAIN pendientes /\ pendientes'[k] = pendientes[k + 1]
      /\ \A k \in DOMAIN pendientes : k \in Nat \ {0} /\ (k # 1 => k - 1 \in DOMAIN pendientes')
  <2>1. pendientes' = Tail(pendientes)
    BY Avance
  <2>2. /\ Len(pendientes) \in Nat \ {0} /\ DOMAIN pendientes = 1 .. Len(pendientes)
        /\ 1 \in DOMAIN pendientes /\ Head(pendientes) = pendientes[1]
        /\ \A k \in DOMAIN Tail(pendientes) : k + 1 \in DOMAIN pendientes /\ Tail(pendientes)[k] = pendientes[k + 1]
        /\ \A k \in DOMAIN pendientes : k # 1 => k - 1 \in DOMAIN Tail(pendientes)
    BY <1>1, <1>2, Cola
  <2>3. \A k \in DOMAIN pendientes : k \in Nat \ {0}
    BY <2>2
  <2> QED
    BY <2>1, <2>2, <2>3
<1>4. x \in Sectores \ Reservados /\ c.clase = "datos" /\ disco' = [disco EXCEPT ![x] = c]
  BY <1>0, <1>2, <1>3, Avance
<1>5. disco'[x] = c /\ (\A s \in Sectores \ {x} : disco'[s] = disco[s]) /\ dirDisco' = dirDisco
  BY <1>4, Sistema DEF ArchivosInv, DiscoBien, dirDisco, Reservados
<1>6. (operacion' = operacion /\ pendientes' # <<>>) \/ (operacion'.tipo = "ninguna" /\ pendientes' = <<>>)
  BY Avance
<1>7. SinNada'
  BY <1>6 DEF SinNada
<1> SUFFICES ASSUME dano = "no", NEW g \in Nombres, Existe(g)', NEW p \in 0 .. HdrDe(g)'.numBytes - 1
             PROVE  ByteBien(g, p)'
  BY <1>1, <1>7 DEF BytesInv
<1>8. Existe(g) /\ Sector(g)' = Sector(g)
  BY <1>5, MismoDir
<1>9. PICK o \in EnUso : /\ Ocupa(dirDisco, g) = {o} /\ Sector(g) = dirDisco[o].sector
                         /\ Ocupados(o) = SectoresDe(HdrDe(g)) \cup {Sector(g)}
  BY <1>1, <1>8, Fichero
<1>10. Sector(g) \in Sectores \ Reservados /\ HdrBien(HdrDe(g)) /\ SectoresDe(HdrDe(g)) \subseteq Sectores
  BY <1>1, <1>8, Fichero, HdrSectores
<1>11. Existe(f) /\ x \in SectoresDe(HdrDe(f)) /\ Sector(g) # x
  BY <1>0, <1>3, <1>9 DEF ArchivosInv, Escribiendo
<1>12. HdrDe(g)' = HdrDe(g)
  BY <1>5, <1>8, <1>10, <1>11 DEF HdrDe
<1>13. PICK h, s : h = HdrDe(g) /\ s = ByteToSector(h, p \div SectorSize)
  OBVIOUS
<1>14. HdrBien(h) /\ p \in 0 .. h.numBytes - 1 /\ HdrDe(g)' = h
  BY <1>10, <1>12, <1>13
<1>15. s \in SectoresDe(h) /\ s \in Sectores
  BY <1>10, <1>13, <1>14, SectorDelByte
<1>16. ByteBien(g, p)
  BY <1>1, <1>8, <1>13, <1>14 DEF BytesInv
<1>17. s # x => EnDisco(h, p)' = EnDisco(h, p)
  BY <1>5, <1>13, <1>15 DEF EnDisco
<1>18. s = x => EnDisco(h, p)' = c.bytes[p % SectorSize]
  BY <1>4, <1>5, <1>13 DEF EnDisco, Leido
<1>19. CASE g # f
  <2>1. s # x
    <3>1. PICK i \in EnUso : /\ Ocupa(dirDisco, f) = {i}
                             /\ Ocupados(i) = SectoresDe(HdrDe(f)) \cup {Sector(f)}
      BY <1>1, <1>11, Fichero
    <3>2. i # o
      BY <1>9, <1>19, <3>1 DEF Ocupa
    <3>3. Ocupados(i) \cap Ocupados(o) = {}
      BY <1>1, <3>2 DEF ArchivosInv, Coherente
    <3> QED
      BY <1>9, <1>11, <1>13, <1>15, <3>1, <3>3
  <2>2. ~Suyo(g) /\ ~Suyo(g)'
    BY <1>0, <1>6, <1>19 DEF Suyo
  <2> QED
    BY <1>1, <1>13, <1>14, <1>16, <1>17, <2>1, <2>2 DEF ByteBien
<1>20. CASE g = f
  <2>1. Suyo(g)
    BY <1>0, <1>20 DEF Suyo
  <2>2. /\ ~(p \in operacion.desde .. operacion.hasta) => escrito[g][p] \in {Nadie, EnDisco(h, p)}
        /\ \A k \in DOMAIN pendientes : pendientes[k].sector = s =>
               escrito[g][p] \in {Nadie, pendientes[k].contenido.bytes[p % SectorSize]}
        /\ (\A k \in DOMAIN pendientes : pendientes[k].sector # s) => escrito[g][p] \in {Nadie, EnDisco(h, p)}
    BY <1>13, <1>16, <2>1 DEF ByteBien
  \* On disk now, or before and still.
  <2>3. \/ \E k \in DOMAIN pendientes' : pendientes'[k].sector = s
        \/ escrito[g][p] \in {Nadie, EnDisco(h, p)'}
    <3>1. CASE s = x
      BY <1>0, <1>3, <1>18, <2>2, <3>1
    <3>2. CASE s # x /\ \A k \in DOMAIN pendientes : pendientes[k].sector # s
      BY <1>17, <2>2, <3>2
    <3>3. ASSUME NEW k \in DOMAIN pendientes, pendientes[k].sector = s, s # x
          PROVE  \E i \in DOMAIN pendientes' : pendientes'[i].sector = s
      <4>1. k # 1 /\ k \in Nat \ {0}
        BY <1>0, <1>3, <3>3
      <4>2. k - 1 \in DOMAIN pendientes' /\ (k - 1) + 1 = k
        BY <1>3, <4>1
      <4>3. pendientes'[k - 1] = pendientes[k]
        BY <1>3, <4>2
      <4> QED
        BY <3>3, <4>2, <4>3
    <3> QED
      BY <3>1, <3>2, <3>3
  <2>4. p \notin operacion.desde .. operacion.hasta => escrito[g][p] \in {Nadie, EnDisco(h, p)'}
    <3>1. CASE s = x
      BY <1>0, <1>3, <1>18, <2>2, <3>1
    <3>2. CASE s # x
      BY <1>17, <2>2, <3>2
    <3> QED
      BY <3>1, <3>2
  <2>5. \A k \in DOMAIN pendientes' : pendientes'[k].sector = s =>
            escrito[g][p] \in {Nadie, pendientes'[k].contenido.bytes[p % SectorSize]}
    BY <1>3, <2>2
  <2>6. CASE operacion' = operacion
    BY <1>1, <1>13, <1>14, <2>1, <2>3, <2>4, <2>5, <2>6 DEF ByteBien, Suyo
  <2>7. CASE operacion'.tipo = "ninguna" /\ pendientes' = <<>>
    <3>1. escrito[g][p] \in {Nadie, EnDisco(h, p)'}
      BY <2>3, <2>7
    <3>2. ~Suyo(g)'
      BY <2>7 DEF Suyo
    <3> QED
      BY <1>1, <1>14, <3>1, <3>2 DEF ByteBien
  <2> QED
    BY <1>6, <2>6, <2>7
<1> QED
  BY <1>19, <1>20

\* Every step keeps what was written.
LEMMA BytesPaso == ASSUME ArchivosInv, BytesInv, [Next]_vars PROVE BytesInv'
<1>1. CASE Formatear
  <2>1. operacion'.tipo = "formato"
    BY <1>1 DEF Formatear, Ninguna
  <2> QED
    BY <2>1 DEF BytesInv, SinNada
<1>2. CASE Montar
  BY <1>2, BytesQuieta DEF Montar
<1>3. CASE Escribir
  BY <1>3, Avance, BytesFormato, BytesSigue, BytesSector
<1>4. CASE Caida
  BY <1>4, BytesCaida
<1>5. ASSUME NEW f \in Nombres, NEW tam \in Tamanos, Create(f, tam) PROVE BytesInv'
  <2>1. /\ operacion'.tipo = "create" /\ operacion'.nombre = f /\ pendientes = <<>>
        /\ escrito' = [escrito EXCEPT ![f] = SinEscribir] /\ disco' = disco /\ dano' = dano
    BY <1>5 DEF Create, Ociosa, Ninguna
  <2> QED
    BY <2>1, BytesNuevos
<1>6. ASSUME NEW f \in Nombres, Remove(f) PROVE BytesInv'
  <2>1. /\ pendientes = <<>> /\ escrito' = [escrito EXCEPT ![f] = SinEscribir] /\ disco' = disco
        /\ dano' = (IF Aparte(f) THEN dano ELSE "intruso")
        /\ (operacion' = [Ninguna EXCEPT !.tipo = "remove", !.nombre = f] \/ operacion' = operacion)
    BY <1>6 DEF Remove, Ociosa
  <2>2. (operacion'.tipo = "remove" /\ operacion'.nombre = f) \/ operacion'.tipo = "ninguna"
    BY <2>1, Libre DEF Ninguna, ArchivosInv
  <2>3. dano' = "no" => dano = "no"
    BY <2>1
  <2> QED
    BY <2>1, <2>2, <2>3, BytesNuevos
<1>7. ASSUME NEW f \in Nombres, Ilegible(f) PROVE BytesInv'
  BY <1>7, BytesQuieta DEF Ilegible
<1>8. ASSUME NEW m \in Manejos, NEW f \in Nombres, Open(m, f) PROVE BytesInv'
  BY <1>8, BytesQuieta DEF Open
<1>9. ASSUME NEW m \in Manejos, Cerrar(m) PROVE BytesInv'
  BY <1>9, BytesQuieta DEF Cerrar
<1>10. ASSUME NEW m \in Manejos, NEW n \in Tamanos, NEW v \in Valores, Write(m, n, v) PROVE BytesInv'
  BY <1>10, BytesWrite
<1>11. ASSUME NEW m \in Manejos, NEW n \in Tamanos, Read(m, n) \/ Seek(m, n) PROVE BytesInv'
  BY <1>11, BytesQuieta DEF Read, Seek, Mover
<1>12. CASE UNCHANGED vars
  BY <1>12, BytesQuieta DEF vars
<1> QED
  BY <1>1, <1>2, <1>3, <1>4, <1>5, <1>6, <1>7, <1>8, <1>9, <1>10, <1>11, <1>12 DEF Next

\* Reading any part of a file gives what was last written to each of its bytes.
THEOREM LeeSiempre == Spec => []LeeLoEscrito
<1>1. ArchivosInv /\ BytesInv => LeeLoEscrito
  <2> SUFFICES ASSUME ArchivosInv, BytesInv, Estable, dano = "no",
                      NEW f \in Nombres, NEW n \in Tamanos, NEW p \in 0 .. NumDirect * SectorSize - 1, Existe(f),
                      NEW r, r = ReadAt(HdrDe(f), n, p)
               PROVE  /\ Len(r) = Cardinality((p .. p + n - 1) \cap (0 .. HdrDe(f).numBytes - 1))
                      /\ \A i \in DOMAIN r : escrito[f][p + i - 1] \in {Nadie, r[i]}
    BY DEF LeeLoEscrito
  <2>1. Montado /\ operacion.tipo = "ninguna" /\ ~Suyo(f)
    BY Libre DEF Estable, Ociosa, Montado, ArchivosInv, Suyo
  <2>2. PICK h, c : h = HdrDe(f) /\ c = Cuantos(h, n, p)
    OBVIOUS
  <2>3. HdrBien(h) /\ h.numBytes \in Nat /\ n \in Nat /\ p \in Nat
    BY <2>1, <2>2, Fichero, ArchivosAssumption DEF HdrBien
  <2>4. /\ c \in Nat
        /\ \A i \in Nat \ {0} : i <= c <=> i <= n /\ p + i - 1 < h.numBytes
    BY <2>2, <2>3, CuantosBien
  <2>5. /\ DOMAIN r = 1 .. c
        /\ \A i \in DOMAIN r : /\ i \in Nat \ {0} /\ p + i - 1 \in 0 .. h.numBytes - 1
                               /\ r[i] = EnDisco(h, p + i - 1)
    BY <2>2, <2>3, ReadAtBien
  <2>6. \A i \in DOMAIN r : escrito[f][p + i - 1] \in {Nadie, r[i]}
    <3> SUFFICES ASSUME NEW i \in DOMAIN r PROVE escrito[f][p + i - 1] \in {Nadie, r[i]}
      OBVIOUS
    <3>1. ByteBien(f, p + i - 1)
      BY <2>1, <2>2, <2>5 DEF BytesInv
    <3> QED
      BY <2>1, <2>2, <2>5, <3>1, ByteQuieto
  <2>7. Len(r) = c
    <3>1. r = [i \in 1 .. c |-> r[i]]
      BY <2>2 DEF ReadAt
    <3> QED
      BY <2>4, <3>1
  <2>8. (p .. p + n - 1) \cap (0 .. h.numBytes - 1) = p .. p + c - 1
    <3> SUFFICES ASSUME NEW j \in Int
                 PROVE  (j \in p .. p + n - 1 /\ j \in 0 .. h.numBytes - 1) <=> j \in p .. p + c - 1
      BY <2>3, <2>4
    <3>1. CASE j >= p
      <4>1. j - p + 1 \in Nat \ {0} /\ p + (j - p + 1) - 1 = j
        BY <2>3, <3>1
      <4>2. j - p + 1 <= c <=> j - p + 1 <= n /\ j < h.numBytes
        BY <2>4, <4>1
      <4> QED
        BY <2>3, <2>4, <3>1, <4>2
    <3>2. CASE j < p
      BY <2>3, <3>2
    <3> QED
      BY <2>3, <3>1, <3>2
  <2>9. Cardinality(p .. p + c - 1) = c
    <3> DEFINE d == p + c - 1
    <3>1. p \in Int /\ d \in Int /\ (p > d => c = 0) /\ d - p + 1 = c
      BY <2>3, <2>4
    <3> HIDE DEF d
    <3>2. Cardinality(p .. d) = IF p > d THEN 0 ELSE d - p + 1
      BY <3>1, FS_Interval
    <3>3. Cardinality(p .. d) = c
      BY <3>1, <3>2
    <3> QED
      BY <3>3 DEF d
  <2> QED
    BY <2>2, <2>6, <2>7, <2>8, <2>9
<1>2. Spec => [](ArchivosInv /\ BytesInv)
  BY Inicial, BytesInicial, Paso, BytesPaso, PTL DEF Spec
<1> QED
  BY <1>1, <1>2, PTL
==================================================================================
