--------------------------- MODULE NachosUsuario_proofs ---------------------------
(***************************************************************************)
(* The table of open files of NachOS, for any length of the table, any      *)
(* number of UNIX descriptors and programs that make any number of calls:   *)
(* what usage counts, and when an id leads to its descriptor.  Then the     *)
(* memory, for any number of frames and any sizes of page and of program:   *)
(* each page finds its code and data in a frame of its own, and the map of  *)
(* frames says which are taken.                                             *)
(***************************************************************************)
EXTENDS NachosUsuario, FiniteSetTheorems, TLAPS

\* A program that has only opened sockets has the descriptors one after another,
\* as its ids; a call that found the table full took one and ended NachOS.
Orden ==
    coincide /\ estado # "aborta" =>
        /\ usage >= 3
        /\ \A d \in 0..MaxFD : unix[d] = "libre" <=> d >= usage

Inv == TypeOK /\ HuecoDetras /\ UsoExacto /\ ManejoFiel /\ Orden

Estados == {"arranque", "ejecuta", "terminado", "detenido", "aborta"}
Cosas == {"libre", "terminal", "archivo", "socket", "escucha", "conexion"}
Manejo == [id : 0 .. fileLimit - 1, fd : {NoFD} \cup 0..MaxFD, peso : {1, 2}, cierres : Nat]

\* The invariant holds initially.
LEMMA Inicial == Init => Inv
<1> SUFFICES ASSUME Init PROVE Inv
  OBVIOUS
<1>1. 0 \in 0..MaxFD /\ 1 \in 0..MaxFD /\ 2 \in 0..MaxFD /\ Consola \subseteq 0 .. fileLimit - 1
  BY UsuarioAssumption DEF Consola
<1>2. DOMAIN vivos = {}
  BY DEF Init
<1>3. TypeOK
  BY <1>1, <1>2 DEF Init, TypeOK
<1>4. UsoExacto
  BY <1>2, FS_EmptySet DEF Init, UsoExacto
<1>5. Orden
  BY <1>1, UsuarioAssumption DEF Init, Orden, Consola
<1> QED
  BY <1>2, <1>3, <1>4, <1>5 DEF Inv, HuecoDetras, ManejoFiel

\* What the program has been told of is finite: it can be counted.
LEMMA Finito == ASSUME TypeOK PROVE IsFiniteSet(DOMAIN vivos)
<1>1. IsFiniteSet(1..llamadas)
  BY FS_Interval DEF TypeOK
<1> QED
  BY <1>1, FS_Subset DEF TypeOK

\* Calls that change neither the table nor the descriptors.
LEMMA Quieto ==
    ASSUME Inv, UNCHANGED <<archivos, unix, registro>>, estado' \in Estados, r2' \in {"bien", "error"},
           llamadas' \in Nat, llamadas' >= llamadas, estado = "aborta" => estado' = "aborta"
    PROVE  Inv'
<1> QED
  BY DEF Inv, TypeOK, HuecoDetras, UsoExacto, ManejoFiel, Orden, archivos, registro, Estados

\* Calls that change a descriptor from one use to another.
LEMMA CambiaUso ==
    ASSUME Inv, UNCHANGED <<archivos, registro, estado>>, unix' \in [0..MaxFD -> Cosas],
           \A d \in 0..MaxFD : unix'[d] = "libre" <=> unix[d] = "libre",
           r2' \in {"bien", "error"}, llamadas' \in Nat, llamadas' >= llamadas
    PROVE  Inv'
<1> QED
  BY DEF Inv, TypeOK, HuecoDetras, UsoExacto, ManejoFiel, Orden, archivos, registro, Cosas

\* Calls that hand out a descriptor past the table.
LEMMA PorFuera ==
    ASSUME Inv, UNCHANGED <<archivos, vivos, limpio, abiertos>>, estado' \in Estados,
           coincide' = FALSE, unix' \in [0..MaxFD -> Cosas], r2' \in {"bien", "error"},
           llamadas' \in Nat, llamadas' >= llamadas
    PROVE  Inv'
<1>1. \A n \in DOMAIN vivos' : n \in 1..llamadas'
  BY DEF Inv, TypeOK
<1>2. TypeOK'
  BY <1>1 DEF Inv, TypeOK, archivos, Cosas, Estados
<1>3. HuecoDetras' /\ UsoExacto' /\ ManejoFiel' /\ Orden'
  BY DEF Inv, HuecoDetras, UsoExacto, ManejoFiel, Orden, archivos
<1> QED
  BY <1>2, <1>3 DEF Inv

\* What is handed out is a descriptor or the failure to get one; with the free
\* ones all at the end, it is the first of them.
LEMMA NuevosTipo == ASSUME NEW d \in Nuevos PROVE d = NoFD \/ (d \in 0..MaxFD /\ unix[d] = "libre")
BY DEF Nuevos, Libres

\* With every descriptor from u on free and no other, the one handed out is u.
LEMMA NuevosOrden ==
    ASSUME NEW u \in Nat, \A d \in 0..MaxFD : unix[d] = "libre" <=> d >= u, NEW d \in Nuevos, d # NoFD
    PROVE  d = u
<1>1. d \in 0..MaxFD /\ d >= u
  BY NuevosTipo
<1>2. u \in Libres
  BY <1>1, UsuarioAssumption DEF Libres
<1> QED
  BY <1>1, <1>2, UsuarioAssumption DEF Nuevos

\* Open and Socket: an id is registered for a descriptor, or NachOS aborts.
LEMMA AbreLema ==
    ASSUME Inv, NEW cosa \in Cosas \ {"libre"}, NEW mas \in {0, 1}, AbreEntrada(cosa, mas)
    PROVE  Inv'
<1>1. PICK d \in Nuevos :
         /\ unix' = Abre(d, cosa)
         /\ IF Cabe
            THEN /\ Registra(d, mas) /\ Entrega(usage, d, mas)
                 /\ Vuelve("bien")
            ELSE /\ estado' = "aborta"
                 /\ UNCHANGED <<r2, archivos, registro, espacio>>
  BY DEF AbreEntrada
<1>2. llamadas' = llamadas + 1 /\ llamadas \in Nat /\ llamadas' \in Nat /\ llamadas' >= llamadas
  BY DEF AbreEntrada, Llama, Inv, TypeOK
<1>3. d \in {NoFD} \cup 0..MaxFD
  BY NuevosTipo
<1>4. unix' \in [0..MaxFD -> Cosas]
  BY <1>1, <1>3 DEF Abre, Inv, TypeOK, Cosas
<1>5. CASE ~Cabe
  <2>1. estado' = "aborta" /\ UNCHANGED <<r2, archivos, registro>>
    BY <1>1, <1>5
  <2>2. \A n \in DOMAIN vivos' : n \in 1..llamadas'
    BY <1>2, <2>1 DEF Inv, TypeOK, registro
  <2>3. TypeOK'
    BY <1>2, <1>4, <2>1, <2>2 DEF Inv, TypeOK, archivos, registro, Cosas
  <2>4. HuecoDetras' /\ UsoExacto' /\ ManejoFiel' /\ Orden'
    BY <2>1 DEF Inv, HuecoDetras, UsoExacto, ManejoFiel, Orden, archivos, registro
  <2> QED
    BY <2>3, <2>4 DEF Inv
<1>6. CASE Cabe
  <2>1. Registra(d, mas) /\ Entrega(usage, d, mas) /\ UNCHANGED estado /\ r2' = "bien"
    BY <1>1, <1>6 DEF Vuelve
  <2>2. usage \in 0 .. fileLimit - 1 /\ usage \in Int /\ fileLimit \in Nat
    BY <1>6, UsuarioAssumption DEF Cabe, Inv, TypeOK
  <2> DEFINE nuevo == [id |-> usage, fd |-> d, peso |-> 1 + mas, cierres |-> 0]
  <2>3. nuevo \in Manejo /\ nuevo.id = usage /\ nuevo.fd = d /\ nuevo.peso = 1 + mas /\ nuevo.cierres = 0
    BY <1>3, <2>2 DEF Manejo
  <2>4. /\ DOMAIN vivos' = DOMAIN vivos \cup {llamadas'}
        /\ \A n \in DOMAIN vivos' : vivos'[n] = IF n = llamadas' THEN nuevo ELSE vivos[n]
    BY <1>2, <2>1 DEF Entrega
  <2>40. /\ llamadas' \notin DOMAIN vivos
         /\ \A n \in DOMAIN vivos : n # llamadas' /\ vivos'[n] = vivos[n] /\ vivos[n] \in Manejo
    BY <1>2, <2>4 DEF Inv, TypeOK, Manejo
  <2> HIDE DEF nuevo
  <2>5. usage' = usage + 1 + mas
    BY <2>1 DEF Registra
  <2>6. TypeOK'
    <3>1. /\ DOMAIN vivos' \subseteq 1..llamadas'
          /\ \A n \in DOMAIN vivos' : vivos'[n] \in Manejo
      BY <1>2, <2>3, <2>4, <2>40 DEF Inv, TypeOK
    <3>2. usage' \in Int /\ abiertos' \in Nat /\ coincide' \in BOOLEAN /\ limpio' \in BOOLEAN
      BY <2>1, <2>2, <2>5 DEF Entrega, Inv, TypeOK
    <3>3. openFiles' \in [0 .. fileLimit - 1 -> {SinEscribir, NoFD} \cup 0..MaxFD]
      BY <1>3, <2>1, <2>2 DEF Registra, Inv, TypeOK
    <3>4. openFilesMap' \subseteq 0 .. fileLimit - 1
      BY <2>1, <2>2 DEF Registra, Inv, TypeOK
    <3> QED
      BY <1>2, <1>4, <2>1, <3>1, <3>2, <3>3, <3>4 DEF Inv, TypeOK, Manejo, Cosas
  <2>7. HuecoDetras'
    <3>1. usage' + nuevo.cierres >= nuevo.id + nuevo.peso
      BY <2>2, <2>3, <2>5
    <3>2. \A n \in DOMAIN vivos : usage' + vivos[n].cierres >= vivos[n].id + vivos[n].peso
      BY <2>2, <2>5, <2>40 DEF Inv, HuecoDetras, Manejo
    <3> QED
      BY <2>4, <2>40, <3>1, <3>2 DEF HuecoDetras
  <2>8. UsoExacto'
    <3> SUFFICES ASSUME limpio' PROVE usage' = 3 + Cardinality(DOMAIN vivos') + abiertos'
      BY DEF UsoExacto
    <3>1. limpio /\ usage = 3 + Cardinality(DOMAIN vivos) + abiertos /\ abiertos \in Nat
      BY <2>1 DEF Entrega, Inv, TypeOK, UsoExacto
    <3>2. IsFiniteSet(DOMAIN vivos) /\ Cardinality(DOMAIN vivos) \in Nat
      BY Finito, FS_CardinalityType DEF Inv
    <3>3. Cardinality(DOMAIN vivos') = Cardinality(DOMAIN vivos) + 1
      BY <2>4, <2>40, <3>2, FS_AddElement
    <3>4. abiertos' = abiertos + mas
      BY <2>1 DEF Entrega
    <3> HIDE DEF Inv
    <3> QED
      BY <2>5, <3>1, <3>2, <3>3, <3>4
  <2>9. ManejoFiel' /\ Orden'
    <3>1. ASSUME coincide' PROVE coincide /\ mas = 0 /\ d # NoFD /\ estado # "aborta"
      BY <2>1, <3>1 DEF Entrega, AbreEntrada, Llama, Inv, TypeOK
    <3>2. ASSUME coincide' PROVE usage >= 3 /\ d = usage /\ \A x \in 0..MaxFD : unix[x] = "libre" <=> x >= usage
      BY <2>2, <3>1, <3>2, NuevosOrden DEF Inv, Orden
    <3>3. \A id \in 0 .. fileLimit - 1 : openFiles'[id] = IF id = usage THEN d ELSE openFiles[id]
      BY <2>1, <2>2 DEF Registra, Inv, TypeOK
    <3>4. limpio' = limpio
      BY <2>1 DEF Entrega
    <3>5. ManejoFiel'
      <4>1. ASSUME limpio', NEW n \in DOMAIN vivos'
            PROVE  openFiles'[vivos'[n].id] = vivos'[n].fd \/ vivos'[n].cierres >= vivos'[n].peso
        <5>1. CASE n = llamadas'
          BY <2>2, <2>3, <2>4, <3>3, <5>1
        <5>2. CASE n # llamadas'
          <6>1. n \in DOMAIN vivos /\ vivos'[n] = vivos[n] /\ vivos[n] \in Manejo
            BY <2>4, <2>40, <5>2
          <6>2. CASE vivos[n].id = usage
            BY <2>2, <6>1, <6>2 DEF Inv, HuecoDetras, Manejo
          <6>3. CASE vivos[n].id # usage
            BY <3>3, <3>4, <4>1, <6>1, <6>3 DEF Inv, ManejoFiel, Manejo
          <6> QED
            BY <6>2, <6>3
        <5> QED
          BY <5>1, <5>2
      <4>2. ASSUME coincide' PROVE \A n \in DOMAIN vivos' : vivos'[n].fd = vivos'[n].id
        BY <2>3, <2>4, <2>40, <3>1, <3>2, <4>2 DEF Inv, ManejoFiel
      <4> QED
        BY <4>1, <4>2 DEF ManejoFiel
    <3>6. ASSUME coincide' PROVE \A x \in 0..MaxFD : unix'[x] = "libre" <=> x >= usage'
      <4>1. d \in 0..MaxFD /\ usage' = usage + 1
        BY <1>3, <2>2, <2>5, <3>1, <3>6
      <4>2. \A x \in 0..MaxFD : unix'[x] = IF x = d THEN cosa ELSE unix[x]
        BY <1>1, <3>1, <3>6 DEF Abre, Inv, TypeOK
      <4> QED
        BY <2>2, <3>2, <3>6, <4>1, <4>2
    <3>7. Orden'
      BY <2>2, <2>5, <3>2, <3>6 DEF Orden
    <3> QED
      BY <3>5, <3>7
  <2> QED
    BY <2>6, <2>7, <2>8, <2>9 DEF Inv
<1> QED
  BY <1>5, <1>6

\* Close: of an id the program has, or of any other.
LEMMA CloseLema ==
    ASSUME Inv, NEW id \in 0 .. fileLimit, Close(id)
    PROVE  Inv'
<1>1. /\ usage' = usage - 1 /\ coincide' = FALSE /\ limpio' = (limpio /\ Veces(id) # {})
      /\ UNCHANGED <<estado, r2, abiertos>> /\ llamadas' = llamadas + 1
  BY DEF Close, Olvida, delThread, Vuelve, Llama
<1>2. PICK una \in (IF Veces(id) = {} THEN {0} ELSE Veces(id)) :
         vivos' = [n \in DOMAIN vivos \ {una} |-> [vivos[n] EXCEPT !.cierres = @ + 1]]
  BY DEF Close, Olvida
<1>20. /\ DOMAIN vivos' = DOMAIN vivos \ {una}
       /\ \A n \in DOMAIN vivos' : vivos'[n] = [vivos[n] EXCEPT !.cierres = @ + 1]
  BY <1>2
<1>3. \A n \in DOMAIN vivos' :
        /\ n \in DOMAIN vivos
        /\ vivos'[n] \in Manejo /\ vivos[n] \in Manejo
        /\ vivos'[n].id = vivos[n].id /\ vivos'[n].fd = vivos[n].fd /\ vivos'[n].peso = vivos[n].peso
        /\ vivos'[n].cierres = vivos[n].cierres + 1
  BY <1>20 DEF Inv, TypeOK, Manejo
<1>4. unix' \in [0..MaxFD -> Cosas]
  BY DEF Close, Inv, TypeOK, Cosas
<1>5. /\ openFiles' \in [0 .. fileLimit - 1 -> {SinEscribir, NoFD} \cup 0..MaxFD]
      /\ openFilesMap' \subseteq 0 .. fileLimit - 1
      /\ usage' # 0 => openFiles' = openFiles
  <2>1. \/ UNCHANGED <<openFiles, openFilesMap>>
        \/ usage' = 0 /\ openFiles' = [i \in 0 .. fileLimit - 1 |-> 0] /\ openFilesMap' = {}
    BY DEF Close, delThread
  <2>2. /\ openFiles \in [0 .. fileLimit - 1 -> {SinEscribir, NoFD} \cup 0..MaxFD]
        /\ openFilesMap \subseteq 0 .. fileLimit - 1 /\ 0 \in 0..MaxFD
    BY UsuarioAssumption DEF Inv, TypeOK
  <2> QED
    BY <2>1, <2>2
<1>6. TypeOK'
  <2>1. /\ DOMAIN vivos' \subseteq 1..llamadas'
        /\ \A n \in DOMAIN vivos' : vivos'[n] \in Manejo
    BY <1>1, <1>3 DEF Inv, TypeOK
  <2>2. limpio' \in BOOLEAN /\ coincide' \in BOOLEAN
    BY <1>1, Zenon
  <2>3. /\ usage' \in Int /\ llamadas' \in Nat
        /\ r2' \in {"bien", "error"} /\ abiertos' \in Nat /\ estado' \in Estados
    BY <1>1 DEF Inv, TypeOK, Estados
  <2> QED
    BY <1>4, <1>5, <2>1, <2>2, <2>3 DEF TypeOK, Manejo, Cosas, Estados
<1>7. HuecoDetras'
  BY <1>1, <1>3 DEF Inv, TypeOK, HuecoDetras, Manejo
<1>8. IsFiniteSet(DOMAIN vivos) /\ Cardinality(DOMAIN vivos) \in Nat /\ abiertos \in Nat
  BY Finito, FS_CardinalityType DEF Inv, TypeOK
<1>9. ASSUME limpio'
      PROVE  /\ usage' = 3 + Cardinality(DOMAIN vivos') + abiertos'
             /\ usage' # 0
  <2>1. usage = 3 + Cardinality(DOMAIN vivos) + abiertos /\ una \in DOMAIN vivos
    BY <1>1, <1>9 DEF Inv, UsoExacto, Veces
  <2>2. Cardinality(DOMAIN vivos') = Cardinality(DOMAIN vivos) - 1 /\ Cardinality(DOMAIN vivos') \in Nat
    BY <1>20, <1>8, <2>1, FS_RemoveElement, FS_CardinalityType
  <2> QED
    BY <1>1, <1>8, <2>1, <2>2
<1>10. ManejoFiel'
  <2>1. ASSUME limpio', NEW n \in DOMAIN vivos'
        PROVE  openFiles'[vivos'[n].id] = vivos'[n].fd \/ vivos'[n].cierres >= vivos'[n].peso
    <3>1. openFiles' = openFiles /\ limpio
      BY <1>1, <1>5, <1>9, <2>1
    <3>2. n \in DOMAIN vivos /\ vivos[n] \in Manejo
      BY <1>3, <2>1
    <3>3. openFiles[vivos[n].id] = vivos[n].fd \/ vivos[n].cierres >= vivos[n].peso
      BY <3>1, <3>2 DEF Inv, ManejoFiel
    <3>4. vivos[n].cierres \in Nat /\ vivos[n].peso \in {1, 2}
      BY <3>2 DEF Manejo
    <3> HIDE DEF Inv
    <3> QED
      BY <1>3, <2>1, <3>1, <3>3, <3>4
  <2> QED
    BY <1>1, <2>1 DEF ManejoFiel
<1> QED
  BY <1>1, <1>6, <1>7, <1>9, <1>10 DEF Inv, UsoExacto, Orden

\* Connect and Listen.
LEMMA EnSocketLema ==
    ASSUME Inv, NEW id \in 0 .. fileLimit, NEW antes \in SUBSET {"socket", "escucha"},
           NEW despues \in {"conexion", "escucha"}, EnSocket(id, antes, despues)
    PROVE  Inv'
<1>1. /\ UNCHANGED <<archivos, registro, estado>>
      /\ r2' \in {"bien", "error"} /\ llamadas' \in Nat /\ llamadas' >= llamadas
  BY DEF EnSocket, Vuelve, Llama, Inv, TypeOK
<1>2. \/ UNCHANGED unix
      \/ id \in 0..MaxFD /\ unix[id] # "libre" /\ unix' = [unix EXCEPT ![id] = despues]
  BY DEF EnSocket, Es
<1>3. /\ unix' \in [0..MaxFD -> Cosas]
      /\ \A d \in 0..MaxFD : unix'[d] = "libre" <=> unix[d] = "libre"
  BY <1>2 DEF Inv, TypeOK, Cosas
<1> QED
  BY <1>1, <1>3, CambiaUso

\* Every step keeps the invariant.
LEMMA Paso == Inv /\ [Next]_vars => Inv'
<1> SUFFICES ASSUME Inv, [Next]_vars PROVE Inv'
  OBVIOUS
<1>1. estado \in Estados /\ r2 \in {"bien", "error"} /\ llamadas \in Nat
  BY DEF Inv, TypeOK, Estados
<1>2. CASE StartProcess
  <2>1. UNCHANGED <<r2, llamadas, archivos, unix, registro>> /\ estado = "arranque"
    BY <1>2 DEF StartProcess
  <2>2. estado' \in {"ejecuta", "aborta"}
    BY <1>2 DEF StartProcess
  <2> QED
    BY <1>1, <2>1, <2>2, Quieto DEF Estados
<1>3. CASE Halt \/ Aborta \/ Exit \/ SocketDesconocido \/ LlamadaVacia
  <2>1. UNCHANGED <<archivos, unix, registro>> /\ estado = "ejecuta" /\ llamadas' = llamadas + 1
    BY <1>3 DEF Halt, Aborta, Exit, SocketDesconocido, LlamadaVacia, Llama
  <2>2. estado' \in Estados /\ r2' \in {"bien", "error"}
    BY <1>1, <1>3 DEF Halt, Aborta, Exit, SocketDesconocido, LlamadaVacia, Vuelve, Estados
  <2> QED
    BY <1>1, <2>1, <2>2, Quieto
<1>4. ASSUME NEW id \in 0 .. fileLimit, Write(id) \/ Read(id) \/ BindOShutdown(id) PROVE Inv'
  <2>1. UNCHANGED <<archivos, unix, registro>> /\ estado = "ejecuta" /\ llamadas' = llamadas + 1
    BY <1>4 DEF Write, Read, BindOShutdown, Llama
  <2>2. UNCHANGED estado /\ r2' \in {"bien", "error"}
    BY <1>4 DEF Write, Read, BindOShutdown, PuedeIr, Vuelve
  <2> QED
    BY <1>1, <2>1, <2>2, Quieto
<1>5. CASE Open
  BY <1>5, AbreLema DEF Open, Cosas
<1>6. CASE Socket
  BY <1>6, AbreLema DEF Socket, Cosas
<1>7. ASSUME NEW id \in 0 .. fileLimit, Connect(id) \/ Listen(id) PROVE Inv'
  BY <1>7, EnSocketLema DEF Connect, Listen
<1>8. ASSUME Create \/ \E id \in 0 .. fileLimit : Accept(id) PROVE Inv'
  <2>1. PICK d \in {NoFD} \cup 0..MaxFD, cosa \in Cosas : unix' = Abre(d, cosa) /\ Vuelve(Signo(d))
    BY <1>8, NuevosTipo DEF Create, Accept, Cosas
  <2>2. /\ UNCHANGED <<archivos, vivos, limpio, abiertos>> /\ coincide' = FALSE
        /\ llamadas' = llamadas + 1
    BY <1>8 DEF Create, Accept, Llama
  <2>3. unix' \in [0..MaxFD -> Cosas]
    BY <2>1 DEF Abre, Inv, TypeOK, Cosas
  <2>4. UNCHANGED estado /\ r2' \in {"bien", "error"}
    BY <2>1 DEF Vuelve, Signo
  <2>5. estado' \in Estados /\ llamadas' \in Nat /\ llamadas' >= llamadas
    BY <1>1, <2>2, <2>4
  <2> QED
    BY <2>2, <2>3, <2>4, <2>5, PorFuera
<1>9. ASSUME NEW id \in 0 .. fileLimit, Close(id) PROVE Inv'
  BY <1>9, CloseLema
<1>10. CASE UNCHANGED vars
  BY <1>1, <1>10, Quieto DEF vars
<1> QED
  BY <1>2, <1>3, <1>4, <1>5, <1>6, <1>7, <1>8, <1>9, <1>10 DEF Next, Llamada

\* The invariant holds in every state.
THEOREM Invariante == Spec => []Inv
BY Inicial, Paso, PTL DEF Spec

\* The table and the descriptors keep their types, whatever the program closes.
THEOREM TiposUsuario == Spec => []TypeOK
<1>1. Inv => TypeOK
  BY DEF Inv
<1> QED
  BY <1>1, Invariante, PTL

\* An id in use is ahead of usage by no more than the calls of Close since it was
\* given (openfiletable.cc:23, 50).
THEOREM HuecoSiempre == Spec => []HuecoDetras
<1>1. Inv => HuecoDetras
  BY DEF Inv
<1> QED
  BY <1>1, Invariante, PTL

\* usage grows with every Open there ever was, for a program of any length: the
\* table is used up however little is open at a time (openfiletable.cc:50).
THEOREM UsoSiempre == Spec => []UsoExacto
<1>1. Inv => UsoExacto
  BY DEF Inv
<1> QED
  BY <1>1, Invariante, PTL

\* A program that only closes what it was given reaches its descriptor by each id
\* until it has called Close as many times since as the call took places, whatever
\* else it calls (openfiletable.cc:24-27, 50); one that only has sockets, by the
\* same number (exception.cc:405-553).
THEOREM ManejoSiempre == Spec => []ManejoFiel
<1>1. Inv => ManejoFiel
  BY DEF Inv
<1> QED
  BY <1>1, Invariante, PTL

-----------------------------------------------------------------------------
(* The address space                                                        *)

\* What the division of C leaves, of numbers that are not negative.
LEMMA Division ==
    ASSUME NEW a \in Int, NEW p \in Nat \ {0}
    PROVE  /\ a \div p \in Int /\ a % p \in 0 .. p - 1
           /\ a = p * (a \div p) + (a % p)
OBVIOUS

\* The quotient of a natural is a natural.
LEMMA CocienteNat ==
    ASSUME NEW a \in Nat, NEW p \in Nat \ {0}
    PROVE  a \div p \in Nat
<1> DEFINE d == a \div p
<1>1. d \in Int /\ a % p \in 0 .. p - 1 /\ a = p * d + (a % p)
  BY Division
<1> DEFINE r == a % p
<1> HIDE DEF d, r
<1>2. ASSUME d < 0 PROVE FALSE
  <2>1. p * (d + 1) <= 0
    BY <1>1, <1>2
  <2> QED
    BY <1>1, <2>1 DEF r
<1>3. d \in Nat
  BY <1>1, <1>2
<1> QED
  BY <1>3 DEF d

\* A byte is before page n exactly when its page is.
LEMMA MenorCociente ==
    ASSUME NEW v \in Nat, NEW p \in Nat \ {0}, NEW n \in Nat
    PROVE  v < n * p <=> v \div p < n
<1> DEFINE d == v \div p
<1>1. d \in Int /\ v % p \in 0 .. p - 1 /\ v = p * d + (v % p)
  BY Division
<1> HIDE DEF d
<1>2. ASSUME v < n * p, d >= n PROVE FALSE
  <2>1. p * d >= p * n
    BY <1>1, <1>2
  <2> QED BY <1>1, <1>2, <2>1
<1>3. ASSUME v >= n * p, d < n PROVE FALSE
  <2>1. p * (d + 1) <= p * n
    BY <1>1, <1>3
  <2>2. p * d + p <= p * n
    BY <1>1, <2>1
  <2> QED BY <1>1, <1>3, <2>2
<1>4. v < n * p <=> d < n
  BY <1>1, <1>2, <1>3
<1> QED
  BY <1>4 DEF d

\* divRoundUp counts the pages that hold c bytes.
LEMMA Redondeo ==
    ASSUME NEW c \in Nat, NEW p \in Nat \ {0}
    PROVE  /\ divRoundUp(c, p) \in Nat
           /\ \A v \in Nat : v < c => v \div p < divRoundUp(c, p)
           /\ \A t \in Nat : c <= t => divRoundUp(c, p) <= divRoundUp(t, p)
<1> DEFINE d == divRoundUp(c, p)
<1>1. d \in Int /\ (c + p - 1) % p \in 0 .. p - 1 /\ c + p - 1 = p * d + ((c + p - 1) % p)
  <2>1. c + p - 1 \in Int
    OBVIOUS
  <2> QED
    BY <2>1, Division DEF divRoundUp
<1> DEFINE r == (c + p - 1) % p
<1> HIDE DEF d, r
<1>2. d \in Nat
  <2>1. ASSUME d < 0 PROVE FALSE
    <3>1. p * (d + 1) <= 0
      BY <1>1, <2>1
    <3> QED BY <1>1, <3>1 DEF r
  <2> QED BY <1>1, <2>1
<1>3. c <= d * p
  BY <1>1 DEF r
<1>4. ASSUME NEW v \in Nat, v < c PROVE v \div p < d
  BY <1>2, <1>3, <1>4, MenorCociente
<1>5. ASSUME NEW t \in Nat, c <= t PROVE d <= divRoundUp(t, p)
  <2> DEFINE e == divRoundUp(t, p)
  <2>1. e \in Int /\ (t + p - 1) % p \in 0 .. p - 1 /\ t + p - 1 = p * e + ((t + p - 1) % p)
    <3>1. t + p - 1 \in Int
      OBVIOUS
    <3> QED
      BY <3>1, Division DEF divRoundUp
  <2> DEFINE s == (t + p - 1) % p
  <2> HIDE DEF e, s
  <2>2. ASSUME e < d PROVE FALSE
    <3>1. p * (e + 1) <= p * d
      BY <1>1, <2>1, <2>2
    <3>2. p * e + p <= p * d
      BY <1>1, <2>1, <3>1
    <3> QED BY <1>1, <1>5, <2>1, <3>2 DEF r, s
  <2>3. d <= e
    BY <1>1, <2>1, <2>2
  <2> QED BY <2>3 DEF e
<1> QED
  BY <1>2, <1>4, <1>5 DEF d

Marcos == 0 .. NumPhysPages - 1

\* With every frame free, Find hands them out from the first one on.
LEMMA HallaDesdeCero ==
    ASSUME NEW n \in 0..NumPhysPages
    PROVE  Halla({}, n) = [i \in 0 .. n - 1 |-> i]
<1>1. NumPhysPages \in Nat
  BY UsuarioAssumption
<1> DEFINE L == (0 .. NumPhysPages - 1) \ {}
<1>4. L = Marcos
  BY DEF Marcos
<1> HIDE DEF L
<1>2. ASSUME NEW f \in L PROVE Cardinality({x \in L : x < f}) = f
  <2>1. {x \in L : x < f} = 0 .. f - 1
    BY <1>1, <1>4 DEF Marcos
  <2>2. Cardinality(0 .. f - 1) = f
    BY <1>1, <1>4, FS_Interval DEF Marcos
  <2> QED
    BY <2>1, <2>2
<1>3. ASSUME NEW i \in 0 .. n - 1
      PROVE  (CHOOSE f \in L : Cardinality({x \in L : x < f}) = i) = i
  <2>1. i \in L
    BY <1>1, <1>4 DEF Marcos
  <2> QED
    BY <1>2, <2>1
<1>5. Halla({}, n) = [i \in 0 .. n - 1 |-> CHOOSE f \in L : Cardinality({x \in L : x < f}) = i]
  BY DEF Halla, L
<1> QED
  BY <1>3, <1>5

\* The frames of the program are the first ones, in order, since nothing was in use
\* when its pages were given; and its memory is in the places of its file.
Espacio ==
    /\ programa \in [code : Nat, initData : Nat, uninitData : Nat]
    /\ threadsOnPhyPage \in [Marcos -> Int]
    /\ \E n \in 0..NumPhysPages : Paginas = 0 .. n - 1
    /\ \A i \in Paginas : pageTable[i] = i

Recien ==
    estado = "arranque" =>
        /\ Paginas = {} /\ memoryBitMap = {}
        /\ mainMemory = [a \in 0 .. NumPhysPages * PageSize - 1 |-> <<"cero", 0>>]

EnSuSitio ==
    estado = "ejecuta" =>
        \A a \in 0 .. Cardinality(Paginas) * PageSize - 1 :
            mainMemory[a] = IF a < Copiables(programa) THEN <<"archivo", a>> ELSE <<"cero", 0>>

Cuentas ==
    /\ estado = "ejecuta" => memoryBitMap = Paginas
    /\ estado = "terminado" => \A f \in memoryBitMap : f >= Contados
    /\ \A f \in 0 .. Contados - 1 : threadsOnPhyPage[f] = IF f \in Paginas THEN 1 ELSE 0

MemInv == Espacio /\ Recien /\ EnSuSitio /\ Cuentas

\* Memory as the machine starts.
LEMMA MemInicial == Init => MemInv
<1> SUFFICES ASSUME Init PROVE MemInv
  OBVIOUS
<1>1. NumPhysPages \in Nat /\ Contados \in 0..NumPhysPages
  BY UsuarioAssumption
<1>2. DOMAIN pageTable = {} /\ 0 .. 0 - 1 = {}
  BY DEF Init
<1>3. Espacio
  <2>1. threadsOnPhyPage \in [Marcos -> Int]
    BY DEF Init, Marcos
  <2>2. programa \in [code : Nat, initData : Nat, uninitData : Nat]
    BY DEF Init
  <2> QED
    BY <1>1, <1>2, <2>1, <2>2 DEF Espacio, Paginas
<1>4. Cuentas
  BY <1>2 DEF Init, Cuentas, Paginas
<1> QED
  BY <1>2, <1>3, <1>4 DEF Init, MemInv, Recien, EnSuSitio, Paginas

\* StartProcess of a program that fits.
LEMMA MemArranca ==
    ASSUME MemInv, StartProcess, estado' = "ejecuta"
    PROVE  MemInv'
<1>0. /\ NumPhysPages \in Nat /\ Contados \in 0..NumPhysPages /\ PageSize \in Nat \ {0}
      /\ UserStackSize \in Nat
  BY UsuarioAssumption
<1>1. PICK h \in Ejecutables :
        /\ programa' = h /\ NumPages(h) <= NumPhysPages /\ NumPages(h) \in Int
        /\ LET n == NumPages(h)
               tabla == Halla(memoryBitMap, n)
               marcos == {tabla[i] : i \in 0 .. n - 1}
               ceros == n * PageSize * tabla[0] .. n * PageSize * (tabla[0] + 1) - 1
               copiados == {tabla[k] : k \in 0 .. divRoundUp(Copiables(h), PageSize) - 1}
           IN /\ pageTable' = tabla
              /\ memoryBitMap' = memoryBitMap \cup marcos
              /\ threadsOnPhyPage' = [f \in DOMAIN threadsOnPhyPage |->
                      threadsOnPhyPage[f] + (IF f \in marcos THEN 1 ELSE 0)]
              /\ mainMemory' = [a \in DOMAIN mainMemory |->
                      IF a \div PageSize \in copiados /\ a < Copiables(h)
                      THEN <<"archivo", a>>
                      ELSE IF a \in ceros THEN <<"cero", 0>> ELSE mainMemory[a]]
  <2>1. PICK h \in Ejecutables :
        /\ programa' = h
        /\ IF NumPages(h) > NumPhysPages
            THEN estado' = "aborta" /\ UNCHANGED <<pageTable, memoryBitMap, threadsOnPhyPage, mainMemory>>
            ELSE LET n == NumPages(h)
                     tabla == Halla(memoryBitMap, n)
                     marcos == {tabla[i] : i \in 0 .. n - 1}
                     ceros == n * PageSize * tabla[0] .. n * PageSize * (tabla[0] + 1) - 1
                     copiados == {tabla[k] : k \in 0 .. divRoundUp(Copiables(h), PageSize) - 1}
                 IN /\ estado' = "ejecuta"
                    /\ pageTable' = tabla
                    /\ memoryBitMap' = memoryBitMap \cup marcos
                    /\ threadsOnPhyPage' = [f \in DOMAIN threadsOnPhyPage |->
                            threadsOnPhyPage[f] + (IF f \in marcos THEN 1 ELSE 0)]
                    /\ mainMemory' = [a \in DOMAIN mainMemory |->
                            IF a \div PageSize \in copiados /\ a < Copiables(h)
                            THEN <<"archivo", a>>
                            ELSE IF a \in ceros THEN <<"cero", 0>> ELSE mainMemory[a]]
    BY DEF StartProcess
  <2>2. h.code \in Nat /\ h.initData \in Nat /\ h.uninitData \in Nat
    BY UsuarioAssumption
  <2>3. Copiables(h) + h.uninitData + UserStackSize \in Nat
    BY <1>0, <2>2 DEF Copiables
  <2>4. NumPages(h) \in Nat
    BY <1>0, <2>3, Redondeo DEF NumPages
  <2>5. ~(NumPages(h) > NumPhysPages)
    BY <2>1
  <2> QED
    BY <1>0, <2>1, <2>4, <2>5
<1>2. h.code \in Nat /\ h.initData \in Nat /\ h.uninitData \in Nat
      /\ h \in [code : Nat, initData : Nat, uninitData : Nat]
  BY UsuarioAssumption
<1> DEFINE n == NumPages(h)
           c == Copiables(h)
<1>3. c \in Nat /\ c + h.uninitData + UserStackSize \in Nat /\ c <= c + h.uninitData + UserStackSize
  BY <1>0, <1>2 DEF Copiables
<1>4. n \in 0..NumPhysPages /\ divRoundUp(c, PageSize) \in 0..n
  BY <1>0, <1>1, <1>3, Redondeo DEF NumPages
<1> DEFINE tabla == [i \in 0 .. n - 1 |-> i]
<1>5. memoryBitMap = {} /\ Halla(memoryBitMap, n) = tabla
  BY <1>4, HallaDesdeCero DEF MemInv, Recien, StartProcess
<1>6. ASSUME NEW m \in 0..n PROVE {tabla[k] : k \in 0 .. m - 1} = 0 .. m - 1
  <2>1. n \in Nat /\ m \in Nat /\ m <= n
    BY <1>0, <1>4
  <2> HIDE DEF n
  <2>2. \A k \in 0 .. m - 1 : k \in 0 .. n - 1 /\ tabla[k] = k
    BY <2>1
  <2> HIDE DEF tabla
  <2> QED
    BY <2>2
<1>7. /\ {tabla[i] : i \in 0 .. n - 1} = 0 .. n - 1
      /\ {tabla[k] : k \in 0 .. divRoundUp(c, PageSize) - 1} = 0 .. divRoundUp(c, PageSize) - 1
  <2>1. n \in 0..n
    BY <1>0, <1>4
  <2> QED
    BY <1>4, <1>6, <2>1
<1>8. /\ Paginas' = 0 .. n - 1 /\ pageTable' = tabla /\ memoryBitMap' = 0 .. n - 1
      /\ threadsOnPhyPage' = [f \in DOMAIN threadsOnPhyPage |->
                      threadsOnPhyPage[f] + (IF f \in 0 .. n - 1 THEN 1 ELSE 0)]
  BY <1>1, <1>5, <1>7 DEF Paginas
<1>9. Espacio'
  <2>1. threadsOnPhyPage' \in [Marcos -> Int]
    BY <1>8 DEF MemInv, Espacio
  <2> QED
    BY <1>1, <1>2, <1>4, <1>8, <2>1 DEF Espacio, Paginas
<1>10. Cuentas'
  <2>1. \A f \in 0 .. Contados - 1 : f \in Marcos /\ threadsOnPhyPage[f] = 0
    BY <1>0 DEF MemInv, Recien, Cuentas, StartProcess, Marcos
  <2>2. DOMAIN threadsOnPhyPage = Marcos
    BY DEF MemInv, Espacio
  <2> QED
    BY <1>8, <2>1, <2>2 DEF Cuentas
<1>11. EnSuSitio'
  <2>1. Cardinality(Paginas') = n
    BY <1>4, <1>8, FS_Interval
  <2>2. /\ DOMAIN mainMemory = 0 .. NumPhysPages * PageSize - 1
        /\ \A a \in DOMAIN mainMemory : mainMemory[a] = <<"cero", 0>>
    BY DEF MemInv, Recien, StartProcess
  <2>3. \A a \in DOMAIN mainMemory :
            mainMemory'[a] = IF a \div PageSize \in 0 .. divRoundUp(c, PageSize) - 1 /\ a < c
                             THEN <<"archivo", a>> ELSE <<"cero", 0>>
    <3> DEFINE copiados == {Halla(memoryBitMap, n)[k] : k \in 0 .. divRoundUp(c, PageSize) - 1}
    <3>1. PICK Z : mainMemory' = [a \in DOMAIN mainMemory |->
                        IF a \div PageSize \in copiados /\ a < c THEN <<"archivo", a>>
                        ELSE IF a \in Z THEN <<"cero", 0>> ELSE mainMemory[a]]
      BY <1>1
    <3>2. copiados = 0 .. divRoundUp(c, PageSize) - 1
      <4> HIDE DEF tabla, n, c
      <4> QED
        BY <1>5, <1>7
    <3> HIDE DEF copiados, c, n
    <3> QED
      BY <2>2, <3>1, <3>2
  <2>4. ASSUME NEW a \in 0 .. n * PageSize - 1
        PROVE  mainMemory'[a] = IF a < c THEN <<"archivo", a>> ELSE <<"cero", 0>>
    <3>1. n * PageSize <= NumPhysPages * PageSize /\ n * PageSize \in Nat
      BY <1>0, <1>4
    <3>2. a \in DOMAIN mainMemory /\ a \in Nat
      BY <1>0, <2>2, <3>1
    <3>3. a < c => a \div PageSize \in 0 .. divRoundUp(c, PageSize) - 1
      <4>1. a < c => a \div PageSize < divRoundUp(c, PageSize)
        BY <1>0, <1>3, <3>2, Redondeo
      <4>2. a \div PageSize \in Nat /\ divRoundUp(c, PageSize) \in Nat
        BY <1>0, <1>3, <3>2, CocienteNat, Redondeo
      <4> QED
        BY <4>1, <4>2
    <3> QED
      BY <2>3, <3>2, <3>3
  <2>5. programa' = h
    BY <1>1
  <2> QED
    BY <2>1, <2>4, <2>5 DEF EnSuSitio
<1> QED
  BY <1>9, <1>10, <1>11 DEF MemInv, Recien

\* Exit gives the frames back: of those that are counted none is left.
LEMMA MemExit ==
    ASSUME MemInv, Exit
    PROVE  MemInv'
<1>0. NumPhysPages \in Nat /\ Contados \in 0..NumPhysPages
  BY UsuarioAssumption
<1>1. /\ estado = "ejecuta" /\ estado' = "terminado"
      /\ Paginas' = {} /\ 0 .. 0 - 1 = {}
      /\ UNCHANGED programa
  BY DEF Exit, Paginas
<1>2. \A f : (\E i \in Paginas : pageTable[i] = f) <=> f \in Paginas
  BY DEF MemInv, Espacio
<1>3. /\ threadsOnPhyPage' = [f \in DOMAIN threadsOnPhyPage |->
                                threadsOnPhyPage[f] - (IF f \in Paginas THEN 1 ELSE 0)]
      /\ memoryBitMap' = Paginas \ {f \in DOMAIN threadsOnPhyPage : f \in Paginas /\ threadsOnPhyPage'[f] = 0}
  BY <1>1, <1>2 DEF Exit, MemInv, Cuentas
<1>4. DOMAIN threadsOnPhyPage = Marcos /\ threadsOnPhyPage' \in [Marcos -> Int]
  BY <1>3 DEF MemInv, Espacio
<1>5. Espacio'
  BY <1>0, <1>1, <1>4 DEF MemInv, Espacio, Paginas
<1>6. \A f \in 0 .. Contados - 1 : f \in Marcos /\ threadsOnPhyPage'[f] = 0
  BY <1>0, <1>3, <1>4 DEF MemInv, Cuentas, Marcos
<1>7. \A f \in memoryBitMap' : f >= Contados
  <2>1. \A f \in Paginas : f \in Nat
    BY DEF MemInv, Espacio
  <2>2. \A f \in memoryBitMap' : f \in Paginas /\ f \notin 0 .. Contados - 1
    BY <1>3, <1>4, <1>6
  <2> QED
    BY <1>0, <2>1, <2>2
<1>8. Cuentas'
  BY <1>1, <1>6, <1>7 DEF Cuentas
<1> QED
  BY <1>1, <1>5, <1>8 DEF MemInv, Recien, EnSuSitio

\* Every other call leaves memory alone and never brings the machine back to its
\* start.
LEMMA MemQuieta ==
    ASSUME MemInv, UNCHANGED espacio,
           estado' = estado \/ estado' \in {"detenido", "aborta"}
    PROVE  MemInv'
BY DEF MemInv, Espacio, Recien, EnSuSitio, Cuentas, Paginas, espacio

\* A program that does not fit ends NachOS before it has a page.
LEMMA MemNoCabe ==
    ASSUME MemInv, StartProcess, estado' # "ejecuta"
    PROVE  MemInv'
<1>1. /\ estado' = "aborta" /\ programa' \in Ejecutables
      /\ UNCHANGED <<pageTable, memoryBitMap, threadsOnPhyPage, mainMemory>>
  BY DEF StartProcess
<1>2. programa' \in [code : Nat, initData : Nat, uninitData : Nat]
  BY <1>1, UsuarioAssumption
<1> QED
  BY <1>1, <1>2 DEF MemInv, Espacio, Recien, EnSuSitio, Cuentas, Paginas

\* Every step keeps what is known of memory.
LEMMA MemPaso == MemInv /\ [Next]_vars => MemInv'
<1> SUFFICES ASSUME MemInv, [Next]_vars PROVE MemInv'
  OBVIOUS
<1>1. CASE StartProcess
  BY <1>1, MemArranca, MemNoCabe
<1>2. CASE Exit
  BY <1>2, MemExit
<1>3. CASE Halt \/ Aborta \/ SocketDesconocido \/ LlamadaVacia \/ Create
  <2>1. UNCHANGED espacio /\ (estado' = estado \/ estado' \in {"detenido", "aborta"})
    BY <1>3 DEF Halt, Aborta, SocketDesconocido, LlamadaVacia, Create, Vuelve
  <2> QED
    BY <2>1, MemQuieta
<1>4. ASSUME NEW cosa, NEW mas, AbreEntrada(cosa, mas) PROVE MemInv'
  <2>1. UNCHANGED espacio /\ (estado' = estado \/ estado' = "aborta")
    BY <1>4 DEF AbreEntrada, Vuelve
  <2> QED
    BY <2>1, MemQuieta
<1>5. ASSUME NEW id \in 0 .. fileLimit,
             Close(id) \/ Connect(id) \/ Listen(id) \/ BindOShutdown(id) \/ Accept(id) \/ Write(id) \/ Read(id)
      PROVE  MemInv'
  <2>1. UNCHANGED espacio /\ estado' = estado
    BY <1>5 DEF Close, Connect, Listen, EnSocket, BindOShutdown, Accept, Write, Read, PuedeIr, Vuelve
  <2> QED
    BY <2>1, MemQuieta
<1>6. CASE UNCHANGED vars
  <2>1. UNCHANGED espacio /\ estado' = estado
    BY <1>6 DEF vars
  <2> QED
    BY <2>1, MemQuieta
<1> QED
  BY <1>1, <1>2, <1>3, <1>4, <1>5, <1>6 DEF Next, Llamada, Open, Socket

\* The invariant of the memory holds for ever.
LEMMA MemSiempre == Spec => []MemInv
BY MemInicial, MemPaso, PTL DEF Spec

\* The program finds its code and its data in its own memory, page by page, though
\* they are read from the offset of the frame (addrspace.cc:158-159): whatever its
\* size and that of memory, it gets the first frames, in order.
THEOREM CodigoSiempre == Spec => []CodigoEnSuSitio
<1>1. ASSUME MemInv PROVE CodigoEnSuSitio
  <2>0. PageSize \in Nat \ {0} /\ NumPhysPages \in Nat
    BY UsuarioAssumption
  <2>1. PICK n \in 0..NumPhysPages : Paginas = 0 .. n - 1
    BY <1>1 DEF MemInv, Espacio
  <2>2. Cardinality(Paginas) = n /\ n \in Nat
    BY <2>0, <2>1, FS_Interval
  <2>3. ASSUME estado = "ejecuta", NEW v \in 0 .. n * PageSize - 1
        PROVE  mainMemory[pageTable[v \div PageSize] * PageSize + (v % PageSize)]
                 = IF v < Copiables(programa) THEN <<"archivo", v>> ELSE <<"cero", 0>>
    <3>1. v \in Nat /\ v < n * PageSize
      BY <2>0, <2>2
    <3>2. v \div PageSize \in 0 .. n - 1 /\ v = PageSize * (v \div PageSize) + (v % PageSize)
      <4>1. v \div PageSize < n
        BY <2>0, <2>2, <3>1, MenorCociente
      <4>2. v \div PageSize \in Nat
        BY <2>0, <3>1, CocienteNat
      <4>3. v = PageSize * (v \div PageSize) + (v % PageSize)
        BY <2>0, <3>1, Division
      <4> QED
        BY <2>2, <4>1, <4>2, <4>3
    <3>3. pageTable[v \div PageSize] = v \div PageSize
      BY <1>1, <2>1, <3>2 DEF MemInv, Espacio
    <3>4. (v \div PageSize) * PageSize + (v % PageSize) = v
      BY <2>0, <3>1, <3>2, Division
    <3>5. mainMemory[v] = IF v < Copiables(programa) THEN <<"archivo", v>> ELSE <<"cero", 0>>
      BY <1>1, <2>2, <2>3 DEF MemInv, EnSuSitio
    <3> QED
      BY <3>3, <3>4, <3>5
  <2> QED
    BY <2>2, <2>3 DEF CodigoEnSuSitio
<1> QED
  BY <1>1, MemSiempre, PTL

\* The frames in use are the pages of the program, each one once, and when it exits
\* all those that are counted come back; only a frame past threadsOnPhyPage may stay.
THEOREM MarcosSiempre == Spec => []MarcosCuadran
<1>1. ASSUME MemInv PROVE MarcosCuadran
  <2>1. {pageTable[i] : i \in Paginas} = Paginas
    BY <1>1 DEF MemInv, Espacio
  <2>2. \A f : {i \in Paginas : pageTable[i] = f} = IF f \in Paginas THEN {f} ELSE {}
    BY <1>1 DEF MemInv, Espacio
  <2>3. \A f : Cardinality({i \in Paginas : pageTable[i] = f}) = IF f \in Paginas THEN 1 ELSE 0
    BY <2>2, FS_EmptySet, FS_Singleton
  <2> QED
    BY <1>1, <2>1, <2>3 DEF MemInv, Cuentas, MarcosCuadran
<1> QED
  BY <1>1, MemSiempre, PTL
===================================================================================
