------------------------------ MODULE NachosMaquina ------------------------------
(***************************************************************************)
(* The MIPS simulator NachOS runs its user programs on (machine/mipssim.cc,*)
(* machine/machine.cc, machine/translate.cc).  One step is one call of     *)
(* Machine::OneInstruction: fetch, decode, execute, apply the load of the  *)
(* previous instruction, advance the three program counters; or the trap   *)
(* to the kernel that replaces all that.  The kernel's side of a trap is   *)
(* ExceptionHandler seen from the machine; between two instructions an     *)
(* interrupt may come.                                                     *)
(*                                                                         *)
(* Words have 4*B bits (B = 8 in the code) and keep their width: registers *)
(* hold signed words, memory holds bytes, little-endian.  What is stored   *)
(* at the program counter is any of the words of the constant Palabras:    *)
(* the text of the program is chosen as it is fetched.                     *)
(***************************************************************************)
EXTENDS Integers, Sequences, FiniteSets, Bitwise, SequencesExt

CONSTANTS
    B,              \* bits in a byte
    PageSize,       \* bytes in a page
    NumPhysPages,   \* frames of mainMemory
    NumPages,       \* pages of the running program
    GPRegs,         \* numbers of the general registers the programs name
    Palabras,       \* undecoded instructions a program may hold
    Valores,        \* words general registers 1 and 2 may start with
    MemoriaInicial, \* contents of mainMemory when the program starts
    PasosMax        \* bound: instructions executed

HiReg == 32
LoReg == 33
PCReg == 34
NextPCReg == 35
PrevPCReg == 36
LoadReg == 37
LoadValueReg == 38
BadVAddrReg == 39
R31 == 31

ASSUME MaquinaAssumption ==
    /\ B \in Nat \ {0} /\ PageSize \in Nat \ {0}
    /\ NumPages \in 1..NumPhysPages
    /\ {0, 2, R31} \subseteq GPRegs /\ GPRegs \subseteq 0..31

VARIABLES
    registers,      \* Machine::registers, by number
    mainMemory,     \* Machine::mainMemory, by physical address
    pageTable,      \* Machine::pageTable, by virtual page
    instr,          \* the Instruction that Run reuses, decoded
    which,          \* "NoException" in user mode, else the trap being served
    pasos           \* instructions executed

vars == <<registers, mainMemory, pageTable, instr, which, pasos>>

-----------------------------------------------------------------------------
(* Words of 4*B bits.                                                       *)

W == 4 * B
M == 2^W

\* The word as an unsigned int, and an integer as the signed int that holds it.
Sin(x) == x % M
Con(n) == IF n % M < M \div 2 THEN n % M ELSE (n % M) - M
Palabra == -(M \div 2) .. (M \div 2) - 1

\* The low n bits of x, and those bits with the sign extended.
Bajos(x, n) == Sin(x) % 2^n
Ext(x, n) == IF Bajos(x, n) < 2^(n - 1) THEN Bajos(x, n) ELSE Bajos(x, n) - 2^n

IndexToAddr(x) == Con(4 * x)

-----------------------------------------------------------------------------
(* Decoding.                                                                *)

\* opTable: what bits 31:26 stand for.
opTable ==
    [i \in 0..63 |->
        IF i < 16
        THEN <<"SPECIAL", "BCOND", "J", "JAL", "BEQ", "BNE", "BLEZ", "BGTZ", "ADDI", "ADDIU",
               "SLTI", "SLTIU", "ANDI", "ORI", "XORI", "LUI">>[i + 1]
        ELSE IF i \in 32..47
        THEN <<"LB", "LH", "LWL", "LW", "LBU", "LHU", "LWR", "RES",
               "SB", "SH", "SWL", "SW", "RES", "RES", "SWR", "RES">>[i - 31]
        ELSE IF i \in 16..19 \cup 48..51 \cup 56..59 THEN "UNIMP" ELSE "RES"]

\* specialTable: what the funct field of a SPECIAL instruction stands for.
specialTable ==
    [i \in 0..63 |->
        IF i < 44
        THEN <<"SLL", "RES", "SRL", "SRA", "SLLV", "RES", "SRLV", "SRAV",
               "JR", "JALR", "RES", "RES", "SYSCALL", "UNIMP", "RES", "RES",
               "MFHI", "MTHI", "MFLO", "MTLO", "RES", "RES", "RES", "RES",
               "MULT", "MULTU", "DIV", "DIVU", "RES", "RES", "RES", "RES",
               "ADD", "ADDU", "SUB", "SUBU", "AND", "OR", "XOR", "NOR",
               "RES", "RES", "SLT", "SLTU">>[i + 1]
        ELSE "RES"]

\* Instruction::Decode of a word given by its fields.  extra is the immediate
\* with its sign, the shift amount or the target, by the format of the opcode.
Decode(v) ==
    LET op == opTable[v.op]
    IN [opCode |-> CASE op = "SPECIAL" -> specialTable[v.funct]
                     [] op = "BCOND" -> IF v.rt = 0 THEN "BLTZ" ELSE IF v.rt = 1 THEN "BGEZ"
                                        ELSE IF v.rt = 16 THEN "BLTZAL"
                                        ELSE IF v.rt = 17 THEN "BGEZAL" ELSE "UNIMP"
                     [] OTHER -> op,
        rs |-> v.rs, rt |-> v.rt, rd |-> v.rd,
        extra |-> CASE op = "SPECIAL" -> v.shamt
                    [] op \in {"J", "JAL"} -> v.target
                    [] OTHER -> Ext(v.inm, 2 * B)]

-----------------------------------------------------------------------------
(* Memory.                                                                  *)

Pagina(addr) == Sin(addr) \div PageSize

\* Machine::Translate with a linear page table: the exception, or none.
Translate(addr, size, writing) ==
    IF Sin(addr) % size # 0 THEN "AddressErrorException"
    ELSE IF Pagina(addr) >= NumPages THEN "AddressErrorException"
    ELSE IF ~pageTable[Pagina(addr)].valid THEN "PageFaultException"
    ELSE IF pageTable[Pagina(addr)].readOnly /\ writing THEN "ReadOnlyException"
    ELSE IF pageTable[Pagina(addr)].physicalPage >= NumPhysPages THEN "BusErrorException"
    ELSE "NoException"

\* The physical address it returns, and the use and dirty bits it sets.
PhysAddr(addr) == pageTable[Pagina(addr)].physicalPage * PageSize + (Sin(addr) % PageSize)
Tocada(tabla, addr, writing) ==
    [tabla EXCEPT ![Pagina(addr)].use = TRUE, ![Pagina(addr)].dirty = @ \/ writing]

\* Machine::ReadMem and WriteMem once the address is translated: size bytes,
\* the lowest address holding the lowest bits; ReadMem of one byte keeps the
\* sign of a char.
ReadMem(addr, size) ==
    LET p == PhysAddr(addr)
        sin == FoldLeft(LAMBDA n, k : n * 2^B + mainMemory[p + size - k], 0, [k \in 1..size |-> k])
    IN IF size = 2 THEN sin ELSE Ext(sin, size * B)
\* Mutant: the bytes are stored from the highest down.
WriteMemAlReves(mem, addr, size, value) ==
    LET p == PhysAddr(addr)
    IN [a \in DOMAIN mem |-> IF a \in p .. p + size - 1
                             THEN (Sin(value) \div 2^(B * (p + size - 1 - a))) % 2^B ELSE mem[a]]
WriteMem(mem, addr, size, value) ==
    LET p == PhysAddr(addr)
    IN [a \in DOMAIN mem |-> IF a \in p .. p + size - 1
                             THEN (Sin(value) \div 2^(B * (a - p))) % 2^B ELSE mem[a]]

-----------------------------------------------------------------------------
(* Multiplication and division.                                             *)

\* One turn of the loop of Mult: x.a is consumed bit by bit from below.
\* Mutant: the carry out of the low word is lost.
VueltaSinAcarreo(x) ==
    LET suma == Sin(x.lo + x.bLo)
        con == IF x.a % 2 = 1
               THEN [x EXCEPT !.lo = suma, !.hi = Sin(@ + x.bHi), !.fin = Sin(x.a) \in {0, 1}]
               ELSE x
    IN IF con.fin THEN con
       ELSE [con EXCEPT !.a = @ \div 2, !.bLo = Sin(2 * @), !.bHi = Sin(2 * @)]
Vuelta(x) ==
    LET suma == Sin(x.lo + x.bLo)
        con == IF x.a % 2 = 1
               THEN [x EXCEPT !.lo = suma,
                              !.hi = Sin(@ + x.bHi + (IF suma < x.bLo THEN 1 ELSE 0)),
                              !.fin = Sin(x.a) \in {0, 1}]
               ELSE x
    IN IF con.fin THEN con
       ELSE [con EXCEPT !.a = @ \div 2, !.bLo = Sin(2 * @),
                        !.bHi = Sin(2 * @) + (IF con.bLo >= M \div 2 THEN 1 ELSE 0)]

\* Mult: the double word <<hi, lo>>; a negative product is the complement of
\* the positive one.  -a of the lowest word is that same word.
Mult(a, b, signedArith) ==
    LET negative == signedArith /\ (a < 0) # (b < 0)
        Abs(n) == IF signedArith /\ n < 0 THEN Con(-n) ELSE n
        x == FoldLeft(LAMBDA y, k : IF y.fin THEN y ELSE Vuelta(y),
                      [a |-> Abs(a), bLo |-> Sin(Abs(b)), bHi |-> 0, lo |-> 0, hi |-> 0,
                       fin |-> FALSE],
                      [k \in 1..W |-> k])
        lo == Sin((M - 1 - x.lo) + 1)
        hi == Sin((M - 1 - x.hi) + (IF lo = 0 THEN 1 ELSE 0))
    IN IF a = 0 \/ b = 0 THEN <<0, 0>>
       ELSE IF negative THEN <<Con(hi), Con(lo)>> ELSE <<Con(x.hi), Con(x.lo)>>

\* The division of C, which truncates toward zero; by zero the simulator
\* leaves two zeros.
Cociente(a, b) ==
    LET Abs(n) == IF n < 0 THEN -n ELSE n
    IN IF b = 0 THEN 0 ELSE IF (a < 0) = (b < 0) THEN Abs(a) \div Abs(b) ELSE -(Abs(a) \div Abs(b))
Resto(a, b) == IF b = 0 THEN 0 ELSE a - b * Cociente(a, b)
-----------------------------------------------------------------------------
(* What an instruction does to the registers.                               *)

Reg(n) == registers[n]

\* Machine::DelayedLoad: the pending load lands, the next one takes its place,
\* and register 0 is zero again.
\* Mutant: the load that is starting replaces the pending one.
DelayedLoadPisada(r, nextReg, nextValue) ==
    [r EXCEPT ![IF nextReg # 0 THEN 0 ELSE r[LoadReg]] = r[LoadValueReg],
              ![LoadReg] = nextReg, ![LoadValueReg] = nextValue, ![0] = 0]
DelayedLoad(r, nextReg, nextValue) ==
    [r EXCEPT ![r[LoadReg]] = r[LoadValueReg],
              ![LoadReg] = nextReg, ![LoadValueReg] = nextValue, ![0] = 0]

\* The exact value of the additions and subtractions that may overflow, and
\* the test of the sign bits that decides whether they did.
Operando(i) == IF i.opCode = "ADDI" THEN i.extra ELSE Reg(i.rt)
Exacto(i) == IF i.opCode = "SUB" THEN Reg(i.rs) - Reg(i.rt) ELSE Reg(i.rs) + Operando(i)
Desborda(i) ==
    /\ i.opCode \in {"ADD", "ADDI", "SUB"}
    /\ ((Reg(i.rs) < 0) = (Operando(i) < 0)) = (i.opCode # "SUB")
    /\ (Reg(i.rs) < 0) # (Con(Exacto(i)) < 0)

Inmediatas == {"ADDI", "ADDIU", "ANDI", "LUI", "ORI", "SLTI", "SLTIU", "XORI"}
DeTres == {"ADD", "ADDU", "AND", "NOR", "OR", "SLL", "SLLV", "SLT", "SLTU", "SRA", "SRAV",
           "SRL", "SRLV", "SUB", "SUBU", "XOR", "MFHI", "MFLO"}

\* The word an arithmetic, logical, shift or set instruction computes.  SRL and
\* SRLV shift a signed tmp, so they are SRA and SRAV; OR reads rs twice.
Resultado(i) ==
    LET rs == Reg(i.rs)
        rt == Reg(i.rt)
        inm == Bajos(i.extra, 2 * B)
        cuenta == IF i.opCode \in {"SLL", "SRA", "SRL"} THEN i.extra ELSE Sin(rs) % W
        Si(b) == IF b THEN 1 ELSE 0
    IN CASE i.opCode \in {"ADD", "ADDI", "SUB"} -> Con(Exacto(i))
         [] i.opCode = "ADDIU" -> Con(rs + i.extra)
         [] i.opCode = "ADDU" -> Con(rs + rt)
         [] i.opCode = "SUBU" -> Con(rs - rt)
         [] i.opCode = "AND" -> Con(Sin(rs) & Sin(rt))
         [] i.opCode = "ANDI" -> Con(Sin(rs) & inm)
         [] i.opCode = "OR" -> Con(Sin(rs) | Sin(rs))
         [] i.opCode = "ORI" -> Con(Sin(rs) | inm)
         [] i.opCode = "NOR" -> Con(M - 1 - (Sin(rs) | Sin(rt)))
         [] i.opCode = "XOR" -> Con(Sin(rs) ^^ Sin(rt))
         [] i.opCode = "XORI" -> Con(Sin(rs) ^^ inm)
         [] i.opCode = "LUI" -> Con(i.extra * 2^(2 * B))
         [] i.opCode \in {"SLL", "SLLV"} -> Con(rt * 2^cuenta)
         [] i.opCode \in {"SRA", "SRAV", "SRL", "SRLV"} -> rt \div 2^cuenta
         [] i.opCode = "SLT" -> Si(rs < rt)
         [] i.opCode = "SLTI" -> Si(rs < i.extra)
         [] i.opCode = "SLTU" -> Si(Sin(rs) < Sin(rt))
         [] i.opCode = "SLTIU" -> Si(Sin(rs) < Sin(i.extra))
         [] i.opCode = "MFHI" -> Reg(HiReg)
         [] i.opCode = "MFLO" -> Reg(LoReg)

\* Whether a conditional branch is taken; the linking ones have already
\* written the return address in R31.
Enlaza == {"BGEZAL", "BLTZAL"}
Condicionales == {"BEQ", "BNE", "BGEZ", "BLTZ", "BGTZ", "BLEZ"} \cup Enlaza
SaltosDirectos == {"J", "JAL", "JR", "JALR"}
Enlazados(i) ==
    LET vuelta == Con(Reg(NextPCReg) + 4)
    IN IF i.opCode \in Enlaza \cup {"JAL"} THEN [registers EXCEPT ![R31] = vuelta]
       ELSE IF i.opCode = "JALR" THEN [registers EXCEPT ![i.rd] = vuelta]
       ELSE registers
Tomada(i, r) ==
    CASE i.opCode = "BEQ" -> r[i.rs] = r[i.rt]
      [] i.opCode = "BNE" -> r[i.rs] # r[i.rt]
      [] i.opCode \in {"BGEZ", "BGEZAL"} -> r[i.rs] >= 0
      [] i.opCode \in {"BLTZ", "BLTZAL"} -> r[i.rs] < 0
      [] i.opCode = "BGTZ" -> r[i.rs] > 0
      [] i.opCode = "BLEZ" -> r[i.rs] <= 0

\* Where it goes: relative to NextPC, inside the region of pcAfter, or to a
\* register.
Destino(i, r) ==
    LET pcAfter == Con(Reg(NextPCReg) + 4)
        region == M \div 16
    IN CASE i.opCode \in Condicionales ->
              IF Tomada(i, r) THEN Con(Reg(NextPCReg) + IndexToAddr(i.extra)) ELSE pcAfter
         [] i.opCode \in {"J", "JAL"} ->
              Con((Sin(pcAfter) \div region) * region + ((4 * i.extra) % region))
         [] i.opCode \in {"JR", "JALR"} -> r[i.rs]

-----------------------------------------------------------------------------
(* The two ways out of OneInstruction.                                      *)

\* The end of OneInstruction: any delayed load, then the program counters.
Completa(r, pcAfter, nextReg, nextValue) ==
    /\ registers' = [DelayedLoad(r, nextReg, nextValue) EXCEPT
                        ![PrevPCReg] = r[PCReg], ![PCReg] = r[NextPCReg], ![NextPCReg] = pcAfter]
    /\ UNCHANGED which
Sigue(r) == Completa(r, Con(Reg(NextPCReg) + 4), 0, 0)

\* Machine::RaiseException, up to the call of ExceptionHandler.
RaiseException(tipo, badVAddr) ==
    /\ registers' = DelayedLoad([registers EXCEPT ![BadVAddrReg] = badVAddr], 0, 0)
    /\ which' = tipo
    /\ UNCHANGED mainMemory

\* An ASSERT of the simulator, or a division the host traps.
Aborta == which' = "aborta" /\ UNCHANGED <<registers, mainMemory>>
-----------------------------------------------------------------------------
(* One instruction, once fetched and decoded as i; tabla is the page table   *)
(* with the use bit the fetch has set.                                       *)

\* Mutant: the sum is stored before the overflow is looked at.
CalcularAntes(i, tabla) ==
    /\ i.opCode \in Inmediatas \cup DeTres
    /\ pageTable' = tabla
    /\ LET r == [registers EXCEPT
                        ![IF i.opCode \in Inmediatas THEN i.rt ELSE i.rd] = Resultado(i)]
       IN IF Desborda(i)
          THEN /\ registers' = DelayedLoad(r, 0, 0)
               /\ which' = "OverflowException"
               /\ UNCHANGED mainMemory
          ELSE Sigue(r) /\ UNCHANGED mainMemory
Calcular(i, tabla) ==
    /\ i.opCode \in Inmediatas \cup DeTres
    /\ pageTable' = tabla
    /\ IF Desborda(i)
       THEN RaiseException("OverflowException", 0)
       ELSE /\ Sigue([registers EXCEPT
                        ![IF i.opCode \in Inmediatas THEN i.rt ELSE i.rd] = Resultado(i)])
            /\ UNCHANGED mainMemory

Saltar(i, tabla) ==
    /\ i.opCode \in Condicionales \cup SaltosDirectos
    /\ pageTable' = tabla
    /\ Completa(Enlazados(i), Destino(i, Enlazados(i)), 0, 0)
    /\ UNCHANGED mainMemory

\* MULT, MULTU, DIV, DIVU and the moves to HI and LO.  The host traps the one
\* division whose quotient is not a word.
HiLo(i, tabla) ==
    LET rs == Reg(i.rs)
        rt == Reg(i.rt)
        Deja(hi, lo) == Sigue([registers EXCEPT ![HiReg] = hi, ![LoReg] = lo])
    IN /\ pageTable' = tabla
       /\ UNCHANGED mainMemory
       /\ \/ /\ i.opCode \in {"MULT", "MULTU"}
             /\ LET p == Mult(rs, rt, i.opCode = "MULT") IN Deja(p[1], p[2])
          \/ /\ i.opCode = "DIV" /\ ~(rs = -(M \div 2) /\ rt = -1)
             /\ Deja(Resto(rs, rt), Cociente(rs, rt))
          \/ /\ i.opCode = "DIV" /\ rs = -(M \div 2) /\ rt = -1
             /\ Aborta
          \/ /\ i.opCode = "DIVU"
             /\ Deja(Con(Resto(Sin(rs), Sin(rt))), Con(Cociente(Sin(rs), Sin(rt))))
          \/ i.opCode = "MTHI" /\ Deja(rs, Reg(LoReg))
          \/ i.opCode = "MTLO" /\ Deja(Reg(HiReg), rs)

Tamano(i) ==
    CASE i.opCode \in {"LB", "LBU", "SB"} -> 1
      [] i.opCode \in {"LH", "LHU", "SH"} -> 2
      [] OTHER -> 4
Direccion(i) == Con(Reg(i.rs) + i.extra)

\* The partial-word accesses assert that the address is the aligned one.
Parciales == {"LWL", "LWR", "SWL", "SWR"}
Desalineada(i) == i.opCode \in Parciales /\ Direccion(i) % 4 # 0

\* What a load will leave in rt.  LWR fills the low byte of what rt holds,
\* or is about to hold.
Cargado(i) ==
    LET value == ReadMem(Direccion(i), Tamano(i))
        anterior == IF Reg(LoadReg) = i.rt THEN Reg(LoadValueReg) ELSE Reg(i.rt)
    IN CASE i.opCode = "LBU" -> Bajos(value, B)
         [] i.opCode = "LH" -> Ext(value, 2 * B)
         [] i.opCode = "LWR" -> Con(Sin(anterior) - Bajos(anterior, B) + Sin(value) \div 2^(3 * B))
         [] OTHER -> value

Cargar(i, tabla) ==
    /\ i.opCode \in {"LB", "LBU", "LH", "LHU", "LW", "LWL", "LWR"} /\ ~Desalineada(i)
    /\ LET e == Translate(Direccion(i), Tamano(i), FALSE)
       IN IF e # "NoException"
          THEN RaiseException(e, Direccion(i)) /\ pageTable' = tabla
          ELSE /\ Completa(registers, Con(Reg(NextPCReg) + 4), i.rt, Cargado(i))
               /\ pageTable' = Tocada(tabla, Direccion(i), FALSE)
               /\ UNCHANGED mainMemory

\* SWR reads the word it rewrites only the high byte of.
Guardado(i) ==
    IF i.opCode = "SWR"
    THEN Con((Sin(ReadMem(Direccion(i), 4)) % 2^(3 * B)) + Sin(Reg(i.rt)) * 2^(3 * B))
    ELSE Reg(i.rt)
Guardar(i, tabla) ==
    /\ i.opCode \in {"SB", "SH", "SW", "SWL", "SWR"} /\ ~Desalineada(i)
    /\ LET e == Translate(Direccion(i), Tamano(i), TRUE)
       IN IF e # "NoException"
          THEN RaiseException(e, Direccion(i)) /\ pageTable' = tabla
          ELSE /\ Sigue(registers)
               /\ pageTable' = Tocada(tabla, Direccion(i), TRUE)
               /\ mainMemory' = WriteMem(mainMemory, Direccion(i), Tamano(i), Guardado(i))

Romper(i, tabla) == Desalineada(i) /\ Aborta /\ pageTable' = tabla

\* SYSCALL, and the opcodes that are reserved or not implemented.
Trampa(i, tabla) ==
    /\ pageTable' = tabla
    /\ \/ i.opCode = "SYSCALL" /\ RaiseException("SyscallException", 0)
       \/ i.opCode \in {"RES", "UNIMP"} /\ RaiseException("IllegalInstrException", 0)

\* Machine::OneInstruction: the fetch, which may itself fault, and the switch.
OneInstruction ==
    LET pc == Reg(PCReg)
        e == Translate(pc, 4, FALSE)
    IN /\ which = "NoException"
       /\ pasos < PasosMax /\ pasos' = pasos + 1
       /\ \/ e # "NoException" /\ RaiseException(e, pc) /\ UNCHANGED <<instr, pageTable>>
          \/ /\ e = "NoException"
             /\ \E v \in Palabras :
                  LET i == Decode(v)
                      tabla == Tocada(pageTable, pc, FALSE)
                  IN /\ instr' = i
                     /\ \/ Calcular(i, tabla) \/ Saltar(i, tabla) \/ HiLo(i, tabla)
                        \/ Cargar(i, tabla) \/ Guardar(i, tabla) \/ Romper(i, tabla)
                        \/ Trampa(i, tabla)

-----------------------------------------------------------------------------
(* The kernel's side: ExceptionHandler.                                     *)

\* returnFromSystemCall, after the call has left its result r2 (some leave
\* none): the program goes on after the SYSCALL, in a delay slot too.
SystemCall ==
    /\ which = "SyscallException"
    /\ \E r2 \in {0, -1, Reg(2)} :
         registers' = [registers EXCEPT
            ![2] = r2, ![PrevPCReg] = Reg(PCReg), ![PCReg] = Reg(NextPCReg),
            ![NextPCReg] = Con(Reg(NextPCReg) + 4)]
    /\ which' = "NoException"
    /\ UNCHANGED <<mainMemory, pageTable, instr, pasos>>

\* Any other exception but a page fault, which AddrSpace's tables never cause,
\* ends NachOS in ASSERT(false).
OtherException ==
    /\ which \notin {"NoException", "SyscallException", "PageFaultException", "aborta"}
    /\ Aborta
    /\ UNCHANGED <<pageTable, instr, pasos>>

\* Interrupt::OneTick between two instructions, when an interrupt is due:
\* CheckIfDue lets the pending load land before its handler runs.  The handlers,
\* and the threads that a Yield lets run, leave this program's registers as they
\* were; with nothing due OneTick does nothing here.
OneTick ==
    /\ which = "NoException"
    /\ registers' = DelayedLoad(registers, 0, 0)
    /\ UNCHANGED <<mainMemory, pageTable, instr, which, pasos>>

\* Machine::Machine, AddrSpace's page table of the first program and
\* AddrSpace::InitRegisters.  Registers 1 and 2 start with any of Valores: the
\* program has computed them before (LUI and ORI reach every word).
Init ==
    /\ \E a, b \in Valores :
         registers = [n \in GPRegs \cup 32..39 |->
            IF n = 1 THEN a ELSE IF n = 2 THEN b ELSE IF n = NextPCReg THEN 4 ELSE 0]
    /\ mainMemory = MemoriaInicial
    /\ pageTable = [p \in 0 .. NumPages - 1 |->
            [physicalPage |-> p, valid |-> TRUE, readOnly |-> FALSE, use |-> FALSE, dirty |-> FALSE]]
    /\ instr = [opCode |-> "ninguna", rs |-> 0, rt |-> 0, rd |-> 0, extra |-> 0]
    /\ which = "NoException"
    /\ pasos = 0

\* Machine::Run, and the kernel it traps to.
Next == OneInstruction \/ OneTick \/ SystemCall \/ OtherException

Spec == Init /\ [][Next]_vars
-----------------------------------------------------------------------------
(* Properties.                                                              *)

\* Registers hold words and memory holds bytes; between two instructions
\* register 0 is zero, whatever was written to it (mipssim.cc:581).
TypeOK ==
    /\ registers \in [GPRegs \cup 32..39 -> Palabra]
    /\ registers[0] = 0
    /\ registers[LoadReg] \in GPRegs
    /\ mainMemory \in [0 .. NumPhysPages * PageSize - 1 -> 0 .. 2^B - 1]
    /\ DOMAIN pageTable = 0 .. NumPages - 1

\* The step executes an instruction of ops.
Ejecuta(ops) ==
    /\ pasos' # pasos /\ Translate(Reg(PCReg), 4, FALSE) = "NoException"
    /\ instr'.opCode \in ops

\* The shift-and-add loop of Mult, its early exit and its complement give the
\* whole double-word product, signed and unsigned, the lowest word included;
\* and LO and HI are a quotient and remainder of the division.  An addition or
\* subtraction traps exactly when its value is not a word: the test of the sign
\* bits neither misses an overflow nor invents one.
AritmeticaExacta ==
    [][/\ Ejecuta({"MULT", "MULTU"}) =>
            LET Como(n) == IF instr'.opCode = "MULT" THEN n ELSE Sin(n)
            IN Sin(registers'[HiReg]) * M + Sin(registers'[LoReg])
                 = (Como(Reg(instr'.rs)) * Como(Reg(instr'.rt))) % (M * M)
       /\ Ejecuta({"DIV", "DIVU"}) /\ Reg(instr'.rt) # 0 /\ which' = "NoException" =>
            Con(registers'[LoReg] * Reg(instr'.rt) + registers'[HiReg]) = Reg(instr'.rs)
       /\ Ejecuta({"ADD", "ADDI", "SUB"}) =>
            (which' = "OverflowException") = (Exacto(instr') \notin Palabra)]_vars

\* "This allows us to re-start the instruction execution from the beginning"
\* (mipssim.cc:75): an instruction that traps has written nothing of its own,
\* neither registers nor memory nor the program counters.
Reiniciable ==
    [][which = "NoException" /\ which' # "NoException" =>
        /\ mainMemory' = mainMemory
        /\ \A n \in DOMAIN registers \ {Reg(LoadReg), LoadReg, LoadValueReg, BadVAddrReg} :
              registers'[n] = registers[n]]_vars

\* A loaded value reaches its register in the step after the load and is never
\* dropped, whether that step completes, branches, loads again or traps, or is an
\* interrupt that comes before the next instruction.  The kernel never runs with a
\* load on its way: what it writes in registers is not overwritten later by a load
\* the program did before the SYSCALL.
CargaLlega ==
    [][which = "NoException" /\ which' # "aborta" =>
        /\ Reg(LoadReg) # 0 => registers'[Reg(LoadReg)] = Reg(LoadValueReg)
        /\ which' # "NoException" => registers'[LoadReg] = 0]_vars

\* What a store has written is what a load of that size at that address reads
\* back, cut to its size; the bytes around it keep their contents, and the page
\* is marked dirty.
LeeLoEscrito ==
    [][Ejecuta({"SB", "SH", "SW", "SWL"}) /\ which' = "NoException" =>
        \A d \in {Direccion(instr')}, n \in {Tamano(instr')}, x \in {Reg(instr'.rt)} :
            /\ Bajos(ReadMem(d, n)', n * B) = Bajos(x, n * B)
            /\ \E p \in DOMAIN pageTable :
                   pageTable'[p].physicalPage = PhysAddr(d) \div PageSize /\ pageTable'[p].dirty
            /\ \A a \in DOMAIN mainMemory : a \notin PhysAddr(d) .. PhysAddr(d) + n - 1 =>
                    mainMemory'[a] = mainMemory[a]]_vars
================================================================================
