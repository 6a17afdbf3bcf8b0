---------------------------- MODULE MCNachosMaquina ----------------------------
(* An instance of NachosMaquina for TLC: words of 8 bits, one or two forms of *)
(* every opcode, the registers 1 and 2 starting at the edges of the word.     *)
EXTENDS NachosMaquina

Especial(f, a, b, c, n) ==
    [op |-> 0, rs |-> a, rt |-> b, rd |-> c, shamt |-> n, funct |-> f, inm |-> 0, target |-> 0]
Inmediata(o, a, b, k) ==
    [op |-> o, rs |-> a, rt |-> b, rd |-> 0, shamt |-> 0, funct |-> 0, inm |-> k, target |-> 0]
Salto(o, t) ==
    [op |-> o, rs |-> 0, rt |-> 0, rd |-> 0, shamt |-> 0, funct |-> 0, inm |-> 0, target |-> t]

\* SPECIAL: every funct on r1 and r2 into r3, two sums into registers 0 and 1.
Especiales ==
    {Especial(f, 1, 2, 3, 1) : f \in 0..43}
        \cup {Especial(32, 1, 2, 0, 0), Especial(33, 2, 2, 1, 0), Especial(8, 31, 0, 0, 0)}

\* Immediates, branches, and loads and stores at r2 and at fixed addresses.
Aritmeticas == {Inmediata(o, 1, 3, k) : o \in 8..15, k \in {1, 15}}
Ramas == {Inmediata(o, 1, 2, k) : o \in 4..7, k \in {1, 15}}
            \cup {Inmediata(1, 1, c, 1) : c \in {0, 1, 2, 16, 17}}
Accesos == {Inmediata(o, 0, 1, k) : o \in 32..47, k \in {1, 4}}
            \cup {Inmediata(o, 2, 2, 0) : o \in {32, 33, 35, 37, 40, 41, 43}}

MCPalabras == Especiales \cup Aritmeticas \cup Ramas \cup Accesos
                 \cup {Salto(2, 1), Salto(3, 3), Inmediata(16, 0, 0, 0)}
MCValores == {-128, -127, -4, -1, 0, 1, 6, 12, 127}
MCMemoria == [a \in 0..15 |-> (3 * a + a \div 4) % 4]
================================================================================
