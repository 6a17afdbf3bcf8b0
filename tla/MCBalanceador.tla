----------------------------- MODULE MCBalanceador -----------------------------
(* Instances of Balanceador for TLC.  Servers and threads are interchangeable: *)
(* no definition of Balanceador tells one from another.                        *)
EXTENDS Balanceador, TLC

CONSTANTS s1, s2, h1, h2, h3

Simetria == Permutations(Servidores) \union Permutations(Hilos)

\* What the memory of the cursor may hold at first: negative, in range, past the end.
Basura == {-2, 0, 2}
===============================================================================
