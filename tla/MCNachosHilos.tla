---------------------------- MODULE MCNachosHilos ----------------------------
(* Instances of NachosHilos for TLC. *)
EXTENDS NachosHilos, TLC

CONSTANTS m, t1, t2, t3, sem, disco

Valores == [s \in Semaforos |-> 0]
Simetria == Permutations({t1, t2})
===============================================================================
