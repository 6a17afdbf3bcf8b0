---------------------------- MODULE MCNachosCerrojos ----------------------------
(* Instances of NachosCerrojos for TLC. *)
EXTENDS NachosCerrojos, TLC

CONSTANTS m, t1, t2

Valores == [s \in Semaforos |-> IF s = Disco THEN 0 ELSE 1]
Simetria == Permutations({t1, t2})
===============================================================================
