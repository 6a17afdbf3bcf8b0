------------------------------- MODULE Registro -------------------------------
(***************************************************************************)
(* What the load balancer's server registry promises, with no thread, lock *)
(* or vector in sight: an ordered set of web servers, kept in the order in *)
(* which they joined, and one announcement at a time that is carried out   *)
(* atomically.  "S/C" admits a server that is not there yet, "S/D" expels  *)
(* one that is, and any other announcement changes nothing.                *)
(*                                                                         *)
(* Balanceador implements it with two critical sections per announcement   *)
(* (look up the position, then change the vector).                         *)
(***************************************************************************)
EXTENDS Integers, Sequences

CONSTANTS Servidores, Nadie

VARIABLES
    registrados,   \* the registered servers, in the order they joined
    aviso          \* the announcement being carried out, or Nadie

vars == <<registrados, aviso>>

Avisos == [tipo : {"S/C", "S/D"}, id : Servidores]

Esta(s) == \E k \in DOMAIN registrados : registrados[k] = s

Init == registrados = <<>> /\ aviso = Nadie

Recibir(a) == aviso = Nadie /\ aviso' = a /\ UNCHANGED registrados

Alta(s) ==
    /\ aviso = [tipo |-> "S/C", id |-> s] /\ ~Esta(s)
    /\ registrados' = Append(registrados, s)
    /\ aviso' = Nadie

\* Whoever joined after s moves one place forward.
Baja(s) ==
    /\ aviso = [tipo |-> "S/D", id |-> s]
    /\ \E p \in DOMAIN registrados :
          /\ registrados[p] = s
          /\ registrados' = [k \in 1 .. Len(registrados) - 1 |->
                                registrados[IF k < p THEN k ELSE k + 1]]
    /\ aviso' = Nadie

Ignorar(s) ==
    /\ \/ aviso = [tipo |-> "S/C", id |-> s] /\ Esta(s)
       \/ aviso = [tipo |-> "S/D", id |-> s] /\ ~Esta(s)
    /\ aviso' = Nadie
    /\ UNCHANGED registrados

Next ==
    \/ \E a \in Avisos : Recibir(a)
    \/ \E s \in Servidores : Alta(s) \/ Baja(s) \/ Ignorar(s)

Spec == Init /\ [][Next]_vars
===============================================================================
