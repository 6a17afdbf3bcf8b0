---------------------------- MODULE MCNachosArchivos ----------------------------
(* Instances of NachosArchivos for TLC.  Names and handles are interchangeable. *)
EXTENDS NachosArchivos, TLC

CONSTANTS f1, f2, f3, m1, m2

Simetria == Permutations(Nombres) \union Permutations(Manejos)
================================================================================
