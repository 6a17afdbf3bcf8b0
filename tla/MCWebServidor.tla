---------------------------- MODULE MCWebServidor ----------------------------
(* Instances of WebServidor for TLC.                                       *)
EXTENDS WebServidor

CONSTANTS s1, s2
===============================================================================
