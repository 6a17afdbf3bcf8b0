----------------------------- MODULE MCDescriptores -----------------------------
(* Instances of Descriptores for TLC; request threads are interchangeable.    *)
EXTENDS Descriptores, TLC

CONSTANTS h1, h2, h3, h4

Simetria == Permutations(Hilos)
===============================================================================
