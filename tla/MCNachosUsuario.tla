---------------------------- MODULE MCNachosUsuario ----------------------------
(* An instance of NachosUsuario for TLC.  The programs: one whose code and    *)
(* data end inside a page, which fills the memory, and one that does not fit. *)
EXTENDS NachosUsuario

MCEjecutables ==
    {[code |-> 2, initData |-> 1, uninitData |-> 2],
     [code |-> 6, initData |-> 2, uninitData |-> 1]}
================================================================================
