------------------------------- MODULE MCNachosRed -------------------------------
(* Two machines that write to each other, for TLC.                             *)
EXTENDS NachosRed

CONSTANTS maqA, maqB

\* Only one of them is started again.
MCMaxArranques == [m \in {maqA, maqB} |-> IF m = maqA THEN 2 ELSE 1]
MCLejos == [m \in {maqA, maqB} |-> IF m = maqA THEN maqB ELSE maqA]
================================================================================
