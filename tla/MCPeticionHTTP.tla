----------------------------- MODULE MCPeticionHTTP -----------------------------
(* Resources of different kinds and sizes around those of the buffer, for TLC.  *)
EXTENDS PeticionHTTP

CONSTANTS home, nada, una, cuatro, siete, imagen, raro, dir, ausente, perdido

MCTamano(r) ==
    CASE r \in {una, raro} -> 1 [] r = home -> 2 [] r \in {nada, cuatro, imagen} -> 4 [] r = siete -> 7 [] OTHER -> 0
MCArchivo == [r \in Recursos |->
    [punto |-> r \notin {raiz, dir}, directorio |-> r # perdido, entrada |-> r # ausente,
     abre |-> r \notin {nada, dir, ausente, perdido}, tamano |-> MCTamano(r),
     MIME |-> CASE r \in {dir, raiz, raro} -> "" [] r = imagen -> "image/png" [] OTHER -> "text/html"]]
================================================================================
