CONSTANTS
    h1 = h1  h2 = h2  h3 = h3  h4 = h4
    Hilos = {h1, h2}
    MaxDescriptores = 7
    MaxAltas = 2
SPECIFICATION Spec
CHECK_DEADLOCK FALSE
SYMMETRY Simetria
INVARIANTS HttpAbierto ConexionConDueno
