CONSTANTS
    s1 = s1  s2 = s2
    h1 = h1  h2 = h2  h3 = h3
    Servidores = {s1, s2}
    Hilos = {h1, h2, h3}
    Metodos = {0}
    CargasMaximas = {1}
    TiposDeAviso = {"S/C", "S/D"}
    CursorInicial = {0, 1}
    Nadie = Nadie
SPECIFICATION Spec
SYMMETRY Simetria
PROPERTIES ReparteEnOrden
CHECK_DEADLOCK FALSE
