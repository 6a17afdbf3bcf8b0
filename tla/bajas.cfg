CONSTANTS
    s1 = s1  s2 = s2
    h1 = h1  h2 = h2  h3 = h3
    Servidores = {s1, s2}
    Hilos = {h1, h2}
    Metodos = {0, 1, 2, 3}
    CargasMaximas = {1}
    TiposDeAviso = {"S/C", "S/D"}
    CursorInicial <- Basura
    Nadie = Nadie
SPECIFICATION Spec
SYMMETRY Simetria
INVARIANTS IndiceEnBuffer RegistroSinDuplicados ProcesoSano CargaCuadra
PROPERTIES EsRegistro
CHECK_DEADLOCK FALSE
