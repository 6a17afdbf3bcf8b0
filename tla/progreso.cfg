CONSTANTS
    s1 = s1  s2 = s2
    h1 = h1  h2 = h2  h3 = h3
    Servidores = {s1}
    Hilos = {h1, h2}
    Metodos = {1, 2, 3}
    CargasMaximas = {0}
    TiposDeAviso = {"S/C", "S/D"}
    CursorInicial = {0}
    Nadie = Nadie
SPECIFICATION FairSpec
PROPERTIES TodosAvanzan
CHECK_DEADLOCK FALSE
