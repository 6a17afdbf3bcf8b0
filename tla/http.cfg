CONSTANTS
    raiz = raiz  home = home  nada = nada  una = una  cuatro = cuatro  siete = siete
    imagen = imagen  raro = raro  dir = dir  ausente = ausente  perdido = perdido
    BUFFER_SIZE = 3
    Recursos = {raiz, home, nada, una, cuatro, siete, imagen, raro, dir, ausente, perdido}
    HOME_HTML = home
    archivo <- MCArchivo
    Basura = Basura
SPECIFICATION FairSpec
INVARIANTS DescargaFiel
PROPERTIES NadieSeQueda
CHECK_DEADLOCK FALSE
