CONSTANTS
    m = m  t1 = t1  t2 = t2  t3 = t3
    sem = sem  disco = disco
    Hilos = {m, t1, t2, t3}
    Principal = m
    Semaforos = {sem, disco}
    Dispositivos = {disco}
    ValorInicial <- Valores
    Puntos = {"programa"}
    Inicio = "programa"
    MaxValor = 2
    Nulo = Nulo
SPECIFICATION FairSpec
INVARIANTS CadaHiloEnUnSitio MuertoNoVuelve SinDespertarPerdido ParadaJustificada
PROPERTIES NadieEsperaConValor
CHECK_DEADLOCK FALSE
