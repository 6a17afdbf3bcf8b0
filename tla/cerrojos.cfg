CONSTANTS
    m = m  t1 = t1  t2 = t2
    Hilos = {m, t1, t2}
    Principal = m
    Cerrojo = Cerrojo  Contador = Contador  Barrera = Barrera  Disco = Disco
    Semaforos = {Cerrojo, Contador, Barrera, Disco}
    Dispositivos = {Disco}
    ValorInicial <- Valores
    Puntos <- PuntosCerrojos
    Inicio = "programa"
    MaxValor = 4
    Nulo = Nulo  Desconocido = Desconocido
    Lectores = {t1, t2}
    Citados = {m, t1}
    Cuantos = 2
    TitularInicial = {Nulo, Desconocido}
SPECIFICATION SpecC
INVARIANTS UnSoloDueno BarreraCerrada UnaCompletadaPorEspera
CHECK_DEADLOCK FALSE
