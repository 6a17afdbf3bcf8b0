\* Two servers and a balancer, started three times in all, one datagram lost.
CONSTANTS
    s1 = s1
    s2 = s2
    Servidores = {s1, s2}
    Nadie = Nadie
    MaxBuzon = 3
    MaxPerdidas = 1
    MaxArranques = 3
SPECIFICATION FairSpec
INVARIANTS SinHuerfanos UltimoAvisoManda DespedidaLlega
PROPERTIES TerminaSiSeLePide LlegaARegistrarse
CHECK_DEADLOCK FALSE
