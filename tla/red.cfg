CONSTANTS
    maqA = maqA  maqB = maqB
    Maquinas = {maqA, maqB}
    lejos <- MCLejos
    Nada = Nada
    ConP = {maqB}
    MaxArranques <- MCMaxArranques
    MaxPerdidas = 1
SPECIFICATION FairSpec
INVARIANTS EntregaFiel AcuseCierto
PROPERTIES Termina
CHECK_DEADLOCK FALSE
