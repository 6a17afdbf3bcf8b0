CONSTANTS
    B = 2
    PageSize = 8
    NumPhysPages = 2
    NumPages = 2
    GPRegs = {0, 1, 2, 3, 31}
    Palabras <- MCPalabras
    Valores <- MCValores
    MemoriaInicial <- MCMemoria
    PasosMax = 2
SPECIFICATION Spec
PROPERTIES AritmeticaExacta Reiniciable CargaLlega LeeLoEscrito
CHECK_DEADLOCK FALSE
