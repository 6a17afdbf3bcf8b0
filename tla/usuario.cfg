CONSTANTS
    fileLimit = 7
    MaxFD = 5
    PageSize = 2
    NumPhysPages = 4
    UserStackSize = 2
    Contados = 3
    Ejecutables <- MCEjecutables
    MaxLlamadas = 6
SPECIFICATION Spec
INVARIANTS UsoExacto ManejoFiel CodigoEnSuSitio MarcosCuadran
CHECK_DEADLOCK FALSE
