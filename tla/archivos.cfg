CONSTANTS
    f1 = f1  f2 = f2  f3 = f3  m1 = m1  m2 = m2
    NumSectors = 8
    SectorSize = 2
    NumDirect = 3
    NumDirEntries = 2
    Nombres = {f1, f2, f3}
    Tamanos = {1, 3}
    Manejos = {m1}
    Valores = {1, 2}
    Nadie = Nadie
    MaxCaidas = 2
SPECIFICATION Spec
SYMMETRY Simetria
INVARIANTS Concuerdan LeeLoEscrito
PROPERTIES CaidaAcotada
CHECK_DEADLOCK FALSE
