\* A box that exists is created again, and then removed.
SPECIFICATION RegistrySpec
CONSTANTS
    x = x
    y = y
    slash = slash
    a1 = a1
    a2 = a2
    a3 = a3
    a4 = a4
    Box <- MCBox
    CreatableBox <- MCCreatableBox
    Addr <- MCAddr
    NULL = NULL
    MAX_FILES = 2
    MAX_OPEN_FILES = 2
SYMMETRY Symmetry
PROPERTY RefusalMeansAbsent
