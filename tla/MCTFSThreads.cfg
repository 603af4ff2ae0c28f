\* Two threads, any calls.
SPECIFICATION TFairSpec
CONSTANTS
    f = f
    g = g
    long = long
    t1 = t1
    t2 = t2
    Thread <- MCThread
    NoThread = NoThread
    Path <- MCPath
    ValidPath <- MCPath
    StorablePath <- MCStorablePath
    Byte = {0}
    INODE_TABLE_SIZE = 2
    DATA_BLOCKS = 3
    MAX_OPEN_FILES = 2
    MAX_DIR_ENTRIES = 1
    BLOCK_SIZE = 1
    MaxIO = 1
    MaxOffset = 3
    SIZE_MOD = 8
\* The process may end.
CHECK_DEADLOCK FALSE
INVARIANT OneInside
PROPERTY ImplementsTecnicoFS
PROPERTY ReturnsAreAtomic
PROPERTY MutexComesFree
