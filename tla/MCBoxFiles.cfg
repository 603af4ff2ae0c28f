\* The broker's calls: no truncation, no unlink of an open file.
SPECIFICATION BoxSpec
CONSTANTS
    f = f
    g = g
    long = long
    bad = bad
    Path <- MCPath
    ValidPath <- MCValidPath
    StorablePath <- MCStorablePath
    Byte = {0, 1}
    INODE_TABLE_SIZE = 3
    DATA_BLOCKS = 3
    MAX_OPEN_FILES = 2
    MAX_DIR_ENTRIES = 2
    BLOCK_SIZE = 2
    MaxIO = 2
    MaxOffset = 3
    SIZE_MOD = 16
VIEW View
SYMMETRY Symmetry
INVARIANT HandlesWithinFiles
INVARIANT NoBlockLost
INVARIANT NeverCrashes
PROPERTY ImplementsFiles
