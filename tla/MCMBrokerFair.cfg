\* Any requests, any client may be killed, everything that runs keeps running;
\* the file system has room for one of two boxes.
SPECIFICATION FairSpec
CONSTANTS
    x = x
    y = y
    a1 = a1
    a2 = a2
    a3 = a3
    c1 = c1
    c2 = c2
    c3 = c3
    c4 = c4
    Box <- MCTwoBox
    CreatableBox <- MCTwoBox
    Addr <- MCAddr
    NULL = NULL
    MAX_FILES = 1
    MAX_OPEN_FILES = 3
    Client <- MCTwoClient
    Code <- MCCode
    Plans <- MCAnything
    MaxLines = 1
    MaxDeaths = 1
    MAX_MESSAGES = 1
\* Clients end, and the broker may be killed.
CHECK_DEADLOCK FALSE
PROPERTY ServiceResumes
PROPERTY EveryoneServed
