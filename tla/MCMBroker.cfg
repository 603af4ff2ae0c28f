\* Three clients ask for anything, or four managers for as much as makes the
\* list a cycle and has it walked; any client may be killed.
SPECIFICATION MSpec
CONSTANTS
    x = x
    y = y
    a1 = a1
    a2 = a2
    a3 = a3
    c1 = c1
    c2 = c2
    c3 = c3
    c4 = c4
    Box <- MCTwoBox
    CreatableBox <- MCTwoBox
    Addr <- MCAddr
    NULL = NULL
    MAX_FILES = 2
    MAX_OPEN_FILES = 3
    Client <- MCFourClient
    Code <- MCCode
    Plans <- MCThreeOrFour
    MaxLines = 2
    MaxDeaths = 1
    MAX_MESSAGES = 3
SYMMETRY Symmetry
\* Clients end, and the broker may be killed.
CHECK_DEADLOCK FALSE
INVARIANT BrokerTypeOK
INVARIANT AnswersAccountForFiles
INVARIANT MessagesInOrder
INVARIANT SubscribersGetTheBox
