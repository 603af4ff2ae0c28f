\* A creation and two requests of any kind, after which the list may be a
\* cycle; SIGINT between any two steps.  Descriptors run out in a process that
\* was started with two more than the standard ones.
SPECIFICATION FairSpec
CONSTANTS
    c1 = c1
    c2 = c2
    c3 = c3
    Client <- MCClient
    MayAsk <- MCOneCreates
    NOBODY = NOBODY
    FD_MAX = 7
    Inherited <- MCInherited
\* The broker ends.
CHECK_DEADLOCK FALSE
INVARIANT ProcessTypeOK
INVARIANT ReadsRegisterPipeOnly
INVARIANT RegisterPipeIsItsOwn
INVARIANT HandlersKeepTheirPipe
INVARIANT OnlyCreationsLeak
INVARIANT ForgottenForAReason
INVARIANT EndsOnlyOnSignal
INVARIANT AtMostOneMoreRequest
PROPERTY StopsOnSignal
