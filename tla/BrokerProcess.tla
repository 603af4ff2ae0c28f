--------------------------- MODULE BrokerProcess ---------------------------
(***************************************************************************)
(* The broker as a process (mbroker/mbroker.c, main and func_main): its    *)
(* two threads, its descriptors, and SIGINT, from the moment the signal's  *)
(* handler is installed to the end of the process.                         *)
(*                                                                         *)
(* The Makefile's -std=c17 -D_POSIX_C_SOURCE=200809L selects the signal()  *)
(* of System V: the handler runs once, a second SIGINT kills, and a call   *)
(* that blocks in the thread that took the signal fails with EINTR.  Which *)
(* thread takes it is not specified.  sig_handler() unlinks the register   *)
(* pipe and closes it; what a thread does between the two it could have    *)
(* done before or after.  A read() in progress keeps its pipe alive.       *)
(*                                                                         *)
(* What the handlers of requests do to boxes is in BoxRegistry.  Here each *)
(* may take any of its ways out, and what counts is which descriptors it   *)
(* leaves open, whether its client hears of it, and whether it returns: a  *)
(* list that has become a cycle is walked for ever.                        *)
(*                                                                         *)
(* An operator named X_Something, next to X, is X with a plausible defect. *)
(* No specification uses it: with it in X's place a property must fail.    *)
(***************************************************************************)
EXTENDS Integers, Sequences, FiniteSets, FiniteSetsExt

Code == {"publish", "subscribe", "create", "remove", "list"}

CONSTANTS
    Client,
    MayAsk,                 (* bound: which requests each client may make  *)
    NOBODY,
    FD_MAX,                 (* the limit on descriptors                    *)
    Inherited               (* how many the process may be started with:   *)
                            (* the standard three, or its parent's too     *)

ASSUME ProcessAssumption ==
    /\ NOBODY \notin Client
    /\ MayAsk \in [Client -> SUBSET Code]
    /\ FD_MAX \in Nat /\ FD_MAX > 3
    /\ Inherited \subseteq 3 .. FD_MAX - 1

VARIABLES
    main,                   (* where main() is, or how the process ended   *)
    worker,                 (* where func_main() is                        *)
    signalled,              (* whether sig_handler() has run, and when     *)
    fd,                     (* the descriptor table                        *)
    reg_pipe,               (* the global variable, 0 until it is assigned *)
    opened,                 (* the descriptor the last open() is about     *)
    reading,                (* the pipe that a read(reg_pipe) blocks on    *)
    name,                   (* the register pipe has its name              *)
    requests,               (* requests in the register pipe, oldest first *)
    serving,                (* the client of the request read last         *)
    late,                   (* history: requests read after the handler ran*)
    client,                 (* how far each client is                      *)
    asks,                   (* what each client asks for                   *)
    heard                   (* clients that were answered or closed        *)

brokerVars == <<main, worker, signalled, fd, reg_pipe, opened, reading, name, serving, late>>
clientVars == <<requests, client, asks, heard>>
vars == <<brokerVars, clientVars>>

Descriptor == 0 .. FD_MAX - 1
Pipe(is, of) == [is |-> is, of |-> of]
Free     == Pipe("free", NOBODY)
Standard == Pipe("standard", NOBODY)
Register == Pipe("register", NOBODY)
FromClient(c) == Pipe("from client", c)
ToClient(c)   == Pipe("to client", c)

Unused == {d \in Descriptor : fd[d] = Free}
Close(d) == [fd EXCEPT ![d] = Free]

Alive == main \notin {"exited", "killed"}

(* A node is freed while it is linked when a second creation is refused,    *)
(* and linked twice when a second one inserts it: two managers have had an  *)
(* answer.  The boxes themselves, and what else it takes for the list to be *)
(* a cycle, are in BoxRegistry (Endless); here such a list may be one.      *)
ListMayBeBroken == Cardinality({c \in heard : asks[c] = "create"}) > 1

Init ==
    /\ main = "starting" /\ worker = "not created" /\ signalled = "no"
    /\ \E n \in Inherited : fd = [d \in Descriptor |-> IF d < n THEN Standard ELSE Free]
    /\ reg_pipe = 0 /\ opened = 0
    /\ reading = Free
    /\ name = FALSE
    /\ requests = <<>>
    /\ serving = NOBODY
    /\ late = 0
    /\ client = [c \in Client |-> "away"]
    /\ asks = [c \in Client |-> "list"]
    /\ heard = {}

-----------------------------------------------------------------------------
(* Clients.  Each opens the register pipe, writes one request, and blocks   *)
(* in open() of a pipe of its own; it has the register pipe open to its end.*)

CanBeRead == Register \in {fd[d] : d \in Descriptor} \cup {reading}

HoldsRegister(c) == client[c] \in {"joined", "asked", "connected"}

OpenRegister(c, code) ==
    /\ client[c] = "away" /\ name /\ Alive
    /\ code \in MayAsk[c]
    /\ client' = [client EXCEPT ![c] = IF CanBeRead THEN "joined" ELSE "knocking"]
    /\ asks' = [asks EXCEPT ![c] = code]
    /\ UNCHANGED <<brokerVars, requests, heard>>

(* A write to a pipe that nobody can read kills the client.                 *)
SendRequest(c) ==
    /\ client[c] = "joined" /\ Alive
    /\ IF CanBeRead
       THEN client' = [client EXCEPT ![c] = "asked"] /\ requests' = Append(requests, c)
       ELSE client' = [client EXCEPT ![c] = "gone"] /\ UNCHANGED requests
    /\ UNCHANGED <<brokerVars, asks, heard>>

(* A client that heard of its request ends, a publisher when its input does.*)
Leave(c) ==
    /\ client[c] = "connected" /\ Alive
    /\ c \in heard \/ asks[c] = "publish"
    /\ client' = [client EXCEPT ![c] = "gone"]
    /\ UNCHANGED <<brokerVars, requests, asks, heard>>

(* Any client can be killed or interrupted, between any two of its steps.   *)
Die(c) ==
    /\ client[c] \notin {"away", "gone"} /\ Alive
    /\ client' = [client EXCEPT ![c] = "gone"]
    /\ UNCHANGED <<brokerVars, requests, asks, heard>>

-----------------------------------------------------------------------------
(* main()                                                                   *)

EndProcess(how) ==
    /\ main' = how
    /\ fd' = [d \in Descriptor |-> Free]
    /\ reading' = Free

MakeRegisterPipe ==
    /\ main = "starting"
    /\ main' = "opening"
    /\ name' = TRUE
    /\ UNCHANGED <<worker, signalled, fd, reg_pipe, opened, reading, serving, late, clientVars>>

(* open() returns when there is a writer; those that waited have it open.   *)
RegisterPipeOpens ==
    /\ main = "opening" /\ \E c \in Client : client[c] = "knocking"
    /\ main' = "opened"
    /\ opened' = Min(Unused)
    /\ fd' = [fd EXCEPT ![Min(Unused)] = Register]
    /\ client' = [c \in Client |-> IF client[c] = "knocking" THEN "joined" ELSE client[c]]
    /\ UNCHANGED <<worker, signalled, reg_pipe, reading, name, serving, late, requests, asks, heard>>

(* reg_pipe is assigned; pthread_create() and pthread_join().               *)
CreateWorker ==
    /\ main = "opened"
    /\ main' = "joining"
    /\ reg_pipe' = opened
    /\ worker' = "first read"
    /\ UNCHANGED <<signalled, fd, opened, reading, name, serving, late, clientVars>>

(* free_boxes(), which aborts at a node that is freed twice, tfs_destroy(), *)
(* clear_session(), and the end of main().                                  *)
TearDown ==
    /\ main = "joining" /\ worker = "ended"
    /\ \/ EndProcess("exited")
       \/ ListMayBeBroken /\ EndProcess("killed")
    /\ name' = FALSE
    /\ UNCHANGED <<worker, signalled, reg_pipe, opened, serving, late, clientVars>>

-----------------------------------------------------------------------------
(* SIGINT                                                                   *)

HandlerIsInstalled_ForGood == TRUE

(* signal() of System V resets the disposition when the handler is called.  *)
HandlerIsInstalled == signalled = "no"

Handler_OnlyUnlinks(table) ==
    /\ Alive /\ HandlerIsInstalled
    /\ signalled' = IF main = "joining" THEN "in time" ELSE "early"
    /\ name' = FALSE
    /\ fd' = table

(* sig_handler(): reg_pipe is still 0 when the signal comes early.          *)
Handler(table) ==
    /\ Alive /\ HandlerIsInstalled
    /\ signalled' = IF main = "joining" THEN "in time" ELSE "early"
    /\ name' = FALSE
    /\ fd' = [table EXCEPT ![reg_pipe] = Free]

(* No blocking call is interrupted: pthread_join() goes on, and so does the *)
(* worker if main took the signal.                                          *)
SignalRunsHandler ==
    /\ main # "opening"
    /\ Handler(fd)
    /\ UNCHANGED <<main, worker, reg_pipe, opened, reading, serving, late, clientVars>>

(* open() of the register pipe fails, and main exits.                       *)
SignalEndsWaiting ==
    /\ main = "opening" /\ HandlerIsInstalled
    /\ signalled' = "early"
    /\ name' = FALSE
    /\ EndProcess("exited")
    /\ UNCHANGED <<worker, reg_pipe, opened, serving, late, clientVars>>

(* A write() that waits for room in a manager's pipe, as it does only while *)
(* a listing has no end, fails, and send_request() exits.                   *)
SignalEndsListing ==
    /\ main = "joining" /\ worker = "walking" /\ asks[serving] = "list" /\ HandlerIsInstalled
    /\ signalled' = "in time"
    /\ name' = FALSE
    /\ EndProcess("exited")
    /\ UNCHANGED <<worker, reg_pipe, opened, serving, late, clientVars>>

AfterFailedRead_TriesAgain == "next read"

AfterFailedRead == IF worker = "first read" THEN "next read" ELSE "ended"

(* The worker took the signal: its read() of the register pipe, its open()  *)
(* of a client's pipe or its read() of a publisher's pipe fails.            *)
SignalInterruptsWorker ==
    /\ \/ /\ reading # Free
          /\ Handler(fd)
          /\ reading' = Free
          /\ worker' = AfterFailedRead
       \/ /\ worker \in {"opening", "publishing"}
          /\ Handler(Close(opened))
          /\ worker' = "next read"
          /\ UNCHANGED reading
    /\ UNCHANGED <<main, reg_pipe, opened, serving, late, clientVars>>

SecondSignalKills ==
    /\ Alive /\ ~HandlerIsInstalled
    /\ EndProcess("killed")
    /\ UNCHANGED <<worker, signalled, reg_pipe, opened, name, serving, late, clientVars>>

-----------------------------------------------------------------------------
(* func_main()                                                              *)

WorkerRuns == main = "joining"
BetweenRequests == worker \in {"first read", "next read"}

BeginRead ==
    /\ WorkerRuns /\ BetweenRequests /\ reading = Free
    /\ IF fd[reg_pipe].is \in {"standard", "register", "from client"}
       THEN reading' = fd[reg_pipe] /\ UNCHANGED worker
       ELSE worker' = AfterFailedRead /\ UNCHANGED reading
    /\ UNCHANGED <<main, signalled, fd, reg_pipe, opened, name, serving, late, clientVars>>

ReadRequest ==
    /\ WorkerRuns /\ reading = Register /\ requests # <<>>
    /\ serving' = Head(requests)
    /\ requests' = Tail(requests)
    /\ reading' = Free
    /\ worker' = "read"
    /\ late' = IF signalled = "in time" THEN late + 1 ELSE late
    /\ UNCHANGED <<main, signalled, fd, reg_pipe, opened, name, client, asks, heard>>

ReadNothing_Ends ==
    /\ WorkerRuns /\ reading = Register
    /\ requests = <<>> /\ \A c \in Client : ~HoldsRegister(c)
    /\ reading' = Free
    /\ worker' = "ended"
    /\ UNCHANGED <<main, signalled, fd, reg_pipe, opened, name, serving, late, clientVars>>

(* At end of file read() returns 0, and the loop calls it again at once.    *)
ReadNothing ==
    /\ WorkerRuns /\ reading = Register
    /\ requests = <<>> /\ \A c \in Client : ~HoldsRegister(c)
    /\ reading' = Free
    /\ worker' = "next read"
    /\ UNCHANGED <<main, signalled, fd, reg_pipe, opened, name, serving, late, clientVars>>

(* SIGINT made a publisher or a subscriber take its pipe's name away.       *)
MayHaveWithdrawn(c) == client[c] = "gone" /\ asks[c] \in {"publish", "subscribe"}

(* remove_box() walks the list before it opens the manager's pipe.          *)
IterateForEver ==
    /\ WorkerRuns /\ worker = "read" /\ asks[serving] = "remove" /\ ListMayBeBroken
    /\ worker' = "iterating"
    /\ UNCHANGED <<main, signalled, fd, reg_pipe, opened, reading, name, serving, late, clientVars>>

OpenClientPipe_Unchecked ==
    /\ WorkerRuns /\ worker = "read"
    /\ opened' = IF Unused = {} THEN -1 ELSE Min(Unused)
    /\ worker' = "opening"
    /\ fd' = [d \in Descriptor |-> IF d = opened' THEN ToClient(serving) ELSE fd[d]]
    /\ UNCHANGED <<main, signalled, reg_pipe, reading, name, serving, late, clientVars>>

(* A handler calls open(): it takes its descriptor, if there is one, before *)
(* it blocks, and returns if there is none, or no such pipe.                *)
OpenClientPipe ==
    /\ WorkerRuns /\ worker = "read"
    /\ \/ /\ Unused = {} \/ MayHaveWithdrawn(serving)
          /\ worker' = "next read"
          /\ UNCHANGED <<fd, opened>>
       \/ /\ Unused # {}
          /\ worker' = "opening"
          /\ opened' = Min(Unused)
          /\ fd' = [fd EXCEPT ![Min(Unused)] = IF asks[serving] = "publish"
                                               THEN FromClient(serving)
                                               ELSE ToClient(serving)]
    /\ UNCHANGED <<main, signalled, reg_pipe, reading, name, serving, late, clientVars>>

ClientPipeOpens ==
    /\ WorkerRuns /\ worker = "opening" /\ client[serving] = "asked"
    /\ worker' = "serving"
    /\ client' = [client EXCEPT ![serving] = "connected"]
    /\ UNCHANGED <<main, signalled, fd, reg_pipe, opened, reading, name, serving, late,
                   requests, asks, heard>>

(* A handler returns, after it answered and closed the pipe or not.  An     *)
(* answer to a client that has gone kills the broker.                       *)
Return(answers, table) ==
    /\ heard' = IF answers THEN heard \cup {serving} ELSE heard
    /\ fd' = table
    /\ worker' = "next read"
    /\ UNCHANGED <<main, reading>>

Dies ==
    /\ client[serving] = "gone"
    /\ EndProcess("killed")
    /\ UNCHANGED <<worker, heard>>

Serves(code) == WorkerRuns /\ worker = "serving" /\ asks[serving] = code

(* find_box(), or the loop of list_box(), goes round a cycle.               *)
WalksForEver ==
    /\ ListMayBeBroken
    /\ worker' = "walking"
    /\ UNCHANGED <<main, fd, reading, heard>>

(* Without an answer when the file cannot be made.                          *)
create_box ==
    /\ Serves("create")
    /\ \/ client[serving] # "gone" /\ Return(TRUE, fd)
       \/ Return(FALSE, fd)
       \/ Dies
       \/ WalksForEver

remove_box_LeavesOpen ==
    /\ Serves("remove")
    /\ \/ client[serving] # "gone" /\ Return(TRUE, fd)
       \/ Dies

remove_box ==
    /\ Serves("remove")
    /\ \/ client[serving] # "gone" /\ Return(TRUE, Close(opened))
       \/ Dies

list_box ==
    /\ Serves("list")
    /\ \/ client[serving] # "gone" /\ Return(TRUE, Close(opened))
       \/ Dies
       \/ WalksForEver

(* What it refuses it closes.                                               *)
reg_publisher ==
    /\ Serves("publish")
    /\ \/ Return(TRUE, Close(opened))
       \/ worker' = "publishing" /\ UNCHANGED <<main, fd, reading, heard>>
       \/ WalksForEver

end_publisher_LeavesOpen ==
    /\ WorkerRuns /\ worker = "publishing"
    /\ Return(TRUE, fd)

(* The publisher's end, or a message that is empty.                         *)
end_publisher ==
    /\ WorkerRuns /\ worker = "publishing"
    /\ Return(TRUE, Close(opened))

reg_subscriber_Silent ==
    /\ Serves("subscribe")
    /\ \/ Return(FALSE, Close(opened))
       \/ worker' = "relaying" /\ UNCHANGED <<main, fd, reading, heard>>
       \/ WalksForEver

reg_subscriber ==
    /\ Serves("subscribe")
    /\ \/ Return(TRUE, Close(opened))
       \/ worker' = "relaying" /\ UNCHANGED <<main, fd, reading, heard>>
       \/ WalksForEver

(* A write to a subscriber that has gone.                                   *)
RelayDies == WorkerRuns /\ worker = "relaying" /\ Dies

(* The next record of a listing without end, to a manager that has gone.    *)
ListingDies == WorkerRuns /\ worker = "walking" /\ asks[serving] = "list" /\ Dies

Handle ==
    /\ \/ create_box \/ remove_box \/ list_box \/ reg_publisher \/ reg_subscriber
       \/ end_publisher \/ RelayDies \/ ListingDies
    /\ UNCHANGED <<signalled, reg_pipe, opened, name, serving, late, requests, client, asks>>

-----------------------------------------------------------------------------
MainStep == MakeRegisterPipe \/ RegisterPipeOpens \/ CreateWorker \/ TearDown

Signal ==
    \/ SignalRunsHandler \/ SignalEndsWaiting \/ SignalEndsListing
    \/ SignalInterruptsWorker \/ SecondSignalKills

WorkerStep ==
    \/ BeginRead \/ ReadRequest \/ ReadNothing
    \/ IterateForEver \/ OpenClientPipe \/ ClientPipeOpens \/ Handle

Next ==
    \/ MainStep \/ Signal \/ WorkerStep
    \/ \E c \in Client, code \in Code : OpenRegister(c, code)
    \/ \E c \in Client : SendRequest(c) \/ Leave(c) \/ Die(c)

Spec == Init /\ [][Next]_vars

(* read() of a publisher's pipe waits for the publisher.                    *)
Unblocked == worker \in {"publishing", "relaying"} => client[serving] = "gone"

(* Threads and clients keep running, and a publisher's input ends.  Nobody  *)
(* has to start a client, to send a signal or to kill.                      *)
FairSpec ==
    /\ Spec
    /\ WF_vars(MainStep)
    /\ WF_vars(Unblocked /\ WorkerStep)
    /\ \A c \in Client : WF_vars(SendRequest(c)) /\ WF_vars(Leave(c))

-----------------------------------------------------------------------------
Pipes ==
    {Free, Standard, Register} \cup {FromClient(c) : c \in Client} \cup {ToClient(c) : c \in Client}

(* Threads and clients are at places that exist, and descriptors index the  *)
(* table.                                                                   *)
ProcessTypeOK ==
    /\ main \in {"starting", "opening", "opened", "joining", "exited", "killed"}
    /\ worker \in {"not created", "first read", "next read", "read", "opening", "serving",
                   "iterating", "walking", "publishing", "relaying", "ended"}
    /\ signalled \in {"no", "early", "in time"}
    /\ fd \in [Descriptor -> Pipes]
    /\ reg_pipe \in Descriptor /\ opened \in Descriptor
    /\ reading \in Pipes
    /\ name \in BOOLEAN
    /\ requests \in Seq(Client)
    /\ serving \in Client \cup {NOBODY}
    /\ late \in Nat
    /\ client \in [Client -> {"away", "knocking", "joined", "asked", "connected", "gone"}]
    /\ asks \in [Client -> Code]
    /\ heard \subseteq Client

(* What func_main() reads as requests comes from the register pipe, also    *)
(* when sig_handler() has closed it and its number has been used again for  *)
(* a client's pipe.                                                         *)
ReadsRegisterPipeOnly == reading \in {Free, Register}

(* A SIGINT that comes before reg_pipe is assigned closes descriptor 0, and *)
(* 0 may then be the register pipe's number: still the worker starts with   *)
(* the pipe that main() opened, because there is no second such signal.     *)
RegisterPipeIsItsOwn ==
    main = "joining" /\ signalled # "in time" => fd[reg_pipe] = Register

(* While a handler works its pipe is its client's: the number that main     *)
(* closes under it in sig_handler() is not one that it was given.           *)
HandlersKeepTheirPipe ==
    WorkerRuns /\ worker \in {"opening", "serving", "walking", "publishing", "relaying"} =>
        fd[opened] \in {FromClient(serving), ToClient(serving)}

(* Between two requests the broker has no client's pipe open, but one for   *)
(* each creation (mbroker.c:125-167 has no close): only creations bring it  *)
(* nearer to its limit.                                                     *)
OnlyCreationsLeak ==
    WorkerRuns /\ BetweenRequests =>
        \A d \in Descriptor :
            /\ fd[d].of # NOBODY => asks[fd[d].of] = "create"
            /\ \A e \in Descriptor : fd[e] = fd[d] /\ fd[d].of # NOBODY => e = d

(* A client whose request was read, and who still waits.                    *)
Forgotten(c) ==
    /\ client[c] \in {"asked", "connected"}
    /\ c \notin heard /\ \A i \in DOMAIN requests : requests[i] # c
    /\ ~(client[c] = "connected" /\ asks[c] = "publish")

(* func_main() goes to its next read without having answered a request or   *)
(* closed its client's pipe only when it runs out of descriptors, when a    *)
(* creation fails half-way, or after SIGINT.                                *)
ForgottenForAReason ==
    reading = Register =>
        \A c \in Client : Forgotten(c) =>
            Unused = {} \/ asks[c] = "create" \/ signalled = "in time"

(* The end of file that read() reports while there are no clients does not  *)
(* end the worker, nor does any handler: only the closing of the pipe does. *)
EndsOnlyOnSignal == worker = "ended" => signalled = "in time"

(* After a SIGINT that comes once there is a worker, the request that a     *)
(* read() in progress delivers is served, and no other.  (An earlier one    *)
(* is swallowed and the broker goes on: its requests are not counted.)      *)
AtMostOneMoreRequest == late <= 1

(* Four things keep a broker that has closed its register pipe from its     *)
(* end: a subscriber, a list that is a cycle, a client killed before it     *)
(* opened its pipe, and a client that was forgotten and keeps the register  *)
(* pipe open that the worker reads.                                         *)
Held ==
    \/ worker = "relaying"
    \/ worker \in {"iterating", "walking"}
    \/ worker = "opening" /\ client[serving] = "gone"
    \/ reading = Register /\ \E c \in Client : Forgotten(c)

(* A SIGINT that comes once there is a worker (mbroker.c:107-111) ends the  *)
(* broker, wherever the worker is, unless it is held.  One that comes       *)
(* before reg_pipe is assigned does not: it either fails the open() of the  *)
(* register pipe at once or is swallowed, and the broker runs on.           *)
StopsOnSignal == signalled = "in time" ~> (~Alive \/ Held)

=============================================================================
