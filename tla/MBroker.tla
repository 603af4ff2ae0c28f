------------------------------ MODULE MBroker ------------------------------
(***************************************************************************)
(* The whole system: the broker's worker (mbroker/mbroker.c, func_main)    *)
(* and the processes that talk to it through named pipes - managers        *)
(* (manager/manager.c), publishers (publisher/pub.c) and subscribers       *)
(* (subscriber/sub.c).                                                     *)
(*                                                                         *)
(* A client writes one request to the register pipe and opens a pipe of    *)
(* its own.  The worker takes the requests in order; for each it opens the *)
(* client's pipe, which blocks until the client does, and runs a handler   *)
(* of BoxRegistry.  Only then does it take the next one.  A client may be  *)
(* killed at any moment, leaving its pipe's name behind, or interrupted,   *)
(* and then takes the name away.                                           *)
(*                                                                         *)
(* An operator named X_Something, next to X, is X with a plausible defect. *)
(* No specification uses it: with it in X's place a property must fail.    *)
(***************************************************************************)
EXTENDS BoxRegistry, Sequences

CONSTANTS
    Client,
    Code,              (* which requests clients make                      *)
    Plans,             (* bound: what each client may ask for; the         *)
                       (* requests of a behaviour all fit one plan         *)
    MaxLines,          (* bound: lines per publisher                       *)
    MaxDeaths,         (* bound: clients killed                            *)
    MAX_MESSAGES       (* messages that a box file has room for            *)

ASSUME BrokerAssumption ==
    /\ IsFiniteSet(Client) /\ NULL \notin Client
    /\ Code \subseteq {"publish", "subscribe", "create", "remove", "list"}
    /\ Plans \subseteq [Client -> SUBSET [code : Code, box : Box]]
    /\ MaxLines \in Nat /\ MaxDeaths \in Nat /\ MAX_MESSAGES \in Nat

VARIABLES
    client,     (* how far each client process is                          *)
    asks,       (* the request of each client                              *)
    reg_pipe,   (* requests not yet read, oldest first                     *)
    worker,     (* the worker in func_main and at the top of a handler     *)
    serving,    (* the client of the request read last                     *)
    pipe,       (* what is in each client's pipe                           *)
    hungUp,     (* clients whose pipe the broker has closed                *)
    told,       (* what each client has read                               *)
    lines,      (* how many lines each publisher has written               *)
    message,    (* the publisher handler's message buffer                  *)
    relayed,    (* the subscriber handler has sent what the file holds     *)
    stored      (* the messages in each box's file                         *)

clientVars == <<client, asks, told, lines>>
workerVars == <<worker, serving, message, relayed, stored>>
vars == <<registryVars, clientVars, workerVars, reg_pipe, pipe, hungUp>>

Manager(c) == asks[c].code \in {"create", "remove", "list"}
Asks(c, code) == asks[c].code = code

(* What goes through a client's pipe: what a handler says, or what a        *)
(* publisher writes - the confirmation byte, an empty line, its line n.     *)
Said(says)   == [says |-> says, n |-> 0, from |-> NULL]
Confirmation == Said("confirmation")
EmptyLine    == Said("empty line")
Leftover     == Said("leftover")         (* what malloc() left in a buffer *)
Line(c)      == [says |-> "line", n |-> lines[c] + 1, from |-> c]

MInit ==
    /\ Init
    /\ client = [c \in Client |-> "not started"]
    /\ asks = [c \in Client |-> [code |-> "none", box |-> NULL]]
    /\ reg_pipe = <<>>
    /\ worker = "reading"
    /\ serving = NULL
    /\ pipe = [c \in Client |-> <<>>]
    /\ hungUp = {}
    /\ told = [c \in Client |-> <<>>]
    /\ lines = [c \in Client |-> 0]
    /\ message = EmptyLine
    /\ relayed = FALSE
    /\ stored = [b \in Box |-> <<>>]

-----------------------------------------------------------------------------
(* Clients.                                                                 *)

(* mkfifo() and send_request(): one write of 400 bytes, which a pipe takes  *)
(* whole.  The client then blocks in open() of its own pipe.                *)
Register(c, code, box) ==
    /\ client[c] = "not started" /\ worker # "killed"
    /\ client' = [client EXCEPT ![c] = "opening"]
    /\ asks' = [asks EXCEPT ![c] = [code |-> code, box |-> box]]
    /\ reg_pipe' = Append(reg_pipe, c)
    /\ UNCHANGED <<registryVars, workerVars, pipe, hungUp, told, lines>>

Closed(c) == c \in hungUp \/ worker = "killed"

(* A manager prints the first thing it reads and exits.                     *)
ManagerReads(c) ==
    /\ client[c] = "open" /\ Manager(c)
    /\ pipe[c] # <<>> \/ Closed(c)
    /\ client' = [client EXCEPT ![c] = "done"]
    /\ told' = [told EXCEPT ![c] = pipe[c]]
    /\ pipe' = [pipe EXCEPT ![c] = <<>>]
    /\ UNCHANGED <<registryVars, workerVars, reg_pipe, hungUp, asks, lines>>

(* A subscriber prints what it reads until its pipe is closed.              *)
SubscriberReads(c) ==
    /\ client[c] = "open" /\ Asks(c, "subscribe")
    /\ \/ /\ pipe[c] # <<>>
          /\ told' = [told EXCEPT ![c] = @ \o pipe[c]]
          /\ pipe' = [pipe EXCEPT ![c] = <<>>]
          /\ UNCHANGED client
       \/ /\ pipe[c] = <<>> /\ Closed(c)
          /\ client' = [client EXCEPT ![c] = "done"]
          /\ UNCHANGED <<told, pipe>>
    /\ UNCHANGED <<registryVars, workerVars, reg_pipe, hungUp, asks, lines>>

(* A write to a pipe that nobody reads kills the writer (SIGPIPE).          *)
PublisherWrites(c, item, next) ==
    /\ IF Closed(c)
       THEN /\ client' = [client EXCEPT ![c] = "killed"]
            /\ UNCHANGED pipe
       ELSE /\ client' = [client EXCEPT ![c] = next]
            /\ pipe' = [pipe EXCEPT ![c] = Append(@, item)]
    /\ UNCHANGED <<registryVars, workerVars, reg_pipe, hungUp, asks, told>>

Confirm(c) ==
    /\ client[c] = "open" /\ Asks(c, "publish")
    /\ PublisherWrites(c, Confirmation, "confirmed")
    /\ UNCHANGED lines

Publish(c) ==
    /\ client[c] = "confirmed" /\ lines[c] < MaxLines
    /\ \E item \in {EmptyLine, Line(c)} : PublisherWrites(c, item, "confirmed")
    /\ lines' = [lines EXCEPT ![c] = @ + 1]

(* The end of its input: clear_session().                                   *)
PublisherCloses(c) ==
    /\ client[c] = "confirmed"
    /\ client' = [client EXCEPT ![c] = "done"]
    /\ UNCHANGED <<registryVars, workerVars, reg_pipe, pipe, hungUp, asks, told, lines>>

Gone(c) == client[c] \in {"done", "withdrawn", "killed"}

Stops(c, how) ==
    /\ Cardinality({d \in Client : client[d] \in {"withdrawn", "killed"}}) < MaxDeaths
    /\ client' = [client EXCEPT ![c] = how]
    /\ UNCHANGED <<registryVars, workerVars, reg_pipe, pipe, hungUp, asks, told, lines>>

(* Any client can be killed from outside, between any two of its steps.     *)
Die(c) ==
    /\ client[c] \in {"opening", "open", "confirmed"}
    /\ Stops(c, "killed")

(* SIGINT makes open() of its pipe fail, and a subscriber's read(): the     *)
(* client removes its pipe's name and ends.  (A publisher that waits for    *)
(* input has come to its end.  Managers have no handler.)                   *)
Withdraw(c) ==
    /\ \/ client[c] = "opening" /\ ~Manager(c)
       \/ client[c] = "open" /\ Asks(c, "subscribe")
    /\ Stops(c, "withdrawn")

-----------------------------------------------------------------------------
(* The worker.                                                              *)

(* remove_box() walks the list before it opens the manager's pipe.          *)
IteratesForEver(c) == Asks(c, "remove") /\ Endless(heap, head)

(* func_main() reads a request and its handler calls open(), which waits    *)
(* for the client or, when the pipe has no name any more, fails.            *)
ReadRequest ==
    /\ worker = "reading" /\ Reading /\ reg_pipe # <<>>
    /\ ~IteratesForEver(Head(reg_pipe))
    /\ serving' = Head(reg_pipe)
    /\ reg_pipe' = Tail(reg_pipe)
    /\ worker' = IF client[Head(reg_pipe)] = "withdrawn" THEN "reading" ELSE "opening"
    /\ UNCHANGED <<registryVars, clientVars, message, relayed, stored, pipe, hungUp>>

IterateForEver ==
    /\ worker = "reading" /\ Reading /\ reg_pipe # <<>>
    /\ IteratesForEver(Head(reg_pipe))
    /\ remove_box(asks[Head(reg_pipe)].box, "nothing")
    /\ serving' = Head(reg_pipe)
    /\ reg_pipe' = Tail(reg_pipe)
    /\ UNCHANGED <<clientVars, worker, message, relayed, stored, pipe, hungUp>>

(* Both ends of a named pipe are opened together.                           *)
OpenPipe ==
    /\ worker = "opening" /\ client[serving] = "opening"
    /\ worker' = "opened"
    /\ client' = [client EXCEPT ![serving] = "open"]
    /\ UNCHANGED <<registryVars, serving, message, relayed, stored, reg_pipe, pipe, hungUp, asks,
                   told, lines>>

(* send_request() to the client that is served.                             *)
Reply(says) ==
    IF Gone(serving)
    THEN worker' = "killed" /\ UNCHANGED pipe
    ELSE worker' = "reading" /\ pipe' = [pipe EXCEPT ![serving] = Append(@, Said(says))]

(* create_box() does not close the manager's pipe.                          *)
ServeCreate(says) ==
    /\ create_box(asks[serving].box, says)
    /\ IF says = "nothing" THEN worker' = "reading" /\ UNCHANGED pipe ELSE Reply(says)
    /\ stored' = IF says = "OK" THEN [stored EXCEPT ![asks[serving].box] = <<>>] ELSE stored
    /\ UNCHANGED <<hungUp, message, relayed>>

ServeRemove_SilentRefusal(says) ==
    /\ says # "nothing" /\ remove_box(asks[serving].box, says)
    /\ IF says = "doesn't exist"
       THEN worker' = "reading" /\ UNCHANGED <<pipe, hungUp>>
       ELSE Reply(says) /\ hungUp' = hungUp \cup {serving}
    /\ UNCHANGED <<message, relayed, stored>>

(* It has come to open() only if the list has an end.                       *)
ServeRemove(says) ==
    /\ says # "nothing" /\ remove_box(asks[serving].box, says)
    /\ Reply(says)
    /\ hungUp' = hungUp \cup {serving}
    /\ UNCHANGED <<message, relayed, stored>>

(* The records of an endless listing are not kept: its manager does not     *)
(* come to an end by reading them.                                          *)
ServeList(says) ==
    /\ list_box(says)
    /\ IF says = "endless listing"
       THEN worker' = "reading" /\ UNCHANGED <<pipe, hungUp>>
       ELSE Reply(says) /\ hungUp' = hungUp \cup {serving}
    /\ UNCHANGED <<message, relayed, stored>>

ServeSession(says) ==
    /\ \/ Asks(serving, "publish") /\ reg_publisher(asks[serving].box, says)
       \/ Asks(serving, "subscribe") /\ reg_subscriber(asks[serving].box, says)
    /\ hungUp' = IF says = "pipe closed" THEN hungUp \cup {serving} ELSE hungUp
    /\ worker' = "reading"
    /\ message' = EmptyLine
    /\ relayed' = FALSE
    /\ UNCHANGED <<pipe, stored>>

Serve ==
    /\ worker = "opened"
    /\ \E says \in Answer :
           \/ Asks(serving, "create") /\ ServeCreate(says)
           \/ Asks(serving, "remove") /\ ServeRemove(says)
           \/ Asks(serving, "list") /\ ServeList(says)
           \/ ServeSession(says)
    /\ UNCHANGED <<clientVars, serving, reg_pipe>>

(* The next record of an endless listing finds no manager any more.         *)
ListingDies ==
    /\ worker = "reading" /\ session.doing = "endless walk"
    /\ Asks(serving, "list") /\ Gone(serving)
    /\ worker' = "killed"
    /\ UNCHANGED <<registryVars, clientVars, serving, message, relayed, stored, reg_pipe, pipe,
                   hungUp>>

(* What a read() of 1024 bytes takes of a publisher's pipe, and what is     *)
(* left for the next: everything; or, for there is a line before the cut,   *)
(* the first k items, or the first k - 1 and a part of the k-th.  Twice cut,*)
(* nothing is left of a line but its end.                                   *)
Part(item, part) ==
    IF item.says = "line" THEN [item EXCEPT !.says = part]
    ELSE IF item.says = "tail" /\ part = "head" THEN item ELSE EmptyLine

Reads(items) ==
    LET cuts == {k \in DOMAIN items : \E i \in 1 .. k : items[i].says \in {"line", "tail"}}
        after(k) == SubSeq(items, k + 1, Len(items))
    IN  {[taken |-> items, left |-> <<>>]}
        \cup {[taken |-> SubSeq(items, 1, k), left |-> after(k)] : k \in cuts}
        \cup {[taken |-> Append(SubSeq(items, 1, k - 1), Part(items[k], "head")),
               left |-> <<Part(items[k], "tail")>> \o after(k)] : k \in cuts}

Parsed_FirstItem(items) == {IF items[1] = EmptyLine THEN message ELSE items[1]}

(* What sscanf() may make of a buffer: the text of its first line.  It      *)
(* matches nothing in an empty line, a lone confirmation or the tail of a   *)
(* line that does not happen to begin with a number, and the message stays  *)
(* what it was; but the confirmation is not terminated, and in a buffer     *)
(* that has not been cleared yet, the first read's, whatever malloc() left  *)
(* there follows it.                                                        *)
Parsed(items) ==
    LET line == {i \in DOMAIN items : items[i] # Confirmation}
        first == items[CHOOSE i \in line : \A j \in line : i <= j]
        nothing == IF line = {} /\ message = EmptyLine THEN {message, Leftover} ELSE {message}
    IN  IF line = {} \/ first = EmptyLine THEN nothing
        ELSE IF first.says = "tail" THEN nothing \cup {first} ELSE {first}

Cut(text) == [text EXCEPT !.says = "cut line"]

BoxFull_OneMore(items) ==
    \/ Len(items) > MAX_MESSAGES
    \/ \E i \in DOMAIN items : items[i].says = "cut line"

BoxFull(items) ==
    \/ Len(items) = MAX_MESSAGES
    \/ \E i \in DOMAIN items : items[i].says = "cut line"

(* The contents of a box after tfs_write() of a message at its end: a full  *)
(* box takes no more, and the message that fills it may be cut.  The loop   *)
(* goes on whatever tfs_write() returned.                                   *)
StoredIn(items, text) ==
    IF BoxFull(items) THEN {items} ELSE {Append(items, text), Append(items, Cut(text))}

(* One message of what read() takes is stored, and none when the message    *)
(* buffer is still empty.                                                   *)
StoreMessage ==
    /\ worker = "reading" /\ session.doing = "publishing" /\ pipe[serving] # <<>>
    /\ \E read \in Reads(pipe[serving]) :
           /\ pipe' = [pipe EXCEPT ![serving] = read.left]
           /\ message' \in Parsed(read.taken)
    /\ LET box == asks[serving].box
       IN  \/ /\ message' = EmptyLine
              /\ end_publisher
              /\ hungUp' = hungUp \cup {serving}
              /\ UNCHANGED stored
           \/ /\ message' # EmptyLine
              /\ \E items \in StoredIn(stored[box], message') :
                     stored' = [stored EXCEPT ![box] = items]
              /\ UNCHANGED <<registryVars, hungUp>>
    /\ UNCHANGED <<clientVars, worker, serving, relayed, reg_pipe>>

PublisherGone_OnlyIfDone ==
    /\ worker = "reading" /\ session.doing = "publishing"
    /\ pipe[serving] = <<>> /\ client[serving] = "done"
    /\ end_publisher
    /\ hungUp' = hungUp \cup {serving}
    /\ UNCHANGED <<clientVars, workerVars, reg_pipe, pipe>>

(* read() returns 0: the publisher closed its pipe.                         *)
PublisherGone ==
    /\ worker = "reading" /\ session.doing = "publishing"
    /\ pipe[serving] = <<>> /\ Gone(serving)
    /\ end_publisher
    /\ hungUp' = hungUp \cup {serving}
    /\ UNCHANGED <<clientVars, workerVars, reg_pipe, pipe>>

Relay_EachTime ==
    /\ worker = "reading" /\ session.doing = "relaying"
    /\ stored[asks[serving].box] # <<>>
    /\ ~Gone(serving)
    /\ pipe' = [pipe EXCEPT ![serving] = @ \o stored[asks[serving].box]]
    /\ UNCHANGED <<registryVars, clientVars, workerVars, reg_pipe, hungUp>>

(* The first tfs_read() returns the whole file; nothing can be added to it  *)
(* while the worker is here, and it polls for ever after.  The text is not  *)
(* terminated: what malloc() left behind it in the buffer may go with it.   *)
Relay ==
    /\ worker = "reading" /\ session.doing = "relaying"
    /\ ~relayed /\ stored[asks[serving].box] # <<>>
    /\ relayed' = TRUE
    /\ \/ Gone(serving) /\ worker' = "killed" /\ UNCHANGED pipe
       \/ /\ ~Gone(serving) /\ UNCHANGED worker
          /\ \E leftover \in {<<>>, <<Leftover>>} :
                 pipe' = [pipe EXCEPT ![serving] = @ \o stored[asks[serving].box] \o leftover]
    /\ UNCHANGED <<registryVars, clientVars, serving, message, stored, reg_pipe, hungUp>>

-----------------------------------------------------------------------------
Planned(c, request) ==
    \E plan \in Plans :
        /\ request \in plan[c]
        /\ \A d \in Client : client[d] # "not started" => asks[d] \in plan[d]

Registers ==
    \E c \in Client, code \in Code, box \in Box :
        Planned(c, [code |-> code, box |-> box]) /\ Register(c, code, box)

WorkerStep ==
    \/ ReadRequest \/ IterateForEver \/ OpenPipe \/ Serve \/ ListingDies
    \/ StoreMessage \/ PublisherGone \/ Relay

(* What a client does of itself once it has registered.                     *)
ClientStep(c) == ManagerReads(c) \/ SubscriberReads(c) \/ Confirm(c) \/ PublisherCloses(c)

MNext ==
    \/ Registers
    \/ WorkerStep
    \/ \E c \in Client : ClientStep(c) \/ Publish(c) \/ Withdraw(c) \/ Die(c)

MSpec == MInit /\ [][MNext]_vars

(* The worker and the clients keep running, and a publisher's input ends.   *)
Fairness == WF_vars(WorkerStep) /\ \A c \in Client : WF_vars(ClientStep(c))

FairSpec == MSpec /\ Fairness

-----------------------------------------------------------------------------
Place == {"not started", "opening", "open", "confirmed", "done", "withdrawn", "killed"}

Item == [says : Answer \cup {"confirmation", "empty line", "line", "head", "tail", "cut line",
                            "leftover"},
         n : 0 .. MaxLines, from : Client \cup {NULL}]

(* Processes are at places that exist, pipes hold what is written to them,  *)
(* and a box's file no more than it has room for.                           *)
BrokerTypeOK ==
    /\ client \in [Client -> Place]
    /\ asks \in [Client -> [code : Code \cup {"none"}, box : Box \cup {NULL}]]
    /\ reg_pipe \in Seq(Client)
    /\ worker \in {"reading", "opening", "opened", "killed"}
    /\ serving \in Client \cup {NULL}
    /\ hungUp \subseteq Client /\ relayed \in BOOLEAN
    /\ lines \in [Client -> 0 .. MaxLines]
    /\ message \in Item
    /\ pipe \in [Client -> Seq(Item)] /\ told \in [Client -> Seq(Item)]
    /\ stored \in [Box -> Seq(Item)]
    /\ \A b \in Box : Len(stored[b]) <= MAX_MESSAGES

Heard(c) == told[c] \o pipe[c]

ToldOK(code, box) ==
    {c \in Client : Asks(c, code) /\ asks[c].box = box /\ Heard(c) = <<Said("OK")>>}

(* The handles that remove_box() has lost are not all there are: the next   *)
(* request can open one.                                                    *)
HandleToSpare ==
    handles < MAX_OPEN_FILES + IF session.doing \in {"publishing", "relaying"} THEN 1 ELSE 0

(* Managers that race to create or remove a box get answers that fit        *)
(* together: of a box, one more creation than removals was confirmed if it  *)
(* exists, and as many if it does not.  (When no handle is left tfs_open()  *)
(* makes the file before it fails, and create_box() says nothing.)          *)
AnswersAccountForFiles ==
    worker # "killed" /\ HandleToSpare =>
        \A b \in Box : Cardinality(ToldOK("create", b)) - Cardinality(ToldOK("remove", b)) =
                           IF b \in files THEN 1 ELSE 0

(* What a box holds are lines that publishers of this box have written, in  *)
(* the order they wrote them, the lines of one session together, and no     *)
(* line follows one that was cut for want of room.  (Of a line that two     *)
(* read()s divided there may be its head or its tail; a session's first     *)
(* read may store an uninitialized buffer's leftover.)                      *)
MessagesInOrder ==
    \A b \in Box :
        LET text == {i \in DOMAIN stored[b] : stored[b][i].from # NULL}
        IN  /\ \A i \in DOMAIN stored[b] :
                   /\ stored[b][i].says \in {"line", "head", "tail", "cut line", "leftover"}
                   /\ stored[b][i].says = "cut line" => i = Len(stored[b])
            /\ \A i \in text :
                   /\ asks[stored[b][i].from] = [code |-> "publish", box |-> b]
                   /\ stored[b][i].n \in 1 .. lines[stored[b][i].from]
            /\ \A i, j \in text : i < j /\ stored[b][i].from = stored[b][j].from =>
                   /\ stored[b][i].n <= stored[b][j].n
                   /\ \A k \in i .. j : stored[b][k].from = stored[b][i].from

(* What a subscriber gets is what its box holds, once and in order, with at *)
(* most an unterminated buffer's leftover behind it.                        *)
SubscribersGetTheBox ==
    \A c \in Client : Asks(c, "subscribe") /\ Heard(c) # <<>> =>
        \E leftover \in {<<>>, <<Leftover>>} : Heard(c) = stored[asks[c].box] \o leftover

(* Only four things keep the worker from the next request: a client that    *)
(* ends while the worker waits in open() for it, a subscriber, a cycle in   *)
(* the list, and its own death.  A client that withdraws before does not.   *)
Stuck ==
    \/ worker = "killed"
    \/ worker = "opening" /\ client[serving] \in {"withdrawn", "killed"}
    \/ session.doing \in {"relaying", "endless walk"}

ServiceResumes == []<>(Stuck \/ (worker = "reading" /\ Reading))

(* mbroker.c:328: the write to a subscriber detects that its pipe is closed. *)
ClosedSubscriberDetected == worker = "killed" => ~Asks(serving, "subscribe")

(* A manager whose box cannot be made for want of room (mbroker.c:146).     *)
NoRoomFor(c) ==
    /\ client[c] = "open" /\ Asks(c, "create") /\ asks[c].box \notin files
    /\ ~HandleLeft \/ Cardinality(files) = MAX_FILES

(* Requests are not lost and handlers do not forget the client: every       *)
(* manager gets an answer and every other client comes to an end, unless    *)
(* the worker is stuck or there is no room for the box, which nobody tells  *)
(* the manager.                                                             *)
EveryoneServed ==
    \A c \in Client :
        client[c] = "opening" ~>
            \/ IF Manager(c) THEN client[c] = "done" /\ told[c] # <<>> ELSE Gone(c)
            \/ client[c] \in {"withdrawn", "killed"}
            \/ Stuck
            \/ NoRoomFor(c)

=============================================================================
