---------------------------- MODULE MBrokerProofs ----------------------------
(***************************************************************************)
(* The whole system proved for any number of clients, whatever they ask    *)
(* for, and whichever are killed.  Every step of it is a step of           *)
(* BoxRegistry or leaves the list and the file system alone, so that what  *)
(* BoxRegistryProofs shows of them holds here.  The invariants, each       *)
(* inductive with those above it:                                          *)
(*                                                                         *)
(*   ControlInv  where the worker and the clients are: a client's request  *)
(*               is in the register pipe, at the worker, or answered;      *)
(*   QuietInv    nobody hears of a request that no handler has been at,    *)
(*               so that each manager counts in one answer at most;        *)
(*   RelayInv    who has heard of a box is the subscriber that is served,  *)
(*               and has heard what the box holds;                         *)
(*   OrderInv    from the publisher's pipe through the message buffer to   *)
(*               the box, a session's lines are in their order.            *)
(***************************************************************************)
EXTENDS MBroker, BoxRegistryProofs, SequenceTheorems

Queued(c) == \E i \in 1 .. Len(reg_pipe) : reg_pipe[i] = c

(* The worker is at a client's request and no handler has answered it yet.  *)
BeingOpened(c) == worker \in {"opening", "opened"} /\ serving = c

(* No handler has been at the client's request.                             *)
Fresh(c) == client[c] = "not started" \/ Queued(c) \/ BeingOpened(c)

(* Who has started has asked for something, once.                           *)
ClientsInv ==
    \A c \in Client :
        /\ client[c] = "not started" => asks[c].code = "none" /\ pipe[c] = <<>> /\ told[c] = <<>>
        /\ client[c] # "not started" => asks[c].code \in Code /\ asks[c].box \in Box
        /\ client[c] = "confirmed" => Asks(c, "publish")
        /\ Manager(c) /\ client[c] # "done" => told[c] = <<>>

QueueInv ==
    /\ \A i \in 1 .. Len(reg_pipe) : client[reg_pipe[i]] # "not started"
    /\ \A i, j \in 1 .. Len(reg_pipe) : reg_pipe[i] = reg_pipe[j] => i = j

(* The client at hand is out of the queue; a session is with the client     *)
(* that asked for it.                                                       *)
WorkerInv ==
    /\ worker \in {"opening", "opened"} =>
           serving \in Client /\ client[serving] # "not started" /\ ~Queued(serving) /\ Reading
    /\ session.doing \in {"publishing", "relaying"} =>
           /\ serving \in Client /\ client[serving] # "not started" /\ ~Queued(serving)
           /\ worker \in {"reading", "killed"}
    /\ session.doing = "publishing" => Asks(serving, "publish")
    /\ session.doing = "relaying" => Asks(serving, "subscribe")

ControlInv == BrokerTypeOK /\ ClientsInv /\ QueueInv /\ WorkerInv

-----------------------------------------------------------------------------
(* Facts of the types.                                                      *)

LEMMA BrokerTypes ==
    ASSUME BrokerTypeOK
    PROVE  /\ client \in [Client -> Place]
           /\ asks \in [Client -> [code : Code \cup {"none"}, box : Box \cup {NULL}]]
           /\ reg_pipe \in Seq(Client)
           /\ serving \in Client \cup {NULL}
           /\ hungUp \subseteq Client /\ relayed \in BOOLEAN
           /\ lines \in [Client -> 0 .. MaxLines] /\ message \in Item
           /\ pipe \in [Client -> Seq(Item)] /\ told \in [Client -> Seq(Item)]
           /\ stored \in [Box -> Seq(Item)] /\ MaxLines \in Nat /\ MAX_MESSAGES \in Nat
           /\ NULL \notin Client
BY BrokerAssumption DEF BrokerTypeOK

(* What the broker writes to a pipe is an item.                             *)
LEMMA SaidIsItem == /\ \A says \in Answer : Said(says) \in Item
                    /\ Confirmation \in Item /\ EmptyLine \in Item /\ Leftover \in Item
<1>1. 0 \in 0 .. MaxLines
  BY BrokerAssumption
<1> QED
  BY <1>1 DEF Said, Item, Confirmation, EmptyLine, Leftover

-----------------------------------------------------------------------------
(* The whole system and the registry.                                       *)

(* The oldest request in the register pipe is a client's.                   *)
LEMMA OldestRequest ==
    ASSUME ControlInv, reg_pipe # <<>>
    PROVE  LET c == Head(reg_pipe)
           IN  c \in Client /\ client[c] # "not started" /\ asks[c].box \in Box
<1>1. reg_pipe \in Seq(Client) /\ Len(reg_pipe) \in Nat \ {0}
  BY BrokerTypes, EmptySeq, LenProperties DEF ControlInv
<1>2. Head(reg_pipe) \in Client /\ Head(reg_pipe) = reg_pipe[1] /\ 1 \in 1 .. Len(reg_pipe)
  BY <1>1, HeadTailProperties
<1>3. client[reg_pipe[1]] # "not started"
  BY <1>2 DEF ControlInv, QueueInv
<1> QED
  BY <1>2, <1>3 DEF ControlInv, ClientsInv

(* remove_box() that never comes to open() changes nothing but the worker's *)
(* place.                                                                   *)
LEMMA IterateIsAWalk ==
    ASSUME IterateForEver
    PROVE  UNCHANGED <<heap, avail, head, files, handles, lost>> /\ session'.doing = "endless walk"
<1>1. WalkOn
  BY DEF IterateForEver, IteratesForEver, remove_box, Hang
<1>2. session' = [doing |-> "endless walk", box |-> NULL]
  BY <1>1 DEF WalkOn
<1>3. session'.doing = "endless walk"
  BY ONLY <1>2
<1> QED
  BY <1>1, <1>3 DEF WalkOn, memoryVars

LEMMA StepOfRegistry ==
    ASSUME ControlInv, [MNext]_vars
    PROVE  [RegistryNext]_registryVars
<1>1. CASE Registers
  BY <1>1 DEF Registers, Register
<1>2. CASE ReadRequest \/ OpenPipe \/ ListingDies \/ PublisherGone \/ Relay
  BY <1>2 DEF ReadRequest, OpenPipe, ListingDies, PublisherGone, Relay, RegistryNext, Requests
<1>3. CASE Serve
  <2>1. asks[serving].box \in Box
    BY <1>3 DEF Serve, ControlInv, WorkerInv, ClientsInv
  <2>2. PICK says \in Answer :
            \/ ServeCreate(says) \/ ServeRemove(says) \/ ServeList(says) \/ ServeSession(says)
    BY <1>3 DEF Serve
  <2> QED
    BY <2>1, <2>2 DEF ServeCreate, ServeRemove, ServeList, ServeSession, RegistryNext, Requests
<1>4. CASE StoreMessage
  BY <1>4 DEF StoreMessage, RegistryNext, Requests
<1>5. CASE \E c \in Client : ClientStep(c) \/ Publish(c) \/ Withdraw(c) \/ Die(c)
  BY <1>5 DEF ClientStep, ManagerReads, SubscriberReads, Confirm, PublisherCloses, Publish,
              PublisherWrites, Withdraw, Die, Stops
<1>6. CASE UNCHANGED vars
  BY <1>6 DEF vars
<1>7. CASE IterateForEver
  <2>1. \E name \in Box : remove_box(name, "nothing")
    BY <1>7, OldestRequest DEF IterateForEver
  <2> QED
    BY <2>1 DEF RegistryNext, Requests, Answer
<1> QED
  BY <1>1, <1>2, <1>3, <1>4, <1>5, <1>6, <1>7 DEF MNext, WorkerStep

-----------------------------------------------------------------------------
(* What read() takes of a publisher's pipe and what it leaves: item i of    *)
(* what it takes is item i or a part of it, item j of what it leaves is     *)
(* item j + d or a part of it, and at most one item is on both sides.       *)

LEMMA PartIsItem ==
    ASSUME NEW item \in Item, NEW part \in {"head", "tail"}
    PROVE  /\ Part(item, part) \in Item
           /\ \/ Part(item, part) = EmptyLine
              \/ /\ Part(item, part).says \in {part, "tail"} /\ item.says \in {"line", "tail"}
                 /\ Part(item, part).from = item.from /\ Part(item, part).n = item.n
<1>1. [item EXCEPT !.says = part] \in Item
  BY DEF Item
<1>2. EmptyLine \in Item
  BY SaidIsItem
<1>3. CASE item.says = "line"
  <2>1. Part(item, part) = [item EXCEPT !.says = part]
    BY <1>3 DEF Part
  <2> QED
    BY <1>1, <1>3, <2>1 DEF Item
<1>4. CASE item.says # "line"
  BY <1>2, <1>4 DEF Part
<1> QED
  BY <1>3, <1>4

(* What is left of a pipe when k items have been taken.                     *)
LEMMA RestOfItems ==
    ASSUME NEW items \in Seq(Item), NEW k \in 1 .. Len(items)
    PROVE  /\ SubSeq(items, k + 1, Len(items)) \in Seq(Item)
           /\ Len(SubSeq(items, k + 1, Len(items))) = Len(items) - k
           /\ \A j \in 1 .. Len(items) - k : SubSeq(items, k + 1, Len(items))[j] = items[j + k]
<1> DEFINE n == Len(items)
           rest == SubSeq(items, k + 1, n)
<1>1. n \in Nat /\ k \in Int /\ \A i \in 1 .. n : items[i] \in Item
  BY LenProperties, ElementOfSeq
<1>2. k + 1 \in Int /\ n \in Int /\ \A i \in k + 1 .. n : items[i] \in Item
  BY <1>1
<1>3. /\ rest \in Seq(Item)
      /\ Len(rest) = IF k + 1 <= n THEN n - (k + 1) + 1 ELSE 0
      /\ \A i \in 1 .. n - (k + 1) + 1 : rest[i] = items[k + 1 + i - 1]
  BY <1>2, SubSeqProperties
<1> HIDE DEF rest, n
<1>4. Len(rest) = n - k
  BY <1>1, <1>3 DEF n
<1>5. ASSUME NEW j \in 1 .. n - k
      PROVE  rest[j] = items[j + k]
  <2>1. j \in 1 .. n - (k + 1) + 1 /\ k + 1 + j - 1 = j + k
    BY <1>1
  <2> QED
    BY <1>3, <2>1
<1> QED
  BY <1>3, <1>4, <1>5 DEF rest, n

(* A read takes the first items, the last of them perhaps in part.          *)
LEMMA ReadSplits ==
    ASSUME NEW items \in Seq(Item), NEW read \in Reads(items)
    PROVE  /\ read.taken \in Seq(Item) /\ read.left \in Seq(Item)
           /\ \E d \in 0 .. Len(items) :
                  /\ Len(read.taken) <= Len(items) /\ Len(read.taken) <= d + 1
                  /\ Len(read.left) = Len(items) - d
                  /\ \A i \in 1 .. Len(read.taken) :
                         read.taken[i] = items[i] \/ read.taken[i] = Part(items[i], "head")
                  /\ \A j \in 1 .. Len(read.left) :
                         read.left[j] = items[j + d] \/ read.left[j] = Part(items[j + d], "tail")
<1> DEFINE n == Len(items)
<1>1. n \in Nat /\ DOMAIN items = 1 .. n /\ \A i \in 1 .. n : items[i] \in Item
  BY LenProperties, ElementOfSeq
<1>2. CASE read = [taken |-> items, left |-> <<>>]
  <2>1. read.taken = items /\ read.left = <<>> /\ Len(<<>>) = 0 /\ <<>> \in Seq(Item)
    BY <1>2, EmptySeq
  <2>2. n \in 0 .. Len(items) /\ n <= n + 1 /\ Len(<<>>) = n - n /\ n <= Len(items)
    BY <1>1, <2>1
  <2>3. /\ \A i \in 1 .. Len(read.taken) : read.taken[i] = items[i]
        /\ \A j \in 1 .. Len(read.left) : FALSE
    BY <1>1, <2>1
  <2> QED
    BY <2>1, <2>2, <2>3
<1>3. ASSUME NEW k \in 1 .. n,
             read = [taken |-> SubSeq(items, 1, k), left |-> SubSeq(items, k + 1, n)]
      PROVE  /\ read.taken \in Seq(Item) /\ read.left \in Seq(Item)
             /\ Len(read.taken) = k /\ Len(read.left) = n - k
             /\ \A i \in 1 .. k : read.taken[i] = items[i]
             /\ \A j \in 1 .. n - k : read.left[j] = items[j + k]
  <2>1. read.taken = SubSeq(items, 1, k) /\ read.left = SubSeq(items, k + 1, n)
    BY <1>3
  <2>2. /\ SubSeq(items, 1, k) \in Seq(Item) /\ Len(SubSeq(items, 1, k)) = k
        /\ \A i \in 1 .. k : SubSeq(items, 1, k)[i] = items[i]
    <3>1. /\ 1 \in Int /\ k \in Int /\ \A i \in 1 .. k : items[i] \in Item
      BY <1>1
    <3>2. /\ SubSeq(items, 1, k) \in Seq(Item)
          /\ Len(SubSeq(items, 1, k)) = IF 1 <= k THEN k - 1 + 1 ELSE 0
          /\ \A i \in 1 .. k - 1 + 1 : SubSeq(items, 1, k)[i] = items[1 + i - 1]
      BY <3>1, SubSeqProperties
    <3> QED
      BY <3>2
  <2>3. /\ SubSeq(items, k + 1, n) \in Seq(Item) /\ Len(SubSeq(items, k + 1, n)) = n - k
        /\ \A j \in 1 .. n - k : SubSeq(items, k + 1, n)[j] = items[j + k]
    BY RestOfItems
  <2> QED
    BY <2>1, <2>2, <2>3
<1>4. ASSUME NEW k \in 1 .. n,
             read = [taken |-> Append(SubSeq(items, 1, k - 1), Part(items[k], "head")),
                     left |-> <<Part(items[k], "tail")>> \o SubSeq(items, k + 1, n)]
      PROVE  /\ read.taken \in Seq(Item) /\ read.left \in Seq(Item)
             /\ Len(read.taken) = k /\ Len(read.left) = n - (k - 1)
             /\ \A i \in 1 .. k : read.taken[i] = items[i] \/ read.taken[i] = Part(items[i], "head")
             /\ \A j \in 1 .. n - (k - 1) : \/ read.left[j] = items[j + (k - 1)]
                                            \/ read.left[j] = Part(items[j + (k - 1)], "tail")
  <2> DEFINE before == SubSeq(items, 1, k - 1)
             after == SubSeq(items, k + 1, n)
             h == Part(items[k], "head")
             t == Part(items[k], "tail")
  <2>1. read.taken = Append(before, h) /\ read.left = <<t>> \o after
    BY <1>4
  <2>2. h \in Item /\ t \in Item
    BY <1>1, PartIsItem
  <2>3. /\ before \in Seq(Item) /\ Len(before) = k - 1
        /\ \A i \in 1 .. k - 1 : before[i] = items[i]
    <3>1. /\ 1 \in Int /\ k - 1 \in Int /\ \A i \in 1 .. k - 1 : items[i] \in Item
      BY <1>1
    <3>2. /\ before \in Seq(Item)
          /\ Len(before) = IF 1 <= k - 1 THEN k - 1 - 1 + 1 ELSE 0
          /\ \A i \in 1 .. k - 1 - 1 + 1 : before[i] = items[1 + i - 1]
      BY <3>1, SubSeqProperties
    <3> QED
      BY <3>2
  <2>4. /\ after \in Seq(Item) /\ Len(after) = n - k
        /\ \A j \in 1 .. n - k : after[j] = items[j + k]
    BY RestOfItems
  <2>5. <<t>> \in Seq(Item) /\ Len(<<t>>) = 1 /\ <<t>>[1] = t
    BY <2>2
  <2> HIDE DEF before, after, h, t
  <2>6. /\ Append(before, h) \in Seq(Item) /\ Len(Append(before, h)) = k
        /\ \A i \in 1 .. k - 1 : Append(before, h)[i] = items[i]
        /\ Append(before, h)[k] = h
    <3>1. Len(before) + 1 = k
      BY <2>3
    <3> QED
      BY <2>2, <2>3, <3>1, AppendProperties
  <2>7. /\ <<t>> \o after \in Seq(Item) /\ Len(<<t>> \o after) = n - k + 1
        /\ \A j \in 1 .. n - k + 1 : (<<t>> \o after)[j] = IF j <= 1 THEN t ELSE after[j - 1]
    <3>1. /\ <<t>> \o after \in Seq(Item) /\ Len(<<t>> \o after) = Len(<<t>>) + Len(after)
          /\ \A j \in 1 .. Len(<<t>>) + Len(after) :
                 (<<t>> \o after)[j] = IF j <= Len(<<t>>) THEN <<t>>[j] ELSE after[j - Len(<<t>>)]
      BY <2>4, <2>5, ConcatProperties
    <3>2. Len(<<t>>) + Len(after) = n - k + 1
      BY <1>1, <2>4, <2>5
    <3> QED
      BY <2>5, <3>1, <3>2
  <2>8. ASSUME NEW j \in 1 .. n - (k - 1)
        PROVE  \/ (<<t>> \o after)[j] = items[j + (k - 1)]
               \/ (<<t>> \o after)[j] = Part(items[j + (k - 1)], "tail")
    <3>1. CASE j = 1
      BY <1>1, <2>7, <3>1 DEF t
    <3>2. CASE j # 1
      <4>1. j - 1 \in 1 .. n - k /\ (j - 1) + k = j + (k - 1) /\ ~(j <= 1) /\ j \in 1 .. n - k + 1
        BY <1>1, <3>2
      <4>2. after[j - 1] = items[j + (k - 1)]
        BY <2>4, <4>1
      <4> QED
        BY <2>7, <4>1, <4>2
    <3> QED
      BY <3>1, <3>2
  <2>9. \A i \in 1 .. k : Append(before, h)[i] = items[i] \/ Append(before, h)[i] = Part(items[i], "head")
    BY <2>6 DEF h
  <2> DEFINE taken == Append(before, h)
             left == <<t>> \o after
  <2>10. /\ taken \in Seq(Item) /\ Len(taken) = k
         /\ \A i \in 1 .. k : taken[i] = items[i] \/ taken[i] = Part(items[i], "head")
    BY <2>6, <2>9
  <2>11. left \in Seq(Item) /\ Len(left) = n - (k - 1)
    BY <1>1, <2>7
  <2>12. \A j \in 1 .. n - (k - 1) : \/ left[j] = items[j + (k - 1)]
                                     \/ left[j] = Part(items[j + (k - 1)], "tail")
    BY <2>8
  <2>13. read.taken = taken /\ read.left = left
    BY <2>1
  <2> HIDE DEF taken, left, n
  <2> QED
    BY <2>10, <2>11, <2>12, <2>13
<1>5. \/ read = [taken |-> items, left |-> <<>>]
      \/ \E k \in 1 .. n :
             \/ read = [taken |-> SubSeq(items, 1, k), left |-> SubSeq(items, k + 1, n)]
             \/ read = [taken |-> Append(SubSeq(items, 1, k - 1), Part(items[k], "head")),
                        left |-> <<Part(items[k], "tail")>> \o SubSeq(items, k + 1, n)]
  BY <1>1 DEF Reads
<1>6. CASE \E k \in 1 .. n :
               read = [taken |-> SubSeq(items, 1, k), left |-> SubSeq(items, k + 1, n)]
  <2>1. PICK k \in 1 .. n :
            read = [taken |-> SubSeq(items, 1, k), left |-> SubSeq(items, k + 1, n)]
    BY <1>6
  <2>2. k \in 0 .. Len(items) /\ k <= n /\ k <= k + 1
    BY <1>1
  <2> QED
    BY <1>1, <1>3, <2>1, <2>2
<1>7. CASE \E k \in 1 .. n :
               read = [taken |-> Append(SubSeq(items, 1, k - 1), Part(items[k], "head")),
                       left |-> <<Part(items[k], "tail")>> \o SubSeq(items, k + 1, n)]
  <2>1. PICK k \in 1 .. n :
            read = [taken |-> Append(SubSeq(items, 1, k - 1), Part(items[k], "head")),
                    left |-> <<Part(items[k], "tail")>> \o SubSeq(items, k + 1, n)]
    BY <1>7
  <2>2. k - 1 \in 0 .. Len(items) /\ k <= n /\ k <= (k - 1) + 1
    BY <1>1
  <2> QED
    BY <1>1, <1>4, <2>1, <2>2
<1> QED
  BY <1>2, <1>5, <1>6, <1>7

(* What sscanf() makes of a buffer is an item of it, or nothing new.        *)
LEMMA ParsedIs ==
    ASSUME NEW items \in Seq(Item), NEW text \in Parsed(items)
    PROVE  \/ text = message
           \/ text = Leftover /\ message = EmptyLine
           \/ \E i \in 1 .. Len(items) :
                  text = items[i] /\ items[i] # Confirmation /\ items[i] # EmptyLine
<1> DEFINE line == {i \in DOMAIN items : items[i] # Confirmation}
           least == CHOOSE i \in line : \A j \in line : i <= j
           nothing == IF line = {} /\ message = EmptyLine THEN {message, Leftover} ELSE {message}
<1>1. DOMAIN items = 1 .. Len(items) /\ Len(items) \in Nat
  BY LenProperties
<1>2. text \in IF line = {} \/ items[least] = EmptyLine THEN nothing
               ELSE IF items[least].says = "tail" THEN nothing \cup {items[least]}
               ELSE {items[least]}
  BY DEF Parsed
<1>3. text \in nothing \/ (line # {} /\ items[least] # EmptyLine /\ text = items[least])
  BY <1>2
<1>4. CASE text \in nothing
  BY <1>4
<1>5. CASE line # {} /\ items[least] # EmptyLine /\ text = items[least]
  <2>1. line \subseteq Nat
    BY <1>1
  <2>2. \E i \in line : \A j \in line : i <= j
    BY <1>5, <2>1, LeastElement
  <2>3. least \in line
    BY <2>2
  <2> QED
    BY <1>1, <1>5, <2>3
<1> QED
  BY <1>3, <1>4, <1>5

(* A box that is full keeps what it has, another gets one more.             *)
LEMMA StoredIs ==
    ASSUME NEW items \in Seq(Item), Len(items) <= MAX_MESSAGES, NEW text \in Item,
           NEW after \in StoredIn(items, text)
    PROVE  /\ after \in Seq(Item) /\ Len(after) <= MAX_MESSAGES
           /\ \/ after = items
              \/ /\ ~BoxFull(items)
                 /\ \E item \in {text, Cut(text)} : after = Append(items, item)
<1>1. Len(items) \in Nat /\ MAX_MESSAGES \in Nat
  BY LenProperties, BrokerAssumption
<1>2. Cut(text) \in Item
  BY DEF Cut, Item
<1>3. CASE BoxFull(items)
  BY <1>3 DEF StoredIn
<1>4. CASE ~BoxFull(items)
  <2>1. PICK item \in {text, Cut(text)} : after = Append(items, item)
    BY <1>4 DEF StoredIn
  <2>2. Append(items, item) \in Seq(Item) /\ Len(Append(items, item)) = Len(items) + 1
    BY <1>2, AppendProperties
  <2>3. Len(items) < MAX_MESSAGES
    <3>1. Len(items) # MAX_MESSAGES
      BY <1>4 DEF BoxFull
    <3> QED
      BY <1>1, <3>1
  <2> QED
    BY <1>1, <1>4, <2>1, <2>2, <2>3
<1> QED
  BY <1>3, <1>4

-----------------------------------------------------------------------------
(* Types.                                                                   *)

LEMMA ClientTypes ==
    ASSUME BrokerTypeOK, NEW c \in Client, ClientStep(c) \/ Publish(c) \/ Withdraw(c) \/ Die(c)
    PROVE  BrokerTypeOK'
<1>1. /\ UNCHANGED <<asks, reg_pipe, worker, serving, hungUp, message, relayed, stored>>
  BY DEF ClientStep, ManagerReads, SubscriberReads, Confirm, PublisherCloses, Publish,
         PublisherWrites, Withdraw, Die, Stops, workerVars
<1>2. /\ client \in [Client -> Place] /\ pipe \in [Client -> Seq(Item)]
      /\ told \in [Client -> Seq(Item)] /\ lines \in [Client -> 0 .. MaxLines]
      /\ pipe[c] \in Seq(Item) /\ told[c] \in Seq(Item) /\ <<>> \in Seq(Item)
      /\ lines[c] \in 0 .. MaxLines /\ MaxLines \in Nat
  BY BrokerTypes, EmptySeq
<1>3. CASE ManagerReads(c) \/ PublisherCloses(c) \/ Withdraw(c) \/ Die(c)
  <2>1. \E place \in {"done", "withdrawn", "killed"} : client' = [client EXCEPT ![c] = place]
    BY <1>3 DEF ManagerReads, PublisherCloses, Withdraw, Die, Stops
  <2>2. client' \in [Client -> Place]
    BY <1>2, <2>1 DEF Place
  <2>3. lines' = lines
    BY <1>3 DEF ManagerReads, PublisherCloses, Withdraw, Die, Stops
  <2>4. \/ pipe' = pipe /\ told' = told
        \/ told' = [told EXCEPT ![c] = pipe[c]] /\ pipe' = [pipe EXCEPT ![c] = <<>>]
    BY <1>3 DEF ManagerReads, PublisherCloses, Withdraw, Die, Stops
  <2>5. pipe' \in [Client -> Seq(Item)] /\ told' \in [Client -> Seq(Item)]
    BY <1>2, <2>4
  <2> QED
    BY ONLY BrokerTypeOK, <1>1, <2>2, <2>3, <2>5 DEF BrokerTypeOK
<1>4. CASE SubscriberReads(c)
  <2>1. told[c] \o pipe[c] \in Seq(Item)
    BY <1>2, ConcatProperties
  <2> QED
    BY <1>1, <1>2, <1>4, <2>1 DEF SubscriberReads, BrokerTypeOK, Place
<1>5. ASSUME NEW item \in Item, PublisherWrites(c, item, "confirmed"),
             lines' \in [Client -> 0 .. MaxLines]
      PROVE  BrokerTypeOK'
  <2>1. Append(pipe[c], item) \in Seq(Item)
    BY <1>2, AppendProperties
  <2> QED
    BY <1>1, <1>2, <1>5, <2>1 DEF PublisherWrites, BrokerTypeOK, Place
<1>6. CASE Confirm(c)
  BY <1>2, <1>5, <1>6, SaidIsItem DEF Confirm
<1>7. CASE Publish(c)
  <2>1. lines[c] + 1 \in 0 .. MaxLines
    BY <1>2, <1>7 DEF Publish
  <2>2. lines' \in [Client -> 0 .. MaxLines]
    BY <1>2, <1>7, <2>1 DEF Publish
  <2>3. Line(c) \in Item
    BY <2>1 DEF Line, Item
  <2> QED
    BY <1>5, <1>7, <2>2, <2>3, SaidIsItem DEF Publish
<1> QED
  BY <1>3, <1>4, <1>6, <1>7 DEF ClientStep

(* Types after an answer ...                                                *)
LEMMA ReplyTypes ==
    ASSUME BrokerTypeOK, serving \in Client, NEW says \in Answer, Reply(says)
    PROVE  worker' \in {"reading", "killed"} /\ pipe' \in [Client -> Seq(Item)]
<1>1. pipe \in [Client -> Seq(Item)] /\ Said(says) \in Item
  BY BrokerTypes, SaidIsItem
<1>2. Append(pipe[serving], Said(says)) \in Seq(Item)
  BY <1>1, AppendProperties
<1> QED
  BY <1>1, <1>2 DEF Reply

(* ... a step of the worker ...                                             *)
LEMMA WorkerTypes ==
    ASSUME BrokerTypeOK, ClientsInv, WorkerInv, WorkerStep
    PROVE  BrokerTypeOK'
<1>1. /\ client \in [Client -> Place] /\ pipe \in [Client -> Seq(Item)]
      /\ stored \in [Box -> Seq(Item)] /\ reg_pipe \in Seq(Client)
      /\ hungUp \subseteq Client /\ message \in Item /\ EmptyLine \in Item
      /\ <<>> \in Seq(Item) /\ <<Leftover>> \in Seq(Item) /\ Len(<<>>) = 0
      /\ MAX_MESSAGES \in Nat
  BY BrokerTypes, EmptySeq, SaidIsItem
<1>2. CASE ReadRequest \/ IterateForEver
  <2>1. Head(reg_pipe) \in Client /\ Tail(reg_pipe) \in Seq(Client)
    BY <1>1, <1>2, HeadTailProperties DEF ReadRequest, IterateForEver
  <2>2. /\ UNCHANGED <<clientVars, message, relayed, stored, pipe, hungUp>>
        /\ serving' = Head(reg_pipe) /\ reg_pipe' = Tail(reg_pipe)
        /\ worker' \in {"reading", "opening"}
    BY <1>2 DEF ReadRequest, IterateForEver
  <2> QED
    BY <1>1, <2>1, <2>2 DEF BrokerTypeOK, clientVars
<1>3. CASE OpenPipe \/ ListingDies
  BY <1>1, <1>3 DEF OpenPipe, ListingDies, BrokerTypeOK, Place, clientVars
<1>4. CASE Serve
  <2>1. serving \in Client /\ asks[serving].box \in Box /\ UNCHANGED <<clientVars, serving, reg_pipe>>
    BY <1>4 DEF Serve, WorkerInv, ClientsInv
  <2>2. PICK says \in Answer :
            \/ ServeCreate(says) \/ ServeRemove(says) \/ ServeList(says) \/ ServeSession(says)
    BY <1>4 DEF Serve
  <2>3. /\ worker' \in {"reading", "killed"} /\ pipe' \in [Client -> Seq(Item)]
        /\ hungUp' \subseteq Client /\ message' \in Item /\ relayed' \in BOOLEAN
    BY <1>1, <2>1, <2>2, ReplyTypes, BrokerTypes
       DEF ServeCreate, ServeRemove, ServeList, ServeSession
  <2>4. stored' = stored \/ stored' = [stored EXCEPT ![asks[serving].box] = <<>>]
    BY <2>2 DEF ServeCreate, ServeRemove, ServeList, ServeSession
  <2>5. stored' \in [Box -> Seq(Item)]
    BY <1>1, <2>4
  <2>6. ASSUME NEW b \in Box
        PROVE  Len(stored'[b]) <= MAX_MESSAGES
    <3>1. stored'[b] = stored[b] \/ stored'[b] = <<>>
      BY <1>1, <2>4
    <3>2. Len(stored[b]) <= MAX_MESSAGES
      BY DEF BrokerTypeOK
    <3> QED
      BY <1>1, <3>1, <3>2
  <2> QED
    BY <2>1, <2>3, <2>5, <2>6 DEF BrokerTypeOK, clientVars
<1>5. CASE StoreMessage
  <2> DEFINE box == asks[serving].box
  <2>1. /\ session.doing = "publishing" /\ serving \in Client /\ box \in Box
        /\ UNCHANGED <<clientVars, worker, serving, relayed, reg_pipe>>
    BY <1>5 DEF StoreMessage, WorkerInv, ClientsInv
  <2>2. PICK read \in Reads(pipe[serving]) : /\ pipe' = [pipe EXCEPT ![serving] = read.left]
                                             /\ message' \in Parsed(read.taken)
    BY <1>5 DEF StoreMessage
  <2>3. read.taken \in Seq(Item) /\ read.left \in Seq(Item)
    BY <1>1, <2>1, ReadSplits
  <2>4. message' \in Item
    <3>1. \A i \in 1 .. Len(read.taken) : read.taken[i] \in Item
      BY <2>3, ElementOfSeq
    <3>2. \/ message' = message \/ message' = Leftover
          \/ \E i \in 1 .. Len(read.taken) : message' = read.taken[i]
      BY <2>2, <2>3, ParsedIs
    <3> QED
      BY <1>1, <3>1, <3>2, SaidIsItem
  <2>5. hungUp' \subseteq Client
    BY <1>1, <1>5, <2>1 DEF StoreMessage
  <2>6. stored' \in [Box -> Seq(Item)] /\ \A b \in Box : Len(stored'[b]) <= MAX_MESSAGES
    <3>1. CASE stored' = stored
      BY <1>1, <3>1 DEF BrokerTypeOK
    <3>2. CASE \E items \in StoredIn(stored[box], message') : stored' = [stored EXCEPT ![box] = items]
      <4>1. PICK items \in StoredIn(stored[box], message') : stored' = [stored EXCEPT ![box] = items]
        BY <3>2
      <4>2. stored[box] \in Seq(Item) /\ Len(stored[box]) <= MAX_MESSAGES
        BY <1>1, <2>1 DEF BrokerTypeOK
      <4>3. items \in Seq(Item) /\ Len(items) <= MAX_MESSAGES
        BY <2>4, <4>2, StoredIs
      <4> QED
        BY <1>1, <2>1, <4>1, <4>3 DEF BrokerTypeOK
    <3> QED
      BY <1>5, <3>1, <3>2 DEF StoreMessage
  <2>7. pipe' \in [Client -> Seq(Item)]
    BY <1>1, <2>1, <2>2, <2>3
  <2> QED
    BY <2>1, <2>4, <2>5, <2>6, <2>7 DEF BrokerTypeOK, clientVars
<1>6. CASE PublisherGone
  BY <1>1, <1>6 DEF PublisherGone, BrokerTypeOK, clientVars, workerVars, WorkerInv
<1>7. CASE Relay
  <2> DEFINE box == asks[serving].box
  <2>1. /\ session.doing = "relaying" /\ serving \in Client /\ box \in Box
        /\ UNCHANGED <<clientVars, serving, message, stored, reg_pipe, hungUp>>
        /\ relayed' = TRUE /\ worker' \in {worker, "killed"}
    BY <1>7 DEF Relay, WorkerInv, ClientsInv
  <2>2. pipe' = pipe \/ \E leftover \in {<<>>, <<Leftover>>} :
                            pipe' = [pipe EXCEPT ![serving] = @ \o stored[box] \o leftover]
    BY <1>7 DEF Relay
  <2>3. ASSUME NEW leftover \in {<<>>, <<Leftover>>}
        PROVE  pipe[serving] \o stored[box] \o leftover \in Seq(Item)
    <3>1. pipe[serving] \in Seq(Item) /\ stored[box] \in Seq(Item) /\ leftover \in Seq(Item)
      BY <1>1, <2>1
    <3>2. pipe[serving] \o stored[box] \in Seq(Item)
      BY <3>1, ConcatProperties
    <3> QED
      BY <3>1, <3>2, ConcatProperties
  <2>4. pipe' \in [Client -> Seq(Item)]
    BY <1>1, <2>1, <2>2, <2>3
  <2> QED
    BY <2>1, <2>4 DEF BrokerTypeOK, clientVars
<1> QED
  BY <1>2, <1>3, <1>4, <1>5, <1>6, <1>7 DEF WorkerStep

(* ... and a client that registers.                                         *)
LEMMA RegisterTypes ==
    ASSUME BrokerTypeOK, NEW c \in Client, NEW code \in Code, NEW box \in Box, Register(c, code, box)
    PROVE  BrokerTypeOK'
<1>1. Append(reg_pipe, c) \in Seq(Client)
  BY BrokerTypes, AppendProperties
<1> QED
  BY <1>1, BrokerTypes DEF Register, BrokerTypeOK, Place, workerVars

-----------------------------------------------------------------------------
(* Control: who is started, queued and served.                              *)

LEMMA ClientControl ==
    ASSUME ControlInv, NEW c \in Client, ClientStep(c) \/ Publish(c) \/ Withdraw(c) \/ Die(c)
    PROVE  /\ ControlInv' /\ UNCHANGED <<registryVars, asks, reg_pipe, worker, serving>>
           /\ client[c] # "not started" /\ client'[c] # "not started"
           /\ \A d \in Client \ {c} : client'[d] = client[d] /\ pipe'[d] = pipe[d] /\ told'[d] = told[d]
<1>1. /\ client \in [Client -> Place] /\ pipe \in [Client -> Seq(Item)]
      /\ told \in [Client -> Seq(Item)]
  BY BrokerTypes DEF ControlInv
<1>2. UNCHANGED <<registryVars, asks, reg_pipe, worker, serving>>
  BY DEF ClientStep, ManagerReads, SubscriberReads, Confirm, PublisherCloses, Publish,
         PublisherWrites, Withdraw, Die, Stops, workerVars
<1>3. \/ client' = client /\ client[c] = "open"
      \/ /\ client[c] \in {"opening", "open", "confirmed"}
         /\ \E place \in {"confirmed", "done", "withdrawn", "killed"} :
                client' = [client EXCEPT ![c] = place]
  BY DEF ClientStep, ManagerReads, SubscriberReads, Confirm, PublisherCloses, Publish,
         PublisherWrites, Withdraw, Die, Stops
<1>4. \E items : pipe' = [pipe EXCEPT ![c] = items]
  <2>1. CASE pipe' = pipe
    BY <1>1, <2>1
  <2>2. CASE pipe' # pipe
    BY <2>2 DEF ClientStep, ManagerReads, SubscriberReads, Confirm, PublisherCloses, Publish,
                PublisherWrites, Withdraw, Die, Stops
  <2> QED
    BY <2>1, <2>2
<1>5. \E items : told' = [told EXCEPT ![c] = items]
  <2>1. CASE told' = told
    BY <1>1, <2>1
  <2>2. CASE told' # told
    BY <2>2 DEF ClientStep, ManagerReads, SubscriberReads, Confirm, PublisherCloses, Publish,
                PublisherWrites, Withdraw, Die, Stops
  <2> QED
    BY <2>1, <2>2
<1>6. /\ client[c] # "not started" /\ client'[c] # "not started"
      /\ \A d \in Client \ {c} : client'[d] = client[d] /\ pipe'[d] = pipe[d] /\ told'[d] = told[d]
  BY <1>1, <1>3, <1>4, <1>5
<1>7. client'[c] = "confirmed" => Asks(c, "publish")
  <2>1. CASE Confirm(c)
    BY <2>1 DEF Confirm
  <2>2. CASE client[c] = "confirmed"
    BY <2>2 DEF ControlInv, ClientsInv
  <2>3. CASE ~Confirm(c) /\ client[c] # "confirmed"
    BY <1>1, <2>3 DEF ClientStep, ManagerReads, SubscriberReads, PublisherCloses, Publish,
                      Withdraw, Die, Stops
  <2> QED
    BY <2>1, <2>2, <2>3
<1>8. Manager(c) /\ client'[c] # "done" => told'[c] = <<>>
  <2>1. ~ManagerReads(c) /\ ~SubscriberReads(c) => told' = told
    BY DEF ClientStep, Confirm, PublisherCloses, Publish, PublisherWrites, Withdraw, Die, Stops
  <2>2. ManagerReads(c) => client'[c] = "done"
    BY <1>1 DEF ManagerReads
  <2>3. SubscriberReads(c) => ~Manager(c)
    BY DEF SubscriberReads, Asks, Manager
  <2>4. Manager(c) => told[c] = <<>>
    BY <1>3 DEF ControlInv, ClientsInv
  <2> QED
    BY <2>1, <2>2, <2>3, <2>4
<1>9. ClientsInv'
  <2> SUFFICES ASSUME NEW d \in Client
               PROVE  /\ client'[d] = "not started" =>
                             asks'[d].code = "none" /\ pipe'[d] = <<>> /\ told'[d] = <<>>
                      /\ client'[d] # "not started" => asks'[d].code \in Code /\ asks'[d].box \in Box
                      /\ client'[d] = "confirmed" => Asks(d, "publish")'
                      /\ Manager(d)' /\ client'[d] # "done" => told'[d] = <<>>
    BY DEF ClientsInv
  <2>1. CASE d = c
    BY <1>2, <1>6, <1>7, <1>8, <2>1 DEF ControlInv, ClientsInv, Manager, Asks
  <2>2. CASE d # c
    BY <1>2, <1>6, <2>2 DEF ControlInv, ClientsInv, Manager, Asks
  <2> QED
    BY <2>1, <2>2
<1>10. \A d \in Client : client'[d] = "not started" <=> client[d] = "not started"
  BY <1>6
<1>11. QueueInv'
  <2>1. \A i \in 1 .. Len(reg_pipe) : reg_pipe[i] \in Client
    BY BrokerTypes, ElementOfSeq DEF ControlInv
  <2> QED
    BY <1>2, <1>10, <2>1 DEF ControlInv, QueueInv
<1>12. WorkerInv'
  <2>1. session' = session
    BY <1>2 DEF registryVars
  <2> QED
    BY <1>2, <1>10, <2>1 DEF ControlInv, WorkerInv, Queued, Reading, Asks
<1> QED
  BY <1>2, <1>6, <1>9, <1>11, <1>12, ClientTypes DEF ControlInv

(* A client that registers has one request in the pipe.                     *)
LEMMA RegisterControl ==
    ASSUME ControlInv, NEW c \in Client, NEW code \in Code, NEW box \in Box, Register(c, code, box)
    PROVE  /\ ControlInv' /\ UNCHANGED <<registryVars, worker, serving, pipe, told>>
           /\ client[c] = "not started"
           /\ client'[c] = "opening" /\ asks'[c] = [code |-> code, box |-> box]
           /\ \A d \in Client \ {c} : client'[d] = client[d] /\ asks'[d] = asks[d]
           /\ \A d \in Client : Queued(d)' <=> Queued(d) \/ d = c
<1>1. /\ client \in [Client -> Place] /\ reg_pipe \in Seq(Client) /\ Len(reg_pipe) \in Nat
      /\ asks \in [Client -> [code : Code \cup {"none"}, box : Box \cup {NULL}]]
  BY BrokerTypes, LenProperties DEF ControlInv
<1>2. /\ client[c] = "not started"
      /\ UNCHANGED <<registryVars, worker, serving, pipe, told>>
  BY DEF Register, workerVars
<1>3. /\ client'[c] = "opening" /\ asks'[c] = [code |-> code, box |-> box]
      /\ \A d \in Client \ {c} : client'[d] = client[d] /\ asks'[d] = asks[d]
  BY <1>1 DEF Register
<1>4. /\ Len(reg_pipe') = Len(reg_pipe) + 1 /\ reg_pipe'[Len(reg_pipe) + 1] = c
      /\ \A i \in 1 .. Len(reg_pipe) : reg_pipe'[i] = reg_pipe[i]
  <2>1. reg_pipe' = Append(reg_pipe, c)
    BY DEF Register
  <2> QED
    BY <1>1, <2>1, AppendProperties
<1>5. \A i \in 1 .. Len(reg_pipe') : i \in 1 .. Len(reg_pipe) \/ i = Len(reg_pipe) + 1
  BY <1>1, <1>4
<1>6. \A d \in Client : Queued(d)' <=> Queued(d) \/ d = c
  <2> SUFFICES ASSUME NEW d \in Client
               PROVE  Queued(d)' <=> Queued(d) \/ d = c
    OBVIOUS
  <2>1. Queued(d)' => Queued(d) \/ d = c
    BY <1>4, <1>5 DEF Queued
  <2>2. Queued(d) => Queued(d)'
    BY <1>1, <1>4 DEF Queued
  <2>3. Queued(c)'
    <3>1. Len(reg_pipe) + 1 \in 1 .. Len(reg_pipe')
      BY <1>1, <1>4
    <3> QED
      BY <1>4, <3>1 DEF Queued
  <2> QED
    BY <2>1, <2>2, <2>3
<1>7. ~Queued(c)
  BY <1>2 DEF ControlInv, QueueInv, Queued
<1>8. QueueInv'
  <2>1. \A i \in 1 .. Len(reg_pipe) : reg_pipe[i] # c /\ reg_pipe[i] \in Client
    BY <1>1, <1>7, ElementOfSeq DEF Queued
  <2>2. \A i \in 1 .. Len(reg_pipe') : client'[reg_pipe'[i]] # "not started"
    <3> SUFFICES ASSUME NEW i \in 1 .. Len(reg_pipe')
                 PROVE  client'[reg_pipe'[i]] # "not started"
      OBVIOUS
    <3>1. CASE i \in 1 .. Len(reg_pipe)
      <4>1. reg_pipe[i] \in Client \ {c} /\ client[reg_pipe[i]] # "not started"
        BY <2>1, <3>1 DEF ControlInv, QueueInv
      <4> QED
        BY <1>3, <1>4, <3>1, <4>1
    <3>2. CASE i = Len(reg_pipe) + 1
      BY <1>3, <1>4, <3>2
    <3> QED
      BY <1>5, <3>1, <3>2
  <2>3. \A i, j \in 1 .. Len(reg_pipe') : reg_pipe'[i] = reg_pipe'[j] => i = j
    BY <1>4, <1>5, <2>1 DEF ControlInv, QueueInv
  <2> QED
    BY <2>2, <2>3 DEF QueueInv
<1>9. ClientsInv'
  <2> SUFFICES ASSUME NEW d \in Client
               PROVE  /\ client'[d] = "not started" =>
                             asks'[d].code = "none" /\ pipe'[d] = <<>> /\ told'[d] = <<>>
                      /\ client'[d] # "not started" => asks'[d].code \in Code /\ asks'[d].box \in Box
                      /\ client'[d] = "confirmed" => Asks(d, "publish")'
                      /\ Manager(d)' /\ client'[d] # "done" => told'[d] = <<>>
    BY DEF ClientsInv
  <2>1. CASE d = c
    <3>1. told'[c] = <<>>
      BY <1>2 DEF ControlInv, ClientsInv
    <3>2. asks'[c].code = code /\ asks'[c].box = box
      BY <1>3
    <3> QED
      BY <1>3, <2>1, <3>1, <3>2
  <2>2. CASE d # c
    BY <1>2, <1>3, <2>2 DEF ControlInv, ClientsInv, Manager, Asks
  <2> QED
    BY <2>1, <2>2
<1>10. WorkerInv'
  <2>1. session' = session
    BY <1>2 DEF registryVars
  <2> QED
    BY <1>2, <1>3, <1>6, <2>1 DEF ControlInv, WorkerInv, Reading, Asks
<1> QED
  BY <1>2, <1>3, <1>6, <1>8, <1>9, <1>10, RegisterTypes DEF ControlInv

(* Which handler begins which session.                                      *)
LEMMA HandlerSessions ==
    ASSUME NEW box, NEW says
    PROVE  /\ create_box(box, says) \/ remove_box(box, says) \/ list_box(says) =>
                  Reading /\ session'.doing \in {"reading requests", "endless walk"}
           /\ reg_publisher(box, says) =>
                  Reading /\ session'.doing \in {"reading requests", "endless walk", "publishing"}
           /\ reg_subscriber(box, says) =>
                  Reading /\ session'.doing \in {"reading requests", "endless walk", "relaying"}
<1>1. ASSUME WalkOn
      PROVE  session'.doing = "endless walk"
  <2>1. session' = [doing |-> "endless walk", box |-> NULL]
    BY <1>1 DEF WalkOn
  <2> QED
    BY ONLY <2>1
<1>2. create_box(box, says) => Reading /\ (WalkOn \/ session' = session)
  BY DEF create_box, Hang
<1>3. remove_box(box, says) => Reading /\ (WalkOn \/ session' = session)
  BY DEF remove_box, Hang
<1>4. list_box(says) => Reading /\ (WalkOn \/ session' = session)
  BY DEF list_box, registryVars
<1>5. reg_publisher(box, says) =>
          /\ Reading
          /\ WalkOn \/ session' = session \/ \E n : session' = [doing |-> "publishing", box |-> n]
  BY DEF reg_publisher, Hang
<1>6. reg_subscriber(box, says) =>
          /\ Reading
          /\ WalkOn \/ session' = session \/ \E n : session' = [doing |-> "relaying", box |-> n]
  BY DEF reg_subscriber, Hang
<1>7. \A n : /\ [doing |-> "publishing", box |-> n].doing = "publishing"
              /\ [doing |-> "relaying", box |-> n].doing = "relaying"
  OBVIOUS
<1>8. create_box(box, says) \/ remove_box(box, says) \/ list_box(says) =>
          Reading /\ session'.doing \in {"reading requests", "endless walk"}
  BY <1>1, <1>2, <1>3, <1>4 DEF Reading
<1>9. reg_publisher(box, says) =>
          Reading /\ session'.doing \in {"reading requests", "endless walk", "publishing"}
  BY <1>1, <1>5, <1>7 DEF Reading
<1>10. reg_subscriber(box, says) =>
           Reading /\ session'.doing \in {"reading requests", "endless walk", "relaying"}
  BY <1>1, <1>6, <1>7 DEF Reading
<1> QED
  BY <1>8, <1>9, <1>10

(* A step of the worker, after which clients are where they were.           *)
LEMMA SameClients ==
    ASSUME ControlInv, UNCHANGED <<clientVars, reg_pipe>>,
           \A c \in Client : client[c] = "not started" => pipe'[c] = pipe[c]
    PROVE  ClientsInv' /\ QueueInv'
<1>1. UNCHANGED <<client, asks, told, lines, reg_pipe>>
  BY DEF clientVars
<1> QED
  BY <1>1 DEF ControlInv, ClientsInv, QueueInv, Manager, Asks

(* The request that is read is the worker's from then on.                   *)
LEMMA ReadRequestControl ==
    ASSUME ControlInv, ReadRequest \/ IterateForEver
    PROVE  /\ ControlInv' /\ UNCHANGED <<files, clientVars, message, relayed, stored, pipe>>
           /\ Reading /\ session'.doing \in {"reading requests", "endless walk"}
           /\ \A c \in Client : Fresh(c)' => Fresh(c)
<1> DEFINE c == Head(reg_pipe)
<1>1. reg_pipe \in Seq(Client) /\ Len(reg_pipe) \in Nat /\ reg_pipe # <<>>
  BY BrokerTypes, LenProperties DEF ControlInv, ReadRequest, IterateForEver
<1>2. /\ UNCHANGED <<clientVars, message, relayed, stored, pipe>>
      /\ worker' \in {"reading", "opening"} /\ serving' = c /\ Reading /\ worker = "reading"
  BY DEF ReadRequest, IterateForEver
<1>3. /\ c \in Client /\ c = reg_pipe[1] /\ 1 \in 1 .. Len(reg_pipe)
      /\ Len(reg_pipe') = Len(reg_pipe) - 1
      /\ \A i \in 1 .. Len(reg_pipe') : reg_pipe'[i] = reg_pipe[i + 1]
      /\ reg_pipe' \in Seq(Client)
  <2>1. reg_pipe' = Tail(reg_pipe)
    BY DEF ReadRequest, IterateForEver
  <2>2. Len(reg_pipe) \in Nat \ {0}
    BY <1>1, EmptySeq
  <2> QED
    BY <1>1, <2>1, <2>2, HeadTailProperties
<1>4. \A i \in 1 .. Len(reg_pipe') : i + 1 \in 1 .. Len(reg_pipe)
  BY <1>1, <1>3
<1>5. UNCHANGED <<client, asks, told>>
  BY <1>2 DEF clientVars
<1>6. QueueInv'
  <2>1. \A i \in 1 .. Len(reg_pipe') : client'[reg_pipe'[i]] # "not started"
    <3> SUFFICES ASSUME NEW i \in 1 .. Len(reg_pipe')
                 PROVE  client'[reg_pipe'[i]] # "not started"
      OBVIOUS
    <3>1. client[reg_pipe[i + 1]] # "not started"
      BY <1>4 DEF ControlInv, QueueInv
    <3> QED
      BY <1>3, <1>5, <3>1
  <2>2. ASSUME NEW i \in 1 .. Len(reg_pipe'), NEW j \in 1 .. Len(reg_pipe'),
               reg_pipe'[i] = reg_pipe'[j]
        PROVE  i = j
    <3>1. reg_pipe[i + 1] = reg_pipe[j + 1]
      BY <1>3, <2>2
    <3>2. i + 1 = j + 1
      BY <1>4, <3>1 DEF ControlInv, QueueInv
    <3> QED
      BY <1>1, <1>3, <3>2
  <2> QED
    BY <2>1, <2>2 DEF QueueInv
<1>7. \A i \in 1 .. Len(reg_pipe') : reg_pipe'[i] # c
  <2> SUFFICES ASSUME NEW i \in 1 .. Len(reg_pipe'), reg_pipe'[i] = c
               PROVE  FALSE
    OBVIOUS
  <2>1. reg_pipe[i + 1] = reg_pipe[1]
    BY <1>3
  <2>2. i + 1 = 1
    BY <1>3, <1>4, <2>1 DEF ControlInv, QueueInv
  <2> QED
    BY <1>1, <1>3, <2>2
<1>8. client[c] # "not started"
  BY <1>3 DEF ControlInv, QueueInv
<1>9. /\ files' = files /\ session'.doing \in {"reading requests", "endless walk"}
      /\ worker' = "reading" \/ session' = session
  <2>1. CASE ReadRequest
    BY <2>1 DEF ReadRequest, registryVars, Reading
  <2>2. CASE IterateForEver
    BY <2>2, IterateIsAWalk DEF IterateForEver
  <2> QED
    BY <2>1, <2>2
<1> HIDE DEF c
<1>10. ClientsInv'
  BY <1>2, <1>5 DEF ControlInv, ClientsInv, Manager, Asks
<1>11. WorkerInv'
  <2>1. session.doing = "reading requests"
    BY <1>2 DEF Reading
  <2> QED
    BY <1>2, <1>3, <1>5, <1>7, <1>8, <1>9, <2>1 DEF WorkerInv, Queued, Reading
<1>12. ASSUME NEW d \in Client, Fresh(d)'
       PROVE  Fresh(d)
  <2>1. CASE client'[d] = "not started"
    BY <1>5, <2>1 DEF Fresh
  <2>2. CASE Queued(d)'
    BY <1>3, <1>4, <2>2 DEF Queued, Fresh
  <2>3. CASE BeingOpened(d)'
    BY <1>2, <1>3, <2>3 DEF BeingOpened, Queued, Fresh
  <2> QED
    BY <1>12, <2>1, <2>2, <2>3 DEF Fresh
<1>13. ControlInv'
  <2>1. BrokerTypeOK'
    BY WorkerTypes DEF ControlInv, WorkerStep
  <2> QED
    BY <1>6, <1>10, <1>11, <2>1 DEF ControlInv
<1>14. UNCHANGED <<files, clientVars, message, relayed, stored, pipe>>
  BY <1>2, <1>9
<1> QED
  BY <1>2, <1>9, <1>12, <1>13, <1>14

(* The broker dies of a listing.                                            *)
LEMMA ListingDiesControl ==
    ASSUME ControlInv, ListingDies
    PROVE  /\ ControlInv'
           /\ UNCHANGED <<registryVars, clientVars, serving, message, relayed, stored, pipe>>
           /\ \A c \in Client : Fresh(c)' => Fresh(c)
<1>1. /\ UNCHANGED <<registryVars, clientVars, serving, message, relayed, stored, reg_pipe, pipe>>
      /\ worker = "reading" /\ worker' = "killed"
  BY DEF ListingDies
<1>2. UNCHANGED <<client, asks, told, lines, session>>
  BY <1>1 DEF clientVars, registryVars
<1>3. ClientsInv' /\ QueueInv'
  BY <1>1, <1>2, SameClients
<1>4. WorkerInv'
  BY <1>1, <1>2 DEF ControlInv, WorkerInv, Queued, Asks
<1>5. \A c \in Client : Fresh(c)' => Fresh(c)
  BY <1>1, <1>2 DEF Fresh, Queued, BeingOpened
<1> QED
  BY <1>1, <1>3, <1>4, <1>5, WorkerTypes DEF ControlInv, WorkerStep

(* A client's pipe opens, or the client is given up.                        *)
LEMMA OpenPipeControl ==
    ASSUME ControlInv, OpenPipe
    PROVE  /\ ControlInv'
           /\ UNCHANGED <<registryVars, asks, told, lines, message, relayed, stored, pipe, serving>>
           /\ worker' # "killed" /\ worker # "killed"
           /\ \A c \in Client : Fresh(c)' => Fresh(c)
<1>1. /\ UNCHANGED <<registryVars, asks, told, lines, message, relayed, stored, pipe, serving, reg_pipe>>
      /\ worker = "opening" /\ worker' = "opened"
      /\ serving \in Client /\ client[serving] = "opening"
      /\ client \in [Client -> Place]
  BY BrokerTypes DEF OpenPipe, ControlInv, WorkerInv
<1>2. /\ client'[serving] = "open"
      /\ \A d \in Client : d # serving => client'[d] = client[d]
  BY <1>1 DEF OpenPipe
<1>3. \A d \in Client : client'[d] = "not started" <=> client[d] = "not started"
  BY <1>1, <1>2
<1>4. ClientsInv'
  <2> SUFFICES ASSUME NEW d \in Client
               PROVE  /\ client'[d] = "not started" =>
                             asks'[d].code = "none" /\ pipe'[d] = <<>> /\ told'[d] = <<>>
                      /\ client'[d] # "not started" => asks'[d].code \in Code /\ asks'[d].box \in Box
                      /\ client'[d] = "confirmed" => Asks(d, "publish")'
                      /\ Manager(d)' /\ client'[d] # "done" => told'[d] = <<>>
    BY DEF ClientsInv
  <2>1. CASE d = serving
    BY <1>1, <1>2, <2>1 DEF ControlInv, ClientsInv, Manager, Asks
  <2>2. CASE d # serving
    BY <1>1, <1>2, <2>2 DEF ControlInv, ClientsInv, Manager, Asks
  <2> QED
    BY <2>1, <2>2
<1>5. QueueInv'
  <2>1. \A i \in 1 .. Len(reg_pipe) : reg_pipe[i] \in Client
    BY BrokerTypes, ElementOfSeq DEF ControlInv
  <2> QED
    BY <1>1, <1>3, <2>1 DEF ControlInv, QueueInv
<1>6. WorkerInv'
  <2>1. session' = session
    BY <1>1 DEF registryVars
  <2> QED
    BY <1>1, <1>3, <2>1 DEF ControlInv, WorkerInv, Queued, Reading, Asks
<1>7. \A c \in Client : Fresh(c)' => Fresh(c)
  BY <1>1, <1>3 DEF Fresh, Queued, BeingOpened
<1> QED
  BY <1>1, <1>4, <1>5, <1>6, <1>7, WorkerTypes DEF ControlInv, WorkerStep

(* A handler answers the client at hand at most, and that one's request is  *)
(* then no longer fresh.                                                    *)
LEMMA ServeControl ==
    ASSUME ControlInv, Serve
    PROVE  /\ ControlInv' /\ UNCHANGED <<clientVars, serving, reg_pipe>>
           /\ Reading /\ serving \in Client /\ asks[serving].box \in Box /\ Fresh(serving)
           /\ ~Fresh(serving)' /\ \A c \in Client : Fresh(c)' => Fresh(c)
           /\ \A c \in Client : pipe'[c] # pipe[c] => c = serving /\ Manager(c)
<1>1. /\ UNCHANGED <<clientVars, serving, reg_pipe>> /\ worker = "opened"
      /\ Reading /\ serving \in Client /\ asks[serving].box \in Box
      /\ client[serving] # "not started" /\ ~Queued(serving)
  BY DEF Serve, ControlInv, WorkerInv, ClientsInv
<1>2. UNCHANGED <<client, asks, told, lines>> /\ pipe \in [Client -> Seq(Item)]
  BY <1>1, BrokerTypes DEF clientVars, ControlInv
<1>3. PICK says \in Answer :
          \/ Asks(serving, "create") /\ ServeCreate(says)
          \/ Asks(serving, "remove") /\ ServeRemove(says)
          \/ Asks(serving, "list") /\ ServeList(says)
          \/ ServeSession(says)
  BY DEF Serve
<1>4. worker' \in {"reading", "killed"}
  BY <1>3 DEF ServeCreate, ServeRemove, ServeList, ServeSession, Reply
<1>5. \/ pipe' = pipe
      \/ Manager(serving) /\ pipe' = [pipe EXCEPT ![serving] = Append(@, Said(says))]
  BY <1>3 DEF ServeCreate, ServeRemove, ServeList, ServeSession, Reply, Asks, Manager
<1>6. \A c \in Client : pipe'[c] # pipe[c] => c = serving /\ Manager(c)
  BY <1>2, <1>5
<1>7. ClientsInv' /\ QueueInv'
  BY <1>1, <1>6, SameClients
<1>8. WorkerInv'
  <2>1. /\ session'.doing = "publishing" => Asks(serving, "publish")
        /\ session'.doing = "relaying" => Asks(serving, "subscribe")
    <3>1. CASE ServeSession(says)
      <4>1. CASE Asks(serving, "publish") /\ reg_publisher(asks[serving].box, says)
        <5>1. session'.doing # "relaying"
          BY <4>1, HandlerSessions
        <5> QED
          BY <4>1, <5>1
      <4>2. CASE Asks(serving, "subscribe") /\ reg_subscriber(asks[serving].box, says)
        <5>1. session'.doing # "publishing"
          BY <4>2, HandlerSessions
        <5> QED
          BY <4>2, <5>1
      <4> QED
        BY <3>1, <4>1, <4>2 DEF ServeSession
    <3>2. CASE ServeCreate(says) \/ ServeRemove(says) \/ ServeList(says)
      <4>1. session'.doing \in {"reading requests", "endless walk"}
        BY <3>2, HandlerSessions DEF ServeCreate, ServeRemove, ServeList
      <4> QED
        BY <4>1
    <3> QED
      BY <1>3, <3>1, <3>2
  <2> QED
    BY <1>1, <1>2, <1>4, <2>1 DEF WorkerInv, Queued, Asks
<1>9. /\ Fresh(serving) /\ ~Fresh(serving)' /\ \A c \in Client : Fresh(c)' => Fresh(c)
  BY <1>1, <1>2, <1>4 DEF Fresh, Queued, BeingOpened
<1> QED
  BY <1>1, <1>6, <1>7, <1>8, <1>9, WorkerTypes DEF ControlInv, WorkerStep

(* Steps of a session.                                                      *)
LEMMA SessionControl ==
    ASSUME ControlInv, StoreMessage \/ PublisherGone \/ Relay
    PROVE  /\ ControlInv' /\ UNCHANGED <<clientVars, serving, reg_pipe>>
           /\ serving \in Client /\ asks[serving].box \in Box
           /\ worker = "reading" /\ worker' \in {"reading", "killed"}
           /\ ~Fresh(serving) /\ \A c \in Client : Fresh(c)' => Fresh(c)
           /\ \A c \in Client : pipe'[c] # pipe[c] => c = serving
<1>1. /\ UNCHANGED <<clientVars, serving, reg_pipe>>
      /\ session.doing \in {"publishing", "relaying"}
      /\ worker = "reading" /\ worker' \in {"reading", "killed"}
  BY DEF StoreMessage, PublisherGone, Relay, workerVars
<1>2. /\ serving \in Client /\ client[serving] # "not started" /\ ~Queued(serving)
      /\ asks[serving].box \in Box
  BY <1>1 DEF ControlInv, WorkerInv, ClientsInv
<1>3. UNCHANGED <<client, asks, told, lines>> /\ pipe \in [Client -> Seq(Item)]
  BY <1>1, BrokerTypes DEF clientVars, ControlInv
<1>4. \E items : pipe' = [pipe EXCEPT ![serving] = items]
  <2>1. CASE pipe' = pipe
    BY <1>3, <2>1
  <2>2. CASE pipe' # pipe
    BY <2>2 DEF StoreMessage, PublisherGone, Relay
  <2> QED
    BY <2>1, <2>2
<1>5. \A c \in Client : pipe'[c] # pipe[c] => c = serving
  BY <1>3, <1>4
<1>6. ClientsInv' /\ QueueInv'
  BY <1>1, <1>2, <1>5, SameClients
<1>7. session' = session \/ session'.doing = "reading requests"
  <2>1. end_publisher \/ UNCHANGED registryVars
    BY DEF StoreMessage, PublisherGone, Relay
  <2>2. ASSUME end_publisher
        PROVE  session'.doing = "reading requests"
    <3>1. session' = [doing |-> "reading requests", box |-> NULL]
      BY <2>2 DEF end_publisher
    <3> QED
      BY ONLY <3>1
  <2> QED
    BY <2>1, <2>2 DEF registryVars
<1>8. WorkerInv'
  BY <1>1, <1>2, <1>3, <1>7 DEF ControlInv, WorkerInv, Queued, Asks
<1>9. ~Fresh(serving) /\ \A c \in Client : Fresh(c)' => Fresh(c)
  BY <1>1, <1>2, <1>3 DEF Fresh, Queued, BeingOpened
<1> QED
  BY <1>1, <1>2, <1>5, <1>6, <1>8, <1>9, WorkerTypes DEF ControlInv, WorkerStep

(* Each step keeps the control invariant.                                   *)
LEMMA ControlKept == ControlInv /\ [MNext]_vars => ControlInv'
<1> SUFFICES ASSUME ControlInv, [MNext]_vars
             PROVE  ControlInv'
  OBVIOUS
<1>1. CASE Registers
  BY <1>1, RegisterControl DEF Registers
<1>2. CASE WorkerStep
  BY <1>2, ReadRequestControl, OpenPipeControl, ServeControl, ListingDiesControl, SessionControl
     DEF WorkerStep
<1>3. CASE \E c \in Client : ClientStep(c) \/ Publish(c) \/ Withdraw(c) \/ Die(c)
  BY <1>3, ClientControl
<1>4. CASE UNCHANGED vars
  <2>1. UNCHANGED <<client, asks, told, lines, reg_pipe, worker, serving, message, relayed, stored,
                    pipe, hungUp, session>>
    BY <1>4 DEF vars, clientVars, workerVars, registryVars
  <2>2. BrokerTypeOK'
    BY <2>1 DEF ControlInv, BrokerTypeOK
  <2>3. ClientsInv' /\ QueueInv'
    BY <2>1 DEF ControlInv, ClientsInv, QueueInv, Manager, Asks
  <2>4. WorkerInv'
    BY <2>1 DEF ControlInv, WorkerInv, Queued, Reading, Asks
  <2> QED
    BY <2>2, <2>3, <2>4 DEF ControlInv
<1> QED
  BY <1>1, <1>2, <1>3, <1>4 DEF MNext

(* At first nobody has asked for anything.                                  *)
LEMMA InitIsControlled == MInit => ControlInv
<1> SUFFICES ASSUME MInit
             PROVE  ControlInv
  OBVIOUS
<1>1. /\ <<>> \in Seq(Client) /\ <<>> \in Seq(Item) /\ Len(<<>>) = 0 /\ EmptyLine \in Item
      /\ 0 \in 0 .. MaxLines /\ 0 <= MAX_MESSAGES
  BY EmptySeq, SaidIsItem, BrokerAssumption
<1>2. /\ client = [c \in Client |-> "not started"] /\ reg_pipe = <<>> /\ worker = "reading"
      /\ asks = [c \in Client |-> [code |-> "none", box |-> NULL]]
      /\ serving = NULL /\ pipe = [c \in Client |-> <<>>] /\ hungUp = {}
      /\ told = [c \in Client |-> <<>>] /\ lines = [c \in Client |-> 0]
      /\ message = EmptyLine /\ relayed = FALSE /\ stored = [b \in Box |-> <<>>]
  BY DEF MInit
<1>3. session.doing = "reading requests"
  <2>1. session = [doing |-> "reading requests", box |-> NULL]
    BY DEF MInit, Init
  <2> QED
    BY ONLY <2>1
<1>4. BrokerTypeOK
  BY <1>1, <1>2 DEF BrokerTypeOK, Place
<1>5. ClientsInv
  <2>1. \A c \in Client : /\ client[c] = "not started" /\ asks[c].code = "none"
                          /\ pipe[c] = <<>> /\ told[c] = <<>>
    BY <1>2
  <2> QED
    BY <2>1 DEF ClientsInv
<1>6. QueueInv
  <2>1. Len(reg_pipe) = 0
    BY <1>1, <1>2
  <2> QED
    BY <2>1 DEF QueueInv
<1>7. WorkerInv
  BY <1>2, <1>3 DEF WorkerInv
<1> QED
  BY <1>4, <1>5, <1>6, <1>7 DEF ControlInv

(* One request of a client is in the register pipe, or at the worker, or    *)
(* answered, never two of these; and a session is with a client that asked  *)
(* for one.                                                                 *)
THEOREM BrokerControl == MSpec => []ControlInv
BY InitIsControlled, ControlKept, PTL DEF MSpec

(* Processes are at places that exist, pipes hold what is written to them,  *)
(* and a box's file no more than it has room for.                           *)
THEOREM BrokerTypesHold == MSpec => []BrokerTypeOK
<1>1. ControlInv => BrokerTypeOK
  BY DEF ControlInv
<1> QED
  BY BrokerControl, <1>1, PTL

(* The requests that come through the register pipe are the registry's:     *)
(* whatever clients do and whichever are killed, the list, the files and    *)
(* the handles change as BoxRegistry says they do.                          *)
THEOREM SystemImplementsRegistry == MSpec => RegistrySpec
<1>1. MInit => Init
  BY DEF MInit
<1>2. ControlInv /\ [MNext]_vars => [RegistryNext]_registryVars
  BY StepOfRegistry DEF ControlInv
<1> QED
  BY <1>1, <1>2, BrokerControl, PTL DEF MSpec, RegistrySpec

(* Clients that die and requests that fail leave the list's own invariant   *)
(* as it is.                                                                *)
THEOREM SystemRegistry == MSpec => []IInv
BY SystemImplementsRegistry, RegistryInvariance, PTL

(* In the whole system: a node that bears the name of a box has a file, no  *)
(* other node has its name, and no lost handle is on a file that can still  *)
(* be removed.                                                              *)
THEOREM SystemListedFiles == MSpec => [](ListedHaveFiles /\ RemovableAreClosed)
BY SystemImplementsRegistry, ListedFiles, RemovablesAreClosed, PTL

-----------------------------------------------------------------------------
(* What clients hear.                                                       *)

(* Nobody has heard anything before a handler has been at the request.      *)
QuietInv ==
    \A c \in Client : Fresh(c) /\ ~Asks(c, "publish") => told[c] = <<>> /\ pipe[c] = <<>>

(* Where a handler has been at a request, it has been there for good.       *)
LEMMA FreshStays ==
    ASSUME ControlInv, [MNext]_vars, NEW c \in Client, Fresh(c)'
    PROVE  Fresh(c)
<1>1. CASE Registers
  <2>1. PICK d \in Client, code \in Code, box \in Box : Register(d, code, box)
    BY <1>1 DEF Registers
  <2> QED
    BY <2>1, RegisterControl DEF Fresh, BeingOpened
<1>2. CASE WorkerStep
  BY <1>2, ReadRequestControl, OpenPipeControl, ServeControl, ListingDiesControl, SessionControl
     DEF WorkerStep
<1>3. CASE \E d \in Client : ClientStep(d) \/ Publish(d) \/ Withdraw(d) \/ Die(d)
  <2>1. PICK d \in Client : ClientStep(d) \/ Publish(d) \/ Withdraw(d) \/ Die(d)
    BY <1>3
  <2> QED
    BY <2>1, ClientControl DEF Fresh, BeingOpened, Queued
<1>4. CASE UNCHANGED vars
  BY <1>4 DEF vars, clientVars, workerVars, Fresh, BeingOpened, Queued
<1> QED
  BY <1>1, <1>2, <1>3, <1>4 DEF MNext

(* A client that does not publish hears nothing new by its own steps.       *)
LEMMA HeardKept ==
    ASSUME ControlInv, NEW c \in Client, ClientStep(c) \/ Publish(c) \/ Withdraw(c) \/ Die(c),
           NEW d \in Client, ~Asks(d, "publish")
    PROVE  /\ Heard(d)' = Heard(d)
           /\ told[d] = <<>> /\ pipe[d] = <<>> => told'[d] = <<>> /\ pipe'[d] = <<>>
<1>1. /\ pipe \in [Client -> Seq(Item)] /\ told \in [Client -> Seq(Item)]
      /\ pipe[c] \in Seq(Item) /\ told[c] \in Seq(Item) /\ <<>> \in Seq(Item)
  BY BrokerTypes, EmptySeq DEF ControlInv
<1>2. CASE d # c
  BY <1>2, ClientControl DEF Heard
<1>3. CASE d = c /\ ManagerReads(c)
  <2>1. told[c] = <<>>
    BY <1>3 DEF ManagerReads, ControlInv, ClientsInv
  <2>2. told'[c] = pipe[c] /\ pipe'[c] = <<>>
    BY <1>1, <1>3 DEF ManagerReads
  <2>3. told[c] \o pipe[c] = pipe[c] /\ pipe[c] \o <<>> = pipe[c]
    BY <1>1, <2>1, ConcatEmptySeq
  <2> QED
    BY <1>3, <2>2, <2>3 DEF Heard
<1>4. CASE d = c /\ SubscriberReads(c)
  <2>1. CASE pipe[c] # <<>>
    <3>1. told'[c] = told[c] \o pipe[c] /\ pipe'[c] = <<>>
      BY <1>1, <1>4, <2>1 DEF SubscriberReads
    <3>2. (told[c] \o pipe[c]) \o <<>> = told[c] \o pipe[c]
      BY <1>1, ConcatProperties, ConcatEmptySeq
    <3> QED
      BY <1>4, <2>1, <3>1, <3>2 DEF Heard
  <2>2. CASE pipe[c] = <<>>
    BY <1>4, <2>2 DEF SubscriberReads, Heard
  <2> QED
    BY <2>1, <2>2
<1>5. CASE d = c /\ ~ManagerReads(c) /\ ~SubscriberReads(c)
  <2>1. ~Confirm(c)
    BY <1>5 DEF Confirm
  <2>2. ~Publish(c)
    BY <1>5 DEF Publish, ControlInv, ClientsInv
  <2> QED
    BY <1>5, <2>1, <2>2 DEF ClientStep, PublisherCloses, Withdraw, Die, Stops, Heard
<1> QED
  BY <1>2, <1>3, <1>4, <1>5

(* Nobody hears of a request that no handler has been at.                   *)
LEMMA QuietKept == ControlInv /\ QuietInv /\ [MNext]_vars => QuietInv'
<1> SUFFICES ASSUME ControlInv, QuietInv, [MNext]_vars,
                    NEW c \in Client, Fresh(c)', ~Asks(c, "publish")'
             PROVE  told'[c] = <<>> /\ pipe'[c] = <<>>
  BY DEF QuietInv
<1>1. Fresh(c)
  BY FreshStays
<1>2. CASE Registers
  <2>1. PICK d \in Client, code \in Code, box \in Box : Register(d, code, box)
    BY <1>2 DEF Registers
  <2>2. told' = told /\ pipe' = pipe
    BY <2>1, RegisterControl
  <2>3. CASE c = d
    BY <2>1, <2>2, <2>3, RegisterControl DEF ControlInv, ClientsInv
  <2>4. CASE c # d
    BY <1>1, <2>1, <2>2, <2>4, RegisterControl DEF QuietInv, Asks
  <2> QED
    BY <2>3, <2>4
<1>3. CASE \E d \in Client : ClientStep(d) \/ Publish(d) \/ Withdraw(d) \/ Die(d)
  <2>1. PICK d \in Client : ClientStep(d) \/ Publish(d) \/ Withdraw(d) \/ Die(d)
    BY <1>3
  <2>2. ~Asks(c, "publish")
    BY <2>1, ClientControl DEF Asks
  <2> QED
    BY <1>1, <2>1, <2>2, HeardKept DEF QuietInv
<1>4. CASE WorkerStep \/ UNCHANGED vars
  <2>1. UNCHANGED <<asks, told>>
    BY <1>4 DEF WorkerStep, ReadRequest, IterateForEver, OpenPipe, Serve, ListingDies,
                StoreMessage, PublisherGone, Relay, clientVars, vars
  <2>2. pipe'[c] = pipe[c]
    <3>1. CASE ReadRequest \/ IterateForEver \/ OpenPipe \/ ListingDies \/ UNCHANGED vars
      BY <3>1 DEF ReadRequest, IterateForEver, OpenPipe, ListingDies, vars
    <3>2. CASE Serve
      BY <3>2, ServeControl
    <3>3. CASE StoreMessage \/ PublisherGone \/ Relay
      BY <1>1, <3>3, SessionControl
    <3> QED
      BY <1>4, <3>1, <3>2, <3>3 DEF WorkerStep
  <2> QED
    BY <1>1, <2>1, <2>2 DEF QuietInv, Asks
<1> QED
  BY <1>2, <1>3, <1>4 DEF MNext

(* What a handler that says OK has done, and one that says anything else    *)
(* has not.                                                                 *)
LEMMA HandlersAndFiles ==
    ASSUME IInv, NEW name \in Box, NEW says
    PROVE  /\ create_box(name, says) /\ HandleLeft =>
                  IF says = "OK" THEN name \notin files /\ files' = files \cup {name}
                                 ELSE files' = files
           /\ remove_box(name, says) =>
                  IF says = "OK" THEN name \in files /\ files' = files \ {name}
                                 ELSE files' = files
           /\ reg_publisher(name, says) \/ reg_subscriber(name, says) => files' = files
<1>1. ASSUME Hang(says)
      PROVE  says = "nothing" /\ files' = files
  BY <1>1 DEF Hang, WalkOn
<1>2. ASSUME create_box(name, says), HandleLeft
      PROVE  IF says = "OK" THEN name \notin files /\ files' = files \cup {name}
                            ELSE files' = files
  <2>1. CASE Hang(says)
    BY <1>1, <2>1
  <2>2. CASE ~Hang(says)
    <3>1. PICK r \in find_box(name) :
              LET refused == CreateRefused(name, r.mem.heap[r.node])
              IN  \/ refused /\ says = "already exists" /\ files' = files
                  \/ /\ ~refused /\ CreateOpens(name)
                     /\ says = "OK"
                     /\ files' = files \cup {name}
                  \/ /\ ~refused /\ ~CreateOpens(name)
                     /\ says = "nothing"
                     /\ files' = IF CreateMakes(name) THEN files \cup {name} ELSE files
      BY <1>2, <2>2 DEF create_box
    <3>2. CASE CreateRefused(name, r.mem.heap[r.node])
      BY <3>1, <3>2
    <3>3. CASE ~CreateRefused(name, r.mem.heap[r.node]) /\ CreateOpens(name)
      BY <1>2, <3>1, <3>3 DEF CreateRefused, AppendOpens
    <3>4. CASE ~CreateRefused(name, r.mem.heap[r.node]) /\ ~CreateOpens(name)
      BY <1>2, <3>1, <3>4 DEF CreateOpens
    <3> QED
      BY <3>2, <3>3, <3>4
  <2> QED
    BY <2>1, <2>2
<1>3. ASSUME remove_box(name, says)
      PROVE  IF says = "OK" THEN name \in files /\ files' = files \ {name}
                            ELSE files' = files
  <2>1. CASE Hang(says)
    BY <1>1, <2>1
  <2>2. CASE ~Hang(says)
    <3>1. PICK r \in find_box(name) :
              LET refused == ~AppendOpens(name) \/ r.mem.heap[r.node].n_readers = -1
              IN  \/ refused /\ says = "doesn't exist" /\ files' = files
                  \/ ~refused /\ says = "OK" /\ files' = files \ {name}
      BY <1>3, <2>2 DEF remove_box
    <3> QED
      BY <3>1 DEF AppendOpens
  <2> QED
    BY <2>1, <2>2
<1>4. ASSUME reg_publisher(name, says)
      PROVE  files' = files
  BY <1>1, <1>4 DEF reg_publisher
<1>5. ASSUME reg_subscriber(name, says)
      PROVE  files' = files
  <2>1. CASE Hang(says)
    BY <1>1, <2>1
  <2>2. CASE ~Hang(says)
    <3>1. PICK r \in find_box(name) :
              files' = IF r.mem.heap[r.node].hasWriter # -1 /\ CreateMakes(name)
                       THEN files \cup {name} ELSE files
      BY <1>5, <2>2 DEF reg_subscriber
    <3>2. CASE Hit(name, r)
      <4>1. name \in files
        BY <3>2, Types DEF Hit, IInv, NamesInv
      <4> QED
        BY <3>1, <4>1 DEF CreateMakes
    <3>3. CASE Miss(name, r)
      BY <3>1, <3>3 DEF Miss
    <3> QED
      BY <3>2, <3>3, FindBox DEF IInv
  <2> QED
    BY <2>1, <2>2
<1> QED
  BY <1>2, <1>3, <1>4, <1>5

(* Handles are lost for ever: one that is to spare now was before.          *)
LEMMA SpareBefore ==
    ASSUME IInv, [RegistryNext]_registryVars, HandleToSpare'
    PROVE  HandleToSpare
<1> DEFINE InUseNow(s) == IF s.doing \in {"publishing", "relaying"} THEN 1 ELSE 0
<1>1. /\ handles \in Nat /\ MAX_OPEN_FILES \in Nat
      /\ HandleToSpare <=> handles < MAX_OPEN_FILES + InUseNow(session)
      /\ handles' < MAX_OPEN_FILES + InUseNow(session')
  BY Types DEF IInv, HandleToSpare
<1>2. ASSUME WalkOn, Reading
      PROVE  HandleToSpare
  <2>1. session' = [doing |-> "endless walk", box |-> NULL] /\ handles' = handles
    BY <1>2 DEF WalkOn
  <2>2. session'.doing = "endless walk"
    BY ONLY <2>1
  <2>3. InUseNow(session') = 0 /\ InUseNow(session) = 0
    BY <1>2, <2>2 DEF Reading
  <2>4. handles < MAX_OPEN_FILES + 0
    BY <1>1, <2>1, <2>3
  <2> QED
    BY <1>1, <2>3, <2>4
<1>3. CASE handles' = handles /\ session' = session
  BY <1>1, <1>3
<1>4. ASSUME NEW use \in {"publishing", "relaying"}, NEW node, Reading, handles' = handles + 1,
             session' = [doing |-> use, box |-> node]
      PROVE  HandleToSpare
  <2>1. session'.doing = use
    BY <1>4
  <2>2. InUseNow(session') = 1 /\ InUseNow(session) = 0
    BY <1>4, <2>1 DEF Reading
  <2>3. handles < MAX_OPEN_FILES + 0
    BY <1>1, <1>4, <2>2
  <2> QED
    BY <1>1, <2>2, <2>3
<1>5. ASSUME NEW name \in Box, NEW says, create_box(name, says)
      PROVE  HandleToSpare
  BY <1>2, <1>3, <1>5 DEF create_box, Hang
<1>6. ASSUME NEW name \in Box, NEW says, remove_box(name, says)
      PROVE  HandleToSpare
  <2>1. CASE Hang(says)
    BY <1>2, <1>6, <2>1 DEF remove_box, Hang
  <2>2. CASE ~Hang(says)
    <3>1. session' = session /\ (handles' = handles \/ handles' = handles + 1)
      BY <1>6, <2>2 DEF remove_box
    <3>2. CASE handles' = handles + 1
      <4>1. InUseNow(session) \in Nat
        OBVIOUS
      <4>2. handles + 1 < MAX_OPEN_FILES + InUseNow(session)
        BY <1>1, <3>1, <3>2
      <4> HIDE DEF InUseNow
      <4> QED
        BY <1>1, <4>1, <4>2
    <3> QED
      BY <1>3, <3>1, <3>2
  <2> QED
    BY <2>1, <2>2
<1>7. ASSUME NEW name \in Box, NEW says, reg_publisher(name, says)
      PROVE  HandleToSpare
  <2>1. CASE Hang(says)
    BY <1>2, <1>7, <2>1 DEF reg_publisher, Hang
  <2>2. CASE ~Hang(says)
    <3>1. \/ handles' = handles /\ session' = session
          \/ Reading /\ handles' = handles + 1 /\ \E n : session' = [doing |-> "publishing", box |-> n]
      BY <1>7, <2>2 DEF reg_publisher
    <3> HIDE DEF InUseNow
    <3> QED
      BY <1>3, <1>4, <3>1
  <2> QED
    BY <2>1, <2>2
<1>8. ASSUME NEW name \in Box, NEW says, reg_subscriber(name, says)
      PROVE  HandleToSpare
  <2>1. CASE Hang(says)
    BY <1>2, <1>8, <2>1 DEF reg_subscriber, Hang
  <2>2. CASE ~Hang(says)
    <3>1. \/ handles' = handles /\ session' = session
          \/ Reading /\ handles' = handles + 1 /\ \E n : session' = [doing |-> "relaying", box |-> n]
      BY <1>8, <2>2 DEF reg_subscriber
    <3> HIDE DEF InUseNow
    <3> QED
      BY <1>3, <1>4, <3>1
  <2> QED
    BY <2>1, <2>2
<1>9. ASSUME NEW says, list_box(says)
      PROVE  HandleToSpare
  BY <1>2, <1>3, <1>9 DEF list_box, registryVars
<1>10. CASE end_publisher
  <2>1. session' = [doing |-> "reading requests", box |-> NULL] /\ handles' = handles - 1
        /\ session.doing = "publishing"
    BY <1>10 DEF end_publisher
  <2>2. session'.doing = "reading requests"
    BY ONLY <2>1
  <2>3. InUseNow(session') = 0 /\ InUseNow(session) = 1
    BY <2>1, <2>2
  <2>4. handles - 1 < MAX_OPEN_FILES + 0
    BY <1>1, <2>1, <2>3
  <2> QED
    BY <1>1, <2>3, <2>4
<1>11. CASE poll \/ UNCHANGED registryVars
  BY <1>3, <1>11 DEF poll, registryVars
<1> QED
  BY <1>5, <1>6, <1>7, <1>8, <1>9, <1>10, <1>11 DEF RegistryNext, Requests

(* The client at hand hears what the handler says, and before nothing.      *)
LEMMA ReplyHeard ==
    ASSUME ControlInv, QuietInv, NEW c \in Client, c = serving, Fresh(c), Manager(c),
           NEW says \in Answer, Reply(says), told' = told, worker' # "killed"
    PROVE  Heard(c) = <<>> /\ Heard(c)' = <<Said(says)>>
<1>1. /\ pipe \in [Client -> Seq(Item)] /\ told[c] = <<>> /\ pipe[c] = <<>> /\ <<>> \in Seq(Item)
  BY BrokerTypes, EmptySeq DEF ControlInv, QuietInv, Manager, Asks
<1>2. pipe'[c] = Append(<<>>, Said(says))
  BY <1>1 DEF Reply
<1>3. /\ <<>> \o <<>> = <<>> /\ Said(says) \in Item /\ <<Said(says)>> \in Seq(Item)
      /\ Append(<<>>, Said(says)) = <<>> \o <<Said(says)>>
      /\ <<>> \o <<Said(says)>> = <<Said(says)>>
  BY <1>1, SaidIsItem, ConcatEmptySeq, AppendIsConcat
<1> QED
  BY <1>1, <1>2, <1>3 DEF Heard

(* One answer means OK, and silence does not.                               *)
LEMMA OnlyOK == /\ \A says : <<Said(says)>> = <<Said("OK")>> => says = "OK"
                /\ <<>> # <<Said("OK")>>
<1>1. ASSUME NEW says, <<Said(says)>> = <<Said("OK")>>
      PROVE  says = "OK"
  <2>1. <<Said(says)>>[1] = <<Said("OK")>>[1]
    BY <1>1
  <2>2. Said(says).says = Said("OK").says
    BY <2>1
  <2> QED
    BY <2>2 DEF Said
<1>2. Len(<<>>) = 0 /\ Len(<<Said("OK")>>) = 1
  OBVIOUS
<1> QED
  BY <1>1, <1>2

Confirmed(c, code, box) == Asks(c, code) /\ asks[c].box = box /\ Heard(c) = <<Said("OK")>>

(* Confirmed clients are finitely many.                                     *)
LEMMA ToldOKIs ==
    ASSUME NEW code, NEW box
    PROVE  /\ IsFiniteSet(ToldOK(code, box)) /\ Cardinality(ToldOK(code, box)) \in Nat
           /\ \A c : c \in ToldOK(code, box) <=> c \in Client /\ Confirmed(c, code, box)
<1>1. ToldOK(code, box) \subseteq Client /\ IsFiniteSet(Client)
  BY BrokerAssumption DEF ToldOK
<1>2. IsFiniteSet(ToldOK(code, box))
  BY <1>1, FS_Subset
<1> QED
  BY <1>2, FS_CardinalityType DEF ToldOK, Confirmed

(* Where nobody is told anything new, the count stays ...                   *)
LEMMA SameAnswers ==
    ASSUME NEW code, NEW box,
           \A c \in Client : Confirmed(c, code, box)' <=> Confirmed(c, code, box)
    PROVE  ToldOK(code, box)' = ToldOK(code, box)
BY DEF ToldOK, Confirmed

(* ... and one client told makes it one more.                               *)
LEMMA OneMoreAnswer ==
    ASSUME NEW code, NEW box, NEW c \in Client, ~Confirmed(c, code, box), Confirmed(c, code, box)',
           \A d \in Client \ {c} : Confirmed(d, code, box)' <=> Confirmed(d, code, box)
    PROVE  Cardinality(ToldOK(code, box)') = Cardinality(ToldOK(code, box)) + 1
<1>1. ToldOK(code, box)' = ToldOK(code, box) \cup {c} /\ c \notin ToldOK(code, box)
  BY DEF ToldOK, Confirmed
<1> QED
  BY <1>1, ToldOKIs, FS_AddElement

(* Answers change only when a handler has said OK.                          *)
LEMMA AnswersStay ==
    ASSUME ControlInv, QuietInv, MNext \/ UNCHANGED vars, ~Serve,
           NEW code \in {"create", "remove"}, NEW box, NEW c \in Client
    PROVE  Confirmed(c, code, box)' <=> Confirmed(c, code, box)
<1>1. CASE Registers
  <2>1. PICK d \in Client, which \in Code, name \in Box : Register(d, which, name)
    BY <1>1 DEF Registers
  <2>2. Heard(c)' = Heard(c)
    BY <2>1, RegisterControl DEF Heard
  <2>3. CASE c = d
    <3>1. told[c] = <<>> /\ pipe[c] = <<>>
      BY <2>1, <2>3, RegisterControl DEF ControlInv, ClientsInv
    <3>2. <<>> \in Seq(Item) /\ <<>> \o <<>> = <<>>
      BY EmptySeq, ConcatEmptySeq
    <3>3. Heard(c) # <<Said("OK")>>
      BY <3>1, <3>2, OnlyOK DEF Heard
    <3> QED
      BY <2>2, <3>3 DEF Confirmed
  <2>4. CASE c # d
    BY <2>1, <2>2, <2>4, RegisterControl DEF Confirmed, Asks
  <2> QED
    BY <2>3, <2>4
<1>2. CASE \E d \in Client : ClientStep(d) \/ Publish(d) \/ Withdraw(d) \/ Die(d)
  <2>1. PICK d \in Client : ClientStep(d) \/ Publish(d) \/ Withdraw(d) \/ Die(d)
    BY <1>2
  <2>2. asks' = asks
    BY <2>1, ClientControl
  <2>3. Asks(c, code) => Heard(c)' = Heard(c)
    BY <2>1, HeardKept DEF Asks
  <2> QED
    BY <2>2, <2>3 DEF Confirmed, Asks
<1>3. CASE ReadRequest \/ IterateForEver \/ OpenPipe \/ ListingDies \/ UNCHANGED vars
  BY <1>3 DEF ReadRequest, IterateForEver, OpenPipe, ListingDies, vars, clientVars, Confirmed, Asks,
              Heard
<1>4. CASE StoreMessage \/ PublisherGone \/ Relay
  <2>1. UNCHANGED <<asks, told>> /\ (pipe'[c] # pipe[c] => c = serving)
    BY <1>4, SessionControl DEF clientVars
  <2>2. Asks(serving, "publish") \/ Asks(serving, "subscribe")
    BY <1>4 DEF StoreMessage, PublisherGone, Relay, ControlInv, WorkerInv
  <2>3. CASE c = serving
    BY <2>1, <2>2, <2>3 DEF Confirmed, Asks
  <2>4. CASE c # serving
    BY <2>1, <2>4 DEF Confirmed, Asks, Heard
  <2> QED
    BY <2>3, <2>4
<1> QED
  BY <1>1, <1>2, <1>3, <1>4 DEF MNext, WorkerStep

(* A handler's OK to its client is one more answer, if the worker survives. *)
LEMMA AnswersServed ==
    ASSUME ControlInv, QuietInv, Serve, worker' # "killed", NEW code \in {"create", "remove"},
           NEW says \in Answer,
           \/ Asks(serving, "create") /\ ServeCreate(says)
           \/ Asks(serving, "remove") /\ ServeRemove(says)
           \/ Asks(serving, "list") /\ ServeList(says)
           \/ ServeSession(says),
           NEW box, NEW c \in Client
    PROVE  IF says = "OK" /\ c = serving /\ Asks(c, code) /\ asks[c].box = box
           THEN ~Confirmed(c, code, box) /\ Confirmed(c, code, box)'
           ELSE Confirmed(c, code, box)' <=> Confirmed(c, code, box)
<1>1. UNCHANGED <<asks, told>> /\ (pipe'[c] # pipe[c] => c = serving) /\ Fresh(serving)
  BY ServeControl DEF clientVars
<1>2. CASE c # serving \/ ~Asks(c, code) \/ asks[c].box # box
  BY <1>1, <1>2 DEF Confirmed, Asks, Heard
<1>3. CASE c = serving /\ Asks(c, code) /\ asks[c].box = box
  <2>1. \/ ServeCreate(says) /\ create_box(box, says)
        \/ ServeRemove(says) /\ remove_box(box, says)
        \/ ServeSession(says)
    BY <1>3 DEF Asks, ServeCreate, ServeRemove
  <2>2. ~ServeSession(says)
    BY <1>3 DEF ServeSession, Asks
  <2>3. (says = "nothing" /\ pipe' = pipe) \/ Reply(says)
    BY <2>1, <2>2 DEF ServeCreate, ServeRemove
  <2>4. Confirmed(c, code, box)' <=> Heard(c)' = <<Said("OK")>>
    BY <1>1, <1>3 DEF Confirmed, Asks
  <2>5. CASE says = "nothing" /\ pipe' = pipe
    BY <1>1, <2>5 DEF Confirmed, Asks, Heard
  <2>6. CASE Reply(says)
    <3>1. Heard(c) = <<>> /\ Heard(c)' = <<Said(says)>>
      BY <1>1, <1>3, <2>6, ReplyHeard DEF Manager, Asks
    <3>2. ~Confirmed(c, code, box)
      BY <3>1, OnlyOK DEF Confirmed
    <3>3. Confirmed(c, code, box)' <=> says = "OK"
      BY <2>4, <3>1, OnlyOK
    <3> QED
      BY <1>3, <3>2, <3>3
  <2> QED
    BY <2>3, <2>5, <2>6
<1> QED
  BY <1>2, <1>3

(* Each confirmation goes with one file created or removed.                 *)
LEMMA AnswersKept ==
    IInv /\ ControlInv /\ QuietInv /\ AnswersAccountForFiles /\ [MNext]_vars =>
        AnswersAccountForFiles'
<1> SUFFICES ASSUME IInv, ControlInv, QuietInv, AnswersAccountForFiles, [MNext]_vars,
                    worker' # "killed", HandleToSpare', NEW b \in Box
             PROVE  Cardinality(ToldOK("create", b)') - Cardinality(ToldOK("remove", b)') =
                        IF b \in files' THEN 1 ELSE 0
  BY DEF AnswersAccountForFiles
<1>1. HandleToSpare
  BY StepOfRegistry, SpareBefore DEF ControlInv
<1>2. worker # "killed"
  BY RegisterControl, ClientControl
     DEF MNext, WorkerStep, Registers, vars, workerVars, ReadRequest, IterateForEver, OpenPipe,
         Serve, ListingDies, StoreMessage, PublisherGone, Relay
<1>3. /\ Cardinality(ToldOK("create", b)) - Cardinality(ToldOK("remove", b)) =
             IF b \in files THEN 1 ELSE 0
      /\ Cardinality(ToldOK("create", b)) \in Nat /\ Cardinality(ToldOK("remove", b)) \in Nat
  BY <1>1, <1>2, ToldOKIs DEF AnswersAccountForFiles
<1>4. CASE ~Serve
  <2>1. MNext \/ UNCHANGED vars
    OBVIOUS
  <2>2. /\ ToldOK("create", b)' = ToldOK("create", b)
        /\ ToldOK("remove", b)' = ToldOK("remove", b)
    BY <1>4, <2>1, AnswersStay, SameAnswers
  <2>3. UNCHANGED registryVars \/ end_publisher \/ IterateForEver
    BY <1>4, RegisterControl, ClientControl
       DEF MNext, WorkerStep, Registers, vars, ReadRequest, OpenPipe, ListingDies, StoreMessage,
           PublisherGone, Relay
  <2>4. files' = files
    BY <2>3, IterateIsAWalk DEF registryVars, end_publisher
  <2> QED
    BY <1>3, <2>2, <2>4
<1>5. CASE Serve
  <2> DEFINE box == asks[serving].box
  <2>1. PICK says \in Answer :
            \/ Asks(serving, "create") /\ ServeCreate(says)
            \/ Asks(serving, "remove") /\ ServeRemove(says)
            \/ Asks(serving, "list") /\ ServeList(says)
            \/ ServeSession(says)
    BY <1>5 DEF Serve
  <2>2. serving \in Client /\ box \in Box /\ Reading /\ MAX_OPEN_FILES \in Nat
    BY <1>5, ServeControl, Types DEF IInv
  <2>3. HandleLeft
    <3>1. session.doing \notin {"publishing", "relaying"} /\ handles \in Nat
      BY <2>2, Types DEF Reading, IInv
    <3>2. handles < MAX_OPEN_FILES + 0
      BY <1>1, <3>1 DEF HandleToSpare
    <3> QED
      BY <2>2, <3>1, <3>2 DEF HandleLeft
  <2>4. ASSUME NEW code \in {"create", "remove"}, NEW c \in Client
        PROVE  IF says = "OK" /\ c = serving /\ Asks(c, code) /\ asks[c].box = b
               THEN ~Confirmed(c, code, b) /\ Confirmed(c, code, b)'
               ELSE Confirmed(c, code, b)' <=> Confirmed(c, code, b)
    BY <1>5, <2>1, AnswersServed
  <2>5. CASE says # "OK" \/ box # b \/ (~Asks(serving, "create") /\ ~Asks(serving, "remove"))
    <3>1. /\ ToldOK("create", b)' = ToldOK("create", b)
          /\ ToldOK("remove", b)' = ToldOK("remove", b)
      BY <2>4, <2>5, SameAnswers
    <3>2. b \in files' <=> b \in files
      BY <2>1, <2>2, <2>3, <2>5, HandlersAndFiles
         DEF ServeCreate, ServeRemove, ServeList, ServeSession, list_box, WalkOn, registryVars
    <3> QED
      BY <1>3, <3>1, <3>2
  <2>6. CASE says = "OK" /\ box = b /\ Asks(serving, "create")
    <3>1. create_box(b, says)
      BY <2>1, <2>6 DEF Asks, ServeCreate, ServeSession
    <3>2. b \notin files /\ b \in files'
      BY <2>2, <2>3, <2>6, <3>1, HandlersAndFiles
    <3>3. Cardinality(ToldOK("create", b)') = Cardinality(ToldOK("create", b)) + 1
      <4>1. PICK me \in Client : me = serving
        BY <2>2
      <4>2. ~Confirmed(me, "create", b) /\ Confirmed(me, "create", b)'
        BY <2>4, <2>6, <4>1
      <4>3. \A c \in Client \ {me} : Confirmed(c, "create", b)' <=> Confirmed(c, "create", b)
        BY <2>4, <4>1
      <4> QED
        BY <4>2, <4>3, OneMoreAnswer
    <3>4. ToldOK("remove", b)' = ToldOK("remove", b)
      <4>1. ~Asks(serving, "remove")
        BY <2>6 DEF Asks
      <4> QED
        BY <2>4, <4>1, SameAnswers
    <3> QED
      BY <1>3, <3>2, <3>3, <3>4
  <2>7. CASE says = "OK" /\ box = b /\ Asks(serving, "remove")
    <3>1. remove_box(b, says)
      BY <2>1, <2>7 DEF Asks, ServeRemove, ServeSession
    <3>2. b \in files /\ b \notin files'
      BY <2>2, <2>3, <2>7, <3>1, HandlersAndFiles
    <3>3. Cardinality(ToldOK("remove", b)') = Cardinality(ToldOK("remove", b)) + 1
      <4>1. PICK me \in Client : me = serving
        BY <2>2
      <4>2. ~Confirmed(me, "remove", b) /\ Confirmed(me, "remove", b)'
        BY <2>4, <2>7, <4>1
      <4>3. \A c \in Client \ {me} : Confirmed(c, "remove", b)' <=> Confirmed(c, "remove", b)
        BY <2>4, <4>1
      <4> QED
        BY <4>2, <4>3, OneMoreAnswer
    <3>4. ToldOK("create", b)' = ToldOK("create", b)
      <4>1. ~Asks(serving, "create")
        BY <2>7 DEF Asks
      <4> QED
        BY <2>4, <4>1, SameAnswers
    <3> QED
      BY <1>3, <3>2, <3>3, <3>4
  <2> QED
    BY <2>5, <2>6, <2>7
<1> QED
  BY <1>4, <1>5

(* At first there are no files and no answers.                              *)
LEMMA InitAnswers == MInit => QuietInv /\ AnswersAccountForFiles
<1> SUFFICES ASSUME MInit
             PROVE  QuietInv /\ AnswersAccountForFiles
  OBVIOUS
<1>1. /\ \A c \in Client : asks[c].code = "none" /\ told[c] = <<>> /\ pipe[c] = <<>>
      /\ files = {}
  BY DEF MInit, Init
<1>2. \A b \in Box : ToldOK("create", b) = {} /\ ToldOK("remove", b) = {}
  BY <1>1 DEF ToldOK, Asks
<1>3. Cardinality({}) = 0
  BY FS_EmptySet
<1>4. AnswersAccountForFiles
  <2> SUFFICES ASSUME NEW b \in Box
               PROVE  Cardinality(ToldOK("create", b)) - Cardinality(ToldOK("remove", b)) =
                          IF b \in files THEN 1 ELSE 0
    BY DEF AnswersAccountForFiles
  <2>1. Cardinality(ToldOK("create", b)) = 0 /\ Cardinality(ToldOK("remove", b)) = 0
    BY <1>2, <1>3
  <2>2. b \notin files
    BY <1>1
  <2> QED
    BY <2>1, <2>2
<1> QED
  BY <1>1, <1>4 DEF QuietInv

(* Managers that race to create or remove a box get answers that fit        *)
(* together, for any number of them: of a box one more creation than        *)
(* removals was confirmed if it has a file, and as many if it has none, as  *)
(* long as the worker lives and a handle is to spare.                       *)
THEOREM AnswersAccount == MSpec => []AnswersAccountForFiles
<1>1. MSpec => []QuietInv
  BY InitAnswers, QuietKept, BrokerControl, PTL DEF MSpec
<1> QED
  BY InitAnswers, AnswersKept, SystemRegistry, BrokerControl, <1>1, PTL DEF MSpec

-----------------------------------------------------------------------------
(* Subscribers.  Who has heard something is in the session that lasts for   *)
(* ever, and nothing is added to its box any more.                          *)

GotTheBox(c) ==
    \E leftover \in {<<>>, <<Leftover>>} : Heard(c) = stored[asks[c].box] \o leftover

RelayInv ==
    \A c \in Client : Asks(c, "subscribe") /\ Heard(c) # <<>> =>
        session.doing = "relaying" /\ serving = c /\ relayed /\ GotTheBox(c)

(* Who is served has heard what the box holds.                              *)
LEMMA RelayKept == ControlInv /\ RelayInv /\ [MNext]_vars => RelayInv'
<1> SUFFICES ASSUME ControlInv, RelayInv, [MNext]_vars, NEW c \in Client,
                    Asks(c, "subscribe")', Heard(c)' # <<>>
             PROVE  (session.doing = "relaying" /\ serving = c /\ relayed /\ GotTheBox(c))'
  BY DEF RelayInv
<1>1. CASE Registers
  <2>1. PICK d \in Client, which \in Code, name \in Box : Register(d, which, name)
    BY <1>1 DEF Registers
  <2>2. Heard(c)' = Heard(c) /\ UNCHANGED <<session, serving, relayed, stored>>
    BY <2>1, RegisterControl DEF Heard, Register, workerVars, registryVars
  <2>3. c # d
    <3>1. \A b \in Client : client[b] = "not started" => Heard(b) = <<>>
      BY EmptySeq, ConcatEmptySeq DEF ControlInv, ClientsInv, Heard
    <3> QED
      BY <2>1, <2>2, <3>1, RegisterControl
  <2>4. asks'[c] = asks[c]
    BY <2>1, <2>3, RegisterControl
  <2> QED
    BY <2>2, <2>4 DEF RelayInv, Asks, GotTheBox
<1>2. CASE \E d \in Client : ClientStep(d) \/ Publish(d) \/ Withdraw(d) \/ Die(d)
  <2>1. PICK d \in Client : ClientStep(d) \/ Publish(d) \/ Withdraw(d) \/ Die(d)
    BY <1>2
  <2>2. UNCHANGED <<asks, session, serving, relayed, stored>>
    BY <2>1, ClientControl DEF registryVars, ClientStep, ManagerReads, SubscriberReads, Confirm,
           PublisherCloses, Publish, PublisherWrites, Withdraw, Die, Stops, workerVars
  <2>3. Asks(c, "subscribe")
    BY <2>2 DEF Asks
  <2>4. Heard(c)' = Heard(c)
    BY <2>1, <2>3, HeardKept DEF Asks
  <2> QED
    BY <2>2, <2>3, <2>4 DEF RelayInv, GotTheBox
<1>3. CASE ReadRequest \/ IterateForEver
  <2>1. UNCHANGED <<asks, told, pipe>> /\ Reading
    BY <1>3, ReadRequestControl DEF clientVars
  <2>2. Asks(c, "subscribe") /\ Heard(c) # <<>> /\ session.doing # "relaying"
    BY <2>1 DEF Asks, Heard, Reading
  <2> QED
    BY <2>2 DEF RelayInv
<1>4. CASE OpenPipe \/ ListingDies \/ UNCHANGED vars
  <2>1. UNCHANGED <<asks, told, pipe, session, serving, relayed, stored>>
    BY <1>4 DEF OpenPipe, ListingDies, vars, clientVars, workerVars, registryVars
  <2> QED
    BY <2>1 DEF RelayInv, Asks, Heard, GotTheBox
<1>5. CASE Serve \/ StoreMessage \/ PublisherGone
  <2>1. UNCHANGED <<asks, told>> /\ session.doing # "relaying"
    BY <1>5, ServeControl, SessionControl DEF clientVars, Reading, StoreMessage, PublisherGone
  <2>2. Asks(c, "subscribe")
    BY <2>1 DEF Asks
  <2>3. pipe'[c] = pipe[c]
    <3>1. CASE Serve
      BY <2>2, <3>1, ServeControl DEF Manager, Asks
    <3>2. CASE StoreMessage \/ PublisherGone
      <4>1. Asks(serving, "publish")
        BY <3>2 DEF StoreMessage, PublisherGone, ControlInv, WorkerInv
      <4> QED
        BY <2>2, <3>2, <4>1, SessionControl DEF Asks
    <3> QED
      BY <1>5, <3>1, <3>2
  <2>4. Heard(c) # <<>>
    BY <2>1, <2>3 DEF Heard
  <2> QED
    BY <2>1, <2>2, <2>4 DEF RelayInv
<1>6. CASE Relay
  <2>1. /\ UNCHANGED <<asks, told, stored, serving, session>> /\ session.doing = "relaying"
        /\ ~relayed /\ relayed' = TRUE /\ serving \in Client /\ asks[serving].box \in Box
    BY <1>6, SessionControl DEF Relay, clientVars, registryVars
  <2>2. Asks(c, "subscribe") /\ Heard(c) = <<>>
    BY <2>1 DEF Asks, RelayInv
  <2>3. c = serving
    BY <1>6, <2>1, <2>2, SessionControl DEF Heard
  <2>4. /\ pipe \in [Client -> Seq(Item)] /\ told[c] \in Seq(Item) /\ pipe[c] \in Seq(Item)
        /\ stored[asks[c].box] \in Seq(Item)
    BY <2>1, <2>3, BrokerTypes DEF ControlInv
  <2>5. told[c] = <<>> /\ pipe[c] = <<>>
    BY <2>2, <2>4, ConcatEqualIffEmpty DEF Heard
  <2>6. pipe' # pipe
    BY <2>1, <2>2 DEF Heard
  <2>7. PICK leftover \in {<<>>, <<Leftover>>} :
            pipe' = [pipe EXCEPT ![serving] = @ \o stored[asks[serving].box] \o leftover]
    BY <1>6, <2>6 DEF Relay
  <2>8. pipe'[c] = <<>> \o stored[asks[c].box] \o leftover
    BY <2>3, <2>4, <2>5, <2>7
  <2>9. <<>> \o (stored[asks[c].box] \o leftover) = stored[asks[c].box] \o leftover
    <3>1. leftover \in Seq(Item)
      <4>1. Leftover \in Item /\ <<>> \in Seq(Item)
        BY EmptySeq, SaidIsItem
      <4>2. <<Leftover>> \in Seq(Item)
        BY <4>1
      <4> QED
        BY <4>1, <4>2
    <3>2. stored[asks[c].box] \o leftover \in Seq(Item)
      BY <2>4, <3>1, ConcatProperties
    <3> QED
      BY <3>2, ConcatEmptySeq
  <2>10. <<>> \o stored[asks[c].box] = stored[asks[c].box]
    BY <2>4, ConcatEmptySeq
  <2>11. Heard(c)' = stored[asks[c].box] \o leftover
    BY <2>1, <2>5, <2>8, <2>9, <2>10 DEF Heard
  <2> QED
    BY <2>1, <2>3, <2>11 DEF GotTheBox
<1> QED
  BY <1>1, <1>2, <1>3, <1>4, <1>5, <1>6 DEF MNext, WorkerStep

(* What a subscriber gets is what its box holds, once and in order, with at *)
(* most an unterminated buffer's leftover behind it, for any number of      *)
(* clients and messages.                                                    *)
THEOREM SubscribersHear == MSpec => []SubscribersGetTheBox
<1>1. MInit => RelayInv
  <2> SUFFICES ASSUME MInit
               PROVE  RelayInv
    OBVIOUS
  <2>1. \A c \in Client : asks[c].code = "none"
    BY DEF MInit
  <2> QED
    BY <2>1 DEF RelayInv, Asks
<1>2. RelayInv => SubscribersGetTheBox
  BY DEF RelayInv, SubscribersGetTheBox, GotTheBox
<1> QED
  BY <1>1, <1>2, RelayKept, BrokerControl, PTL DEF MSpec

-----------------------------------------------------------------------------
(* Publishers.  What their pipes hold, what the handler holds of it and     *)
(* what is stored are in the order in which they were written.              *)

Text(item) == item.from # NULL

(* What the broker finds in a publisher's pipe: what it wrote, or the rest  *)
(* of a line.                                                               *)
FromPublisher(c, item) ==
    \/ item \in {Confirmation, EmptyLine}
    \/ item.says \in {"line", "tail"} /\ item.from = c /\ item.n \in 1 .. lines[c]

InLine(items) ==
    \A i, j \in 1 .. Len(items) :
        i <= j /\ Text(items[i]) /\ Text(items[j]) => items[i].n <= items[j].n

PipesInv ==
    \A c \in Client : Asks(c, "publish") =>
        /\ \A i \in 1 .. Len(pipe[c]) : FromPublisher(c, pipe[c][i])
        /\ InLine(pipe[c])

(* Between what a session has stored and what is still in the pipe there is *)
(* the message that the handler holds, which it may store again.  Nothing   *)
(* that others published is behind what the session has stored.             *)
Between(c, items, text, left) ==
    \/ text \in {EmptyLine, Leftover} /\ \A i \in 1 .. Len(items) : items[i].from # c
    \/ /\ text.says \in {"line", "head", "tail"} /\ text.from = c /\ text.n \in 1 .. lines[c]
       /\ \A i \in 1 .. Len(left) : Text(left[i]) => text.n <= left[i].n
       /\ \A i \in 1 .. Len(items) : items[i].from = c =>
              /\ items[i].n <= text.n
              /\ \A k \in i .. Len(items) : items[k].from = c

PublishingInv ==
    session.doing = "publishing" =>
        Between(serving, stored[asks[serving].box], message, pipe[serving])

(* Nothing of a client is stored before a handler has been at its request.  *)
UnstoredInv ==
    \A c \in Client : Fresh(c) =>
        \A b \in Box : \A i \in 1 .. Len(stored[b]) : stored[b][i].from # c

(* What MessagesInOrder says of one box.                                    *)
InOrder(b, items) ==
    /\ \A i \in 1 .. Len(items) :
           /\ items[i].says \in {"line", "head", "tail", "cut line", "leftover"}
           /\ items[i].says = "cut line" => i = Len(items)
           /\ Text(items[i]) =>
                  /\ asks[items[i].from] = [code |-> "publish", box |-> b]
                  /\ items[i].n \in 1 .. lines[items[i].from]
    /\ \A i, j \in 1 .. Len(items) : i < j /\ Text(items[i]) /\ items[i].from = items[j].from =>
           /\ items[i].n <= items[j].n
           /\ \A k \in i .. j : items[k].from = items[i].from

StoredInv == \A b \in Box : InOrder(b, stored[b])

OrderInv == PipesInv /\ PublishingInv /\ UnstoredInv /\ StoredInv

(* Lines are numbered.                                                      *)
LEMMA ItemNumbers == \A item \in Item : item.n \in Nat
<1>1. MaxLines \in Nat
  BY BrokerAssumption
<1>2. \A item \in Item : item.n \in 0 .. MaxLines
  BY DEF Item
<1> QED
  BY <1>1, <1>2

(* Confirmations, empty lines and leftovers are no publisher's text.        *)
LEMMA SpecialItems ==
    /\ ~Text(Confirmation) /\ ~Text(EmptyLine) /\ ~Text(Leftover)
    /\ Leftover.says = "leftover" /\ EmptyLine # Leftover
    /\ EmptyLine.says = "empty line" /\ Confirmation.says = "confirmation"
<1>1. ~Text(Confirmation) /\ ~Text(EmptyLine) /\ ~Text(Leftover)
  BY DEF Text, Confirmation, EmptyLine, Leftover, Said
<1>2. Leftover.says = "leftover" /\ EmptyLine.says = "empty line" /\ Confirmation.says = "confirmation"
  BY DEF Confirmation, EmptyLine, Leftover, Said
<1>3. EmptyLine # Leftover
  <2> SUFFICES ASSUME EmptyLine = Leftover
               PROVE  FALSE
    OBVIOUS
  <2>1. EmptyLine.says = Leftover.says
    OBVIOUS
  <2> QED
    BY <1>2, <2>1
<1> QED
  BY <1>1, <1>2, <1>3

(* A part of what a publisher wrote is its line, or says nothing.           *)
LEMMA PublishedPart ==
    ASSUME NEW c \in Client, NEW item \in Item, FromPublisher(c, item),
           NEW part \in {"head", "tail"}, NEW x, x = item \/ x = Part(item, part)
    PROVE  \/ x \in {Confirmation, EmptyLine}
           \/ /\ x.says \in {"line", part, "tail"} /\ x.from = c /\ Text(x)
              /\ Text(item) /\ x.n = item.n /\ item.n \in 1 .. lines[c]
<1>1. c # NULL
  BY BrokerAssumption
<1>2. item.says \in {"line", "tail"} => item.from = c /\ item.n \in 1 .. lines[c]
  BY SpecialItems DEF FromPublisher
<1>3. CASE x = item
  BY <1>1, <1>3, SpecialItems DEF FromPublisher, Text
<1>4. CASE x = Part(item, part)
  BY <1>1, <1>2, <1>4, PartIsItem DEF Text
<1> QED
  BY <1>3, <1>4

(* A read() keeps the order: in what is left, and between what is stored,   *)
(* the message and what is left.                                            *)
LEMMA ReadKeepsOrder ==
    ASSUME BrokerTypeOK, NEW c \in Client, NEW items \in Seq(Item), NEW old \in Seq(Item),
           \A i \in 1 .. Len(items) : FromPublisher(c, items[i]), InLine(items),
           NEW read \in Reads(items), NEW text \in Parsed(read.taken),
           Between(c, old, message, items)
    PROVE  /\ \A j \in 1 .. Len(read.left) : FromPublisher(c, read.left[j])
           /\ InLine(read.left)
           /\ Between(c, old, text, read.left)
<1>1. /\ read.taken \in Seq(Item) /\ read.left \in Seq(Item) /\ lines[c] \in Nat
      /\ Len(read.taken) \in Nat /\ Len(read.left) \in Nat /\ Len(items) \in Nat
  BY ReadSplits, LenProperties, BrokerTypes
<1>2. PICK d \in 0 .. Len(items) :
          /\ Len(read.taken) <= Len(items) /\ Len(read.taken) <= d + 1
          /\ Len(read.left) = Len(items) - d
          /\ \A i \in 1 .. Len(read.taken) :
                 read.taken[i] = items[i] \/ read.taken[i] = Part(items[i], "head")
          /\ \A j \in 1 .. Len(read.left) :
                 read.left[j] = items[j + d] \/ read.left[j] = Part(items[j + d], "tail")
  BY ReadSplits
<1>3. \A i \in 1 .. Len(items) : items[i] \in Item /\ FromPublisher(c, items[i])
  BY ElementOfSeq
<1>4. \A j \in 1 .. Len(read.left) : j + d \in 1 .. Len(items)
  BY <1>1, <1>2
<1>5. ASSUME NEW j \in 1 .. Len(read.left)
      PROVE  /\ FromPublisher(c, read.left[j])
             /\ Text(read.left[j]) => Text(items[j + d]) /\ read.left[j].n = items[j + d].n
                                      /\ items[j + d].n \in Nat
  <2>1. items[j + d] \in Item /\ FromPublisher(c, items[j + d])
    BY <1>3, <1>4
  <2>2. read.left[j] = items[j + d] \/ read.left[j] = Part(items[j + d], "tail")
    BY <1>2
  <2>3. \/ read.left[j] \in {Confirmation, EmptyLine}
        \/ /\ read.left[j].says \in {"line", "tail"} /\ read.left[j].from = c
           /\ Text(items[j + d]) /\ read.left[j].n = items[j + d].n
           /\ items[j + d].n \in 1 .. lines[c]
    <3>1. c \in Client
      OBVIOUS
    <3> QED
      BY ONLY <2>1, <2>2, <3>1, PublishedPart
  <2>4. CASE read.left[j] \in {Confirmation, EmptyLine}
    BY <2>4, SpecialItems DEF FromPublisher
  <2>5. CASE read.left[j] \notin {Confirmation, EmptyLine}
    BY <1>1, <2>3, <2>5 DEF FromPublisher
  <2> QED
    BY <2>4, <2>5
<1>6. ASSUME NEW i \in 1 .. Len(read.taken),
             read.taken[i] # Confirmation, read.taken[i] # EmptyLine
      PROVE  /\ read.taken[i].says \in {"line", "head", "tail"}
             /\ read.taken[i].from = c /\ read.taken[i].n \in 1 .. lines[c]
             /\ i \in 1 .. Len(items) /\ Text(items[i]) /\ read.taken[i].n = items[i].n
  <2>1. i \in 1 .. Len(items)
    BY <1>1, <1>2
  <2>2. items[i] \in Item /\ FromPublisher(c, items[i])
    BY <1>3, <2>1
  <2>3. read.taken[i] = items[i] \/ read.taken[i] = Part(items[i], "head")
    BY <1>2
  <2> QED
    BY <1>6, <2>1, <2>2, <2>3, PublishedPart
<1>7. InLine(read.left)
  <2> SUFFICES ASSUME NEW i \in 1 .. Len(read.left), NEW j \in 1 .. Len(read.left),
                      i <= j, Text(read.left[i]), Text(read.left[j])
               PROVE  read.left[i].n <= read.left[j].n
    BY DEF InLine
  <2>1. i + d \in 1 .. Len(items) /\ j + d \in 1 .. Len(items) /\ i + d <= j + d
    BY <1>1, <1>4
  <2>2. items[i + d].n <= items[j + d].n
    BY <1>5, <2>1 DEF InLine
  <2> QED
    BY <1>5, <2>2
<1>8. Between(c, old, text, read.left)
  <2>1. CASE text = message
    <3>1. CASE text \in {EmptyLine, Leftover} /\ \A i \in 1 .. Len(old) : old[i].from # c
      BY <3>1 DEF Between
    <3>2. CASE ~(text \in {EmptyLine, Leftover} /\ \A i \in 1 .. Len(old) : old[i].from # c)
      <4>1. \A j \in 1 .. Len(read.left) : Text(read.left[j]) => text.n <= read.left[j].n
        BY <1>4, <1>5, <2>1, <3>2 DEF Between
      <4> QED
        BY <2>1, <3>2, <4>1 DEF Between
    <3> QED
      BY <3>1, <3>2
  <2>2. CASE text = Leftover /\ message = EmptyLine
    <3>1. \A i \in 1 .. Len(old) : old[i].from # c
      BY <2>2, SpecialItems DEF Between
    <3> QED
      BY <2>2, <3>1 DEF Between
  <2>3. CASE \E i \in 1 .. Len(read.taken) :
                 text = read.taken[i] /\ read.taken[i] # Confirmation /\ read.taken[i] # EmptyLine
    <3>1. PICK i \in 1 .. Len(read.taken) :
              text = read.taken[i] /\ read.taken[i] # Confirmation /\ read.taken[i] # EmptyLine
      BY <2>3
    <3>2. /\ text.says \in {"line", "head", "tail"} /\ text.from = c /\ text.n \in 1 .. lines[c]
          /\ i \in 1 .. Len(items) /\ Text(items[i]) /\ text.n = items[i].n
      BY <1>6, <3>1
    <3>3. ASSUME NEW j \in 1 .. Len(read.left), Text(read.left[j])
          PROVE  text.n <= read.left[j].n
      <4>1. i <= j + d /\ j + d \in 1 .. Len(items)
        BY <1>1, <1>2, <1>4
      <4>2. items[i].n <= items[j + d].n
        BY <1>5, <3>2, <3>3, <4>1 DEF InLine
      <4> QED
        BY <1>5, <3>2, <3>3, <4>2
    <3>4. ASSUME NEW k \in 1 .. Len(old), old[k].from = c
          PROVE  old[k].n <= text.n /\ \A l \in k .. Len(old) : old[l].from = c
      <4>1. /\ message.n <= items[i].n /\ message.n \in 1 .. lines[c] /\ old[k].n <= message.n
            /\ \A l \in k .. Len(old) : old[l].from = c
        BY <3>2, <3>4 DEF Between
      <4>2. old[k].n \in Int /\ items[i].n \in Int /\ message.n \in Int
        <5>1. old[k] \in Item /\ items[i] \in Item /\ message \in Item
          BY <3>2, ElementOfSeq, BrokerTypes
        <5> QED
          BY <5>1, ItemNumbers
      <4> QED
        BY <3>2, <4>1, <4>2
    <3> QED
      BY <3>2, <3>3, <3>4 DEF Between
  <2> QED
    BY <1>1, <2>1, <2>2, <2>3, ParsedIs
<1> QED
  BY <1>5, <1>7, <1>8

(* The message goes behind what is stored, and nothing behind a cut line.   *)
LEMMA StoreKeepsOrder ==
    ASSUME BrokerTypeOK, NEW c \in Client, NEW b \in Box, asks[c].code = "publish", asks[c].box = b,
           NEW items \in Seq(Item), Len(items) <= MAX_MESSAGES, InOrder(b, items),
           NEW text \in Item, text # EmptyLine, NEW left, Between(c, items, text, left),
           NEW after \in StoredIn(items, text)
    PROVE  /\ InOrder(b, after) /\ Between(c, after, text, left)
           /\ \A i \in 1 .. Len(after) :
                  \/ after[i].from \in {c, NULL}
                  \/ i \in 1 .. Len(items) /\ after[i] = items[i]
<1>1. CASE after = items
  BY <1>1
<1>2. ASSUME NEW item \in {text, Cut(text)}, after = Append(items, item), ~BoxFull(items)
      PROVE  /\ InOrder(b, after) /\ Between(c, after, text, left)
             /\ \A i \in 1 .. Len(after) :
                    \/ after[i].from \in {c, NULL}
                    \/ i \in 1 .. Len(items) /\ after[i] = items[i]
  <2> DEFINE n == Len(items)
  <2>1. /\ Cut(text) \in Item /\ Cut(text).says = "cut line"
        /\ Cut(text).from = text.from /\ Cut(text).n = text.n
    BY DEF Cut, Item
  <2>2. /\ item \in Item /\ item.from = text.from /\ item.n = text.n
        /\ item.says = text.says \/ item.says = "cut line"
    BY <1>2, <2>1
  <2>3. /\ n \in Nat /\ Len(after) = n + 1 /\ after[n + 1] = item
        /\ \A i \in 1 .. n : after[i] = items[i]
    <3>1. n \in Nat
      BY LenProperties
    <3>2. /\ Len(Append(items, item)) = n + 1 /\ Append(items, item)[n + 1] = item
          /\ \A i \in 1 .. n : Append(items, item)[i] = items[i]
      <4>1. items \in Seq(Item) /\ item \in Item
        BY <2>2
      <4> QED
        BY ONLY <4>1, AppendProperties
    <3> QED
      BY ONLY <1>2, <3>1, <3>2
  <2>4. \A i \in 1 .. Len(after) : i \in 1 .. n \/ i = n + 1
    BY <2>3
  <2>5. \A i \in 1 .. n : items[i].says # "cut line" /\ items[i] \in Item
    <3>1. DOMAIN items = 1 .. n
      BY LenProperties
    <3> QED
      BY <1>2, <3>1, ElementOfSeq DEF BoxFull
  <2>6. asks[c] = [code |-> "publish", box |-> b]
    BY BrokerTypes
  <2>7. /\ text.says \in {"line", "head", "tail", "leftover"}
        /\ Text(text) => text.from = c /\ text.n \in 1 .. lines[c]
        /\ text.from \in {c, NULL}
    BY SpecialItems, BrokerAssumption DEF Between, Text
  <2>8. \A i \in 1 .. n : items[i].from = c =>
            /\ Text(text) /\ items[i].n <= text.n
            /\ \A k \in i .. n : items[k].from = c
    BY BrokerAssumption DEF Between, Text
  <2> HIDE DEF n
  <2>9. \A i \in 1 .. Len(after) :
            /\ after[i].says \in {"line", "head", "tail", "cut line", "leftover"}
            /\ after[i].says = "cut line" => i = Len(after)
            /\ Text(after[i]) =>
                   /\ asks[after[i].from] = [code |-> "publish", box |-> b]
                   /\ after[i].n \in 1 .. lines[after[i].from]
    <3> SUFFICES ASSUME NEW i \in 1 .. Len(after)
                 PROVE  /\ after[i].says \in {"line", "head", "tail", "cut line", "leftover"}
                        /\ after[i].says = "cut line" => i = Len(after)
                        /\ Text(after[i]) =>
                               /\ asks[after[i].from] = [code |-> "publish", box |-> b]
                               /\ after[i].n \in 1 .. lines[after[i].from]
      OBVIOUS
    <3>1. CASE i \in 1 .. n
      BY <2>3, <2>5, <3>1 DEF InOrder, n
    <3>2. CASE i = n + 1
      BY <2>2, <2>3, <2>6, <2>7, <3>2 DEF Text
    <3> QED
      BY <2>4, <3>1, <3>2
  <2>10. ASSUME NEW i \in 1 .. Len(after), NEW j \in 1 .. Len(after),
                i < j, Text(after[i]), after[i].from = after[j].from
         PROVE  /\ after[i].n <= after[j].n
                /\ \A k \in i .. j : after[k].from = after[i].from
    <3>1. i \in 1 .. n
      BY <2>3, <2>10
    <3>2. CASE j \in 1 .. n
      <4>1. Text(items[i]) /\ items[i].from = items[j].from
        BY <2>3, <2>10, <3>1, <3>2
      <4>2. items[i].n <= items[j].n /\ \A k \in i .. j : items[k].from = items[i].from
        BY <2>10, <3>1, <3>2, <4>1 DEF InOrder, n
      <4>3. \A k \in i .. j : k \in 1 .. n
        BY <2>3, <3>1, <3>2
      <4> QED
        BY <2>3, <3>1, <3>2, <4>2, <4>3
    <3>3. CASE j = n + 1
      <4>1. after[j].from = text.from /\ after[j].n = text.n /\ Text(text) /\ text.from = c
        BY <2>2, <2>3, <2>7, <2>10, <3>3 DEF Text
      <4>2. items[i].from = c
        BY <2>3, <2>10, <3>1, <4>1
      <4>3. items[i].n <= text.n /\ \A k \in i .. n : items[k].from = c
        BY <2>8, <3>1, <4>2
      <4>4. \A k \in i .. j : after[k].from = c
        <5> SUFFICES ASSUME NEW k \in i .. j
                     PROVE  after[k].from = c
          OBVIOUS
        <5>1. k \in i .. n \/ k = j
          BY <2>3, <3>1, <3>3
        <5>2. CASE k \in i .. n
          <6>1. k \in 1 .. n
            BY <2>3, <3>1, <5>2
          <6> QED
            BY <2>3, <4>3, <5>2, <6>1
        <5> QED
          BY <4>1, <5>1, <5>2
      <4> QED
        BY <2>3, <3>1, <4>1, <4>2, <4>3, <4>4
    <3> QED
      BY <2>4, <3>2, <3>3
  <2>11. InOrder(b, after)
    BY <2>9, <2>10 DEF InOrder
  <2>12. Between(c, after, text, left)
    <3>1. CASE Text(text)
      <4>1. ASSUME NEW i \in 1 .. Len(after), after[i].from = c
            PROVE  after[i].n <= text.n /\ \A k \in i .. Len(after) : after[k].from = c
        <5>1. text.n \in Nat /\ text.from = c
          BY <2>7, <3>1, ItemNumbers
        <5>2. CASE i \in 1 .. n
          <6>1. items[i].n <= text.n /\ \A k \in i .. n : items[k].from = c
            BY <2>3, <2>8, <4>1, <5>2
          <6>2. \A k \in i .. Len(after) : k = n + 1 \/ (k \in i .. n /\ k \in 1 .. n)
            BY <2>3, <5>2
          <6> QED
            BY <2>2, <2>3, <5>1, <5>2, <6>1, <6>2
        <5>3. CASE i = n + 1
          <6>1. \A k \in i .. Len(after) : k = n + 1
            BY <2>3, <5>3
          <6>2. after[i] = item /\ after[i].n = text.n
            BY <2>2, <2>3, <5>3
          <6>3. text.n <= text.n
            BY <5>1
          <6> QED
            BY <2>2, <2>3, <5>1, <6>1, <6>2, <6>3
        <5> QED
          BY <2>4, <5>2, <5>3
      <4>2. text \notin {EmptyLine, Leftover}
        BY <3>1, SpecialItems
      <4> QED
        BY <4>1, <4>2 DEF Between
    <3>2. CASE ~Text(text)
      <4>1. text.from # c
        BY <3>2, BrokerAssumption DEF Text
      <4>2. text \in {EmptyLine, Leftover} /\ \A i \in 1 .. n : items[i].from # c
        BY <4>1 DEF Between, n
      <4>3. \A i \in 1 .. Len(after) : after[i].from # c
        BY <2>2, <2>3, <2>4, <4>1, <4>2
      <4> QED
        BY <4>2, <4>3 DEF Between
    <3> QED
      BY <3>1, <3>2
  <2>13. \A i \in 1 .. Len(after) : \/ after[i].from \in {c, NULL}
                                    \/ i \in 1 .. Len(items) /\ after[i] = items[i]
    BY <2>2, <2>3, <2>4, <2>7 DEF n
  <2> QED
    BY <2>11, <2>12, <2>13
<1> QED
  BY <1>1, <1>2, StoredIs

(* The publisher's handler stores one message.                              *)
LEMMA StoreMessageKeepsOrder ==
    ASSUME ControlInv, OrderInv, StoreMessage, NEW c \in Client, c = serving,
           NEW b \in Box, b = asks[c].box
    PROVE  /\ \A j \in 1 .. Len(pipe'[c]) : FromPublisher(c, pipe'[c][j])
           /\ InLine(pipe'[c])
           /\ session'.doing = "publishing" => Between(c, stored'[b], message', pipe'[c])
           /\ InOrder(b, stored'[b])
           /\ \A a \in Box \ {b} : stored'[a] = stored[a]
           /\ \A i \in 1 .. Len(stored'[b]) : \/ stored'[b][i].from \in {c, NULL}
                                              \/ i \in 1 .. Len(stored[b]) /\ stored'[b][i] = stored[b][i]
<1>1. /\ session.doing = "publishing" /\ Asks(c, "publish")
      /\ Between(c, stored[b], message, pipe[c])
      /\ \A i \in 1 .. Len(pipe[c]) : FromPublisher(c, pipe[c][i])
      /\ InLine(pipe[c]) /\ InOrder(b, stored[b])
  BY DEF StoreMessage, ControlInv, WorkerInv, OrderInv, PublishingInv, PipesInv, StoredInv
<1>2. /\ BrokerTypeOK /\ pipe \in [Client -> Seq(Item)] /\ pipe[c] \in Seq(Item)
      /\ stored \in [Box -> Seq(Item)] /\ stored[b] \in Seq(Item) /\ Len(stored[b]) <= MAX_MESSAGES
      /\ message \in Item
  BY BrokerTypes DEF ControlInv, BrokerTypeOK
<1>3. PICK read \in Reads(pipe[c]) : /\ pipe' = [pipe EXCEPT ![c] = read.left]
                                     /\ message' \in Parsed(read.taken)
  BY DEF StoreMessage
<1>4. pipe'[c] = read.left
  BY <1>2, <1>3
<1>5. /\ \A j \in 1 .. Len(read.left) : FromPublisher(c, read.left[j])
      /\ InLine(read.left)
      /\ Between(c, stored[b], message', read.left)
  BY <1>1, <1>2, <1>3, ReadKeepsOrder
<1>6. CASE message' = EmptyLine /\ end_publisher /\ UNCHANGED stored
  <2>1. session' = [doing |-> "reading requests", box |-> NULL]
    BY <1>6 DEF end_publisher
  <2>2. session'.doing = "reading requests"
    BY ONLY <2>1
  <2> QED
    BY <1>1, <1>4, <1>5, <1>6, <2>2
<1>7. CASE /\ message' # EmptyLine
           /\ \E items \in StoredIn(stored[b], message') : stored' = [stored EXCEPT ![b] = items]
  <2>1. PICK items \in StoredIn(stored[b], message') : stored' = [stored EXCEPT ![b] = items]
    BY <1>7
  <2>2. stored'[b] = items /\ \A a \in Box \ {b} : stored'[a] = stored[a]
    BY <1>2, <2>1
  <2>3. message' \in Item
    BY ControlKept DEF ControlInv, BrokerTypeOK, MNext, WorkerStep
  <2>4. /\ InOrder(b, items) /\ Between(c, items, message', read.left)
        /\ \A i \in 1 .. Len(items) :
               \/ items[i].from \in {c, NULL}
               \/ i \in 1 .. Len(stored[b]) /\ items[i] = stored[b][i]
    BY <1>1, <1>2, <1>5, <1>7, <2>3, StoreKeepsOrder DEF Asks
  <2> QED
    BY <1>4, <1>5, <2>2, <2>4
<1> QED
  BY <1>6, <1>7 DEF StoreMessage

(* Nothing of a client is stored before a handler has been at its request.  *)
LEMMA UnstoredKept == ControlInv /\ OrderInv /\ [MNext]_vars => UnstoredInv'
<1> SUFFICES ASSUME ControlInv, OrderInv, [MNext]_vars, NEW c \in Client, Fresh(c)',
                    NEW b \in Box, NEW i \in 1 .. Len(stored'[b])
             PROVE  stored'[b][i].from # c
  BY DEF UnstoredInv
<1>1. Fresh(c)
  BY FreshStays
<1>2. CASE stored'[b] = stored[b]
  BY <1>1, <1>2 DEF OrderInv, UnstoredInv
<1>3. CASE StoreMessage
  <2>1. PICK d \in Client : d = serving /\ asks[d].box \in Box /\ c # d
    BY <1>1, <1>3, SessionControl
  <2>2. CASE b # asks[d].box
    BY <1>2, <1>3, <2>1, <2>2, StoreMessageKeepsOrder
  <2>3. CASE b = asks[d].box
    <3>1. \/ stored'[b][i].from \in {d, NULL}
          \/ i \in 1 .. Len(stored[b]) /\ stored'[b][i] = stored[b][i]
      BY <1>3, <2>1, <2>3, StoreMessageKeepsOrder
    <3> QED
      BY <1>1, <2>1, <3>1, BrokerAssumption DEF OrderInv, UnstoredInv
  <2> QED
    BY <2>2, <2>3
<1>4. CASE Serve
  <2>1. stored' = stored \/ stored' = [stored EXCEPT ![asks[serving].box] = <<>>]
    BY <1>4 DEF Serve, ServeCreate, ServeRemove, ServeList, ServeSession
  <2>2. stored'[b] = stored[b] \/ stored'[b] = <<>>
    BY <2>1, BrokerTypes DEF ControlInv
  <2>3. stored'[b] # <<>>
    <3>1. Len(<<>>) = 0
      BY EmptySeq
    <3> QED
      BY <3>1
  <2> QED
    BY <1>2, <2>2, <2>3
<1>5. CASE ~StoreMessage /\ ~Serve
  <2>1. stored' = stored
    BY <1>5 DEF MNext, WorkerStep, Registers, Register, ReadRequest, IterateForEver, OpenPipe,
           ListingDies, PublisherGone, Relay, ClientStep, ManagerReads, SubscriberReads, Confirm, PublisherCloses, Publish,
           PublisherWrites, Withdraw, Die, Stops, workerVars, vars
  <2> QED
    BY <1>2, <2>1
<1> QED
  BY <1>3, <1>4, <1>5

(* A publisher's lines only grow in number.                                 *)
LEMMA LinesGrow ==
    ASSUME ControlInv, [MNext]_vars, NEW c \in Client
    PROVE  lines[c] \in Nat /\ lines'[c] \in Nat /\ lines[c] <= lines'[c]
<1>1. lines \in [Client -> 0 .. MaxLines] /\ MaxLines \in Nat /\ lines[c] \in Nat
  BY BrokerTypes DEF ControlInv
<1>2. CASE lines' = lines
  BY <1>1, <1>2
<1>3. CASE \E d \in Client : lines' = [lines EXCEPT ![d] = @ + 1]
  BY <1>1, <1>3
<1> QED
  BY <1>2, <1>3
     DEF MNext, WorkerStep, Registers, Register, ReadRequest, IterateForEver, OpenPipe, Serve,
         ListingDies, StoreMessage, PublisherGone, Relay, ClientStep, ManagerReads, SubscriberReads, Confirm, PublisherCloses,
         Publish, PublisherWrites, Withdraw, Die, Stops, workerVars, clientVars, vars

(* Order depends on who has asked for what and on how many lines there are. *)
LEMMA InOrderStays ==
    ASSUME ControlInv, [MNext]_vars, NEW b, NEW items \in Seq(Item), InOrder(b, items),
           \A i \in 1 .. Len(items) : Text(items[i]) => asks'[items[i].from] = asks[items[i].from]
    PROVE  InOrder(b, items)'
<1>1. \A i \in 1 .. Len(items) : Text(items[i]) => items[i].from \in Client
  <2>1. \A i \in 1 .. Len(items) : items[i] \in Item
    BY ElementOfSeq
  <2> QED
    BY <2>1 DEF Item, Text
<1>2. \A i \in 1 .. Len(items) : Text(items[i]) => items[i].n \in 1 .. lines'[items[i].from]
  <2> SUFFICES ASSUME NEW i \in 1 .. Len(items), Text(items[i])
               PROVE  items[i].n \in 1 .. lines'[items[i].from]
    OBVIOUS
  <2>1. items[i].from \in Client /\ items[i].n \in 1 .. lines[items[i].from]
    BY <1>1 DEF InOrder
  <2> QED
    BY <2>1, LinesGrow
<1> QED
  BY <1>2 DEF InOrder, Text

(* InOrder of the items that a box holds next is InOrder of the box then.   *)
LEMMA InOrderIs ==
    ASSUME NEW b, NEW items, stored'[b] = items, InOrder(b, items)'
    PROVE  InOrder(b, stored[b])'
BY DEF InOrder, Text

(* What is stored stays in order.                                           *)
LEMMA StoredKept == ControlInv /\ OrderInv /\ [MNext]_vars => StoredInv'
<1> SUFFICES ASSUME ControlInv, OrderInv, [MNext]_vars, NEW b \in Box
             PROVE  InOrder(b, stored[b])'
  BY DEF StoredInv
<1>1. stored[b] \in Seq(Item) /\ InOrder(b, stored[b]) /\ <<>> \in Seq(Item) /\ Len(<<>>) = 0
  BY BrokerTypes, EmptySeq DEF ControlInv, OrderInv, StoredInv
<1>2. ASSUME stored'[b] = stored[b], asks' = asks
      PROVE  InOrder(b, stored[b])'
  <2>1. PICK items \in Seq(Item) : items = stored[b]
    BY <1>1
  <2>2. InOrder(b, items)'
    BY <1>1, <1>2, <2>1, InOrderStays
  <2> QED
    BY <1>2, <2>1, <2>2, InOrderIs
<1>3. CASE Registers
  <2>1. PICK c \in Client, code \in Code, box \in Box : Register(c, code, box)
    BY <1>3 DEF Registers
  <2>2. stored' = stored /\ Fresh(c)
    BY <2>1 DEF Register, workerVars, Fresh
  <2>3. PICK items \in Seq(Item) : items = stored[b]
    BY <1>1
  <2>4. \A i \in 1 .. Len(items) : Text(items[i]) => asks'[items[i].from] = asks[items[i].from]
    <3> SUFFICES ASSUME NEW i \in 1 .. Len(items), Text(items[i])
                 PROVE  asks'[items[i].from] = asks[items[i].from]
      OBVIOUS
    <3>1. items[i].from # c
      BY <2>2, <2>3 DEF OrderInv, UnstoredInv
    <3>2. items[i] \in Item
      BY ElementOfSeq
    <3>3. items[i].from \in Client \ {c}
      BY <3>1, <3>2 DEF Item, Text
    <3> QED
      BY <2>1, <3>3, RegisterControl
  <2>5. InOrder(b, items)'
    BY <1>1, <2>3, <2>4, InOrderStays
  <2> QED
    BY <2>2, <2>3, <2>5, InOrderIs
<1>4. CASE StoreMessage
  <2>1. PICK d \in Client, box \in Box : d = serving /\ box = asks[d].box
    BY <1>4, SessionControl
  <2>2. UNCHANGED <<asks, lines>>
    BY <1>4 DEF StoreMessage, clientVars
  <2>3. CASE b = box
    <3>1. InOrder(b, stored'[b])
      BY <1>4, <2>1, <2>3, StoreMessageKeepsOrder
    <3>2. stored'[b] \in Seq(Item)
      BY ControlKept, BrokerTypes DEF ControlInv, BrokerTypeOK
    <3>3. PICK items \in Seq(Item) : items = stored'[b]
      BY <3>2
    <3>4. InOrder(b, items)
      BY <3>1, <3>3
    <3>5. InOrder(b, items)'
      BY <2>2, <3>4, InOrderStays
    <3> QED
      BY <3>3, <3>5, InOrderIs
  <2>4. CASE b # box
    BY <1>2, <1>4, <2>1, <2>2, <2>4, StoreMessageKeepsOrder
  <2> QED
    BY <2>3, <2>4
<1>5. CASE Serve
  <2>1. stored' = stored \/ stored' = [stored EXCEPT ![asks[serving].box] = <<>>]
    BY <1>5 DEF Serve, ServeCreate, ServeRemove, ServeList, ServeSession
  <2>2. stored'[b] = stored[b] \/ stored'[b] = <<>>
    BY <2>1, BrokerTypes DEF ControlInv
  <2>3. asks' = asks
    BY <1>5 DEF Serve, clientVars
  <2>4. CASE stored'[b] = <<>>
    <3>1. Len(stored'[b]) = 0
      BY <1>1, <2>4
    <3> QED
      BY <3>1 DEF InOrder
  <2> QED
    BY <1>2, <2>2, <2>3, <2>4
<1>6. CASE ~StoreMessage /\ ~Serve /\ ~Registers
  <2>1. stored' = stored /\ asks' = asks
    BY <1>6 DEF MNext, WorkerStep, ReadRequest, IterateForEver, OpenPipe, ListingDies,
           PublisherGone, Relay,
           ClientStep, ManagerReads, SubscriberReads, Confirm, PublisherCloses, Publish,
           PublisherWrites, Withdraw, Die, Stops, workerVars, clientVars, vars
  <2> QED
    BY <1>2, <2>1
<1> QED
  BY <1>3, <1>4, <1>5, <1>6

(* A publisher's pipe, when a client takes a step: as it was, or with what   *)
(* the publisher wrote behind.                                              *)
LEMMA PublisherPipe ==
    ASSUME ControlInv, NEW d \in Client, ClientStep(d) \/ Publish(d) \/ Withdraw(d) \/ Die(d),
           NEW c \in Client, Asks(c, "publish")
    PROVE  \/ pipe'[c] = pipe[c]
           \/ \E item \in {Confirmation, EmptyLine} : pipe'[c] = Append(pipe[c], item)
           \/ pipe'[c] = Append(pipe[c], Line(c)) /\ lines'[c] = lines[c] + 1
<1>1. pipe \in [Client -> Seq(Item)] /\ lines \in [Client -> 0 .. MaxLines]
  BY BrokerTypes DEF ControlInv
<1>2. CASE d # c
  BY <1>2, ClientControl
<1>3. CASE d = c
  <2>1. ~ManagerReads(c) /\ ~SubscriberReads(c)
    BY DEF ManagerReads, SubscriberReads, Manager, Asks
  <2>2. ASSUME NEW item, PublisherWrites(c, item, "confirmed")
        PROVE  pipe'[c] = pipe[c] \/ pipe'[c] = Append(pipe[c], item)
    BY <1>1, <2>2 DEF PublisherWrites
  <2>3. CASE Confirm(c)
    BY <2>2, <2>3 DEF Confirm
  <2>4. CASE Publish(c)
    <3>1. lines'[c] = lines[c] + 1
      BY <1>1, <2>4 DEF Publish
    <3> QED
      BY <2>2, <2>4, <3>1 DEF Publish
  <2>5. CASE PublisherCloses(c) \/ Withdraw(c) \/ Die(c)
    BY <2>5 DEF PublisherCloses, Withdraw, Die, Stops
  <2> QED
    BY <1>3, <2>1, <2>3, <2>4, <2>5 DEF ClientStep
<1> QED
  BY <1>2, <1>3

(* What is written goes behind what a pipe holds ...                        *)
LEMMA WrittenBehind ==
    ASSUME NEW items \in Seq(Item), NEW item, NEW after, after = Append(items, item)
    PROVE  /\ Len(items) \in Nat /\ Len(after) = Len(items) + 1 /\ after[Len(items) + 1] = item
           /\ \A i \in 1 .. Len(items) : after[i] = items[i] /\ items[i] \in Item
           /\ \A i \in 1 .. Len(after) :
                  \/ i \in 1 .. Len(items) /\ after[i] = items[i]
                  \/ i = Len(items) + 1 /\ after[i] = item
<1>1. Len(items) \in Nat /\ \A i \in 1 .. Len(items) : items[i] \in Item
  BY LenProperties, ElementOfSeq
<1>2. /\ Len(after) = Len(items) + 1 /\ after[Len(items) + 1] = item
      /\ \A i \in 1 .. Len(items) : after[i] = items[i]
  OBVIOUS
<1> QED
  BY <1>1, <1>2

(* ... so that a publisher's pipe stays in order.                           *)
LEMMA WrittenInLine ==
    ASSUME ControlInv, [MNext]_vars, NEW c \in Client, NEW items \in Seq(Item),
           \A i \in 1 .. Len(items) : FromPublisher(c, items[i]), InLine(items),
           NEW item, item \in {Confirmation, EmptyLine} \/ (item = Line(c) /\ lines'[c] = lines[c] + 1),
           NEW after, after = Append(items, item)
    PROVE  /\ \A i \in 1 .. Len(after) : FromPublisher(c, after[i])'
           /\ InLine(after)
<1>1. lines[c] \in Nat /\ lines'[c] \in Nat /\ lines[c] <= lines'[c]
  BY LinesGrow
<1>2. item = Line(c) => item.says = "line" /\ item.from = c /\ item.n = lines[c] + 1
  BY DEF Line
<1>3. /\ Len(items) \in Nat /\ Len(after) = Len(items) + 1 /\ after[Len(items) + 1] = item
      /\ \A i \in 1 .. Len(items) : after[i] = items[i] /\ items[i] \in Item
  BY WrittenBehind
<1>4. \A i \in 1 .. Len(after) : i \in 1 .. Len(items) \/ i = Len(items) + 1
  BY <1>3
<1>5. ASSUME NEW i \in 1 .. Len(items)
      PROVE  /\ FromPublisher(c, items[i])'
             /\ Text(items[i]) => items[i].n <= lines[c] /\ items[i].n \in Nat
  <2>1. FromPublisher(c, items[i])
    OBVIOUS
  <2>2. items[i].n \in 1 .. lines[c] => /\ items[i].n <= lines[c] /\ items[i].n \in Nat
                                       /\ items[i].n \in 1 .. lines'[c]
    BY <1>1
  <2>3. items[i] \in {Confirmation, EmptyLine} => ~Text(items[i])
    BY SpecialItems
  <2> QED
    BY ONLY <2>1, <2>2, <2>3 DEF FromPublisher
<1>6. FromPublisher(c, item)'
  BY <1>1, <1>2 DEF FromPublisher
<1>7. InLine(after)
  <2> SUFFICES ASSUME NEW i \in 1 .. Len(after), NEW j \in 1 .. Len(after),
                      i <= j, Text(after[i]), Text(after[j])
               PROVE  after[i].n <= after[j].n
    BY DEF InLine
  <2>1. CASE j \in 1 .. Len(items)
    <3>1. i \in 1 .. Len(items)
      BY <1>3, <2>1
    <3> QED
      BY <1>3, <2>1, <3>1 DEF InLine
  <2>2. CASE j = Len(items) + 1
    <3>1. item.n = lines[c] + 1
      BY <1>2, <1>3, <2>2, SpecialItems
    <3>2. CASE i \in 1 .. Len(items)
      BY <1>1, <1>3, <1>5, <2>2, <3>1, <3>2
    <3>3. CASE i = Len(items) + 1
      BY <1>1, <1>3, <2>2, <3>1, <3>3
    <3> QED
      BY <1>4, <3>2, <3>3
  <2> QED
    BY <1>4, <2>1, <2>2
<1>8. \A i \in 1 .. Len(after) : FromPublisher(c, after[i])'
  <2> SUFFICES ASSUME NEW i \in 1 .. Len(after)
               PROVE  FromPublisher(c, after[i])'
    OBVIOUS
  <2>1. CASE i \in 1 .. Len(items)
    BY <1>3, <1>5, <2>1
  <2>2. CASE i = Len(items) + 1
    BY <1>3, <1>6, <2>2
  <2> QED
    BY <1>4, <2>1, <2>2
<1> QED
  BY <1>7, <1>8

(* What is a publisher's stays the publisher's.                             *)
LEMMA FromPublisherStays ==
    ASSUME ControlInv, [MNext]_vars, NEW c \in Client, NEW item, FromPublisher(c, item)
    PROVE  FromPublisher(c, item)'
<1>1. lines[c] \in Nat /\ lines'[c] \in Nat /\ lines[c] <= lines'[c]
  BY LinesGrow
<1> QED
  BY <1>1 DEF FromPublisher

(* Each step keeps the publishers' pipes in order.                          *)
LEMMA PipesKept == ControlInv /\ OrderInv /\ [MNext]_vars => PipesInv'
<1> SUFFICES ASSUME ControlInv, OrderInv, [MNext]_vars, NEW c \in Client, Asks(c, "publish")'
             PROVE  (/\ \A i \in 1 .. Len(pipe[c]) : FromPublisher(c, pipe[c][i])
                     /\ InLine(pipe[c]))'
  BY DEF PipesInv
<1>1. /\ pipe[c] \in Seq(Item) /\ pipe'[c] \in Seq(Item)
      /\ Asks(c, "publish") => /\ \A i \in 1 .. Len(pipe[c]) : FromPublisher(c, pipe[c][i])
                               /\ InLine(pipe[c])
  BY ControlKept, BrokerTypes DEF ControlInv, BrokerTypeOK, OrderInv, PipesInv
<1>2. ASSUME pipe'[c] = pipe[c], Asks(c, "publish")
      PROVE  (/\ \A i \in 1 .. Len(pipe[c]) : FromPublisher(c, pipe[c][i])
              /\ InLine(pipe[c]))'
  <2>1. \A i \in 1 .. Len(pipe[c]) : FromPublisher(c, pipe[c][i])
    BY <1>1, <1>2
  <2>2. PICK items \in Seq(Item) : items = pipe[c]
    BY <1>1
  <2>3. \A i \in 1 .. Len(items) : FromPublisher(c, items[i])'
    BY <2>1, <2>2, FromPublisherStays
  <2> QED
    BY <1>1, <1>2, <2>2, <2>3 DEF FromPublisher, InLine
<1>3. CASE Registers
  <2>1. PICK d \in Client, code \in Code, box \in Box : Register(d, code, box)
    BY <1>3 DEF Registers
  <2>2. pipe'[c] = pipe[c]
    BY <2>1, RegisterControl
  <2>3. CASE c = d
    <3>1. Len(pipe'[c]) = 0
      BY <2>1, <2>2, <2>3, RegisterControl, EmptySeq DEF ControlInv, ClientsInv
    <3> QED
      BY <3>1 DEF InLine
  <2>4. CASE c # d
    BY <1>2, <2>1, <2>2, <2>4, RegisterControl DEF Asks
  <2> QED
    BY <2>3, <2>4
<1>4. CASE \E d \in Client : ClientStep(d) \/ Publish(d) \/ Withdraw(d) \/ Die(d)
  <2>1. PICK d \in Client : ClientStep(d) \/ Publish(d) \/ Withdraw(d) \/ Die(d)
    BY <1>4
  <2>2. Asks(c, "publish")
    BY <2>1, ClientControl DEF Asks
  <2>3. CASE pipe'[c] = pipe[c]
    BY <1>2, <2>2, <2>3
  <2>4. ASSUME NEW item, pipe'[c] = Append(pipe[c], item),
               item \in {Confirmation, EmptyLine} \/ (item = Line(c) /\ lines'[c] = lines[c] + 1)
        PROVE  (/\ \A i \in 1 .. Len(pipe[c]) : FromPublisher(c, pipe[c][i])
                /\ InLine(pipe[c]))'
    <3>1. PICK items \in Seq(Item), after \in Seq(Item) :
              items = pipe[c] /\ after = pipe'[c]
      BY <1>1
    <3>2. after = Append(items, item)
      BY <2>4, <3>1
    <3>3. \A i \in 1 .. Len(items) : FromPublisher(c, items[i])
      BY <1>1, <2>2, <3>1
    <3>4. InLine(items)
      BY <1>1, <2>2, <3>1
    <3>5. (\A i \in 1 .. Len(after) : FromPublisher(c, after[i])') /\ InLine(after)
      BY <2>4, <3>2, <3>3, <3>4, WrittenInLine
    <3> QED
      BY <3>1, <3>5 DEF FromPublisher, InLine
  <2> QED
    BY <2>1, <2>2, <2>3, <2>4, PublisherPipe
<1>5. CASE ReadRequest \/ IterateForEver \/ OpenPipe \/ ListingDies \/ UNCHANGED vars
  <2>1. pipe' = pipe /\ asks' = asks
    BY <1>5 DEF ReadRequest, IterateForEver, OpenPipe, ListingDies, clientVars, vars
  <2> QED
    BY <1>2, <2>1 DEF Asks
<1>6. CASE Serve
  <2>1. asks' = asks
    BY <1>6 DEF Serve, clientVars
  <2>2. Asks(c, "publish") /\ ~Manager(c)
    BY <2>1 DEF Asks, Manager
  <2> QED
    BY <1>2, <1>6, <2>2, ServeControl
<1>7. CASE StoreMessage \/ PublisherGone \/ Relay
  <2>1. asks' = asks
    BY <1>7, SessionControl DEF clientVars
  <2>2. Asks(c, "publish")
    BY <2>1 DEF Asks
  <2>3. CASE c # serving
    BY <1>2, <1>7, <2>2, <2>3, SessionControl
  <2>4. CASE c = serving /\ StoreMessage
    <3>1. PICK b \in Box : b = asks[c].box
      BY <1>7, <2>4, SessionControl
    <3>2. /\ \A j \in 1 .. Len(pipe'[c]) : FromPublisher(c, pipe'[c][j])
          /\ InLine(pipe'[c])
      BY <2>4, <3>1, StoreMessageKeepsOrder
    <3>3. PICK after \in Seq(Item) : after = pipe'[c]
      BY <1>1
    <3>4. \A j \in 1 .. Len(after) : FromPublisher(c, after[j])
      BY <3>2, <3>3
    <3>5. \A j \in 1 .. Len(after) : FromPublisher(c, after[j])'
      BY <3>4, FromPublisherStays
    <3> QED
      BY <3>2, <3>3, <3>5 DEF FromPublisher, InLine
  <2>5. CASE c = serving /\ PublisherGone
    BY <1>2, <2>2, <2>5 DEF PublisherGone
  <2>6. ~(c = serving /\ Relay)
    BY <2>2 DEF Relay, ControlInv, WorkerInv, Asks
  <2> QED
    BY <1>7, <2>3, <2>4, <2>5, <2>6
<1> QED
  BY <1>3, <1>4, <1>5, <1>6, <1>7 DEF MNext, WorkerStep

(* Between outlasts any step, because lines only grow in number.            *)
LEMMA BetweenStays ==
    ASSUME ControlInv, [MNext]_vars, NEW c \in Client, NEW items, NEW text, NEW left,
           Between(c, items, text, left)
    PROVE  Between(c, items, text, left)'
<1>1. lines[c] \in Nat /\ lines'[c] \in Nat /\ lines[c] <= lines'[c]
  BY LinesGrow
<1>2. text.n \in 1 .. lines[c] => text.n \in 1 .. lines'[c]
  BY <1>1
<1>3. EmptyLine' = EmptyLine /\ Leftover' = Leftover
  BY DEF EmptyLine, Leftover, Said
<1> QED
  BY <1>2, <1>3 DEF Between

(* A client that is not served may come and go; the one that is may write.  *)
LEMMA PublishingGoesOn ==
    ASSUME ControlInv, OrderInv, [MNext]_vars, session.doing = "publishing",
           UNCHANGED <<session, serving, stored, message>>, asks'[serving] = asks[serving],
           \/ pipe'[serving] = pipe[serving]
           \/ \E item \in {Confirmation, EmptyLine} : pipe'[serving] = Append(pipe[serving], item)
           \/ /\ pipe'[serving] = Append(pipe[serving], Line(serving))
              /\ lines'[serving] = lines[serving] + 1
    PROVE  PublishingInv'
<1>1. PICK c \in Client, b \in Box : c = serving /\ b = asks[c].box
  BY DEF ControlInv, WorkerInv, ClientsInv
<1>2. /\ pipe[c] \in Seq(Item) /\ pipe'[c] \in Seq(Item) /\ stored[b] \in Seq(Item)
      /\ message \in Item
  BY ControlKept, BrokerTypes DEF ControlInv, BrokerTypeOK
<1>3. PICK items \in Seq(Item), left \in Seq(Item), after \in Seq(Item), text \in Item :
          items = stored[b] /\ left = pipe[c] /\ after = pipe'[c] /\ text = message
  BY <1>2
<1>4. Between(c, items, text, left)
  BY <1>1, <1>3 DEF OrderInv, PublishingInv
<1>5. /\ \A i \in 1 .. Len(left) : FromPublisher(c, left[i])
      /\ InLine(left)
  BY <1>1, <1>3 DEF OrderInv, PipesInv, ControlInv, WorkerInv
<1>6. Between(c, items, text, after)
  <2>1. CASE after = left
    BY <1>4, <2>1
  <2>2. ASSUME NEW item, after = Append(left, item),
               item \in {Confirmation, EmptyLine} \/ (item = Line(c) /\ lines'[c] = lines[c] + 1)
        PROVE  Between(c, items, text, after)
    <3>1. \A i \in 1 .. Len(after) : Text(after[i]) =>
              \/ i \in 1 .. Len(left) /\ after[i] = left[i]
              \/ after[i] = Line(c)
      <4>1. \A i \in 1 .. Len(after) :
                (i \in 1 .. Len(left) /\ after[i] = left[i]) \/ after[i] = item
        BY <2>2, WrittenBehind
      <4> QED
        BY <2>2, <4>1, SpecialItems
    <3>2. lines[c] \in Nat /\ Line(c).n = lines[c] + 1
      BY LinesGrow DEF Line
    <3>3. text.n \in 1 .. lines[c] => text.n <= Line(c).n
      BY <3>2
    <3> QED
      BY <1>4, <3>1, <3>3 DEF Between
  <2> QED
    BY <1>1, <1>3, <2>1, <2>2
<1>7. Between(c, items, text, after)'
  BY <1>6, BetweenStays
<1>8. /\ serving' = c /\ stored'[asks'[c].box] = items /\ message' = text /\ pipe'[c] = after
  BY <1>1, <1>3
<1>9. EmptyLine' = EmptyLine /\ Leftover' = Leftover
  BY DEF EmptyLine, Leftover, Said
<1> QED
  BY ONLY <1>7, <1>8, <1>9 DEF PublishingInv, Between

(* The session's box, buffer and pipe stay in line with each other.         *)
LEMMA PublishingKept == ControlInv /\ OrderInv /\ [MNext]_vars => PublishingInv'
<1> SUFFICES ASSUME ControlInv, OrderInv, [MNext]_vars, session'.doing = "publishing"
             PROVE  PublishingInv'
  BY DEF PublishingInv
<1>1. CASE Registers
  <2>1. PICK c \in Client, code \in Code, box \in Box : Register(c, code, box)
    BY <1>1 DEF Registers
  <2>2. UNCHANGED <<session, serving, stored, message, pipe>> /\ client[c] = "not started"
    BY <2>1 DEF Register, registryVars, workerVars
  <2>3. serving \in Client \ {c}
    BY <2>2 DEF ControlInv, WorkerInv
  <2> QED
    BY <2>1, <2>2, <2>3, RegisterControl, PublishingGoesOn
<1>2. CASE \E d \in Client : ClientStep(d) \/ Publish(d) \/ Withdraw(d) \/ Die(d)
  <2>1. PICK d \in Client : ClientStep(d) \/ Publish(d) \/ Withdraw(d) \/ Die(d)
    BY <1>2
  <2>2. UNCHANGED <<asks, session, serving, message, stored>>
    BY <2>1, ClientControl DEF registryVars, ClientStep, ManagerReads, SubscriberReads, Confirm,
           PublisherCloses, Publish, PublisherWrites, Withdraw, Die, Stops, workerVars
  <2>3. serving \in Client /\ Asks(serving, "publish")
    BY <2>2 DEF ControlInv, WorkerInv
  <2> QED
    BY <2>1, <2>2, <2>3, PublisherPipe, PublishingGoesOn
<1>3. CASE ReadRequest \/ IterateForEver
  BY <1>3, ReadRequestControl
<1>4. CASE OpenPipe \/ ListingDies \/ UNCHANGED vars
  <2>1. UNCHANGED <<asks, session, serving, message, stored, pipe>>
    BY <1>4 DEF OpenPipe, ListingDies, vars, registryVars, workerVars, clientVars
  <2> QED
    BY <2>1, PublishingGoesOn
<1>5. CASE Serve
  <2>1. PICK c \in Client, b \in Box : c = serving /\ b = asks[c].box
    BY <1>5, ServeControl
  <2>2. PICK says \in Answer : ServeSession(says)
    BY <1>5, HandlerSessions DEF Serve, ServeCreate, ServeRemove, ServeList
  <2>3. message' = EmptyLine /\ UNCHANGED <<stored, serving, asks>>
    BY <1>5, <2>2 DEF ServeSession, Serve, clientVars
  <2>4. \A i \in 1 .. Len(stored[b]) : stored[b][i].from # c
    BY <1>5, <2>1, ServeControl DEF OrderInv, UnstoredInv
  <2>5. EmptyLine' = EmptyLine
    BY DEF EmptyLine, Said
  <2> QED
    BY <2>1, <2>3, <2>4, <2>5 DEF PublishingInv, Between
<1>6. CASE StoreMessage
  <2>1. PICK c \in Client, b \in Box : c = serving /\ b = asks[c].box
    BY <1>6, SessionControl
  <2>2. Between(c, stored'[b], message', pipe'[c])
    BY <1>6, <2>1, StoreMessageKeepsOrder
  <2>3. PICK items, text, left : items = stored'[b] /\ text = message' /\ left = pipe'[c]
    OBVIOUS
  <2>4. Between(c, items, text, left)'
    BY <2>2, <2>3, BetweenStays
  <2>5. serving' = c /\ asks'[c].box = b
    BY <1>6, <2>1 DEF StoreMessage, clientVars
  <2>6. EmptyLine' = EmptyLine /\ Leftover' = Leftover
    BY DEF EmptyLine, Leftover, Said
  <2> QED
    BY ONLY <2>3, <2>4, <2>5, <2>6 DEF PublishingInv, Between
<1>7. CASE PublisherGone
  <2>1. session' = [doing |-> "reading requests", box |-> NULL]
    BY <1>7 DEF PublisherGone, end_publisher
  <2>2. session'.doing = "reading requests"
    BY ONLY <2>1
  <2> QED
    BY <2>2
<1>8. CASE Relay
  BY <1>8 DEF Relay, registryVars
<1> QED
  BY <1>1, <1>2, <1>3, <1>4, <1>5, <1>6, <1>7, <1>8 DEF MNext, WorkerStep

(* At first nothing is written.                                             *)
LEMMA InitInOrder == MInit => OrderInv
<1> SUFFICES ASSUME MInit
             PROVE  OrderInv
  OBVIOUS
<1>1. /\ \A c \in Client : asks[c].code = "none"
      /\ \A b \in Box : Len(stored[b]) = 0
  BY EmptySeq DEF MInit
<1>2. session.doing = "reading requests"
  <2>1. session = [doing |-> "reading requests", box |-> NULL]
    BY DEF MInit, Init
  <2> QED
    BY ONLY <2>1
<1>3. PipesInv
  BY <1>1 DEF PipesInv, Asks
<1>4. PublishingInv
  BY <1>2 DEF PublishingInv
<1>5. UnstoredInv
  BY <1>1 DEF UnstoredInv
<1>6. StoredInv
  <2> SUFFICES ASSUME NEW b \in Box
               PROVE  InOrder(b, stored[b])
    BY DEF StoredInv
  <2>1. \A i \in 1 .. Len(stored[b]) : FALSE
    BY <1>1
  <2> QED
    BY ONLY <2>1 DEF InOrder
<1> QED
  BY <1>3, <1>4, <1>5, <1>6 DEF OrderInv

(* What StoredInv says of lines is the order of messages.                   *)
LEMMA InOrderOfStored == ControlInv /\ StoredInv => MessagesInOrder
<1> SUFFICES ASSUME ControlInv, StoredInv
             PROVE  MessagesInOrder
  OBVIOUS
<1>1. ASSUME NEW b \in Box, NEW items \in Seq(Item), items = stored[b]
      PROVE  LET text == {i \in DOMAIN items : items[i].from # NULL}
             IN  /\ \A i \in DOMAIN items :
                        /\ items[i].says \in {"line", "head", "tail", "cut line", "leftover"}
                        /\ items[i].says = "cut line" => i = Len(items)
                 /\ \A i \in text :
                        /\ asks[items[i].from] = [code |-> "publish", box |-> b]
                        /\ items[i].n \in 1 .. lines[items[i].from]
                 /\ \A i, j \in text : i < j /\ items[i].from = items[j].from =>
                        /\ items[i].n <= items[j].n
                        /\ \A k \in i .. j : items[k].from = items[i].from
  <2>1. DOMAIN items = 1 .. Len(items)
    BY LenProperties
  <2>2. InOrder(b, items)
    BY <1>1 DEF StoredInv
  <2> QED
    BY ONLY <2>1, <2>2 DEF InOrder, Text
<1>2. \A b \in Box : stored[b] \in Seq(Item)
  BY BrokerTypes DEF ControlInv
<1> QED
  BY <1>1, <1>2 DEF MessagesInOrder

(* What a box holds are lines that publishers of this box have written, in  *)
(* the order they wrote them, the lines of one session together, and no     *)
(* line behind one that was cut for want of room: however read() divides    *)
(* what is in the pipes, and whenever publishers come and go.               *)
THEOREM StoredInOrder == MSpec => []MessagesInOrder
<1>1. ControlInv /\ OrderInv /\ [MNext]_vars => OrderInv'
  BY PipesKept, PublishingKept, UnstoredKept, StoredKept DEF OrderInv
<1>2. OrderInv => StoredInv
  BY DEF OrderInv
<1> QED
  BY <1>1, <1>2, InitInOrder, InOrderOfStored, BrokerControl, PTL DEF MSpec

=============================================================================
