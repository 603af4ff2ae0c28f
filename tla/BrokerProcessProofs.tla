------------------------ MODULE BrokerProcessProofs ------------------------
(***************************************************************************)
(* The broker's descriptors under SIGINT, for every set of clients and any *)
(* limit on descriptors: whose pipe a number is, which requests are read,  *)
(* and who is forgotten.                                                   *)
(***************************************************************************)
EXTENDS BrokerProcess, SequenceTheorems, WellFoundedInduction, TLAPS

-----------------------------------------------------------------------------
(* The inductive invariant.                                                 *)

Starting == main \in {"starting", "opening", "opened"}

InHandler == worker \in {"opening", "serving", "walking", "publishing", "relaying"}

(* The pipe that a handler opens for its client.                            *)
PipeOf(c) == IF asks[c] = "publish" THEN FromClient(c) ELSE ToClient(c)

InQueue(s) == {s[i] : i \in DOMAIN s}
Distinct(s) == \A i, j \in DOMAIN s : s[i] = s[j] => i = j

(* Until the worker is created reg_pipe is 0 and 0 a standard descriptor,   *)
(* unless there has been a SIGINT.                                          *)
StartInv ==
    Starting =>
        /\ worker = "not created" /\ reading = Free /\ reg_pipe = 0 /\ late = 0
        /\ signalled # "in time"
        /\ signalled = "no" => fd[0] = Standard
        /\ \A d \in Descriptor : fd[d] \in {Free, Standard, Register}
        /\ main # "opened" => \A d \in Descriptor : fd[d] # Register /\ (d = FD_MAX - 1 => fd[d] = Free)
        /\ main = "opened" => \A d \in Descriptor : fd[d] = Register <=> d = opened

(* reg_pipe is the only number of the register pipe until SIGINT, and then  *)
(* there is none; a read() in progress from before it is the only one.      *)
RegisterInv ==
    WorkerRuns =>
        /\ worker # "not created"
        /\ signalled # "in time" => fd[reg_pipe] = Register /\ late = 0
        /\ \A d \in Descriptor : fd[d] = Register => signalled # "in time" /\ d = reg_pipe
        /\ fd[reg_pipe] # Standard
        /\ reading = Register => BetweenRequests /\ late = 0

(* Clients' pipes are the handler's own and what creations left behind, one *)
(* for each client.                                                         *)
PipesInv ==
    WorkerRuns =>
        /\ InHandler => fd[opened] = PipeOf(serving)
        /\ \A d \in Descriptor : fd[d].of # NOBODY =>
               \/ InHandler /\ d = opened
               \/ fd[d].is = "to client" /\ asks[fd[d].of] = "create"
        /\ \A d, e \in Descriptor : fd[d].of # NOBODY /\ fd[d].of = fd[e].of => d = e

(* The client whose request has been read.                                  *)
InHand == IF worker \in {"read", "iterating"} \/ InHandler THEN {serving} ELSE {}

(* A client's request is read once, and its pipe opened afterwards.         *)
RequestsInv ==
    Alive =>
        /\ Distinct(requests)
        /\ \A c \in InQueue(requests) : client[c] \in {"asked", "gone"} /\ c \notin InHand
        /\ \A c \in InHand : c \in Client /\ client[c] \in {"asked", "connected", "gone"}
        /\ \A d \in Descriptor : fd[d].of # NOBODY =>
               /\ client[fd[d].of] \in {"asked", "connected", "gone"}
               /\ fd[d].of \notin InQueue(requests)
               /\ worker = "read" => fd[d].of # serving

(* Descriptors that have run out stay so: no handler opens its pipe, and    *)
(* none closes one.                                                         *)
ForgottenInv ==
    Alive =>
        \A c \in Client : Forgotten(c) =>
            \/ c \in InHand
            \/ asks[c] = "create" \/ signalled = "in time"
            \/ WorkerRuns /\ ~InHandler /\ Unused = {}

IInv ==
    /\ ProcessTypeOK
    /\ ReadsRegisterPipeOnly
    /\ EndsOnlyOnSignal
    /\ AtMostOneMoreRequest
    /\ StartInv
    /\ RegisterInv
    /\ PipesInv
    /\ RequestsInv
    /\ ForgottenInv

-----------------------------------------------------------------------------
(* Numbers, sequences, pipes.                                               *)

LEMMA MinIsMember ==
    ASSUME NEW S, S \subseteq Nat, S # {}
    PROVE  Min(S) \in S
<1> DEFINE Less == {ss \in Nat \X Nat : ss[1] < ss[2]}
<1>1. IsWellFoundedOn(Less, Nat)
  BY NatLessThanWellFounded DEF OpToRel
<1>2. PICK x \in S : \A y \in S : ~(<<y, x>> \in Less)
  BY <1>1, WFMin
<1>3. ASSUME NEW y \in S
      PROVE  x <= y
  <2>1. x \in Nat /\ y \in Nat
    OBVIOUS
  <2>2. <<y, x>> \in Nat \X Nat /\ <<y, x>>[1] = y /\ <<y, x>>[2] = x
    BY <2>1
  <2>3. ~(y < x)
    BY <1>2, <2>2
  <2> QED
    BY <2>1, <2>3
<1> QED
  BY <1>3 DEF Min

(* The number that open() takes.                                            *)
LEMMA OpenTakesFree ==
    ASSUME Unused # {}
    PROVE  Min(Unused) \in Descriptor /\ fd[Min(Unused)] = Free
BY MinIsMember, ProcessAssumption DEF Unused, Descriptor

(* The register pipe holds requests of clients.                             *)
LEMMA QueueOfClients ==
    ASSUME NEW s \in Seq(Client)
    PROVE  InQueue(s) \subseteq Client
<1>1. \A i \in DOMAIN s : s[i] \in Client
  OBVIOUS
<1> QED
  BY <1>1 DEF InQueue

(* Taking the first of distinct requests takes that client's only one.      *)
LEMMA TailOfDistinct ==
    ASSUME NEW s \in Seq(Client), s # <<>>, Distinct(s)
    PROVE  /\ Head(s) \in Client /\ Tail(s) \in Seq(Client)
           /\ Distinct(Tail(s))
           /\ Head(s) \in InQueue(s) /\ Head(s) \notin InQueue(Tail(s))
           /\ InQueue(s) = InQueue(Tail(s)) \cup {Head(s)}
<1>1. /\ Head(s) = s[1] /\ Head(s) \in Client /\ Tail(s) \in Seq(Client)
      /\ DOMAIN s = 1 .. Len(s) /\ Len(s) \in Nat \ {0}
      /\ DOMAIN Tail(s) = 1 .. Len(s) - 1
      /\ \A i \in 1 .. Len(s) - 1 : Tail(s)[i] = s[i + 1]
  OBVIOUS
<1>2. Distinct(Tail(s)) /\ Head(s) \notin InQueue(Tail(s)) /\ Head(s) \in InQueue(s)
  BY <1>1 DEF Distinct, InQueue
<1>3. InQueue(Tail(s)) \cup {Head(s)} \subseteq InQueue(s)
  BY <1>1 DEF InQueue
<1>4. ASSUME NEW c \in InQueue(s)
      PROVE  c \in InQueue(Tail(s)) \cup {Head(s)}
  <2>1. PICK i \in 1 .. Len(s) : s[i] = c
    BY <1>1 DEF InQueue
  <2>2. CASE i = 1
    BY <2>1, <2>2, <1>1
  <2>3. CASE i # 1
    <3>1. i - 1 \in 1 .. Len(s) - 1 /\ Tail(s)[i - 1] = c
      BY <2>1, <2>3, <1>1
    <3> QED
      BY <3>1, <1>1 DEF InQueue
  <2> QED
    BY <2>2, <2>3
<1> QED
  BY <1>1, <1>2, <1>3, <1>4

(* Distinct requests stay so when a client without one appends its own.     *)
LEMMA AppendToDistinct ==
    ASSUME NEW s \in Seq(Client), NEW c \in Client, Distinct(s), c \notin InQueue(s)
    PROVE  /\ Append(s, c) \in Seq(Client)
           /\ Distinct(Append(s, c))
           /\ InQueue(Append(s, c)) = InQueue(s) \cup {c}
<1>1. /\ Append(s, c) \in Seq(Client)
      /\ DOMAIN s = 1 .. Len(s) /\ Len(s) \in Nat
      /\ DOMAIN Append(s, c) = 1 .. Len(s) + 1
      /\ \A i \in 1 .. Len(s) : Append(s, c)[i] = s[i]
      /\ Append(s, c)[Len(s) + 1] = c
  OBVIOUS
<1>2. Distinct(Append(s, c))
  BY <1>1 DEF Distinct, InQueue
<1>3. InQueue(Append(s, c)) = InQueue(s) \cup {c}
  BY <1>1 DEF InQueue
<1> QED
  BY <1>1, <1>2, <1>3

(* A pipe is known by its kind and its client.                              *)
LEMMA PipeKinds ==
    /\ Free # Standard /\ Free # Register /\ Standard # Register
    /\ Free.is = "free" /\ Standard.is = "standard" /\ Register.is = "register"
    /\ Free.of = NOBODY /\ Standard.of = NOBODY /\ Register.of = NOBODY
    /\ \A c : /\ FromClient(c).is = "from client" /\ FromClient(c).of = c
              /\ ToClient(c).is = "to client" /\ ToClient(c).of = c
    /\ \A p \in Pipes :
           \/ p \in {Free, Standard, Register}
           \/ p.of \in Client /\ p \in {FromClient(p.of), ToClient(p.of)}
    /\ {Free, Standard, Register} \subseteq Pipes
    /\ \A c \in Client : FromClient(c) \in Pipes /\ ToClient(c) \in Pipes /\ c # NOBODY
<1>1. /\ Free # Standard /\ Free # Register /\ Standard # Register
      /\ Free.is = "free" /\ Standard.is = "standard" /\ Register.is = "register"
      /\ Free.of = NOBODY /\ Standard.of = NOBODY /\ Register.of = NOBODY
  BY DEF Free, Standard, Register, Pipe
<1>2. \A c : /\ FromClient(c).is = "from client" /\ FromClient(c).of = c
            /\ ToClient(c).is = "to client" /\ ToClient(c).of = c
  BY DEF FromClient, ToClient, Pipe
<1>3. ASSUME NEW p \in Pipes
      PROVE  \/ p \in {Free, Standard, Register}
             \/ p.of \in Client /\ p \in {FromClient(p.of), ToClient(p.of)}
  <2>1. CASE p \in {Free, Standard, Register}
    BY <2>1
  <2>2. CASE p \notin {Free, Standard, Register}
    <3>1. PICK c \in Client : p = FromClient(c) \/ p = ToClient(c)
      BY <2>2 DEF Pipes
    <3>2. p.of = c
      BY <3>1, <1>2
    <3> QED
      BY <3>1, <3>2
  <2> QED
    BY <2>1, <2>2
<1>4. /\ {Free, Standard, Register} \subseteq Pipes
      /\ \A c \in Client : FromClient(c) \in Pipes /\ ToClient(c) \in Pipes /\ c # NOBODY
  BY ProcessAssumption DEF Pipes
<1> QED
  BY <1>1, <1>2, <1>3, <1>4

(* A client's pipe is not what else a descriptor can be.                    *)
LEMMA PipeOfKind ==
    ASSUME NEW c
    PROVE  /\ PipeOf(c) \notin {Free, Standard, Register} /\ PipeOf(c).of = c
           /\ asks[c] # "publish" => PipeOf(c).is = "to client"
<1>1. CASE asks[c] = "publish"
  <2>1. PipeOf(c).is = "from client" /\ PipeOf(c).of = c
    BY <1>1, PipeKinds DEF PipeOf
  <2> QED
    BY <1>1, <2>1, PipeKinds
<1>2. CASE asks[c] # "publish"
  <2>1. PipeOf(c).is = "to client" /\ PipeOf(c).of = c
    BY <1>2, PipeKinds DEF PipeOf
  <2> QED
    BY <1>2, <2>1, PipeKinds
<1> QED
  BY <1>1, <1>2

(* Steps that close pipes at most.                                          *)
LEMMA PipesClosed ==
    ASSUME PipesInv, WorkerRuns, UNCHANGED <<asks, opened, serving>>,
           \A d \in Descriptor : fd'[d].of # NOBODY => fd'[d] = fd[d],
           InHandler' => InHandler /\ fd'[opened] = fd[opened],
           InHandler /\ ~InHandler' /\ opened \in Descriptor =>
               \/ fd'[opened].of = NOBODY
               \/ fd[opened].is = "to client" /\ asks[fd[opened].of] = "create"
    PROVE  PipesInv'
<1>1. InHandler' => fd'[opened'] = PipeOf(serving)'
  BY DEF PipesInv, PipeOf
<1>2. ASSUME NEW d \in Descriptor, fd'[d].of # NOBODY
      PROVE  \/ InHandler' /\ d = opened
             \/ fd'[d].is = "to client" /\ asks[fd'[d].of] = "create"
  <2>1. CASE InHandler /\ d = opened
    BY <1>2, <2>1
  <2>2. CASE ~(InHandler /\ d = opened)
    BY <1>2, <2>2 DEF PipesInv
  <2> QED
    BY <2>1, <2>2
<1>3. ASSUME NEW d \in Descriptor, NEW e \in Descriptor,
             fd'[d].of # NOBODY, fd'[d].of = fd'[e].of
      PROVE  d = e
  <2>1. fd'[d] = fd[d] /\ fd'[e] = fd[e]
    BY <1>3
  <2> QED
    BY <1>3, <2>1 DEF PipesInv
<1> QED
  BY <1>1, <1>2, <1>3 DEF PipesInv

-----------------------------------------------------------------------------
(* Types.                                                                   *)

LEMMA TypeInit == Init => ProcessTypeOK
<1> SUFFICES ASSUME Init
             PROVE  ProcessTypeOK
  OBVIOUS
<1>1. fd \in [Descriptor -> Pipes]
  BY PipeKinds DEF Init
<1>2. 0 \in Descriptor
  BY ProcessAssumption DEF Descriptor
<1>3. asks \in [Client -> Code]
  BY DEF Init, Code
<1>4. requests \in Seq(Client)
  BY EmptySeq DEF Init
<1> QED
  BY <1>1, <1>2, <1>3, <1>4, PipeKinds DEF Init, ProcessTypeOK

(* Types after a client's step ...                                          *)
LEMMA ClientTypes ==
    ASSUME ProcessTypeOK, Distinct(requests), NEW c \in Client,
           \/ \E code \in Code : OpenRegister(c, code)
           \/ SendRequest(c) \/ Leave(c) \/ Die(c)
    PROVE  ProcessTypeOK'
<1>0. requests \in Seq(Client)
  BY DEF ProcessTypeOK
<1> USE DEF ProcessTypeOK, brokerVars
<1>1. ASSUME NEW code \in Code, OpenRegister(c, code)
      PROVE  ProcessTypeOK'
  BY <1>1 DEF OpenRegister
<1>2. CASE SendRequest(c)
  <2>1. CASE UNCHANGED requests
    BY <1>2, <2>1 DEF SendRequest
  <2>2. CASE requests' = Append(requests, c)
    <3>1. requests' \in Seq(Client)
      BY ONLY <1>0, <2>2, AppendProperties
    <3> QED
      BY <1>2, <3>1 DEF SendRequest
  <2> QED
    BY <1>2, <2>1, <2>2 DEF SendRequest
<1>3. CASE Leave(c) \/ Die(c)
  BY <1>3 DEF Leave, Die
<1> QED
  BY <1>1, <1>2, <1>3

(* ... a step of main() ...                                                 *)
LEMMA MainTypes ==
    ASSUME ProcessTypeOK, StartInv, MainStep
    PROVE  ProcessTypeOK'
<1>1. CASE MakeRegisterPipe
  BY <1>1 DEF ProcessTypeOK, MakeRegisterPipe, clientVars
<1>2. CASE RegisterPipeOpens
  <2>1. Unused # {}
    <3>1. FD_MAX - 1 \in Descriptor
      BY ProcessAssumption DEF Descriptor
    <3>2. fd[FD_MAX - 1] = Free
      BY <1>2, <3>1 DEF RegisterPipeOpens, StartInv, Starting
    <3> QED
      BY <3>1, <3>2 DEF Unused
  <2> QED
    BY <1>2, <2>1, OpenTakesFree, PipeKinds DEF ProcessTypeOK, RegisterPipeOpens
<1>3. CASE CreateWorker
  BY <1>3 DEF ProcessTypeOK, CreateWorker, clientVars
<1>4. CASE TearDown
  BY <1>4, PipeKinds DEF ProcessTypeOK, TearDown, EndProcess, clientVars
<1> QED
  BY <1>1, <1>2, <1>3, <1>4 DEF MainStep

(* ... a SIGINT ...                                                         *)
LEMMA SignalTypes ==
    ASSUME ProcessTypeOK, Signal
    PROVE  ProcessTypeOK'
<1>1. CASE SignalRunsHandler
  BY <1>1, PipeKinds DEF ProcessTypeOK, SignalRunsHandler, Handler, clientVars
<1>2. CASE SignalEndsWaiting
  BY <1>2, PipeKinds DEF ProcessTypeOK, SignalEndsWaiting, EndProcess, clientVars
<1>3. CASE SignalInterruptsWorker
  BY <1>3, PipeKinds
     DEF ProcessTypeOK, SignalInterruptsWorker, Handler, Close, AfterFailedRead, clientVars
<1>4. CASE SecondSignalKills
  BY <1>4, PipeKinds DEF ProcessTypeOK, SecondSignalKills, EndProcess, clientVars
<1>5. CASE SignalEndsListing
  BY <1>5, PipeKinds DEF ProcessTypeOK, SignalEndsListing, EndProcess, clientVars
<1> QED
  BY <1>1, <1>2, <1>3, <1>4, <1>5 DEF Signal

(* ... and a step of the worker.                                            *)
LEMMA WorkerTypes ==
    ASSUME ProcessTypeOK, Distinct(requests), InHand \subseteq Client, WorkerStep
    PROVE  ProcessTypeOK'
<1>1. CASE BeginRead
  BY <1>1 DEF ProcessTypeOK, BeginRead, AfterFailedRead, clientVars
<1>2. CASE ReadRequest
  <2>1. Head(requests) \in Client /\ Tail(requests) \in Seq(Client)
    BY <1>2, TailOfDistinct DEF ProcessTypeOK, ReadRequest
  <2>2. late' \in Nat
    <3>1. late \in Nat
      BY DEF ProcessTypeOK
    <3>2. late' = late \/ late' = late + 1
      BY <1>2 DEF ReadRequest
    <3> QED
      BY <3>1, <3>2
  <2> QED
    BY <1>2, <2>1, <2>2, PipeKinds DEF ProcessTypeOK, ReadRequest
<1>3. CASE ReadNothing
  BY <1>3, PipeKinds DEF ProcessTypeOK, ReadNothing, clientVars
<1>4. CASE OpenClientPipe
  <2>1. CASE UNCHANGED <<fd, opened>>
    BY <1>4, <2>1 DEF ProcessTypeOK, OpenClientPipe, clientVars
  <2>2. CASE serving \in Client /\ Unused # {} /\ opened' = Min(Unused)
    BY <1>4, <2>2, PipeKinds, OpenTakesFree DEF ProcessTypeOK, OpenClientPipe, clientVars
  <2> QED
    BY <1>4, <2>1, <2>2 DEF OpenClientPipe, InHand
<1>5. CASE ClientPipeOpens
  BY <1>5 DEF ProcessTypeOK, ClientPipeOpens
<1>6. CASE Handle
  <2>1. \/ fd' = fd \/ fd' = Close(opened) \/ EndProcess("killed")
    BY <1>6 DEF Handle, create_box, remove_box, list_box, reg_publisher, reg_subscriber,
       end_publisher, RelayDies, ListingDies, WalksForEver, Return, Dies
  <2>2. fd' \in [Descriptor -> Pipes]
    <3>1. fd \in [Descriptor -> Pipes]
      BY DEF ProcessTypeOK
    <3>2. [fd EXCEPT ![opened] = Free] \in [Descriptor -> Pipes]
      BY <3>1, PipeKinds
    <3>3. [d \in Descriptor |-> Free] \in [Descriptor -> Pipes]
      BY PipeKinds
    <3> QED
      BY <2>1, <3>1, <3>2, <3>3 DEF EndProcess, Close
  <2>3. serving \in Client /\ heard' \subseteq Client
    BY <1>6 DEF ProcessTypeOK, InHand, InHandler, Handle, create_box, remove_box, list_box,
       reg_publisher, reg_subscriber, end_publisher, RelayDies, ListingDies, WalksForEver, Return,
       Dies, Serves
  <2>4. /\ main' \in {main, "killed"}
        /\ reading' \in {reading, Free}
        /\ worker' \in {worker, "next read", "walking", "publishing", "relaying"}
    BY <1>6 DEF Handle, create_box, remove_box, list_box, reg_publisher, reg_subscriber,
       end_publisher, RelayDies, ListingDies, WalksForEver, Return, Dies, EndProcess
  <2> QED
    BY <1>6, <2>2, <2>3, <2>4, PipeKinds DEF ProcessTypeOK, Handle
<1>7. CASE IterateForEver
  BY <1>7 DEF ProcessTypeOK, IterateForEver, clientVars
<1> QED
  BY <1>1, <1>2, <1>3, <1>4, <1>5, <1>6, <1>7 DEF WorkerStep

-----------------------------------------------------------------------------
(* Clients.                                                                 *)

LEMMA BrokerUnchanged ==
    ASSUME IInv, UNCHANGED brokerVars
    PROVE  StartInv' /\ RegisterInv' /\ ReadsRegisterPipeOnly' /\ EndsOnlyOnSignal'
           /\ AtMostOneMoreRequest' /\ InHand' = InHand /\ Unused' = Unused
           /\ (Alive <=> Alive') /\ (InHandler <=> InHandler') /\ (WorkerRuns <=> WorkerRuns')
BY DEF IInv, brokerVars, StartInv, Starting, RegisterInv, WorkerRuns, BetweenRequests,
       ReadsRegisterPipeOnly, EndsOnlyOnSignal, AtMostOneMoreRequest, InHand, InHandler, Unused,
       Alive

(* A client opens the register pipe ...                                     *)
LEMMA OpenRegisterKeeps ==
    ASSUME IInv, NEW c \in Client, NEW code \in Code, OpenRegister(c, code)
    PROVE  IInv'
<1>1. /\ UNCHANGED <<main, worker, fd, opened, serving, signalled, requests, heard>>
      /\ UNCHANGED brokerVars /\ Alive
      /\ client[c] = "away"
      /\ \A b \in Client \ {c} : client'[b] = client[b] /\ asks'[b] = asks[b]
      /\ client'[c] \in {"joined", "knocking"}
  BY DEF IInv, ProcessTypeOK, OpenRegister, brokerVars
<1>2. ProcessTypeOK'
  BY ClientTypes DEF IInv, RequestsInv, Alive, OpenRegister
<1>3. \A d \in Descriptor : fd[d].of # NOBODY => fd[d].of \in Client \ {c}
  BY <1>1, PipeKinds DEF IInv, ProcessTypeOK, RequestsInv
<1>4. \A b \in InHand \cup InQueue(requests) : b \in Client \ {c}
  <2>1. InQueue(requests) \subseteq Client
    BY QueueOfClients DEF IInv, ProcessTypeOK
  <2> QED
    BY <1>1, <2>1 DEF IInv, RequestsInv
<1>5. PipesInv'
  BY <1>1, <1>3, <1>4 DEF IInv, PipesInv, WorkerRuns, InHandler, InHand, PipeOf
<1>6. RequestsInv'
  BY <1>1, <1>3, <1>4, BrokerUnchanged DEF IInv, RequestsInv
<1>7. ForgottenInv'
  BY <1>1, BrokerUnchanged DEF IInv, ForgottenInv, Forgotten
<1> QED
  BY <1>1, <1>2, <1>5, <1>6, <1>7, BrokerUnchanged DEF IInv

(* ... writes its request ...                                               *)
LEMMA SendRequestKeeps ==
    ASSUME IInv, NEW c \in Client, SendRequest(c)
    PROVE  IInv'
<1>1. /\ UNCHANGED <<main, worker, fd, opened, serving, signalled, asks, heard>>
      /\ UNCHANGED brokerVars /\ Alive
      /\ client[c] = "joined"
      /\ \A b \in Client \ {c} : client'[b] = client[b]
      /\ \/ client'[c] = "asked" /\ requests' = Append(requests, c)
         \/ client'[c] = "gone" /\ requests' = requests
  BY DEF IInv, ProcessTypeOK, SendRequest, brokerVars
<1>2. requests \in Seq(Client) /\ Distinct(requests) /\ c \notin InQueue(requests)
  BY <1>1 DEF IInv, ProcessTypeOK, RequestsInv
<1>3. ProcessTypeOK'
  BY <1>2, ClientTypes DEF IInv
<1>4. /\ Distinct(requests')
      /\ InQueue(requests') = InQueue(requests) \cup {c} \/ InQueue(requests') = InQueue(requests)
      /\ client'[c] = "asked" => c \in InQueue(requests')
      /\ InQueue(requests) \subseteq InQueue(requests')
  BY <1>1, <1>2, AppendToDistinct
<1>5. PipesInv'
  BY <1>1 DEF IInv, PipesInv, WorkerRuns, InHandler, PipeOf
<1>6. RequestsInv'
  <2>1. \A b \in InQueue(requests') : client'[b] \in {"asked", "gone"} /\ b \notin InHand
    <3>1. InQueue(requests) \subseteq Client \ {c} /\ c \notin InHand
      BY <1>1, <1>2, QueueOfClients DEF IInv, RequestsInv
    <3>2. \A b \in InQueue(requests) : client'[b] \in {"asked", "gone"} /\ b \notin InHand
      BY <1>1, <3>1 DEF IInv, RequestsInv
    <3>3. CASE client'[c] = "asked"
      BY <1>4, <3>1, <3>2, <3>3
    <3>4. CASE client'[c] = "gone" /\ requests' = requests
      BY <3>2, <3>4
    <3> QED
      BY <1>1, <3>3, <3>4
  <2>2. \A b \in InHand : b \in Client /\ client'[b] \in {"asked", "connected", "gone"}
    BY <1>1 DEF IInv, RequestsInv
  <2>3. \A d \in Descriptor : fd[d].of # NOBODY => fd[d].of \in Client \ {c}
    BY <1>1, PipeKinds DEF IInv, ProcessTypeOK, RequestsInv
  <2> QED
    BY <1>1, <1>4, <2>1, <2>2, <2>3, BrokerUnchanged DEF IInv, RequestsInv
<1>7. ForgottenInv'
  <2>1. \A b \in Client : Forgotten(b)' => Forgotten(b)
    BY <1>1, <1>4 DEF Forgotten, InQueue
  <2> QED
    BY <1>1, <2>1, BrokerUnchanged DEF IInv, ForgottenInv
<1> QED
  BY <1>1, <1>3, <1>5, <1>6, <1>7, BrokerUnchanged DEF IInv

(* ... and ends, served or killed.                                          *)
LEMMA ClientEndsKeeps ==
    ASSUME IInv, NEW c \in Client, Leave(c) \/ Die(c)
    PROVE  IInv'
<1>1. /\ UNCHANGED <<main, worker, fd, opened, serving, signalled, asks, heard, requests>>
      /\ UNCHANGED brokerVars /\ Alive
      /\ \A b \in Client \ {c} : client'[b] = client[b]
      /\ client'[c] = "gone"
  BY DEF IInv, ProcessTypeOK, Leave, Die, brokerVars
<1>2. ProcessTypeOK'
  BY <1>1, ClientTypes DEF IInv, RequestsInv
<1>3. PipesInv'
  BY <1>1 DEF IInv, PipesInv, WorkerRuns, InHandler, PipeOf
<1>4. RequestsInv'
  <2>1. \A d \in Descriptor : fd[d].of # NOBODY => fd[d].of \in Client
    BY PipeKinds DEF IInv, ProcessTypeOK
  <2>2. InQueue(requests) \subseteq Client
    BY QueueOfClients DEF IInv, ProcessTypeOK
  <2> QED
    BY <1>1, <2>1, <2>2, BrokerUnchanged DEF IInv, RequestsInv
<1>5. ForgottenInv'
  BY <1>1, BrokerUnchanged DEF IInv, ForgottenInv, Forgotten
<1> QED
  BY <1>1, <1>2, <1>3, <1>4, <1>5, BrokerUnchanged DEF IInv

-----------------------------------------------------------------------------
(* main() and SIGINT.                                                       *)

LEMMA ProcessEnds ==
    ASSUME IInv, ProcessTypeOK', NEW how \in {"exited", "killed"}, EndProcess(how),
           UNCHANGED <<worker, late>>, signalled' = signalled \/ worker # "ended"
    PROVE  IInv'
<1>1. ~Alive' /\ ~WorkerRuns' /\ ~Starting' /\ reading' = Free
  BY DEF EndProcess, Alive, WorkerRuns, Starting
<1>2. EndsOnlyOnSignal' /\ AtMostOneMoreRequest'
  BY DEF IInv, EndsOnlyOnSignal, AtMostOneMoreRequest
<1> QED
  BY <1>1, <1>2 DEF IInv, ReadsRegisterPipeOnly, StartInv, RegisterInv, PipesInv, RequestsInv,
     ForgottenInv

(* main() makes the register pipe ...                                       *)
LEMMA MakeRegisterPipeKeeps ==
    ASSUME IInv, MakeRegisterPipe
    PROVE  IInv'
<1>1. ProcessTypeOK'
  BY MainTypes DEF IInv, MainStep
<1>2. /\ UNCHANGED <<worker, signalled, fd, reg_pipe, reading, serving, late, requests, client,
                      asks, heard>>
      /\ main = "starting" /\ main' = "opening"
  BY DEF MakeRegisterPipe, clientVars
<1>3. Starting /\ Starting' /\ Alive /\ Alive' /\ ~WorkerRuns /\ ~WorkerRuns'
  BY <1>2 DEF Starting, Alive, WorkerRuns
<1>4. StartInv'
  BY <1>2, <1>3 DEF IInv, StartInv
<1>5. RequestsInv' /\ ForgottenInv'
  BY <1>2, <1>3 DEF IInv, RequestsInv, ForgottenInv, Forgotten, InHand, InHandler
<1>6. ReadsRegisterPipeOnly' /\ EndsOnlyOnSignal' /\ AtMostOneMoreRequest'
  BY <1>2 DEF IInv, ReadsRegisterPipeOnly, EndsOnlyOnSignal, AtMostOneMoreRequest
<1> QED
  BY <1>1, <1>3, <1>4, <1>5, <1>6 DEF IInv, RegisterInv, PipesInv

(* ... opens it, before reg_pipe has its number ...                         *)
LEMMA RegisterPipeOpensKeeps ==
    ASSUME IInv, RegisterPipeOpens
    PROVE  IInv'
<1>1. ProcessTypeOK'
  BY MainTypes DEF IInv, MainStep
<1>2. /\ UNCHANGED <<worker, signalled, reg_pipe, reading, serving, late, requests, asks, heard>>
      /\ main = "opening" /\ main' = "opened"
      /\ fd' = [fd EXCEPT ![opened'] = Register]
      /\ client' = [c \in Client |-> IF client[c] = "knocking" THEN "joined" ELSE client[c]]
  BY DEF RegisterPipeOpens
<1>3. /\ Starting /\ Starting' /\ Alive /\ Alive' /\ ~WorkerRuns /\ ~WorkerRuns'
      /\ worker = "not created"
  BY <1>2 DEF Starting, Alive, WorkerRuns, IInv, StartInv
<1>4. /\ opened' \in Descriptor /\ fd[opened'] = Free
      /\ fd \in [Descriptor -> Pipes]
  <2>1. FD_MAX - 1 \in Descriptor
    BY ProcessAssumption DEF Descriptor
  <2>2. fd[FD_MAX - 1] = Free
    BY <1>2, <1>3, <2>1 DEF IInv, StartInv
  <2> QED
    BY <2>1, <2>2, OpenTakesFree DEF Unused, RegisterPipeOpens, IInv, ProcessTypeOK
<1>5. StartInv'
  <2>1. 0 \in Descriptor
    BY ProcessAssumption DEF Descriptor
  <2>2. signalled = "no" => fd'[0] = Standard
    BY <1>2, <1>3, <1>4, <2>1, PipeKinds DEF IInv, StartInv
  <2>3. \A d \in Descriptor : fd'[d] \in {Free, Standard, Register} /\ (fd'[d] = Register <=> d = opened')
    BY <1>2, <1>3, <1>4, PipeKinds DEF IInv, StartInv
  <2> QED
    BY <1>2, <1>3, <2>2, <2>3 DEF IInv, StartInv
<1>6. RequestsInv'
  <2>1. \A d \in Descriptor : fd'[d].of = NOBODY
    BY <1>5, <1>3, PipeKinds DEF StartInv
  <2>2. InHand = {} /\ InHand' = {} /\ InQueue(requests) \subseteq Client
    BY <1>2, <1>3, QueueOfClients DEF InHand, InHandler, IInv, ProcessTypeOK
  <2> QED
    BY <1>2, <1>3, <2>1, <2>2 DEF IInv, RequestsInv
<1>7. ForgottenInv'
  BY <1>2, <1>3 DEF IInv, ForgottenInv, Forgotten, InHand, InHandler
<1>8. ReadsRegisterPipeOnly' /\ EndsOnlyOnSignal' /\ AtMostOneMoreRequest'
  BY <1>2 DEF IInv, ReadsRegisterPipeOnly, EndsOnlyOnSignal, AtMostOneMoreRequest
<1> QED
  BY <1>1, <1>3, <1>5, <1>6, <1>7, <1>8 DEF IInv, RegisterInv, PipesInv

(* ... and starts the worker.                                               *)
LEMMA CreateWorkerKeeps ==
    ASSUME IInv, CreateWorker
    PROVE  IInv'
<1>1. ProcessTypeOK'
  BY MainTypes DEF IInv, MainStep
<1>2. /\ UNCHANGED <<signalled, fd, opened, reading, serving, late, requests, client, asks, heard>>
      /\ main = "opened" /\ main' = "joining"
      /\ reg_pipe' = opened /\ worker' = "first read"
  BY DEF CreateWorker, clientVars
<1>3. /\ Starting /\ ~Starting' /\ Alive /\ Alive' /\ ~WorkerRuns /\ WorkerRuns'
      /\ worker = "not created" /\ reading = Free /\ late = 0 /\ signalled # "in time"
      /\ opened \in Descriptor
      /\ \A d \in Descriptor : fd[d] = Register <=> d = opened
      /\ \A d \in Descriptor : fd[d] \in {Free, Standard, Register}
  BY <1>2 DEF Starting, Alive, WorkerRuns, IInv, StartInv, ProcessTypeOK
<1>4. RegisterInv'
  BY <1>2, <1>3, PipeKinds DEF RegisterInv
<1>5. PipesInv'
  BY <1>2, <1>3, PipeKinds DEF PipesInv, InHandler
<1>6. RequestsInv' /\ ForgottenInv'
  BY <1>2, <1>3 DEF IInv, RequestsInv, ForgottenInv, Forgotten, InHand, InHandler
<1>7. ReadsRegisterPipeOnly' /\ EndsOnlyOnSignal' /\ AtMostOneMoreRequest'
  BY <1>2 DEF IInv, ReadsRegisterPipeOnly, EndsOnlyOnSignal, AtMostOneMoreRequest
<1> QED
  BY <1>1, <1>3, <1>4, <1>5, <1>6, <1>7 DEF IInv, StartInv

(* Each step of main() keeps the invariant.                                 *)
LEMMA MainStepKeeps ==
    ASSUME IInv, MainStep
    PROVE  IInv'
<1>1. CASE TearDown
  <2>1. ProcessTypeOK'
    BY MainTypes DEF IInv
  <2> QED
    BY <1>1, <2>1, ProcessEnds DEF TearDown
<1> QED
  BY <1>1, MakeRegisterPipeKeeps, RegisterPipeOpensKeeps, CreateWorkerKeeps DEF MainStep

(* sig_handler() while there is a worker: the register pipe is gone from    *)
(* the table, and what handlers have open is not touched.                   *)
LEMMA HandlerFreesRegister ==
    ASSUME IInv, WorkerRuns, NEW table \in {fd, Close(opened)}, Handler(table)
    PROVE  /\ signalled' = "in time"
           /\ \A d \in Descriptor : fd'[d] # Register /\ fd'[d] \in {fd[d], Free}
           /\ \A d \in Descriptor : fd'[d].of # NOBODY => fd'[d] = fd[d]
           /\ fd'[reg_pipe] = Free
           /\ InHandler => fd'[opened] = table[opened]
<1>1. /\ fd \in [Descriptor -> Pipes] /\ reg_pipe \in Descriptor /\ opened \in Descriptor
      /\ fd[reg_pipe] = Register
      /\ \A d \in Descriptor : fd[d] = Register => d = reg_pipe
  BY DEF IInv, ProcessTypeOK, RegisterInv, Handler, HandlerIsInstalled
<1>2. InHandler => opened # reg_pipe
  BY <1>1, PipeOfKind DEF IInv, PipesInv
<1>3. fd' = [table EXCEPT ![reg_pipe] = Free] /\ signalled' = "in time"
  BY DEF Handler, WorkerRuns
<1>4. /\ table \in [Descriptor -> Pipes]
      /\ \A d \in Descriptor : table[d] \in {fd[d], Free}
  BY <1>1, PipeKinds DEF Close
<1>5. \A d \in Descriptor : fd'[d] # Register /\ fd'[d] \in {fd[d], Free}
  BY <1>1, <1>3, <1>4, PipeKinds
<1> QED
  BY <1>1, <1>2, <1>3, <1>4, <1>5, PipeKinds

(* The handler closes whatever number reg_pipe has ...                      *)
LEMMA SignalRunsHandlerKeeps ==
    ASSUME IInv, SignalRunsHandler
    PROVE  IInv'
<1>1. ProcessTypeOK'
  BY SignalTypes DEF IInv, Signal
<1>2. UNCHANGED <<main, worker, reg_pipe, opened, reading, serving, late, requests, client, asks, heard>>
  BY DEF SignalRunsHandler, clientVars
<1>3. Handler(fd) /\ Alive /\ Alive' /\ signalled = "no"
  BY <1>2 DEF SignalRunsHandler, Handler, HandlerIsInstalled, Alive
<1>4. /\ fd \in [Descriptor -> Pipes] /\ 0 \in Descriptor /\ reg_pipe \in Descriptor
      /\ fd' = [fd EXCEPT ![reg_pipe] = Free]
  <2>1. 0 \in Descriptor
    BY ProcessAssumption DEF Descriptor
  <2> QED
    BY <1>3, <2>1 DEF IInv, ProcessTypeOK, Handler
<1>5. InHand' = InHand /\ (InHandler <=> InHandler') /\ (WorkerRuns <=> WorkerRuns')
  BY <1>2 DEF InHand, InHandler, WorkerRuns
<1>6. StartInv'
  <2>1. CASE Starting
    <3>1. signalled' = "early" /\ fd[0] = Standard /\ reg_pipe = 0
      BY <2>1, <1>3 DEF Handler, Starting, IInv, StartInv
    <3>2. main = "opened" => opened # 0
      BY <2>1, <3>1, <1>4, PipeKinds DEF IInv, StartInv
    <3> QED
      BY <2>1, <3>1, <3>2, <1>2, <1>4, PipeKinds DEF IInv, StartInv, Starting
  <2>2. CASE ~Starting
    BY <2>2, <1>2 DEF StartInv, Starting
  <2> QED
    BY <2>1, <2>2
<1>7. RegisterInv' /\ PipesInv'
  <2>1. CASE WorkerRuns
    <3>1. /\ signalled' = "in time"
          /\ \A d \in Descriptor : fd'[d] # Register /\ fd'[d] \in {fd[d], Free}
          /\ \A d \in Descriptor : fd'[d].of # NOBODY => fd'[d] = fd[d]
          /\ fd'[reg_pipe] = Free
          /\ InHandler => fd'[opened] = fd[opened]
      BY <1>3, <2>1, HandlerFreesRegister
    <3>2. RegisterInv'
      BY <3>1, <1>2, <2>1, PipeKinds DEF IInv, RegisterInv, BetweenRequests, WorkerRuns
    <3>3. PipesInv'
      BY <3>1, <1>2, <1>5, <2>1, PipesClosed DEF IInv
    <3> QED
      BY <3>2, <3>3
  <2> QED
    BY <2>1, <1>5 DEF RegisterInv, PipesInv
<1>8. RequestsInv'
  BY <1>2, <1>3, <1>4, <1>5, PipeKinds DEF IInv, RequestsInv
<1>9. ForgottenInv'
  BY <1>2, <1>3, <1>5 DEF IInv, ForgottenInv, Forgotten, Handler, WorkerRuns
<1>10. ReadsRegisterPipeOnly' /\ EndsOnlyOnSignal' /\ AtMostOneMoreRequest'
  BY <1>2, <1>3 DEF IInv, ReadsRegisterPipeOnly, EndsOnlyOnSignal, AtMostOneMoreRequest
<1> QED
  BY <1>1, <1>6, <1>7, <1>8, <1>9, <1>10 DEF IInv

(* ... or the signal interrupts a call of the worker.                       *)
LEMMA SignalInterruptsWorkerKeeps ==
    ASSUME IInv, SignalInterruptsWorker
    PROVE  IInv'
<1>1. ProcessTypeOK'
  BY SignalTypes DEF IInv, Signal
<1>2. UNCHANGED <<main, reg_pipe, opened, serving, late, requests, client, asks, heard>>
  BY DEF SignalInterruptsWorker, clientVars
<1>3. \/ Handler(fd) /\ reading = Register /\ reading' = Free /\ worker' = AfterFailedRead
      \/ /\ Handler(Close(opened)) /\ worker \in {"opening", "publishing"}
         /\ worker' = "next read" /\ reading' = reading
  BY DEF SignalInterruptsWorker, IInv, ReadsRegisterPipeOnly
<1>4. WorkerRuns /\ WorkerRuns' /\ ~Starting' /\ Alive /\ Alive'
  BY <1>2, <1>3, PipeKinds DEF IInv, StartInv, Starting, Handler, Alive, WorkerRuns, ProcessTypeOK
<1>5. /\ worker' \in {"next read", "ended"} /\ reading' = Free
      /\ ~InHandler' /\ InHand' = {}
      /\ reading = Register => ~InHandler /\ InHand = {}
  <2>1. reading = Register => worker \in {"first read", "next read"}
    BY <1>4 DEF IInv, RegisterInv, BetweenRequests
  <2>2. worker' \in {"next read", "ended"} /\ reading' = Free
    BY <1>3, <2>1 DEF AfterFailedRead, IInv, ReadsRegisterPipeOnly
  <2> QED
    BY <2>1, <2>2 DEF InHandler, InHand
<1>6. /\ signalled' = "in time"
      /\ \A d \in Descriptor : fd'[d] # Register /\ fd'[d] \in {fd[d], Free}
      /\ \A d \in Descriptor : fd'[d].of # NOBODY => fd'[d] = fd[d]
      /\ fd'[reg_pipe] = Free
      /\ InHandler => fd'[opened] = Free
  <2>1. CASE Handler(fd) /\ reading = Register
    BY <1>4, <1>5, <2>1, HandlerFreesRegister
  <2>2. CASE Handler(Close(opened))
    <3>1. Close(opened)[opened] = Free
      BY DEF Close, IInv, ProcessTypeOK
    <3> QED
      BY <1>4, <2>2, <3>1, HandlerFreesRegister
  <2> QED
    BY <1>3, <2>1, <2>2
<1>7. RegisterInv'
  BY <1>2, <1>4, <1>5, <1>6, PipeKinds DEF IInv, RegisterInv
<1>8. PipesInv'
  BY <1>2, <1>4, <1>5, <1>6, PipesClosed, PipeKinds DEF IInv
<1>9. RequestsInv' /\ ForgottenInv'
  BY <1>2, <1>4, <1>5, <1>6 DEF IInv, RequestsInv, ForgottenInv
<1>10. ReadsRegisterPipeOnly' /\ EndsOnlyOnSignal' /\ AtMostOneMoreRequest'
  BY <1>2, <1>5, <1>6 DEF IInv, ReadsRegisterPipeOnly, EndsOnlyOnSignal, AtMostOneMoreRequest
<1> QED
  BY <1>1, <1>4, <1>7, <1>8, <1>9, <1>10 DEF IInv, StartInv

(* SIGINT keeps the invariant, wherever it finds the process.               *)
LEMMA SignalKeeps ==
    ASSUME IInv, Signal
    PROVE  IInv'
<1>1. ProcessTypeOK'
  BY SignalTypes DEF IInv
<1>2. CASE SignalEndsWaiting
  <2>1. worker # "ended"
    BY <1>2 DEF SignalEndsWaiting, IInv, StartInv, Starting
  <2> QED
    BY <1>1, <1>2, <2>1, ProcessEnds DEF SignalEndsWaiting
<1>3. CASE SecondSignalKills
  BY <1>1, <1>3, ProcessEnds DEF SecondSignalKills
<1>4. CASE SignalEndsListing
  BY <1>1, <1>4, ProcessEnds DEF SignalEndsListing
<1> QED
  BY <1>2, <1>3, <1>4, SignalRunsHandlerKeeps, SignalInterruptsWorkerKeeps DEF Signal

-----------------------------------------------------------------------------
(* The worker.                                                              *)

(* Where the worker is, the process lives and has started.                  *)
LEMMA WorkerLives ==
    ASSUME WorkerRuns, main' = main
    PROVE  Alive /\ Alive' /\ WorkerRuns' /\ ~Starting /\ ~Starting' /\ StartInv'
BY DEF WorkerRuns, Alive, Starting, StartInv

(* The worker goes to read ...                                              *)
LEMMA BeginReadKeeps ==
    ASSUME IInv, BeginRead
    PROVE  IInv'
<1>1. ProcessTypeOK'
  BY WorkerTypes DEF IInv, WorkerStep, RequestsInv, Alive, BeginRead, WorkerRuns
<1>2. /\ UNCHANGED <<main, signalled, fd, reg_pipe, opened, serving, late, requests, client, asks,
                      heard>>
      /\ WorkerRuns /\ BetweenRequests /\ reading = Free
      /\ \/ /\ fd[reg_pipe].is \in {"standard", "register", "from client"}
            /\ reading' = fd[reg_pipe] /\ worker' = worker
         \/ /\ fd[reg_pipe].is \notin {"standard", "register", "from client"}
            /\ worker' = AfterFailedRead /\ reading' = reading
  BY DEF BeginRead, clientVars
<1>3. /\ Alive /\ Alive' /\ WorkerRuns' /\ StartInv'
      /\ ~InHandler /\ ~InHandler' /\ InHand = {} /\ InHand' = {}
      /\ worker' \in {"first read", "next read", "ended"}
  BY <1>2, WorkerLives DEF BetweenRequests, InHandler, InHand, AfterFailedRead
<1>4. fd[reg_pipe] \in Pipes /\ reg_pipe \in Descriptor
  BY DEF IInv, ProcessTypeOK
<1>5. CASE worker' = worker /\ reading' = Register /\ fd[reg_pipe] = Register
  <2>1. signalled # "in time" /\ late = 0
    BY <1>2, <1>4, <1>5 DEF IInv, RegisterInv
  <2>2. RegisterInv'
    BY <1>2, <1>3, <1>5, <2>1 DEF IInv, RegisterInv, BetweenRequests
  <2>3. PipesInv'
    BY <1>2, <1>3 DEF IInv, PipesInv
  <2>4. RequestsInv'
    BY <1>2, <1>3, <1>5 DEF IInv, RequestsInv
  <2>5. ForgottenInv'
    BY <1>2, <1>3 DEF IInv, ForgottenInv, Forgotten, Unused
  <2>6. ReadsRegisterPipeOnly' /\ EndsOnlyOnSignal' /\ AtMostOneMoreRequest'
    BY <1>2, <1>5 DEF IInv, ReadsRegisterPipeOnly, EndsOnlyOnSignal, AtMostOneMoreRequest
  <2> QED
    BY <1>1, <1>3, <2>2, <2>3, <2>4, <2>5, <2>6 DEF IInv
<1>6. CASE reading' = Free /\ fd[reg_pipe] # Register /\ worker' # "not created"
  <2>1. signalled = "in time"
    BY <1>2, <1>6 DEF IInv, RegisterInv
  <2>2. RegisterInv'
    BY <1>2, <1>6, PipeKinds DEF IInv, RegisterInv
  <2>3. PipesInv' /\ RequestsInv' /\ ForgottenInv'
    BY <1>2, <1>3, <2>1 DEF IInv, PipesInv, RequestsInv, ForgottenInv
  <2> QED
    BY <1>1, <1>2, <1>3, <1>6, <2>1, <2>2, <2>3
       DEF IInv, ReadsRegisterPipeOnly, EndsOnlyOnSignal, AtMostOneMoreRequest
<1>7. fd[reg_pipe].is \in {"standard", "register", "from client"} => fd[reg_pipe] = Register
  <2>1. fd[reg_pipe].of = NOBODY \/ fd[reg_pipe].is = "to client"
    BY <1>2, <1>3, <1>4 DEF IInv, PipesInv
  <2>2. fd[reg_pipe] # Standard
    BY <1>2 DEF IInv, RegisterInv
  <2> QED
    BY <1>4, <2>1, <2>2, PipeKinds
<1> QED
  BY <1>2, <1>3, <1>5, <1>6, <1>7, PipeKinds

(* ... takes a request ...                                                  *)
LEMMA ReadRequestKeeps ==
    ASSUME IInv, ReadRequest
    PROVE  IInv'
<1>1. ProcessTypeOK'
  BY WorkerTypes DEF IInv, WorkerStep, RequestsInv, Alive, ReadRequest, WorkerRuns
<1>2. /\ UNCHANGED <<main, signalled, fd, reg_pipe, opened, client, asks, heard>>
      /\ WorkerRuns /\ reading = Register /\ reading' = Free
      /\ requests # <<>> /\ serving' = Head(requests) /\ requests' = Tail(requests)
      /\ worker' = "read"
      /\ late' = IF signalled = "in time" THEN late + 1 ELSE late
  BY DEF ReadRequest
<1>3. Alive /\ Alive' /\ WorkerRuns' /\ StartInv' /\ late = 0 /\ BetweenRequests
  BY <1>2, WorkerLives DEF IInv, RegisterInv
<1>4. ~InHandler /\ ~InHandler' /\ InHand = {} /\ InHand' = {serving'}
  BY <1>2, <1>3 DEF InHandler, InHand, BetweenRequests
<1>5. /\ serving' \in Client /\ Distinct(requests')
      /\ InQueue(requests) = InQueue(requests') \cup {serving'}
      /\ serving' \in InQueue(requests) /\ serving' \notin InQueue(requests')
  BY <1>2, <1>3, TailOfDistinct DEF IInv, ProcessTypeOK, RequestsInv
<1>6. RegisterInv' /\ AtMostOneMoreRequest'
  <2>1. late' <= 1 /\ (signalled # "in time" => late' = 0)
    <3>1. CASE signalled = "in time"
      <4>1. late' = late + 1 /\ late = 0
        BY <1>2, <1>3, <3>1
      <4>2. late' <= 1
        BY ONLY <4>1
      <4> QED
        BY <1>2, <3>1, <4>2
    <3>2. CASE signalled # "in time"
      <4>1. late' = 0
        BY <1>2, <1>3, <3>2
      <4> QED
        BY ONLY <4>1
    <3> QED
      BY <3>1, <3>2
  <2>2. RegisterInv'
    BY <1>2, <1>3, <2>1, PipeKinds DEF IInv, RegisterInv
  <2> QED
    BY <2>1, <2>2 DEF AtMostOneMoreRequest
<1>7. PipesInv'
  BY <1>2, <1>3, <1>4 DEF IInv, PipesInv
<1>8. RequestsInv'
  BY <1>2, <1>3, <1>4, <1>5 DEF IInv, RequestsInv
<1>9. ForgottenInv'
  <2>1. \A c \in Client : Forgotten(c)' => c = serving' \/ Forgotten(c)
    BY <1>2, <1>5 DEF Forgotten, InQueue
  <2> QED
    BY <1>2, <1>3, <1>4, <2>1 DEF IInv, ForgottenInv, Unused
<1>10. ReadsRegisterPipeOnly' /\ EndsOnlyOnSignal'
  BY <1>2 DEF ReadsRegisterPipeOnly, EndsOnlyOnSignal
<1> QED
  BY <1>1, <1>3, <1>6, <1>7, <1>8, <1>9, <1>10 DEF IInv

(* ... or finds the pipe closed.                                            *)
LEMMA ReadNothingKeeps ==
    ASSUME IInv, ReadNothing
    PROVE  IInv'
<1>1. ProcessTypeOK'
  BY WorkerTypes DEF IInv, WorkerStep, RequestsInv, Alive, ReadNothing, WorkerRuns
<1>2. /\ UNCHANGED <<main, signalled, fd, reg_pipe, opened, serving, late, requests, client, asks,
                      heard>>
      /\ WorkerRuns /\ reading = Register /\ reading' = Free /\ worker' = "next read"
  BY DEF ReadNothing, clientVars
<1>3. Alive /\ Alive' /\ WorkerRuns' /\ StartInv' /\ BetweenRequests
  BY <1>2, WorkerLives DEF IInv, RegisterInv
<1>4. ~InHandler /\ ~InHandler' /\ InHand = {} /\ InHand' = {}
  BY <1>2, <1>3 DEF InHandler, InHand, BetweenRequests
<1> QED
  BY <1>1, <1>2, <1>3, <1>4, PipeKinds
     DEF IInv, RegisterInv, PipesInv, RequestsInv, ForgottenInv, Forgotten, Unused,
         ReadsRegisterPipeOnly, EndsOnlyOnSignal, AtMostOneMoreRequest

(* remove_box() that never comes to open() keeps its client in hand.        *)
LEMMA IterateForEverKeeps ==
    ASSUME IInv, IterateForEver
    PROVE  IInv'
<1>1. ProcessTypeOK'
  BY WorkerTypes DEF IInv, WorkerStep, RequestsInv, Alive, IterateForEver, WorkerRuns
<1>2. /\ UNCHANGED <<main, signalled, fd, reg_pipe, opened, reading, serving, late, requests,
                      client, asks, heard>>
      /\ WorkerRuns /\ worker = "read" /\ worker' = "iterating"
  BY DEF IterateForEver, clientVars
<1>3. Alive /\ Alive' /\ WorkerRuns' /\ StartInv'
  BY <1>2, WorkerLives
<1>4. ~InHandler /\ ~InHandler' /\ InHand = {serving} /\ InHand' = {serving}
  BY <1>2 DEF InHandler, InHand
<1>5. RegisterInv' /\ PipesInv'
  BY <1>2, <1>3, <1>4 DEF IInv, RegisterInv, PipesInv, BetweenRequests
<1>6. RequestsInv' /\ ForgottenInv'
  <2>1. RequestsInv'
    BY <1>2, <1>3, <1>4 DEF IInv, RequestsInv
  <2>2. (\A c \in Client : Forgotten(c)' <=> Forgotten(c)) /\ Unused' = Unused
    BY <1>2 DEF Forgotten, Unused
  <2>3. ForgottenInv'
    BY <1>2, <1>3, <1>4, <2>2 DEF IInv, ForgottenInv
  <2> QED
    BY <2>1, <2>3
<1>7. ReadsRegisterPipeOnly' /\ EndsOnlyOnSignal' /\ AtMostOneMoreRequest'
  BY <1>2 DEF IInv, ReadsRegisterPipeOnly, EndsOnlyOnSignal, AtMostOneMoreRequest
<1> QED
  BY <1>1, <1>3, <1>5, <1>6, <1>7 DEF IInv

(* A client's pipe that cannot be opened leaves the client ...              *)
LEMMA OpenFailsKeeps ==
    ASSUME IInv, OpenClientPipe, UNCHANGED <<fd, opened>>, worker' = "next read",
           Unused = {} \/ MayHaveWithdrawn(serving)
    PROVE  IInv'
<1>1. ProcessTypeOK'
  BY WorkerTypes DEF IInv, WorkerStep, RequestsInv, Alive, OpenClientPipe, WorkerRuns
<1>2. /\ UNCHANGED <<main, signalled, reg_pipe, reading, serving, late, requests, client, asks,
                      heard>>
      /\ WorkerRuns /\ worker = "read"
  BY DEF OpenClientPipe, clientVars
<1>3. Alive /\ Alive' /\ WorkerRuns' /\ StartInv'
  BY <1>2, WorkerLives
<1>4. ~InHandler /\ ~InHandler' /\ InHand = {serving} /\ InHand' = {}
  BY <1>2 DEF InHandler, InHand
<1>5. RegisterInv' /\ PipesInv'
  BY <1>2, <1>3, <1>4 DEF IInv, RegisterInv, PipesInv, BetweenRequests
<1>6. RequestsInv'
  BY <1>2, <1>3, <1>4 DEF IInv, RequestsInv
<1>7. ForgottenInv'
  <2>1. \A c \in Client : Forgotten(c)' => Forgotten(c) /\ (c = serving => Unused = {})
    BY <1>2 DEF Forgotten, MayHaveWithdrawn
  <2> QED
    BY <1>2, <1>3, <1>4, <2>1 DEF IInv, ForgottenInv, Unused
<1>8. ReadsRegisterPipeOnly' /\ EndsOnlyOnSignal' /\ AtMostOneMoreRequest'
  BY <1>2 DEF IInv, ReadsRegisterPipeOnly, EndsOnlyOnSignal, AtMostOneMoreRequest
<1> QED
  BY <1>1, <1>3, <1>5, <1>6, <1>7, <1>8 DEF IInv

(* ... one that can takes the lowest free number ...                        *)
LEMMA OpenWaitsKeeps ==
    ASSUME IInv, OpenClientPipe, Unused # {}, worker' = "opening", opened' = Min(Unused),
           fd' = [fd EXCEPT ![Min(Unused)] = PipeOf(serving)]
    PROVE  IInv'
<1>1. ProcessTypeOK'
  BY WorkerTypes DEF IInv, WorkerStep, RequestsInv, Alive, OpenClientPipe, WorkerRuns
<1>2. /\ UNCHANGED <<main, signalled, reg_pipe, reading, serving, late, requests, client, asks,
                      heard>>
      /\ WorkerRuns /\ worker = "read"
  BY DEF OpenClientPipe, clientVars
<1>3. Alive /\ Alive' /\ WorkerRuns' /\ StartInv'
  BY <1>2, WorkerLives
<1>4. ~InHandler /\ InHandler' /\ InHand = {serving} /\ InHand' = {serving}
  BY <1>2 DEF InHandler, InHand
<1>5. /\ opened' \in Descriptor /\ fd[opened'] = Free
      /\ fd'[opened'] = PipeOf(serving)
      /\ \A d \in Descriptor \ {opened'} : fd'[d] = fd[d]
  BY OpenTakesFree DEF IInv, ProcessTypeOK
<1>6. RegisterInv'
  BY <1>2, <1>3, <1>5, PipeOfKind, PipeKinds DEF IInv, RegisterInv, BetweenRequests, ProcessTypeOK
<1>7. PipesInv'
  <2>1. fd'[opened'] = PipeOf(serving)'
    BY <1>2, <1>5 DEF PipeOf
  <2>2. ASSUME NEW d \in Descriptor, fd'[d].of # NOBODY, d # opened'
        PROVE  /\ fd'[d].is = "to client" /\ asks[fd'[d].of] = "create"
               /\ fd'[d].of # serving
    BY <1>2, <1>3, <1>4, <1>5, <2>2 DEF IInv, PipesInv, RequestsInv
  <2>3. ASSUME NEW d \in Descriptor, NEW e \in Descriptor,
               fd'[d].of # NOBODY, fd'[d].of = fd'[e].of
        PROVE  d = e
    <3>1. fd'[opened'].of = serving
      BY <1>5, PipeOfKind
    <3>2. CASE d = opened' \/ e = opened'
      <4>1. fd'[d].of = serving /\ fd'[e].of = serving /\ serving # NOBODY
        BY <2>3, <3>1, <3>2
      <4>2. d = opened' /\ e = opened'
        BY <2>2, <4>1
      <4> QED
        BY <4>2
    <3>3. CASE d # opened' /\ e # opened'
      <4>1. fd'[d] = fd[d] /\ fd'[e] = fd[e]
        BY <1>5, <3>3
      <4>2. fd[d].of # NOBODY /\ fd[d].of = fd[e].of
        BY <2>3, <4>1
      <4>3. \A x, y \in Descriptor : fd[x].of # NOBODY /\ fd[x].of = fd[y].of => x = y
        BY <1>2 DEF IInv, PipesInv
      <4> QED
        BY <4>2, <4>3
    <3> QED
      BY <3>2, <3>3
  <2> QED
    BY <1>2, <1>4, <2>1, <2>2, <2>3 DEF PipesInv
<1>8. RequestsInv'
  <2>1. fd'[opened'].of = serving
    BY <1>5, PipeOfKind
  <2> QED
    BY <1>2, <1>3, <1>4, <1>5, <2>1 DEF IInv, RequestsInv
<1>9. ForgottenInv'
  BY <1>2, <1>3, <1>4 DEF IInv, ForgottenInv, Forgotten
<1>10. ReadsRegisterPipeOnly' /\ EndsOnlyOnSignal' /\ AtMostOneMoreRequest'
  BY <1>2 DEF IInv, ReadsRegisterPipeOnly, EndsOnlyOnSignal, AtMostOneMoreRequest
<1> QED
  BY <1>1, <1>3, <1>6, <1>7, <1>8, <1>9, <1>10 DEF IInv

(* ... and is open when the client has opened it too.                       *)
LEMMA ClientPipeOpensKeeps ==
    ASSUME IInv, ClientPipeOpens
    PROVE  IInv'
<1>1. ProcessTypeOK'
  BY WorkerTypes DEF IInv, WorkerStep, RequestsInv, Alive, ClientPipeOpens, WorkerRuns
<1>2. /\ UNCHANGED <<main, signalled, fd, reg_pipe, opened, reading, serving, late, requests, asks,
                      heard>>
      /\ WorkerRuns /\ worker = "opening" /\ worker' = "serving"
      /\ client[serving] = "asked" /\ client' = [client EXCEPT ![serving] = "connected"]
  BY DEF ClientPipeOpens
<1>3. Alive /\ Alive' /\ WorkerRuns' /\ StartInv'
  BY <1>2, WorkerLives
<1>4. InHandler /\ InHandler' /\ InHand = {serving} /\ InHand' = {serving}
  BY <1>2 DEF InHandler, InHand
<1>5. /\ \A c \in Client \ {serving} : client'[c] = client[c]
      /\ serving \in Client /\ client'[serving] = "connected"
      /\ InQueue(requests) \subseteq Client /\ serving \notin InQueue(requests)
  BY <1>2, <1>3, <1>4, QueueOfClients DEF IInv, ProcessTypeOK, RequestsInv
<1>6. RegisterInv' /\ PipesInv'
  BY <1>2, <1>3, <1>4 DEF IInv, RegisterInv, PipesInv, BetweenRequests, PipeOf
<1>7. RequestsInv'
  <2>1. \A d \in Descriptor : fd[d].of # NOBODY => fd[d].of \in Client
    BY PipeKinds DEF IInv, ProcessTypeOK
  <2> QED
    BY <1>2, <1>3, <1>4, <1>5, <2>1 DEF IInv, RequestsInv
<1>8. ForgottenInv'
  BY <1>2, <1>3, <1>4, <1>5 DEF IInv, ForgottenInv, Forgotten
<1>9. ReadsRegisterPipeOnly' /\ EndsOnlyOnSignal' /\ AtMostOneMoreRequest'
  BY <1>2 DEF IInv, ReadsRegisterPipeOnly, EndsOnlyOnSignal, AtMostOneMoreRequest
<1> QED
  BY <1>1, <1>3, <1>6, <1>7, <1>8, <1>9 DEF IInv

-----------------------------------------------------------------------------
(* The handlers.                                                            *)

(* A handler that returns has been heard and closes its pipe, unless it is  *)
(* create_box().                                                            *)
LEMMA ReturnKeeps ==
    ASSUME IInv, ProcessTypeOK', WorkerRuns, InHandler,
           UNCHANGED <<signalled, reg_pipe, opened, serving, late, requests, client, asks>>,
           \/ Return(TRUE, Close(opened))
           \/ asks[serving] = "create" /\ (Return(TRUE, fd) \/ Return(FALSE, fd))
    PROVE  IInv'
<1>1. /\ main' = main /\ reading' = reading /\ worker' = "next read"
      /\ heard \subseteq heard'
      /\ serving \in heard' \/ asks[serving] = "create"
  BY DEF Return
<1>2. /\ Alive /\ Alive' /\ WorkerRuns' /\ StartInv'
      /\ ~InHandler' /\ InHand = {serving} /\ InHand' = {}
  BY <1>1, WorkerLives DEF InHandler, InHand
<1>3. /\ opened \in Descriptor /\ reg_pipe \in Descriptor /\ fd \in [Descriptor -> Pipes]
      /\ fd[opened] = PipeOf(serving) /\ fd[opened].of = serving /\ fd[opened] # Register
  <2>1. /\ opened \in Descriptor /\ reg_pipe \in Descriptor
        /\ fd \in [Descriptor -> Pipes]
    BY DEF IInv, ProcessTypeOK
  <2>2. fd[opened] = PipeOf(serving)
    BY DEF IInv, PipesInv
  <2>3. fd[opened].of = serving /\ fd[opened] # Register
    BY <2>2, PipeOfKind
  <2> QED
    BY <2>1, <2>2, <2>3
<1>4. /\ \A d \in Descriptor : fd'[d] \in {fd[d], Free} /\ (fd[d] = Register => fd'[d] = Register)
      /\ \A d \in Descriptor : fd'[d].of # NOBODY => fd'[d] = fd[d]
      /\ \/ fd'[opened].of = NOBODY
         \/ fd[opened].is = "to client" /\ asks[fd[opened].of] = "create"
  <2>1. CASE fd' = Close(opened)
    BY <1>3, <2>1, PipeKinds DEF Close
  <2>2. CASE fd' = fd /\ asks[serving] = "create"
    BY <1>3, <2>2, PipeOfKind
  <2> QED
    BY <2>1, <2>2 DEF Return
<1>5. RegisterInv'
  BY <1>1, <1>2, <1>3, <1>4, PipeKinds DEF IInv, RegisterInv, BetweenRequests, InHandler
<1>6. PipesInv'
  BY <1>2, <1>4, PipesClosed DEF IInv
<1>7. RequestsInv'
  BY <1>1, <1>2, <1>4 DEF IInv, RequestsInv
<1>8. ForgottenInv'
  <2>1. \A c \in Client : Forgotten(c)' => Forgotten(c) /\ (c = serving => asks[c] = "create")
    BY <1>1 DEF Forgotten
  <2> QED
    BY <1>2, <2>1 DEF IInv, ForgottenInv
<1>9. ReadsRegisterPipeOnly' /\ EndsOnlyOnSignal' /\ AtMostOneMoreRequest'
  BY <1>1 DEF IInv, ReadsRegisterPipeOnly, EndsOnlyOnSignal, AtMostOneMoreRequest
<1> QED
  BY <1>2, <1>5, <1>6, <1>7, <1>8, <1>9 DEF IInv

(* A session begins, or a walk that does not end.                           *)
LEMMA SessionKeeps ==
    ASSUME IInv, ProcessTypeOK', WorkerRuns, InHandler,
           UNCHANGED <<signalled, reg_pipe, opened, serving, late, requests, client, asks>>,
           UNCHANGED <<main, fd, reading, heard>>,
           worker' \in {"walking", "publishing", "relaying"}
    PROVE  IInv'
<1>1. /\ Alive /\ Alive' /\ WorkerRuns' /\ StartInv'
      /\ InHandler' /\ InHand = {serving} /\ InHand' = {serving}
  BY WorkerLives DEF InHandler, InHand
<1>2. RegisterInv' /\ PipesInv'
  BY <1>1 DEF IInv, RegisterInv, PipesInv, PipeOf, BetweenRequests, InHandler
<1>3. RequestsInv' /\ ForgottenInv'
  BY <1>1 DEF IInv, RequestsInv, ForgottenInv, Forgotten
<1>4. ReadsRegisterPipeOnly' /\ EndsOnlyOnSignal' /\ AtMostOneMoreRequest'
  BY DEF IInv, ReadsRegisterPipeOnly, EndsOnlyOnSignal, AtMostOneMoreRequest
<1> QED
  BY <1>1, <1>2, <1>3, <1>4 DEF IInv

(* The handler answers and closes, but for a creation.                      *)
LEMMA HandleKeeps ==
    ASSUME IInv, Handle
    PROVE  IInv'
<1>1. /\ WorkerRuns /\ InHandler /\ worker # "ended"
      /\ UNCHANGED <<signalled, reg_pipe, opened, serving, late, requests, client, asks>>
  BY DEF Handle, create_box, remove_box, list_box, reg_publisher, reg_subscriber, end_publisher,
     RelayDies, ListingDies, Serves, InHandler
<1>2. ProcessTypeOK'
  BY <1>1, WorkerTypes DEF IInv, WorkerStep, RequestsInv, Alive, WorkerRuns
<1>3. \/ Return(TRUE, Close(opened))
      \/ asks[serving] = "create" /\ (Return(TRUE, fd) \/ Return(FALSE, fd))
      \/ worker' \in {"walking", "publishing", "relaying"} /\ UNCHANGED <<main, fd, reading, heard>>
      \/ EndProcess("killed") /\ UNCHANGED worker
  BY DEF Handle, create_box, remove_box, list_box, reg_publisher, reg_subscriber, end_publisher,
     RelayDies, ListingDies, WalksForEver, Serves, Dies
<1> QED
  BY <1>1, <1>2, <1>3, ReturnKeeps, SessionKeeps, ProcessEnds

(* Each step of the worker keeps the invariant.                             *)
LEMMA WorkerStepKeeps ==
    ASSUME IInv, WorkerStep
    PROVE  IInv'
<1>1. CASE OpenClientPipe
  <2>1. \/ UNCHANGED <<fd, opened>> /\ worker' = "next read"
           /\ (Unused = {} \/ MayHaveWithdrawn(serving))
        \/ /\ Unused # {} /\ worker' = "opening" /\ opened' = Min(Unused)
           /\ fd' = [fd EXCEPT ![Min(Unused)] = PipeOf(serving)]
    BY <1>1 DEF OpenClientPipe, PipeOf
  <2> QED
    BY <1>1, <2>1, OpenFailsKeeps, OpenWaitsKeeps
<1> QED
  BY <1>1, BeginReadKeeps, ReadRequestKeeps, ReadNothingKeeps, IterateForEverKeeps,
     ClientPipeOpensKeeps, HandleKeeps
     DEF WorkerStep

-----------------------------------------------------------------------------
(* The theorems.                                                            *)

LEMMA InitKeeps == Init => IInv
<1> SUFFICES ASSUME Init
             PROVE  IInv
  OBVIOUS
<1>1. PICK n \in Inherited : \A d \in Descriptor : fd[d] = IF d < n THEN Standard ELSE Free
  BY DEF Init
<1>2. 0 \in Descriptor /\ 0 < n /\ ~(FD_MAX - 1 < n)
  BY ProcessAssumption DEF Descriptor
<1>3. /\ main = "starting" /\ worker = "not created" /\ signalled = "no" /\ reading = Free
      /\ reg_pipe = 0 /\ late = 0 /\ requests = <<>> /\ \A c \in Client : client[c] = "away"
  BY DEF Init
<1>4. StartInv
  <2>1. fd[0] = Standard
    BY <1>1, <1>2
  <2>2. \A d \in Descriptor :
            fd[d] \in {Free, Standard} /\ fd[d] # Register /\ (d = FD_MAX - 1 => fd[d] = Free)
    BY <1>1, <1>2, PipeKinds
  <2> QED
    BY <1>3, <2>1, <2>2 DEF StartInv
<1>5. \A d \in Descriptor : fd[d].of = NOBODY
  BY <1>1, PipeKinds
<1>6. RequestsInv
  <2>1. InQueue(requests) = {} /\ Distinct(requests) /\ InHand = {}
    <3>1. DOMAIN requests = {}
      <4>1. requests = <<>> /\ requests \in Seq(Client)
        BY <1>3, EmptySeq
      <4> QED
        BY ONLY <4>1
    <3>2. InQueue(requests) = {} /\ Distinct(requests)
      BY <3>1 DEF InQueue, Distinct
    <3>3. InHand = {}
      BY <1>3 DEF InHand, InHandler
    <3> QED
      BY <3>2, <3>3
  <2> QED
    BY <1>5, <2>1 DEF RequestsInv
<1>7. ForgottenInv
  BY <1>3 DEF ForgottenInv, Forgotten
<1>8. RegisterInv /\ PipesInv
  BY <1>3 DEF RegisterInv, PipesInv, WorkerRuns
<1>9. ReadsRegisterPipeOnly /\ EndsOnlyOnSignal
  BY <1>3 DEF ReadsRegisterPipeOnly, EndsOnlyOnSignal
<1>10. AtMostOneMoreRequest
  <2>1. late = 0
    BY <1>3
  <2> QED
    BY ONLY <2>1 DEF AtMostOneMoreRequest
<1> QED
  BY <1>4, <1>6, <1>7, <1>8, <1>9, <1>10, TypeInit DEF IInv

(* The invariant of the broker's process holds whatever clients ask and     *)
(* whenever SIGINT comes, for any number of clients and descriptors.        *)
THEOREM ProcessInvariance == Spec => []IInv
<1>1. IInv /\ [Next]_vars => IInv'
  <2> SUFFICES ASSUME IInv, [Next]_vars
               PROVE  IInv'
    OBVIOUS
  <2>1. ASSUME NEW c \in Client, SendRequest(c) \/ Leave(c) \/ Die(c)
        PROVE  IInv'
    BY <2>1, SendRequestKeeps, ClientEndsKeeps
  <2>2. CASE UNCHANGED vars
    <3>1. /\ main' = main /\ worker' = worker /\ signalled' = signalled /\ fd' = fd
          /\ reg_pipe' = reg_pipe /\ opened' = opened /\ reading' = reading /\ name' = name
          /\ serving' = serving /\ late' = late /\ requests' = requests /\ client' = client
          /\ asks' = asks /\ heard' = heard /\ UNCHANGED brokerVars
      BY <2>2 DEF vars, clientVars, brokerVars
    <3>2. ProcessTypeOK'
      BY <3>1 DEF IInv, ProcessTypeOK
    <3>3. PipesInv'
      BY <3>1 DEF IInv, PipesInv, PipeOf, WorkerRuns, InHandler
    <3>4. RequestsInv'
      BY <3>1 DEF IInv, RequestsInv, Alive, InHand, InHandler
    <3>5. ForgottenInv'
      BY <3>1 DEF IInv, ForgottenInv, Forgotten, Alive, InHand, WorkerRuns, InHandler, Unused
    <3> QED
      BY <3>1, <3>2, <3>3, <3>4, <3>5, BrokerUnchanged DEF IInv
  <2> QED
    BY <2>1, <2>2, OpenRegisterKeeps, MainStepKeeps, SignalKeeps, WorkerStepKeeps DEF Next
<1> QED
  BY <1>1, InitKeeps, PTL DEF Spec

(* A process that has ended reads nothing.                                  *)
LEMMA EndedReadsNothing == Spec => [](~Alive => reading = Free)
<1> DEFINE Inv == ~Alive => reading = Free
<1>1. Init => Inv
  BY DEF Init, Alive
<1>2. Next /\ ~Alive' => reading' = Free
  <2> SUFFICES ASSUME Next, ~Alive'
               PROVE  reading' = Free
    OBVIOUS
  <2>1. CASE MainStep
    BY <2>1 DEF MainStep, MakeRegisterPipe, RegisterPipeOpens, CreateWorker, TearDown, EndProcess,
       Alive
  <2>2. CASE Signal
    BY <2>2 DEF Signal, SignalRunsHandler, SignalEndsWaiting, SignalEndsListing,
       SignalInterruptsWorker, SecondSignalKills, Handler, EndProcess, Alive
  <2>3. CASE WorkerStep
    <3>1. WorkerRuns /\ (main' = main \/ EndProcess("killed"))
      BY <2>3 DEF WorkerStep, BeginRead, ReadRequest, ReadNothing, IterateForEver, OpenClientPipe,
         ClientPipeOpens, WalksForEver, ListingDies,
         Handle, create_box, remove_box, list_box, reg_publisher, reg_subscriber, end_publisher,
         RelayDies, Serves, Return, Dies
    <3> QED
      BY <3>1 DEF WorkerRuns, Alive, EndProcess
  <2>4. ASSUME NEW c \in Client,
               \/ \E code \in Code : OpenRegister(c, code)
               \/ SendRequest(c) \/ Leave(c) \/ Die(c)
        PROVE  FALSE
    BY <2>4 DEF OpenRegister, SendRequest, Leave, Die, brokerVars, Alive
  <2> QED
    BY <2>1, <2>2, <2>3, <2>4 DEF Next
<1>3. Inv /\ [Next]_vars => Inv'
  BY <1>2 DEF vars, brokerVars, Alive
<1> QED
  BY <1>1, <1>3, PTL DEF Spec

(* Threads and clients are at places that exist, and the numbers that       *)
(* open() gives and sig_handler() closes are the table's.                   *)
THEOREM ProcessTypes == Spec => []ProcessTypeOK
BY ProcessInvariance, PTL DEF IInv

(* What func_main() takes for a request was written to the register pipe,   *)
(* also after sig_handler() closed reg_pipe's number under the worker, and  *)
(* a handler was given that number for its client's pipe.                   *)
THEOREM RequestsFromRegisterPipe == Spec => []ReadsRegisterPipeOnly
BY ProcessInvariance, PTL DEF IInv

(* A SIGINT before main() assigns reg_pipe closes descriptor 0 instead, yet *)
(* the worker that is then created reads the pipe that main() opened.       *)
THEOREM WorkerHasRegisterPipe == Spec => []RegisterPipeIsItsOwn
<1>1. IInv => RegisterPipeIsItsOwn
  BY DEF IInv, RegisterInv, WorkerRuns, RegisterPipeIsItsOwn
<1> QED
  BY <1>1, ProcessInvariance, PTL

(* The close() of sig_handler(), between any two steps of a handler of      *)
(* func_main(), is not of the pipe that the handler works with.             *)
THEOREM HandlerKeepsPipe == Spec => []HandlersKeepTheirPipe
<1>1. IInv => HandlersKeepTheirPipe
  BY DEF IInv, PipesInv, InHandler, PipeOf, HandlersKeepTheirPipe
<1> QED
  BY <1>1, ProcessInvariance, PTL

(* When func_main() is back at its read(), the clients' pipes that are      *)
(* still open are those that create_box() does not close, one each.         *)
THEOREM LeaksAreCreations == Spec => []OnlyCreationsLeak
<1>1. IInv => OnlyCreationsLeak
  <2> SUFFICES ASSUME PipesInv, WorkerRuns, BetweenRequests, NEW d \in Descriptor,
                      fd[d].of # NOBODY
               PROVE  /\ asks[fd[d].of] = "create"
                      /\ \A e \in Descriptor : fd[e] = fd[d] => e = d
    BY DEF IInv, OnlyCreationsLeak
  <2>1. ~InHandler
    BY DEF BetweenRequests, InHandler
  <2> QED
    BY <2>1 DEF PipesInv
<1> QED
  BY <1>1, ProcessInvariance, PTL

(* When func_main() waits for a request, a client that was neither answered *)
(* nor closed asked for a creation, or found no descriptor left, or the     *)
(* register pipe is closed.                                                 *)
THEOREM ForgottenWithReason == Spec => []ForgottenForAReason
<1>1. IInv /\ (~Alive => reading = Free) => ForgottenForAReason
  <2> SUFFICES ASSUME IInv, ~Alive => reading = Free, reading = Register,
                      NEW c \in Client, Forgotten(c)
               PROVE  Unused = {} \/ asks[c] = "create" \/ signalled = "in time"
    BY DEF ForgottenForAReason
  <2>1. Alive /\ ~Starting
    BY PipeKinds DEF IInv, StartInv
  <2>2. WorkerRuns
    BY <2>1 DEF IInv, ProcessTypeOK, Alive, Starting, WorkerRuns
  <2>3. BetweenRequests
    BY <2>2 DEF IInv, RegisterInv
  <2>4. InHand = {}
    BY <2>3 DEF BetweenRequests, InHand, InHandler
  <2> QED
    BY <2>1, <2>4 DEF IInv, ForgottenInv
<1> QED
  BY <1>1, ProcessInvariance, EndedReadsNothing, PTL

(* func_main() returns only because sig_handler() closed its pipe: not at   *)
(* the end of file of a pipe without clients, nor for what a client asks.   *)
THEOREM WorkerEndsOnSignal == Spec => []EndsOnlyOnSignal
BY ProcessInvariance, PTL DEF IInv

(* After SIGINT func_main() serves at most the request of a read() that was *)
(* in progress.                                                             *)
THEOREM OneMoreRequest == Spec => []AtMostOneMoreRequest
BY ProcessInvariance, PTL DEF IInv

=============================================================================
