# A specification of the TécnicoFS message broker

The repository is a publish/subscribe system on one machine. A broker
(`mbroker`) keeps message *boxes* in an in-memory file system, TécnicoFS.
Managers create, remove and list boxes, a publisher appends lines to a box, a
subscriber gets what a box holds. All of them talk to the broker through named
pipes. This directory holds TLA+ models of it, TLC configurations and proofs.

## Inventory

| part | code | state | operations |
|---|---|---|---|
| TécnicoFS | `fs/state.c`, `fs/operations.c` | inode table, directory in the root's block, data blocks, open file table, four allocation maps, `g_library_mutex` | `tfs_init`, `tfs_destroy`, `tfs_open`, `tfs_close`, `tfs_write`, `tfs_read`, `tfs_unlink` |
| box list | `utils/logging.c` | a linked list of boxes with their publisher and subscriber counters | `find_box`, `insert_box`, `delete_box`, `iterate_box`, `free_boxes` |
| broker | `mbroker/mbroker.c` | head of the list, register pipe, one worker thread | `func_main`, `create_box`, `remove_box`, `list_box`, `reg_publisher`, `reg_subscriber`, `sig_handler` |
| clients | `manager/`, `publisher/`, `subscriber/` | a pipe of their own | register, confirm, write or read, unlink |
| leftovers | `producer-consumer/` (a header only), `test.c`, `tryF.c`, `t`, `try` | | not part of the system |

`operations.h` declares links (`tfs_sym_link`, `tfs_link`) and
`tfs_copy_from_external_fs`; this repository has no code for them.

How they interact. A client makes a named pipe, writes a request of 400 bytes
to the register pipe and blocks in `open` of its own pipe. The worker reads the
requests one after the other; a handler opens the client's pipe (which blocks
until the client does), consults the list, calls TécnicoFS and answers. The
two kinds of session take the worker with them: a publisher's until the
publisher closes its pipe, a subscriber's for ever.

What is hard here:

* handles that outlive their file, sizes subtracted as `size_t`, failures in the
  middle of a creation, freed inodes that keep their contents (TécnicoFS);
* list nodes that are freed while they are linked, two structures (list and
  directory) that must agree, handles that are not closed (box list);
* one worker for everybody, blocking opens, clients killed at any moment,
  reads that take whatever timing has put in a pipe, SIGPIPE (broker, clients).

What makes each part correct:

* TécnicoFS: no two files share a block, a file's block is never free, directory
  and inodes agree, the directory is never overwritten by data, a handle stays
  in its file, no block is lost.
* Box list: it can be walked, it holds exactly the boxes that have files, no
  node in it is free, handles are closed, refusals are true.
* Broker: answers to racing managers fit together, messages are stored in order
  and relayed once, the worker comes back to its requests, clients are served.

`PROJECT.json` lists the hazards at their lines, with the properties that would
notice.

## Modules

    TFSThreads ── (implements) ── TecnicoFS
        └─ TFSThreadsProofs           ├─ TecnicoFSProofs
                                      └─ BoxFiles ── (implements) ── AbstractFiles
                                             └─ BoxFilesProofs
    MBroker ── (extends) ── BoxRegistry ── (implements) ── AbstractBoxes
        └─ MBrokerProofs      ├─ BoxListLemmas   what walks, find_box, free ... do
                              └─ BoxRegistryProofs
    BrokerProcess          the broker's threads, descriptors and SIGINT
        └─ BrokerProcessProofs
    ListReply              the bytes of a listing
        └─ ListReplyProofs

An operator named `X_Something`, next to `X`, is `X` with a plausible defect (a
reset that is missing, an off-by-one). No specification uses it; put in `X`'s
place it must make a property fail, which shows that the property says
something about the code. `PROJECT.json` ("mutants") pairs them.

### TecnicoFS

The tables of `state.c` as variables of the same names and each function of
`operations.c` as one action, with every return path. `TFSThreads` justifies one
action per operation. An action's last parameter is what the function returns.

* `dir`, the contents of the root's block, is a variable of its own.
  `DirectoryBlockPrivate` justifies it: data never goes to that block.
* `d_name` after `memset` is `NoName`; a valid path is a name that passes
  `valid_pathname`, a storable one also fits an entry. Names are model values.
* A write stores one value `byte` at all positions it covers, and `len` is
  bounded by `MaxIO`.
* `size_t` differences wrap modulo `SIZE_MOD`. A count that has wrapped makes
  `memcpy` leave the process's memory (`status = "segv"`) or, where the copy
  starts within `fs_data` and stays there, reads other files' bytes; a failed
  assertion is `status = "panic"`. A read that would carry an offset beyond
  `MaxOffset` is left out of the model; this is the bound on a handle's offset.
* `insert_delay`, warnings and mutex errors have no counterpart.
* `tfs_init` is called with the file system down. A second call would fail after
  replacing the parameters (`state.c:97`); the broker makes none, and the
  sizes are constants.

Callers are unconstrained: any handle at any time, also -1 and closed ones.

* `inode_get` never returns NULL, so that the assertions of `operations.c:204` and
  `:263` ("inode of open file deleted") cannot fail: the operations go on with a
  stale handle. The broker never has one (`HandlesWithinFiles`).

### TFSThreads

The same operations taken apart: `Lock` begins a call, each access to the tables
by a helper of `state.c` is a step of its own, and `Unlock` returns. A thread's record
holds its call, its place (`at`) and the operation's locals. `TFSThreads` EXTENDS
`TecnicoFS` for the tables and the helpers, and instantiates it as `FS` with the
tables that others can see: those at the time of the lock (`before`, a history
variable) while the mutex is held. `ImplementsTecnicoFS` says that those only change
as one operation would change them; `ReturnsAreAtomic` adds which operation it is
and that it returns the same value.

### BoxFiles and AbstractFiles

`BoxFiles` restricts the callers to what the broker does: open to append or to
create (`BoxMode`), and no unlink of a file with a handle on it
(`UnlinkClosed`: `remove_box` closes first, and nothing else runs).
`AbstractFiles` has named files with contents and handles with an offset,
no tables. `ImplementsFiles` maps the directory and the blocks to it.

### BoxRegistry and AbstractBoxes

The list lives in a `heap` of addresses, because `create_box` frees the node of
the box it refuses to create again, and `reg_publisher` and `reg_subscriber` free
nodes that are in use. `malloc` and `free` are the C library's and are modelled
from how the code uses them: a freed node keeps its counters and its link (they
lie behind the 16 bytes that the allocator writes), its name becomes `Garbage`,
and any later `find_box` may get it again. Strings have other sizes, so that
nothing else gets a freed node. Each handler is an action up to the point where
a session begins; `end_publisher` is what follows a publisher's loop. The file
system appears as the set of names that exist and the number of open handles,
which `ImplementsFiles` and `HandlesWithinFiles` justify. `lost` holds the names on
which `remove_box` left a handle open, which it does when the file exists and the
list has no such box. A walk round a cycle is the state
"endless walk" (`WalkOn`); `list_box` writes a record at each node it passes, so that its
manager gets an "endless listing". `RemovableAreClosed` says that no box the list still holds has
a handle left open on it: `UnlinkClosed` assumes this. `AbstractBoxes` is a set of
boxes of which at most one is in use.

### MBroker

The worker and the clients around `BoxRegistry`. `Register` is `mkfifo` and the
request; `ReadRequest` reads one and blocks in `open`; `OpenPipe` opens both
ends; `Serve` runs the handler. `remove_box` walks the list before it opens the
manager's pipe (`mbroker.c:210`), so that on a cycle it never gets that far:
`IterateForEver`. A listing without end lasts until its manager is gone and the next
record kills the broker: `ListingDies`. `StoreMessage` is one turn of a
publisher's loop, `PublisherGone` its end, `Relay` the one turn of a subscriber's
loop that finds something to send. Pipes are sequences of items. One read of a
publisher's pipe takes all items, or, because it takes at most 1024 bytes, a
front of them whose last line may be cut; `sscanf` uses the first line of it.
Of a line cut by a read there may be a `head` in one message and a `tail` in another;
a `cut line` is one that did not fit in the box.
Uninitialized buffers (`mbroker.c:265` and `:314`) may add a `Leftover`.
A client can be killed at any moment (`Die`), which leaves its pipe's name, or
interrupted (`Withdraw`), which takes the name away; writing to a pipe that nobody
reads kills the writer, the broker included. `Planned` is a bound and no code: which clients
ask for what.

`AnswersAccountForFiles` counts the answers of managers that race, and makes two
exceptions. A broker that is killed between making a file and the answer has not
said so. And `HandleToSpare`: a refused `remove_box` loses a handle; when all are lost,
`tfs_open` makes a box's file, fails for want of a handle, and `create_box` returns
without a word. (With one handle and four clients TLC shows such a box.)

Abstractions: a line is its number and its author; the end of a box is reached
after `MAX_MESSAGES` messages or by a message that is cut; a client keeps one
request; a listing is a single answer; a client's pipe is named by nobody
else (`mkfifo` fails if it exists).

### BrokerProcess

`main` and `func_main` as two threads, the descriptor table, the register pipe and
`sig_handler`. The Makefile's `-std=c17 -D_POSIX_C_SOURCE=200809L` selects System V's
`signal()`: the disposition is reset when the handler is entered, and blocking calls of
the thread that took the signal fail with EINTR. `SignalRunsHandler`,
`SignalInterruptsWorker`, `SignalEndsWaiting` and `SignalEndsListing` are the first SIGINT,
by what the thread that takes it was doing (the last: a `write()` that waits for room in a
manager's pipe); `SecondSignalKills` is any later one. `reg_pipe` is a number,
0 until it is assigned, so that an early handler closes descriptor 0 and a late one
frees a number that a client's pipe then gets. A `read()` in progress keeps the pipe
it was called on (`reading`). The process starts with the three standard descriptors, or
with more that its parent has left open (`Inherited`), so that a run has brokers with
many descriptors to lose and brokers with few. Request handlers are reduced to which
descriptors they leave open, whether the client hears of it and whether they return;
what they do to boxes is in `BoxRegistry`.

A handler need not return: on a list that is a cycle `find_box` and the loop of `list_box`
go round for ever (`WalksForEver`, place "walking"; a listing still ends by SIGPIPE,
`ListingDies`), and `remove_box` goes round before it opens a pipe (`IterateForEver`, place
"iterating"). The list itself is not in this module. `ListMayBeBroken` stands for it, the
least that a cycle takes: two managers have been answered by `create_box`, one with a
refusal that freed a linked node. From then on every walk may be endless, which is more
than the code does and hides no way of being held. `TearDown` may then also abort, because
`free_boxes` comes to a node that is free already.

### ListReply

The stream of a listing as a number of bytes: `WriteRecord` puts 400, `ShowRecord`
takes up to 1024. `sscanf` parses the front of what was read: a record if the read
starts at one, nothing if it starts in a record's padding, and a `Mixture` if it started
in the text, which `NeverMixed` says it does not. The sizes are the code's, and
every list that the directory has room for is checked.

## Runs

| run | specification | bounds | shows |
|---|---|---|---|
| `fs` | any caller | 3 inodes, 3 blocks of 2 bytes, 2 handles, 2 entries, `SIZE_MOD` 16 | the tables are consistent whatever callers do |
| `fs_end_of_file` | same | same | counterexample, see below |
| `fs_threads` | 2 threads, any calls, fair | 2 inodes, 3 blocks of one byte, 2 handles, 1 entry | one thread inside at a time, `TecnicoFS`, returns, the mutex comes free |
| `boxfiles` | broker's calls | as `fs`, bytes 0 and 1 | handles stay in their files, no crash, no lost block, `AbstractFiles` |
| `registry_any` | any requests | 2 boxes and "/", 4 addresses, 2 handles | what survives freed nodes; boxes that can be removed are closed |
| `registry_careful` | no creation of a box that exists | same | list, files and handles agree, `AbstractBoxes` |
| `registry_refusal` | any requests | same | counterexample |
| `broker` | 3 clients, or 4 managers, one dies or withdraws | one box (two for the managers), 2 lines each, room for 3 | answers, stored and relayed messages |
| `broker_fair` | 2 clients, one dies or withdraws, fair | 2 boxes, room for one, 1 line each | the worker comes back, everyone is served |
| `broker_subscriber` | 3 clients, one dies | as `broker` | counterexample |
| `process` | 3 clients, of which one only creates, SIGINT between any two steps, fair | 7 descriptors, 3 or 5 of them inherited | descriptors, the register pipe, forgotten clients, the end after SIGINT |
| `listing` | broker and manager, fair | lists of 0 to 23 boxes | which listings are complete, none is mixed, the manager ends |

Why the bounds are enough. Two files, a handle more than one, one inode or block
too few for everything at once: a stale handle, the reuse of its inode by
another file, a full directory, full tables and names that are too long or
invalid all occur, and blocks of two bytes have an inside and an end. Four
addresses hold two boxes, a freed linked node and `find_box`'s own node; three
give a cycle already. Three clients are a creator and two others that race,
or two publishers of one box, or a publisher and a subscriber; one death is
enough to block the worker or to kill the broker. `TFS_O_*` are all eight
combinations. In `fs_threads` one directory entry and one inode besides the
root's make creations fail at each place where they can; two threads are enough
for a step in the middle of another's operation. In `process` a broker that
inherits five of seven descriptors has one for clients besides the register pipe: a
second client finds none when a creation has lost it, and descriptor 0 freed by an
early SIGINT gives one back. One that inherits three has a descriptor for each client:
two creations may leave a cycle for the third request, whatever it is. In `broker`
the requests of a behaviour fit one of two `Plans`: three clients with any requests
about one box, or three creations of two boxes and one more manager. A creation, its refused
repetition and a second box make the list a cycle, which the fourth then walks. Publishers and
subscribers meet a cyclic list in `registry_any` and `process` only.
In `broker_fair` the second of two boxes finds no room. Symmetry is used only for names, addresses and clients that
are compared for equality, and in no run with liveness. `VIEW` in the file
system runs hides the contents of closed handles, which are written before
they are read.

Deadlock is checked where the system never stops (`boxfiles`, the registry).
In `fs` and `fs_threads` the process may exit; the broker, its clients and a
listing end.

### Counterexamples

* `fs_end_of_file`: `tfs_read` subtracts the offset from the size without
  comparing them. After a truncation or an unlink the difference wraps, and the
  read goes beyond the end of the file, against `operations.h:111`.
* `registry_refusal`: a refused creation frees the existing box's node, and the
  box then "doesn't exist" for `remove_box` although its file does.
* `broker_subscriber`: writing to a subscriber that is gone kills the broker by
  SIGPIPE instead of being detected (`mbroker.c:328`).

### Fairness

All fairness is weak and says that a process or thread that can run does.

* `MBroker`: the worker's step and each client's own steps (`ClientStep`). It includes
  `PublisherCloses`: a publisher's input ends. It does not include `Register`,
  `Publish`, `Withdraw` and `Die`: nobody has to ask, to write a line or to be killed.
  `ServiceResumes` allows exactly four reasons for the worker to be away for ever
  (`Stuck`), and they all happen. `EveryoneServed` allows these, and that there is
  no room for a box, of which `create_box` tells nobody (`NoRoomFor`): with
  either exception dropped TLC finds a client that waits for ever.
* `TFSThreads`: a thread inside an operation goes on; nobody has to call.
* `BrokerProcess`: main's and the worker's steps and the clients'. A worker that reads
  a publisher's pipe or serves a subscriber moves by fairness only when that client
  is gone (`Unblocked`). Signals and kills need not come. `Held` are the four things
  that keep a broker from ending after SIGINT: a subscriber's session, a walk round a
  cycle, an `open()` of a client's pipe that nobody will open, and a forgotten client
  that keeps the register pipe open. `StopsOnSignal` and `AtMostOneMoreRequest` concern a
  SIGINT that comes once the worker exists. An earlier one either fails `main`'s `open()`
  and ends the broker at once, or is swallowed and the broker goes on without a
  handler.
* `ListReply`: the broker's and the manager's steps.

## Proofs

`TecnicoFSProofs` proves, for every number of inodes, blocks, handles and
entries, every block size and any callers:

| theorem | property |
|---|---|
| `TypeCorrect` | `TypeOK` |
| `NoSharedBlocks` | `BlocksExclusive` |
| `DirectoryConsistent` | `DirectoryMatchesInodes` |
| `DirectoryNeverOverwritten` | `DirectoryBlockPrivate` |
| `WriteHasBlock` | `SizedInodesHaveBlocks` |

All follow from `Invariance`, `Spec => []IInv`. `IInv` is the conjunction of these
five and two more, because none is inductive alone. A stale handle writes through an
inode that may be free: its block is not the directory's only because no
inode but the root ever refers to block 0, freed or not; that a write does not
hit the root itself needs that no handle is on it (`NoHandleOnRoot`); and
`tfs_init` needs empty tables (`DownIsEmpty`). The proof has one lemma per
operation and, under it, one step per conjunct. The assumptions are `PathAssumption`,
`SizeAssumption` and `ByteAssumption`, which TLC evaluates in the runs.
`SizeAssumption` asks only that the tables are not empty and that `size_t` is wider
than a block and the bounds on requests and offsets together.

`BoxFilesProofs` proves for `BoxSpec`, the broker's use of the same tables:

| theorem | property |
|---|---|
| `HandlesStayWithin` | `HandlesWithinFiles` |
| `BlocksHaveOwners` | `NoBlockLost` |
| `BrokerNeverCrashesIt` | `NeverCrashes` |
| `TablesImplementFiles` | `ImplementsFiles` |

The first three follow from `BoxInvariance`, `BoxSpec => []BoxInv`; `BoxInv` is `IInv` and the
three. `NeverCrashes` needs `HandlesWithinFiles`: an offset that is at most the
file's size keeps both differences from wrapping. `HandlesWithinFiles` needs that
files with handles are neither truncated (`BoxMode`) nor unlinked
(`UnlinkClosed`), and a handle's inode is not allocated again, which `IInv`
gives. `NoBlockLost` needs `IInv` too: a file that has a size has its own block,
so that a write takes a new block only for a file that owns none.

`TablesImplementFiles` maps each step of `BoxSpec` to one operation of `AbstractFiles`
or to nothing (`BoxNextShows`, with a lemma per operation). The map chooses for a handle's
inode the name that leads to it; `DirectoryFacts`, a consequence of `IInv`, says that each
allocated file has one name, by which a lookup finds it, so the choice is unique and
a new or removed entry leaves the other files' names alone. A write changes one file,
because its block is its own or was free (`StoreBytesShows`); an inode that is reset or a
block that is given out again belongs to no name. `NeverCrashes` rules out the
wild copies, which the abstract files do not have.

`TFSThreadsProofs` proves for `TFSThreads`, for any set of threads and all table sizes:

| theorem | property |
|---|---|
| `MutualExclusion` | `OneInside` |
| `ThreadsImplementSingleCalls` | `ImplementsTecnicoFS` |
| `CallsAreAtomic` | `ReturnsAreAtomic` |

The invariant of the first is `OneInside` itself with one conjunct about the
shape of `thread`; every step but the lock belongs to a thread that is inside and so
holds the mutex (`InsideHolds`), touches that thread's record only and leaves the mutex
with it (`KeepsOthersOut`).

The other two follow from `TInv`, which adds the types of the threads' locals
(`LocalsOK`), `TecnicoFSProofs`' `IInv` for the tables that others can see (`Atomic`, a
second instance; `SeenTablesConsistent`) and `PlaceInv`: whoever has the mutex is at a
place of its operation where the tables are those that can be seen, changed by exactly what it
has done so far, and where its locals are what it has looked up in them. At
"truncate", for example, the block of the file is free and its size is not 0 yet; at
"give inode back" the inode is taken and reset and the directory is as it was. One lemma
per step of an operation (`FreeBlockInside`, `TruncateInside`, ...) shows that it leads from
its place's conjunct to that of the next, and by `StepInside` such a step
changes nothing that is seen. What holds at "unlock" (`OpenDone`, `WriteDone`, ...) makes the
return the operation of `TecnicoFS` with the call's own arguments and result
(`OpenShows`, ..., `UnlockShows`). A process that dies inside an operation dies as in
the single call (`CrashShows`), with what it had begun unseen. `main`'s calls come
when nobody has the mutex, because nobody is inside (`MainShows`). `IInv` is needed for what
the steps find: a lookup returns an inode, an allocation a free entry, a file with
a size has a block. The assumptions are `TecnicoFS`' and `ThreadAssumption`:
the mark of a free mutex is no thread.

`BrokerProcessProofs` proves for `BrokerProcess`, for every set of clients, any requests
any number of descriptors above three, and however many of them but the last the
process inherits:

| theorem | property |
|---|---|
| `ProcessTypes` | `ProcessTypeOK` |
| `RequestsFromRegisterPipe` | `ReadsRegisterPipeOnly` |
| `WorkerHasRegisterPipe` | `RegisterPipeIsItsOwn` |
| `HandlerKeepsPipe` | `HandlersKeepTheirPipe` |
| `LeaksAreCreations` | `OnlyCreationsLeak` |
| `ForgottenWithReason` | `ForgottenForAReason` |
| `WorkerEndsOnSignal` | `EndsOnlyOnSignal` |
| `OneMoreRequest` | `AtMostOneMoreRequest` |

They follow from `ProcessInvariance`, `Spec => []IInv`. Before the worker exists
(`StartInv`) `reg_pipe` is 0, and 0 an inherited descriptor unless SIGINT has come, which
comes to the handler only once: so the handler that closes 0 cannot close the
register pipe. From then on (`RegisterInv`) the number in `reg_pipe` is the only
one of the register pipe, until the handler closes it for good. A client's pipe is the
working handler's or one that a creation left open, and each client has one
(`PipesInv`), because its request is read once and its pipe opened afterwards
(`RequestsInv`). That a number given out again after the handler closed it does not
make the worker read a client's pipe is where `PipesInv` and `RegisterInv` meet: between
two requests only creations' pipes are open, and they are open for writing. Clients that
wait in vain for lack of descriptors (`ForgottenInv`) wait while the table stays full:
no handler gets a pipe, so none closes one. `ProcessAssumption` is all that is assumed.

`BoxListLemmas` and `BoxRegistryProofs` prove for `BoxRegistry`, for any boxes, any
number of list nodes, files and handles:

| theorem | specification | property |
|---|---|---|
| `RegistryTypes` | any requests | `RegistryTypeOK` |
| `ListedFiles` | any requests | `ListedHaveFiles` |
| `RemovablesAreClosed` | any requests | `RemovableAreClosed` |
| `ListMatches` | careful | `ListMatchesFiles` |
| `LinkedNodesAllocated` | careful | `LinkedAllocated` |
| `HandlesAreAccounted` | careful | `HandlesAccounted` |
| `RefusalsMeanAbsent` | careful | `RefusalMeansAbsent` |
| `ListImplementsBoxes` | careful | `ImplementsBoxes` |

There are two layers. `IInv` (`RegistryInvariance`) holds whatever managers ask for, so
also when freed nodes stay linked and are handed out again; it cannot speak of
what is linked, and says of all nodes, freed or not, that at most one bears the name
of a box, and only if the file exists. `CInv` (`CarefulInvariance`) holds while no
box is created twice: the list has an end, its names are the files, its nodes are
allocated, and their counters say what the worker does. A walk along the
list is a recursive function over the number of links; what the proofs need of it (a
walk that ends visits no node twice, changing a node that it does not visit changes
nothing, taking a node out takes out that node alone) is in `BoxListLemmas`, proved by the
least number of links at which it would be wrong. The map to `AbstractBoxes` chooses the
node of a name; `CInv` makes the choice unique. `RegistryAssumption` says that there
are finitely many nodes and that the names of no box are not boxes.

`MBrokerProofs` proves for the composed system, for any finite set of clients:

| theorem | property |
|---|---|
| `BrokerTypesHold` | `BrokerTypeOK` |
| `AnswersAccount` | `AnswersAccountForFiles` |
| `SubscribersHear` | `SubscribersGetTheBox` |
| `StoredInOrder` | `MessagesInOrder` |

`SystemImplementsRegistry` shows that each step of the system is a step of `BoxRegistry`
or leaves its variables alone, so that `IInv`, `ListedHaveFiles` and `RemovableAreClosed`
are true of the whole system (`SystemRegistry`, `SystemListedFiles`). The broker's own
invariants are inductive one after the other: `ControlInv` (a client's request is in
the register pipe once, at the worker, or answered, and a session is with the client that
asked for it); `QuietInv` (nobody hears of a request that no handler has been at, so that
each manager counts in one answer at most); `RelayInv` (who has heard of a box
is the one subscriber served, and it has heard what the box holds); and `OrderInv`. The
latter follows a line from the publisher's pipe through the handler's buffer, which
may be stored again, to the box: in each of the three places a session's lines
are in order, and everything still to come is not before what is stored. The worker
leaves a publisher for good, so that the lines of a session end up together.

`ListReplyProofs` proves `ListTypes` (`ListTypeOK`), `RecordsNeverMixed` (`NeverMixed`) and
`ListingExact` (`ExactUnlessCrowded`) for every list that fits the directory. Reads
start `400m + 1024q` bytes into the stream, because each read takes 1024 bytes or all there
is; 23 records are 9200 bytes, so that `q` is at most 8, and for none of these is that
within the 43 bytes of a record's text. For `q = 9` it would be: a directory block of
twice the size would break the listing.

Only model-checked:

* liveness (`ServiceResumes`, `EveryoneServed`, `ListingEnds`, `StopsOnSignal`,
  `MutexComesFree`) and every use of fairness and ENABLED, which the proof
  system has no means for.

No module here declares a RECURSIVE operator (`Walk` is a recursive function).

## Not modelled

* A second broker. The register pipe's name is removed at the start, by SIGINT and
  once more at the end (`mbroker.c:121`), and nothing tells whose pipe it is.
* Box names of full length, which are one byte longer than the broker's fields
  with the slash; `sub.c`'s terminator beyond a buffer that a read has filled; the
  message buffer that `strcat` (`mbroker.c:277`) makes longer with each store. Names
  and messages are atoms here.
* `tfs_init` on a file system that is up (`state.c:97`): the broker calls it once.
* Failures at the start of the broker (`tfs_init`, `signal`, `mkfifo`,
  `pthread_create`), which end the process; argument checks; printing; log levels;
  errors of the mutex functions, which never return -1.
* `producer-consumer.h`, which nothing implements or includes; scratch programs
  and build files.

## Plan

All the modules above, their runs, and eight modules of proofs are done. Every safety
property that a passing run checks, every action property and each refinement
is proved; liveness stays with TLC.
