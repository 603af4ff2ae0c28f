---------------------------- MODULE BoxRegistry ----------------------------
(***************************************************************************)
(* The broker's list of boxes: the linked list of utils/logging.c and what *)
(* the five handlers of mbroker/mbroker.c do to it and to the box files.   *)
(* One worker thread (func_main) serves one request at a time.             *)
(*                                                                         *)
(* List nodes live in a heap, because the handlers free nodes that are     *)
(* still linked: create_box() frees the node of the box that exists.  What *)
(* the C library then does is in `malloc` and `free`: a freed node keeps   *)
(* its counters and its link, its name is overwritten, and malloc() may    *)
(* hand it out again at any later time.                                    *)
(*                                                                         *)
(* The file system is seen through its promise to the broker (see          *)
(* AbstractFiles): the names that exist and how many handles are in use.   *)
(*                                                                         *)
(* An operator named X_Something, next to X, is X with a plausible defect. *)
(* No specification uses it: with it in X's place a property must fail.    *)
(***************************************************************************)
EXTENDS Integers, FiniteSets

CONSTANTS
    Box,               (* box names in requests                            *)
    CreatableBox,      (* those tfs_open() can create: not "/" alone       *)
    Addr,              (* bound: the addresses of list nodes               *)
    NULL,
    MAX_FILES,         (* files that inodes and directory have room for    *)
    MAX_OPEN_FILES

Unexistent == "unexistent"     (* the name find_box() gives to a miss      *)
Garbage    == "garbage"        (* what free() leaves of a name             *)

ASSUME RegistryAssumption ==
    /\ CreatableBox \subseteq Box
    /\ {Unexistent, Garbage} \cap Box = {}
    /\ NULL \notin Addr
    /\ IsFiniteSet(Addr)
    /\ MAX_FILES \in Nat
    /\ MAX_OPEN_FILES \in Nat \ {0}

VARIABLES
    heap,       (* the contents of each address, allocated or not          *)
    avail,      (* the addresses malloc() may return                       *)
    head,
    files,      (* the box files that exist                                *)
    handles,    (* how many handles are open                               *)
    lost,       (* the files on which a handle stays open for ever         *)
    session     (* what the worker is doing, and for which node            *)

memoryVars == <<heap, avail, head>>
registryVars == <<memoryVars, files, handles, lost, session>>

(* What a handler says to its client, the last parameter of its action.     *)
(* "pipe closed" is clear_session() or close() on the client's pipe,        *)
(* "nothing" a handler that returns without a word or does not return, and  *)
(* "endless listing" one that does not return and has record after record.  *)
Answer == {"OK", "already exists", "doesn't exist", "listing", "endless listing", "session",
           "pipe closed", "nothing"}

-----------------------------------------------------------------------------
(* Walks along the list.                                                    *)

Steps == 0 .. Cardinality(Addr)

(* The node reached from `first` after i links.                             *)
Walk(h, first) ==
    LET node[i \in Steps] ==
            IF i = 0 THEN first
            ELSE IF node[i - 1] = NULL THEN NULL ELSE h[node[i - 1]].next
    IN  node

Listed(h, first) == {Walk(h, first)[i] : i \in Steps} \ {NULL}

(* A walk that outlives the addresses never ends.                           *)
Endless(h, first) == Walk(h, first)[Cardinality(Addr)] # NULL

FirstNamed_SkipsHead(h, first, name) ==
    LET w == Walk(h, first)
        match == {i \in Steps \ {0} : w[i] # NULL /\ h[w[i]].box_name = name}
    IN  IF match = {} THEN NULL ELSE w[CHOOSE i \in match : \A j \in match : i <= j]

(* The first node of that name, or NULL.                                    *)
FirstNamed(h, first, name) ==
    LET w == Walk(h, first)
        match == {i \in Steps : w[i] # NULL /\ h[w[i]].box_name = name}
    IN  IF match = {} THEN NULL ELSE w[CHOOSE i \in match : \A j \in match : i <= j]

-----------------------------------------------------------------------------
(* Memory: a heap and the addresses that are not in use.                    *)
Memory == [heap |-> heap, avail |-> avail]

free(m, a) == [heap |-> [m.heap EXCEPT ![a].box_name = Garbage], avail |-> m.avail \cup {a}]

(* find_box() allocates a node before it looks, and returns that node if    *)
(* there is no box of the name.  On a hit the allocated node is lost, which *)
(* is as if malloc() had never come by that address again.                  *)
find_box(name) ==
    LET hit == FirstNamed(heap, head, name)
        miss(a) == [heap EXCEPT ![a] = [box_name |-> Unexistent, hasWriter |-> -1,
                                        n_readers |-> -1, next |-> @.next]]
    IN  IF hit # NULL
        THEN {[node |-> hit, mem |-> Memory]}
        ELSE {[node |-> a, mem |-> [heap |-> miss(a), avail |-> avail \ {a}]] : a \in avail}

find_box_hangs(name) == FirstNamed(heap, head, name) = NULL /\ Endless(heap, head)

insert_box_KeepsLink(h, new_box) ==
    LET last == CHOOSE a \in Listed(h, head) : h[a].next = NULL
    IN  IF head = NULL
        THEN [heap |-> h, head |-> new_box]
        ELSE [heap |-> [h EXCEPT ![last].next = new_box], head |-> head]

(* The heap and the head after new_box has been put last.                   *)
insert_box(h, new_box) ==
    LET ended == [h EXCEPT ![new_box].next = NULL]
        last == CHOOSE a \in Listed(ended, head) : ended[a].next = NULL
    IN  IF head = NULL
        THEN [heap |-> ended, head |-> new_box]
        ELSE [heap |-> [ended EXCEPT ![last].next = new_box], head |-> head]

delete_box_NotFound(m, box) == [mem |-> m, head |-> head]

delete_box_KeepsHead(m, box) ==
    LET w == Walk(m.heap, head)
        at == CHOOSE i \in Steps : w[i] = box /\ \A j \in 0 .. i - 1 : w[j] # box
        unlinked == [m.heap EXCEPT ![w[at - 1]].next = m.heap[box].next]
    IN  IF box = head
        THEN [mem |-> free(m, box), head |-> head]
        ELSE [mem |-> free([m EXCEPT !.heap = unlinked], box), head |-> head]

(* The memory and the head after the node has been unlinked and freed.      *)
delete_box(m, box) ==
    LET w == Walk(m.heap, head)
        at == CHOOSE i \in Steps : w[i] = box /\ \A j \in 0 .. i - 1 : w[j] # box
        unlinked == [m.heap EXCEPT ![w[at - 1]].next = m.heap[box].next]
    IN  IF box = head
        THEN [mem |-> free(m, box), head |-> m.heap[box].next]
        ELSE [mem |-> free([m EXCEPT !.heap = unlinked], box), head |-> head]

-----------------------------------------------------------------------------
(* The file system's side.                                                  *)
HandleLeft_OffByOne == handles <= MAX_OPEN_FILES

HandleLeft == handles < MAX_OPEN_FILES
AppendOpens(name) == name \in files /\ HandleLeft
CreateMakes(name) == name \notin files /\ name \in CreatableBox /\ Cardinality(files) < MAX_FILES
CreateOpens(name) == HandleLeft /\ (name \in files \/ CreateMakes(name))

Init ==
    /\ heap = [a \in Addr |-> [box_name |-> Garbage, hasWriter |-> 0, n_readers |-> 0,
                                next |-> NULL]]
    /\ avail = Addr
    /\ head = NULL
    /\ files = {}
    /\ handles = 0
    /\ lost = {}
    /\ session = [doing |-> "reading requests", box |-> NULL]

Reading == session.doing = "reading requests"

(* A walk round a cycle: the worker never comes back.                       *)
WalkOn ==
    /\ session' = [doing |-> "endless walk", box |-> NULL]
    /\ UNCHANGED <<memoryVars, files, handles, lost>>

Hang(says) == says = "nothing" /\ WalkOn

CreateRefused_ByListOnly(name, node) == node.hasWriter # -1

(* A file of the name, or a node that is not find_box()'s miss.             *)
CreateRefused(name, node) == AppendOpens(name) \/ node.hasWriter # -1

(* The box exists: the answer says so, and the node found is freed.  Both   *)
(* calls of tfs_close() together close the one handle opened.               *)
create_box(name, says) ==
    /\ Reading
    /\ \/ find_box_hangs(name) /\ Hang(says)
       \/ /\ ~find_box_hangs(name)
          /\ \E r \in find_box(name) :
                 LET refused == CreateRefused(name, r.mem.heap[r.node])
                     freed == free(r.mem, r.node)
                     named == [r.mem.heap EXCEPT ![r.node].hasWriter = 0,
                                                 ![r.node].n_readers = 0,
                                                 ![r.node].box_name = name]
                     list == insert_box(named, r.node)
                 IN  \/ /\ refused
                        /\ says = "already exists"
                        /\ heap' = freed.heap /\ avail' = freed.avail
                        /\ UNCHANGED <<head, files>>
                     \/ /\ ~refused /\ CreateOpens(name)
                        /\ says = "OK"
                        /\ heap' = list.heap /\ head' = list.head /\ avail' = r.mem.avail
                        /\ files' = files \cup {name}
                     \/ /\ ~refused /\ ~CreateOpens(name)
                        /\ says = "nothing"
                        /\ heap' = r.mem.heap /\ avail' = r.mem.avail
                        /\ files' = IF CreateMakes(name) THEN files \cup {name} ELSE files
                        /\ UNCHANGED head
          /\ UNCHANGED <<handles, lost, session>>

LeavesOpen_Always(name, refused) == AppendOpens(name)

(* A refusal with the file open: the list has no box of the name.           *)
LeavesOpen(name, refused) == refused /\ AppendOpens(name)

(* The handle it opens is closed before tfs_unlink(), and not at all when   *)
(* it refuses.                                                              *)
remove_box(name, says) ==
    /\ Reading
    /\ \/ Endless(heap, head) /\ Hang(says)
       \/ /\ ~Endless(heap, head)
          /\ \E r \in find_box(name) :
                 LET refused == ~AppendOpens(name) \/ r.mem.heap[r.node].n_readers = -1
                     freed == free(r.mem, r.node)
                     rest == delete_box(r.mem, r.node)
                 IN  /\ \/ /\ refused
                           /\ says = "doesn't exist"
                           /\ heap' = freed.heap /\ avail' = freed.avail
                           /\ UNCHANGED <<head, files>>
                        \/ /\ ~refused
                           /\ says = "OK"
                           /\ heap' = rest.mem.heap /\ avail' = rest.mem.avail
                           /\ head' = rest.head
                           /\ files' = files \ {name}
                     /\ IF LeavesOpen(name, refused)
                        THEN handles' = handles + 1 /\ lost' = lost \cup {name}
                        ELSE UNCHANGED <<handles, lost>>
          /\ UNCHANGED session

(* On a cycle it writes records for ever, none of them marked as the last.  *)
list_box(says) ==
    /\ Reading
    /\ \/ Endless(heap, head) /\ says = "endless listing" /\ WalkOn
       \/ /\ ~Endless(heap, head)
          /\ says = "listing"
          /\ UNCHANGED registryVars

(* Two ways to refuse, and both free the node found.                        *)
reg_publisher(name, says) ==
    /\ Reading
    /\ \/ find_box_hangs(name) /\ Hang(says)
       \/ /\ ~find_box_hangs(name)
          /\ \E r \in find_box(name) :
                 LET refused == r.mem.heap[r.node].hasWriter # 0 \/ ~AppendOpens(name)
                     freed == free(r.mem, r.node)
                 IN  \/ /\ refused
                        /\ says = "pipe closed"
                        /\ heap' = freed.heap /\ avail' = freed.avail
                        /\ UNCHANGED <<handles, session>>
                     \/ /\ ~refused
                        /\ says = "session"
                        /\ heap' = [r.mem.heap EXCEPT ![r.node].hasWriter = 1]
                        /\ avail' = r.mem.avail
                        /\ handles' = handles + 1
                        /\ session' = [doing |-> "publishing", box |-> r.node]
          /\ UNCHANGED <<head, files, lost>>

end_publisher_KeepsHandle ==
    /\ session.doing = "publishing"
    /\ heap' = [heap EXCEPT ![session.box].hasWriter = 0]
    /\ session' = [doing |-> "reading requests", box |-> NULL]
    /\ UNCHANGED <<avail, head, files, handles, lost>>

end_publisher_KeepsWriter ==
    /\ session.doing = "publishing"
    /\ handles' = handles - 1
    /\ session' = [doing |-> "reading requests", box |-> NULL]
    /\ UNCHANGED <<heap, avail, head, files, lost>>

(* The publisher closed its pipe, or the message read was empty.            *)
end_publisher ==
    /\ session.doing = "publishing"
    /\ handles' = handles - 1
    /\ heap' = [heap EXCEPT ![session.box].hasWriter = 0]
    /\ session' = [doing |-> "reading requests", box |-> NULL]
    /\ UNCHANGED <<avail, head, files, lost>>

(* The session has no end: it lasts while tfs_read() does not return -1,    *)
(* and on an open handle it never does.  TFS_O_CREAT can create the file of *)
(* a box that lost its own.                                                 *)
reg_subscriber(name, says) ==
    /\ Reading
    /\ \/ find_box_hangs(name) /\ Hang(says)
       \/ /\ ~find_box_hangs(name)
          /\ \E r \in find_box(name) :
                 LET absent == r.mem.heap[r.node].hasWriter = -1
                     refused == absent \/ ~CreateOpens(name)
                     freed == free(r.mem, r.node)
                 IN  \/ /\ refused
                        /\ says = "pipe closed"
                        /\ heap' = freed.heap /\ avail' = freed.avail
                        /\ UNCHANGED <<handles, session>>
                     \/ /\ ~refused
                        /\ says = "session"
                        /\ heap' = [r.mem.heap EXCEPT ![r.node].n_readers = @ + 1]
                        /\ avail' = r.mem.avail
                        /\ handles' = handles + 1
                        /\ session' = [doing |-> "relaying", box |-> r.node]
                 /\ files' = IF ~absent /\ CreateMakes(name) THEN files \cup {name} ELSE files
          /\ UNCHANGED <<head, lost>>

(* The worker polls the file of its subscriber, or walks on.                *)
poll ==
    /\ session.doing \in {"relaying", "endless walk"}
    /\ UNCHANGED registryVars

-----------------------------------------------------------------------------
Requests(Creates) ==
    \/ \E name \in Creates, says \in Answer : create_box(name, says)
    \/ \E name \in Box, says \in Answer :
           remove_box(name, says) \/ reg_publisher(name, says) \/ reg_subscriber(name, says)
    \/ \E says \in Answer : list_box(says)
    \/ end_publisher
    \/ poll

(* Managers may ask for anything.                                           *)
RegistryNext == Requests(Box)
RegistrySpec == Init /\ [][RegistryNext]_registryVars

(* No manager asks to create a box that exists.                             *)
CarefulNext == Requests(Box \ files)
CarefulSpec == Init /\ [][CarefulNext]_registryVars

-----------------------------------------------------------------------------
(* Every node, freed or not, keeps the shape of a box, and handles are      *)
(* never more than the open file table holds.                               *)
RegistryTypeOK ==
    /\ heap \in [Addr -> [box_name : Box \cup {Unexistent, Garbage}, hasWriter : {-1, 0, 1},
                          n_readers : {-1, 0, 1}, next : Addr \cup {NULL}]]
    /\ avail \subseteq Addr
    /\ head \in Addr \cup {NULL}
    /\ files \subseteq CreatableBox
    /\ handles \in 0 .. MAX_OPEN_FILES
    /\ lost \subseteq CreatableBox
    /\ session \in [doing : {"reading requests", "publishing", "relaying", "endless walk"},
                    box : Addr \cup {NULL}]

(* Whatever managers ask for, and whatever has been freed: a node that      *)
(* bears the name of a box has a file behind it, and no two bear one name.  *)
(* A publisher or subscriber is never attached to a box that was removed.   *)
ListedHaveFiles ==
    LET boxes == {a \in Listed(heap, head) : heap[a].box_name \in Box}
    IN  /\ \A a \in boxes : heap[a].box_name \in files
        /\ \A a, b \in boxes : a # b => heap[a].box_name # heap[b].box_name

(* A box that can still be removed has no handle open on its file: whatever *)
(* managers ask for, tfs_unlink() never deletes a file that is open, which  *)
(* is what BoxFiles takes from the broker.                                  *)
RemovableAreClosed ==
    \A a \in Listed(heap, head) : heap[a].box_name \notin lost

(* The list can be walked and holds exactly the boxes that have files, each *)
(* once: create_box and remove_box keep two structures in step.             *)
ListMatchesFiles ==
    /\ ~Endless(heap, head)
    /\ {heap[a].box_name : a \in Listed(heap, head)} = files
    /\ Cardinality(Listed(heap, head)) = Cardinality(files)

(* No node is freed while it is in the list or in a session's hands.        *)
LinkedAllocated == (Listed(heap, head) \cup {session.box}) \cap avail = {}

(* Between requests no handle is open: no handler returns without closing   *)
(* what it opened.                                                          *)
HandlesAccounted == handles = IF Reading THEN 0 ELSE 1

(* mbroker.c:221, "nao existe", and the answer "Box doesn't exist": a       *)
(* removal is refused only for a box that does not exist.                   *)
RefusalMeansAbsent ==
    [][\A name \in Box : remove_box(name, "doesn't exist") => name \notin files]_registryVars

(* The refinement mapping: a box is in use as its node's counters say.      *)
Use(a) ==
    IF heap[a].hasWriter = 1 THEN "publishing" ELSE IF heap[a].n_readers = 1 THEN "relaying" ELSE "idle"
NodeOf(name) == CHOOSE a \in Listed(heap, head) : heap[a].box_name = name
boxesMap == [name \in {heap[a].box_name : a \in Listed(heap, head)} |-> Use(NodeOf(name))]

Boxes == INSTANCE AbstractBoxes WITH Box <- CreatableBox, boxes <- boxesMap

(* The linked list and its counters implement a set of boxes of which at    *)
(* most one is in use, and none that is in use is removed.                  *)
ImplementsBoxes == Boxes!Spec

=============================================================================
