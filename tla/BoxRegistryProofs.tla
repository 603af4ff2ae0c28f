-------------------------- MODULE BoxRegistryProofs --------------------------
(***************************************************************************)
(* BoxRegistry proved for any boxes, any number of list nodes and any       *)
(* table sizes.  In two layers:                                             *)
(*                                                                         *)
(*   IInv  holds whatever managers ask for, so also when freed nodes stay   *)
(*         linked and are handed out again.  It speaks of all nodes, listed *)
(*         or not: at most one bears the name of a box;                     *)
(*   CInv  holds as long as no manager creates a box twice.  The list has   *)
(*         an end, its names are the files, its nodes are allocated and     *)
(*         their counters say what the worker does.                         *)
(*                                                                         *)
(* For each action one lemma, from which the theorems follow by PTL.        *)
(***************************************************************************)
EXTENDS BoxRegistry, BoxListLemmas, FiniteSetTheorems, FunctionTheorems, TLAPS

-----------------------------------------------------------------------------
(* The inductive invariant.                                                 *)

(* Of all nodes, listed or not, freed or not, at most one bears the name of *)
(* a box, and only if the box has a file.                                   *)
NamesInv ==
    \A a \in Addr : heap[a].box_name \in Box =>
        /\ heap[a].box_name \in files
        /\ heap[a].hasWriter # -1 /\ heap[a].n_readers # -1
        /\ \A b \in Addr : heap[b].box_name = heap[a].box_name => b = a

(* A file with a lost handle is never unlinked, because its box is no more  *)
(* in the list.                                                             *)
LostInv == lost \subseteq files /\ RemovableAreClosed

SessionInv ==
    /\ session.doing = "publishing" => handles > 0
    /\ session.doing # "relaying" => \A a \in Addr : heap[a].n_readers # 1

IInv == RegistryTypeOK /\ NamesInv /\ LostInv /\ SessionInv

(* The parts of RegistryTypeOK that the proofs use ...                      *)
LEMMA Types ==
    ASSUME RegistryTypeOK
    PROVE  /\ heap \in [Addr -> Node] /\ avail \subseteq Addr /\ head \in Addr \cup {NULL}
           /\ files \subseteq CreatableBox /\ lost \subseteq CreatableBox
           /\ handles \in Nat /\ handles <= MAX_OPEN_FILES
           /\ Memory \in Mem /\ Memory.heap = heap /\ Memory.avail = avail
           /\ CreatableBox \subseteq Box /\ Unexistent \notin Box /\ Garbage \notin Box
           /\ NULL \notin Addr /\ MAX_OPEN_FILES \in Nat /\ Listed(heap, head) \subseteq Addr
<1>1. /\ heap \in [Addr -> Node] /\ avail \subseteq Addr /\ head \in Addr \cup {NULL}
      /\ files \subseteq CreatableBox /\ lost \subseteq CreatableBox
      /\ handles \in 0 .. MAX_OPEN_FILES
  BY DEF RegistryTypeOK, Node
<1>2. /\ CreatableBox \subseteq Box /\ Unexistent \notin Box /\ Garbage \notin Box
      /\ NULL \notin Addr /\ MAX_OPEN_FILES \in Nat
  BY RegistryAssumption
<1>3. Memory \in Mem /\ Memory.heap = heap /\ Memory.avail = avail
  BY <1>1 DEF Memory, Mem
<1> QED
  BY <1>1, <1>2, <1>3, HeapLinks

(* ... and how it is shown of the next state.                               *)
LEMMA TypesThen ==
    ASSUME heap' \in [Addr -> Node], avail' \subseteq Addr, head' \in Addr \cup {NULL},
           files' \subseteq CreatableBox, handles' \in 0 .. MAX_OPEN_FILES,
           lost' \subseteq CreatableBox,
           session' = session \/ session' \in [doing : {"reading requests", "publishing",
                                                     "relaying", "endless walk"},
                                            box : Addr \cup {NULL}],
           RegistryTypeOK
    PROVE  RegistryTypeOK'
BY DEF RegistryTypeOK, Node

(* What a node's search and release leave of the memory.                    *)
LEMMA FoundAndFreed ==
    ASSUME IInv, NEW name, NEW r \in find_box(name)
    PROVE  /\ r.node \in Addr
           /\ free(r.mem, r.node).heap \in [Addr -> Node]
           /\ free(r.mem, r.node).avail \subseteq Addr
           /\ free(r.mem, r.node).heap[r.node].box_name = Garbage
           /\ \A a \in Addr : free(r.mem, r.node).heap[a].next = heap[a].next
           /\ \A a \in Addr \ {r.node} : free(r.mem, r.node).heap[a] = heap[a]
           /\ session.doing # "relaying" => free(r.mem, r.node).heap[r.node].n_readers # 1
<1>1. /\ heap \in [Addr -> Node] /\ avail \subseteq Addr /\ Memory \in Mem
      /\ Memory.heap = heap /\ Memory.avail = avail
  BY Types DEF IInv
<1>2. /\ r.mem \in Mem /\ r.node \in Addr /\ r.mem.avail \subseteq Addr
      /\ \A a \in Addr : r.mem.heap[a].next = heap[a].next
      /\ \A a \in Addr \ {r.node} : r.mem.heap[a] = heap[a]
      /\ session.doing # "relaying" => r.mem.heap[r.node].n_readers # 1
  <2>1. CASE Hit(name, r)
    BY <1>1, <2>1 DEF Hit, IInv, SessionInv
  <2>2. CASE Miss(name, r)
    <3>1. r.mem.heap[r.node].next = heap[r.node].next /\ r.mem.heap[r.node].n_readers = -1
      BY <2>2 DEF Miss
    <3> QED
      BY <1>1, <2>2, <3>1 DEF Miss
  <2> QED
    BY <2>1, <2>2, FindBox DEF IInv
<1>3. r.mem.heap \in [Addr -> Node]
  BY <1>2 DEF Mem
<1>4. free(r.mem, r.node) \in Mem
  BY <1>2, FreeNode
<1>5. free(r.mem, r.node).heap \in [Addr -> Node] /\ free(r.mem, r.node).avail \subseteq Addr
  BY <1>4 DEF Mem
<1> QED
  BY <1>2, <1>3, <1>5, FreeNode

(* Steps that leave the links alone, and take a name away at most.          *)
LEMMA NamesKeep ==
    ASSUME IInv, RegistryTypeOK', head' = head, NEW n \in Addr,
           \A a \in Addr : heap'[a].next = heap[a].next,
           \A a \in Addr \ {n} : heap'[a] = heap[a],
           heap'[n].box_name \notin Box,
           files \subseteq files', lost' \subseteq files',
           \A a \in Listed(heap, head) : heap[a].box_name \notin lost'
    PROVE  NamesInv' /\ LostInv' /\ Listed(heap', head') = Listed(heap, head)
<1>1. /\ heap \in [Addr -> Node] /\ head \in Addr \cup {NULL} /\ Listed(heap, head) \subseteq Addr
      /\ NULL \notin Addr /\ CreatableBox \subseteq Box
      /\ \A a \in Addr : heap[a].next \in Addr \cup {NULL}
  BY Types, HeapLinks DEF IInv
<1>2. files' \subseteq CreatableBox
  BY DEF RegistryTypeOK
<1>3. Listed(heap', head') = Listed(heap, head)
  BY <1>1, SameWalk
<1>4. NamesInv'
  BY DEF IInv, NamesInv
<1>5. \A a \in Listed(heap', head') : heap'[a].box_name \notin lost'
  BY <1>1, <1>2, <1>3
<1> QED
  BY <1>3, <1>4, <1>5 DEF LostInv, RemovableAreClosed

(* A walk that does not end changes nothing but the worker's place.         *)
LEMMA WalkOnKeeps ==
    ASSUME IInv, Reading, WalkOn
    PROVE  IInv'
<1>1. /\ UNCHANGED <<heap, avail, head, files, handles, lost>>
      /\ session' = [doing |-> "endless walk", box |-> NULL] /\ session'.doing = "endless walk"
  BY DEF WalkOn, memoryVars
<1>2. RegistryTypeOK'
  BY <1>1 DEF IInv, RegistryTypeOK
<1>3. NamesInv' /\ LostInv'
  BY <1>1 DEF IInv, NamesInv, LostInv, RemovableAreClosed
<1>4. SessionInv'
  BY <1>1 DEF IInv, SessionInv, Reading
<1> QED
  BY <1>2, <1>3, <1>4 DEF IInv

-----------------------------------------------------------------------------
(* The handlers.                                                            *)

(* A request that ends with the node found freed, and nothing else done.    *)
LEMMA FreedKeeps ==
    ASSUME IInv, Reading, NEW name, NEW r \in find_box(name),
           heap' = free(r.mem, r.node).heap, avail' = free(r.mem, r.node).avail,
           UNCHANGED <<head, session>>,
           files \subseteq files', files' \subseteq CreatableBox,
           handles' \in 0 .. MAX_OPEN_FILES,
           lost' \subseteq files', \A a \in Listed(heap, head) : heap[a].box_name \notin lost'
    PROVE  IInv'
<1>1. head \in Addr \cup {NULL} /\ Garbage \notin Box
  BY Types DEF IInv
<1>2. RegistryTypeOK'
  BY <1>1, FoundAndFreed, TypesThen DEF IInv
<1>3. NamesInv' /\ LostInv'
  BY <1>1, <1>2, FoundAndFreed, NamesKeep
<1>4. SessionInv'
  <2>1. session'.doing = "reading requests" /\ session.doing = "reading requests"
    BY DEF Reading
  <2>2. \A a \in Addr : heap'[a].n_readers # 1
    BY <2>1, FoundAndFreed DEF IInv, SessionInv
  <2> QED
    BY <2>1, <2>2 DEF SessionInv
<1> QED
  BY <1>2, <1>3, <1>4 DEF IInv

(* The heap after create_box() has filled find_box()'s node.                *)
Named(name, r) ==
    [r.mem.heap EXCEPT ![r.node].hasWriter = 0, ![r.node].n_readers = 0, ![r.node].box_name = name]

(* A node with a new name is put last: the heap and the list after it.      *)
LEMMA CreatedNode ==
    ASSUME RegistryTypeOK, NEW name \in Box, NEW r, Miss(name, r), ~Endless(heap, head),
           heap' = insert_box(Named(name, r), r.node).heap,
           head' = insert_box(Named(name, r), r.node).head
    PROVE  /\ heap' \in [Addr -> Node] /\ head' \in Addr \cup {NULL}
           /\ heap'[r.node].box_name = name
           /\ heap'[r.node].hasWriter = 0 /\ heap'[r.node].n_readers = 0
           /\ \A a \in Addr \ {r.node} : /\ heap'[a].box_name = heap[a].box_name
                                         /\ heap'[a].hasWriter = heap[a].hasWriter
                                         /\ heap'[a].n_readers = heap[a].n_readers
           /\ Listed(heap', head') \subseteq Listed(heap, head) \cup {r.node}
           /\ r.node \notin Listed(heap, head) =>
                  /\ ~Endless(heap', head')
                  /\ Listed(heap', head') = Listed(heap, head) \cup {r.node}
<1> DEFINE node == r.node
           found == r.mem.heap
           named == Named(name, r)
           list == insert_box(named, node)
<1>1. heap \in [Addr -> Node] /\ head \in Addr \cup {NULL}
  BY Types
<1>2. node \in Addr /\ found \in [Addr -> Node]
  BY DEF Miss, Mem
<1>3. /\ named \in [Addr -> Node]
      /\ named[node].box_name = name /\ named[node].hasWriter = 0 /\ named[node].n_readers = 0
      /\ named[node].next = heap[node].next
      /\ \A a \in Addr \ {node} : named[a] = heap[a]
  <2>1. found[node].next = heap[node].next
    BY DEF Miss
  <2>2. \A a \in Addr \ {node} : found[a] = heap[a]
    BY DEF Miss
  <2>3. named = [found EXCEPT ![node].hasWriter = 0, ![node].n_readers = 0,
                              ![node].box_name = name]
    BY DEF Named
  <2> HIDE DEF found, node, named
  <2> QED
    BY ONLY <1>2, <2>1, <2>2, <2>3, name \in Box DEF Node
<1>4. heap' = list.heap /\ head' = list.head
  OBVIOUS
<1> HIDE DEF found, named, list
<1>5. \A a \in Addr : named[a].next = heap[a].next
  BY <1>2, <1>3
<1>6. Listed(named, head) = Listed(heap, head) /\ (Endless(named, head) <=> Endless(heap, head))
  BY ONLY <1>1, <1>5, SameLinks
<1>7. ~Endless(named, head)
  BY <1>6
<1>8. /\ list.heap \in [Addr -> Node] /\ list.head \in Addr \cup {NULL}
      /\ \A a \in Addr : /\ list.heap[a].box_name = named[a].box_name
                         /\ list.heap[a].hasWriter = named[a].hasWriter
                         /\ list.heap[a].n_readers = named[a].n_readers
      /\ Listed(list.heap, list.head) \subseteq Listed(named, head) \cup {node}
  BY <1>1, <1>2, <1>3, <1>7, InsertNode DEF list
<1>9. node \notin Listed(heap, head) =>
          /\ ~Endless(list.heap, list.head)
          /\ Listed(list.heap, list.head) = Listed(named, head) \cup {node}
  BY <1>1, <1>2, <1>3, <1>6, <1>7, InsertLists DEF list
<1> QED
  BY ONLY <1>2, <1>3, <1>4, <1>6, <1>8, <1>9 DEF node

(* create_box() that succeeds: the new node bears the only such name.       *)
LEMMA CreatedKeeps ==
    ASSUME IInv, Reading, NEW name \in Box, NEW r \in find_box(name), ~find_box_hangs(name),
           ~CreateRefused(name, r.mem.heap[r.node]), CreateOpens(name),
           heap' = insert_box(Named(name, r), r.node).heap,
           head' = insert_box(Named(name, r), r.node).head,
           avail' = r.mem.avail, files' = files \cup {name},
           UNCHANGED <<handles, lost, session>>
    PROVE  IInv'
<1> DEFINE node == r.node
<1>1. /\ heap \in [Addr -> Node] /\ avail \subseteq Addr /\ head \in Addr \cup {NULL}
      /\ files \subseteq CreatableBox /\ lost \subseteq CreatableBox
      /\ Listed(heap, head) \subseteq Addr
      /\ Memory.heap = heap /\ handles \in 0 .. MAX_OPEN_FILES
  BY Types DEF IInv, RegistryTypeOK
<1>2. name \notin files /\ name \in CreatableBox
  BY DEF CreateRefused, AppendOpens, CreateOpens, CreateMakes
<1>3. Miss(name, r)
  <2>1. ASSUME Hit(name, r)
        PROVE  FALSE
    BY <1>1, <1>2, <2>1 DEF Hit, IInv, NamesInv
  <2> QED
    BY <2>1, FindBox DEF IInv
<1>4. node \in Addr /\ r.mem.avail \subseteq Addr
  BY <1>1, <1>3 DEF Miss
<1>5. ~Endless(heap, head)
  BY <1>3 DEF find_box_hangs, Miss
<1>6. /\ heap' \in [Addr -> Node] /\ head' \in Addr \cup {NULL}
      /\ heap'[node].box_name = name /\ heap'[node].hasWriter = 0 /\ heap'[node].n_readers = 0
      /\ \A a \in Addr \ {node} : /\ heap'[a].box_name = heap[a].box_name
                                 /\ heap'[a].hasWriter = heap[a].hasWriter
                                 /\ heap'[a].n_readers = heap[a].n_readers
      /\ Listed(heap', head') \subseteq Listed(heap, head) \cup {node}
  <2>1. RegistryTypeOK /\ Miss(name, r) /\ ~Endless(heap, head)
    BY <1>3, <1>5 DEF IInv
  <2>2. /\ heap' \in [Addr -> Node] /\ head' \in Addr \cup {NULL}
        /\ heap'[r.node].box_name = name
        /\ heap'[r.node].hasWriter = 0 /\ heap'[r.node].n_readers = 0
        /\ \A a \in Addr \ {r.node} : /\ heap'[a].box_name = heap[a].box_name
                                      /\ heap'[a].hasWriter = heap[a].hasWriter
                                      /\ heap'[a].n_readers = heap[a].n_readers
        /\ Listed(heap', head') \subseteq Listed(heap, head) \cup {r.node}
    BY <2>1, CreatedNode
  <2> QED
    BY ONLY <2>2 DEF node
<1> HIDE DEF node
<1>7. RegistryTypeOK'
  BY <1>1, <1>2, <1>4, <1>6, TypesThen DEF IInv
<1>8. NamesInv'
  <2>1. heap'[node].box_name = name /\ heap'[node].hasWriter = 0 /\ heap'[node].n_readers = 0
    BY <1>6
  <2>2. \A a \in Addr \ {node} : /\ heap'[a].box_name = heap[a].box_name
                                /\ heap'[a].hasWriter = heap[a].hasWriter
                                /\ heap'[a].n_readers = heap[a].n_readers
    BY <1>6
  <2>3. \A a \in Addr : heap[a].box_name # name
    BY <1>2 DEF IInv, NamesInv
  <2>4. ASSUME NEW a \in Addr, heap'[a].box_name \in Box
        PROVE  /\ heap'[a].box_name \in files'
               /\ heap'[a].hasWriter # -1 /\ heap'[a].n_readers # -1
               /\ \A b \in Addr : heap'[b].box_name = heap'[a].box_name => b = a
    <3>1. CASE a = node
      <4>1. heap'[a].box_name = name /\ heap'[a].hasWriter # -1 /\ heap'[a].n_readers # -1
        BY ONLY <2>1, <3>1
      <4>2. \A b \in Addr : heap'[b].box_name = name => b = node
        BY ONLY <2>2, <2>3
      <4>3. files' = files \cup {name}
        OBVIOUS
      <4> QED
        BY ONLY <3>1, <4>1, <4>2, <4>3
    <3>2. CASE a # node
      <4>1. heap[a].box_name \in Box /\ heap'[a].box_name = heap[a].box_name
        BY <2>2, <2>4, <3>2
      <4>2. /\ heap[a].box_name \in files
            /\ heap[a].hasWriter # -1 /\ heap[a].n_readers # -1
            /\ \A b \in Addr : heap[b].box_name = heap[a].box_name => b = a
        BY <4>1 DEF IInv, NamesInv
      <4>3. heap'[a].hasWriter # -1 /\ heap'[a].n_readers # -1
        BY ONLY <2>2, <2>4, <3>2, <4>2
      <4>4. \A b \in Addr : heap'[b].box_name = heap'[a].box_name => b = a
        BY ONLY <2>1, <2>2, <2>3, <2>4, <3>2, <4>1, <4>2
      <4>5. files' = files \cup {name}
        OBVIOUS
      <4> QED
        BY ONLY <4>1, <4>2, <4>3, <4>4, <4>5
    <3> QED
      BY ONLY <3>1, <3>2
  <2> QED
    BY <2>4 DEF NamesInv
<1>9. LostInv'
  <2>1. lost' = lost /\ lost \subseteq files /\ lost' \subseteq files' /\ name \notin lost
    BY <1>2 DEF IInv, LostInv
  <2>2. ASSUME NEW a \in Listed(heap', head')
        PROVE  heap'[a].box_name \notin lost
    <3>1. a \in Addr /\ (a \in Listed(heap, head) \/ a = node)
      BY ONLY <1>1, <1>4, <1>6, a \in Listed(heap', head')
    <3>2. CASE a = node
      BY <1>6, <2>1, <3>2
    <3>3. CASE a # node
      <4>1. heap'[a].box_name = heap[a].box_name /\ a \in Listed(heap, head)
        BY <1>6, <3>1, <3>3
      <4> QED
        BY <4>1 DEF IInv, LostInv, RemovableAreClosed
    <3> QED
      BY <3>2, <3>3
  <2> QED
    BY <2>1, <2>2 DEF LostInv, RemovableAreClosed
<1>10. SessionInv'
  <2>1. session'.doing = "reading requests" /\ session.doing = "reading requests"
    BY DEF Reading
  <2>2. \A a \in Addr : heap[a].n_readers # 1
    BY <2>1 DEF IInv, SessionInv
  <2>3. \A a \in Addr : heap'[a].n_readers # 1
    BY ONLY <1>4, <1>6, <2>2
  <2> QED
    BY <2>1, <2>3 DEF SessionInv
<1> QED
  BY <1>7, <1>8, <1>9, <1>10 DEF IInv

(* A box cannot be made: find_box()'s node, without a name, is left behind. *)
LEMMA NotCreatedKeeps ==
    ASSUME IInv, Reading, NEW name \in Box, NEW r \in find_box(name),
           ~CreateRefused(name, r.mem.heap[r.node]),
           heap' = r.mem.heap, avail' = r.mem.avail,
           files' = IF CreateMakes(name) THEN files \cup {name} ELSE files,
           UNCHANGED <<head, handles, lost, session>>
    PROVE  IInv'
<1>1. /\ heap \in [Addr -> Node] /\ avail \subseteq Addr /\ head \in Addr \cup {NULL}
      /\ files \subseteq CreatableBox /\ lost \subseteq CreatableBox
      /\ Unexistent \notin Box /\ Memory.heap = heap /\ handles \in 0 .. MAX_OPEN_FILES
  BY Types DEF IInv, RegistryTypeOK
<1>2. Miss(name, r)
  <2>1. ASSUME Hit(name, r)
        PROVE  FALSE
    <3>1. r.mem.heap[r.node].hasWriter # -1
      BY <1>1, <2>1 DEF Hit, IInv, NamesInv
    <3> QED
      BY <3>1 DEF CreateRefused
  <2> QED
    BY <2>1, FindBox DEF IInv
<1>3. /\ r.node \in Addr /\ heap' \in [Addr -> Node] /\ avail' \subseteq Addr
      /\ heap'[r.node].box_name = Unexistent /\ heap'[r.node].n_readers = -1
      /\ heap'[r.node].next = heap[r.node].next
      /\ \A a \in Addr \ {r.node} : heap'[a] = heap[a]
  BY <1>1, <1>2 DEF Miss, Mem
<1>4. files \subseteq files' /\ files' \subseteq CreatableBox
  BY <1>1 DEF CreateMakes
<1>5. RegistryTypeOK'
  BY <1>1, <1>3, <1>4, TypesThen DEF IInv
<1>6. NamesInv' /\ LostInv'
  BY <1>1, <1>3, <1>4, <1>5, NamesKeep DEF IInv, LostInv, RemovableAreClosed
<1>7. SessionInv'
  <2>1. session'.doing = "reading requests" /\ session.doing = "reading requests"
    BY DEF Reading
  <2>2. \A a \in Addr : heap[a].n_readers # 1
    BY <2>1 DEF IInv, SessionInv
  <2>3. \A a \in Addr : heap'[a].n_readers # 1
    BY ONLY <1>3, <2>2
  <2> QED
    BY <2>1, <2>3 DEF SessionInv
<1> QED
  BY <1>5, <1>6, <1>7 DEF IInv

(* create_box(), on each of its paths ...                                   *)
LEMMA CreateKeeps ==
    ASSUME IInv, NEW name \in Box, NEW says, create_box(name, says)
    PROVE  IInv'
<1>1. CASE find_box_hangs(name) /\ Hang(says)
  BY <1>1, WalkOnKeeps DEF create_box, Hang
<1>2. CASE ~(find_box_hangs(name) /\ Hang(says))
  <2>1. /\ Reading /\ ~find_box_hangs(name) /\ UNCHANGED <<handles, lost, session>>
    BY <1>2 DEF create_box
  <2>2. PICK r \in find_box(name) :
            LET refused == CreateRefused(name, r.mem.heap[r.node])
                freed == free(r.mem, r.node)
                list == insert_box(Named(name, r), r.node)
            IN  \/ /\ refused
                   /\ heap' = freed.heap /\ avail' = freed.avail
                   /\ UNCHANGED <<head, files>>
                \/ /\ ~refused /\ CreateOpens(name)
                   /\ heap' = list.heap /\ head' = list.head /\ avail' = r.mem.avail
                   /\ files' = files \cup {name}
                \/ /\ ~refused /\ ~CreateOpens(name)
                   /\ heap' = r.mem.heap /\ avail' = r.mem.avail
                   /\ files' = IF CreateMakes(name) THEN files \cup {name} ELSE files
                   /\ UNCHANGED head
    BY <1>2 DEF create_box, Named
  <2>3. /\ files \subseteq CreatableBox /\ handles \in 0 .. MAX_OPEN_FILES /\ lost \subseteq files
        /\ \A a \in Listed(heap, head) : heap[a].box_name \notin lost
    BY Types DEF IInv, RegistryTypeOK, LostInv, RemovableAreClosed
  <2> QED
    BY <2>1, <2>2, <2>3, FreedKeeps, CreatedKeeps, NotCreatedKeeps
<1> QED
  BY <1>1, <1>2

(* The box is unlinked from the list and its file from the directory.       *)
LEMMA RemovedKeeps ==
    ASSUME IInv, Reading, NEW name \in Box, ~Endless(heap, head), NEW r, Hit(name, r),
           heap' = delete_box(r.mem, r.node).mem.heap,
           avail' = delete_box(r.mem, r.node).mem.avail,
           head' = delete_box(r.mem, r.node).head,
           files' = files \ {name}, UNCHANGED <<handles, lost, session>>
    PROVE  IInv'
<1> DEFINE node == r.node
<1>1. /\ heap \in [Addr -> Node] /\ avail \subseteq Addr /\ head \in Addr \cup {NULL}
      /\ files \subseteq CreatableBox /\ lost \subseteq CreatableBox
      /\ Listed(heap, head) \subseteq Addr /\ Garbage \notin Box /\ CreatableBox \subseteq Box
      /\ Memory.heap = heap /\ Memory.avail = avail /\ Memory \in Mem
      /\ handles \in 0 .. MAX_OPEN_FILES
  BY Types DEF IInv, RegistryTypeOK
<1>2. node \in Addr /\ node \in Listed(heap, head) /\ heap[node].box_name = name
  BY DEF Hit
<1>3. /\ heap' = delete_box(Memory, node).mem.heap /\ avail' = delete_box(Memory, node).mem.avail
      /\ head' = delete_box(Memory, node).head
  BY DEF Hit
<1>4. files' = files \ {name} /\ lost' = lost /\ handles' = handles /\ session' = session
  OBVIOUS
<1> HIDE DEF node
<1>5. /\ delete_box(Memory, node).mem \in Mem /\ head' \in Addr \cup {NULL}
      /\ heap'[node].box_name = Garbage
      /\ \A a \in Addr \ {node} : heap'[a].box_name = heap[a].box_name
      /\ \A a \in Addr : heap'[a].hasWriter = heap[a].hasWriter /\ heap'[a].n_readers = heap[a].n_readers
      /\ Listed(heap', head') \subseteq Listed(heap, head)
  <2> DEFINE d == delete_box(Memory, node)
  <2>1. node \in Listed(Memory.heap, head) /\ ~Endless(Memory.heap, head)
    BY <1>1, <1>2
  <2>2. /\ d.mem \in Mem /\ d.head \in Addr \cup {NULL} /\ d.mem.heap[node].box_name = Garbage
        /\ \A a \in Addr \ {node} : d.mem.heap[a].box_name = Memory.heap[a].box_name
        /\ \A a \in Addr : /\ d.mem.heap[a].hasWriter = Memory.heap[a].hasWriter
                           /\ d.mem.heap[a].n_readers = Memory.heap[a].n_readers
        /\ Listed(d.mem.heap, d.head) \subseteq Listed(Memory.heap, head)
    BY <1>1, <2>1, DeleteNode
  <2> QED
    BY ONLY <1>1, <1>3, <2>2
<1>6. heap' \in [Addr -> Node] /\ avail' \subseteq Addr
  BY <1>3, <1>5 DEF Mem
<1>7. RegistryTypeOK'
  BY <1>1, <1>4, <1>5, <1>6, TypesThen DEF IInv
<1>8. NamesInv'
  <2>1. ASSUME NEW a \in Addr, heap'[a].box_name \in Box
        PROVE  /\ heap'[a].box_name \in files'
               /\ heap'[a].hasWriter # -1 /\ heap'[a].n_readers # -1
               /\ \A b \in Addr : heap'[b].box_name = heap'[a].box_name => b = a
    <3>1. a # node /\ heap'[a].box_name = heap[a].box_name
      BY <1>1, <1>5, <2>1
    <3>2. /\ heap[a].box_name \in files /\ heap[a].hasWriter # -1 /\ heap[a].n_readers # -1
          /\ \A b \in Addr : heap[b].box_name = heap[a].box_name => b = a
      BY <2>1, <3>1 DEF IInv, NamesInv
    <3>3. heap[a].box_name # name
      BY <1>2, <3>1, <3>2
    <3> QED
      BY ONLY <1>1, <1>4, <1>5, <2>1, <3>1, <3>2, <3>3
  <2> QED
    BY <2>1 DEF NamesInv
<1>9. LostInv'
  <2>1. lost \subseteq files /\ \A a \in Listed(heap, head) : heap[a].box_name \notin lost
    BY DEF IInv, LostInv, RemovableAreClosed
  <2>2. lost' \subseteq files'
    BY ONLY <1>2, <1>4, <2>1
  <2>3. \A a \in Listed(heap', head') : heap'[a].box_name \notin lost'
    BY ONLY <1>1, <1>4, <1>5, <2>1
  <2> QED
    BY <2>2, <2>3 DEF LostInv, RemovableAreClosed
<1>10. SessionInv'
  BY <1>4, <1>5 DEF IInv, SessionInv
<1> QED
  BY <1>7, <1>8, <1>9, <1>10 DEF IInv

(* ... remove_box(), which clears the name before it frees the node ...     *)
LEMMA RemoveKeeps ==
    ASSUME IInv, NEW name \in Box, NEW says, remove_box(name, says)
    PROVE  IInv'
<1>1. CASE Endless(heap, head) /\ Hang(says)
  BY <1>1, WalkOnKeeps DEF remove_box, Hang
<1>2. CASE ~(Endless(heap, head) /\ Hang(says))
  <2>1. Reading /\ ~Endless(heap, head) /\ session' = session
    BY <1>2 DEF remove_box
  <2>2. PICK r \in find_box(name) :
            LET refused == ~AppendOpens(name) \/ r.mem.heap[r.node].n_readers = -1
                freed == free(r.mem, r.node)
                rest == delete_box(r.mem, r.node)
            IN  /\ \/ /\ refused
                      /\ heap' = freed.heap /\ avail' = freed.avail
                      /\ UNCHANGED <<head, files>>
                   \/ /\ ~refused
                      /\ heap' = rest.mem.heap /\ avail' = rest.mem.avail
                      /\ head' = rest.head
                      /\ files' = files \ {name}
                /\ IF LeavesOpen(name, refused)
                   THEN handles' = handles + 1 /\ lost' = lost \cup {name}
                   ELSE UNCHANGED <<handles, lost>>
    BY <1>2 DEF remove_box
  <2> DEFINE n_readers == r.mem.heap[r.node].n_readers
             refused == ~AppendOpens(name) \/ n_readers = -1
  <2>3. Hit(name, r) => n_readers # -1
    BY Types DEF Hit, IInv, NamesInv
  <2>4. Miss(name, r) => /\ n_readers = -1
                         /\ \A a \in Listed(heap, head) : heap[a].box_name # name
    BY DEF Miss
  <2>5. Hit(name, r) \/ Miss(name, r)
    BY <2>2, FindBox DEF IInv
  <2>6. /\ files \subseteq CreatableBox /\ handles \in 0 .. MAX_OPEN_FILES /\ lost \subseteq files
        /\ \A a \in Listed(heap, head) : heap[a].box_name \notin lost
        /\ MAX_OPEN_FILES \in Nat
    BY Types DEF IInv, RegistryTypeOK, LostInv, RemovableAreClosed
  <2>7. CASE refused
    <3>1. /\ heap' = free(r.mem, r.node).heap /\ avail' = free(r.mem, r.node).avail
          /\ UNCHANGED <<head, files>>
          /\ IF LeavesOpen(name, refused)
             THEN handles' = handles + 1 /\ lost' = lost \cup {name}
             ELSE UNCHANGED <<handles, lost>>
      BY <2>2, <2>7
    <3>2. CASE AppendOpens(name)
      <4>1. name \in files /\ handles < MAX_OPEN_FILES
            /\ \A a \in Listed(heap, head) : heap[a].box_name # name
        BY <2>3, <2>4, <2>5, <2>7, <3>2 DEF AppendOpens, HandleLeft
      <4>2. handles' = handles + 1 /\ lost' = lost \cup {name}
        BY <2>7, <3>1, <3>2 DEF LeavesOpen
      <4>3. /\ handles' \in 0 .. MAX_OPEN_FILES /\ lost' \subseteq files' /\ files' = files
            /\ \A a \in Listed(heap, head) : heap[a].box_name \notin lost'
        BY ONLY <2>6, <3>1, <4>1, <4>2
      <4> QED
        BY <2>1, <2>2, <2>6, <3>1, <4>3, FreedKeeps
    <3>3. CASE ~AppendOpens(name)
      <4>1. UNCHANGED <<handles, lost>>
        BY <3>1, <3>3 DEF LeavesOpen
      <4> QED
        BY <2>1, <2>2, <2>6, <3>1, <4>1, FreedKeeps
    <3> QED
      BY <3>2, <3>3
  <2>8. CASE ~refused
    <3>1. Hit(name, r)
      BY <2>4, <2>5, <2>8
    <3>2. /\ heap' = delete_box(r.mem, r.node).mem.heap
          /\ avail' = delete_box(r.mem, r.node).mem.avail
          /\ head' = delete_box(r.mem, r.node).head
          /\ files' = files \ {name} /\ UNCHANGED <<handles, lost>>
      BY <2>2, <2>8 DEF LeavesOpen
    <3> QED
      BY <2>1, <3>1, <3>2, RemovedKeeps
  <2> QED
    BY <2>7, <2>8
<1> QED
  BY <1>1, <1>2

(* The counters of one node change.                                         *)
LEMMA CountersKeep ==
    ASSUME IInv, RegistryTypeOK', UNCHANGED <<head, lost>>, files \subseteq files',
           \A a \in Addr : /\ heap'[a].next = heap[a].next
                           /\ heap'[a].box_name = heap[a].box_name
                           /\ heap[a].hasWriter # -1 => heap'[a].hasWriter # -1
                           /\ heap[a].n_readers # -1 => heap'[a].n_readers # -1
    PROVE  NamesInv' /\ LostInv' /\ Listed(heap', head') = Listed(heap, head)
<1>1. /\ heap \in [Addr -> Node] /\ head \in Addr \cup {NULL} /\ Listed(heap, head) \subseteq Addr
  BY Types DEF IInv
<1>2. Listed(heap', head') = Listed(heap, head)
  BY <1>1, SameLinks
<1>3. NamesInv'
  <2>1. ASSUME NEW a \in Addr, heap'[a].box_name \in Box
        PROVE  /\ heap'[a].box_name \in files'
               /\ heap'[a].hasWriter # -1 /\ heap'[a].n_readers # -1
               /\ \A b \in Addr : heap'[b].box_name = heap'[a].box_name => b = a
    <3>1. /\ heap[a].box_name \in files /\ heap[a].hasWriter # -1 /\ heap[a].n_readers # -1
          /\ \A b \in Addr : heap[b].box_name = heap[a].box_name => b = a
      BY <2>1 DEF IInv, NamesInv
    <3> QED
      BY <3>1
  <2> QED
    BY <2>1 DEF NamesInv
<1>4. LostInv'
  BY <1>1, <1>2 DEF IInv, LostInv, RemovableAreClosed
<1> QED
  BY <1>2, <1>3, <1>4

(* ... reg_publisher() up to the session ...                                *)
LEMMA PublisherKeeps ==
    ASSUME IInv, NEW name \in Box, NEW says, reg_publisher(name, says)
    PROVE  IInv'
<1>1. CASE find_box_hangs(name) /\ Hang(says)
  BY <1>1, WalkOnKeeps DEF reg_publisher, Hang
<1>2. CASE ~(find_box_hangs(name) /\ Hang(says))
  <2>1. Reading /\ UNCHANGED <<head, files, lost>>
    BY <1>2 DEF reg_publisher
  <2>2. PICK r \in find_box(name) :
            LET refused == r.mem.heap[r.node].hasWriter # 0 \/ ~AppendOpens(name)
                freed == free(r.mem, r.node)
            IN  \/ /\ refused
                   /\ heap' = freed.heap /\ avail' = freed.avail
                   /\ UNCHANGED <<handles, session>>
                \/ /\ ~refused
                   /\ heap' = [r.mem.heap EXCEPT ![r.node].hasWriter = 1]
                   /\ avail' = r.mem.avail
                   /\ handles' = handles + 1
                   /\ session' = [doing |-> "publishing", box |-> r.node]
    BY <1>2 DEF reg_publisher
  <2>3. /\ heap \in [Addr -> Node] /\ avail \subseteq Addr /\ head \in Addr \cup {NULL}
        /\ files \subseteq CreatableBox /\ handles \in 0 .. MAX_OPEN_FILES /\ lost \subseteq files
        /\ lost \subseteq CreatableBox /\ MAX_OPEN_FILES \in Nat
        /\ \A a \in Listed(heap, head) : heap[a].box_name \notin lost
        /\ Memory.heap = heap /\ Memory.avail = avail
    BY Types DEF IInv, RegistryTypeOK, LostInv, RemovableAreClosed
  <2>4. CASE /\ heap' = free(r.mem, r.node).heap /\ avail' = free(r.mem, r.node).avail
             /\ UNCHANGED <<handles, session>>
    BY <2>1, <2>3, <2>4, FreedKeeps
  <2>5. CASE /\ r.mem.heap[r.node].hasWriter = 0 /\ AppendOpens(name)
             /\ heap' = [r.mem.heap EXCEPT ![r.node].hasWriter = 1]
             /\ avail' = r.mem.avail
             /\ handles' = handles + 1
             /\ session' = [doing |-> "publishing", box |-> r.node]
    <3>1. Hit(name, r)
      <4>1. ~Miss(name, r)
        BY <2>5 DEF Miss
      <4> QED
        BY <2>2, <4>1, FindBox DEF IInv
    <3>2. /\ r.node \in Addr /\ avail' = avail
          /\ heap' = [heap EXCEPT ![r.node].hasWriter = 1]
      BY <2>3, <2>5, <3>1 DEF Hit
    <3>3. /\ heap' \in [Addr -> Node]
          /\ \A a \in Addr : /\ heap'[a].next = heap[a].next
                             /\ heap'[a].box_name = heap[a].box_name
                             /\ heap'[a].n_readers = heap[a].n_readers
                             /\ heap[a].hasWriter # -1 => heap'[a].hasWriter # -1
      BY ONLY <2>3, <3>2 DEF Node
    <3>4. handles' \in 1 .. MAX_OPEN_FILES
      BY <2>3, <2>5 DEF AppendOpens, HandleLeft
    <3>5. RegistryTypeOK'
      BY <2>1, <2>3, <2>5, <3>2, <3>3, <3>4, TypesThen DEF IInv
    <3>6. NamesInv' /\ LostInv'
      BY <2>1, <3>3, <3>5, CountersKeep
    <3>7. SessionInv'
      <4>1. session.doing = "reading requests" /\ session'.doing = "publishing"
        BY <2>1, <2>5 DEF Reading
      <4>2. \A a \in Addr : heap[a].n_readers # 1
        BY <4>1 DEF IInv, SessionInv
      <4>3. \A a \in Addr : heap'[a].n_readers # 1
        BY ONLY <3>3, <4>2
      <4>4. handles' > 0
        BY ONLY <3>4, <2>3
      <4> QED
        BY <4>3, <4>4 DEF SessionInv
    <3> QED
      BY <3>5, <3>6, <3>7 DEF IInv
  <2> QED
    BY <2>2, <2>4, <2>5
<1> QED
  BY <1>1, <1>2

(* ... reg_subscriber() up to the session ...                               *)
LEMMA SubscriberKeeps ==
    ASSUME IInv, NEW name \in Box, NEW says, reg_subscriber(name, says)
    PROVE  IInv'
<1>1. CASE find_box_hangs(name) /\ Hang(says)
  BY <1>1, WalkOnKeeps DEF reg_subscriber, Hang
<1>2. CASE ~(find_box_hangs(name) /\ Hang(says))
  <2>1. Reading /\ UNCHANGED <<head, lost>>
    BY <1>2 DEF reg_subscriber
  <2>2. PICK r \in find_box(name) :
            LET absent == r.mem.heap[r.node].hasWriter = -1
                refused == absent \/ ~CreateOpens(name)
                freed == free(r.mem, r.node)
            IN  /\ \/ /\ refused
                      /\ heap' = freed.heap /\ avail' = freed.avail
                      /\ UNCHANGED <<handles, session>>
                   \/ /\ ~refused
                      /\ heap' = [r.mem.heap EXCEPT ![r.node].n_readers = @ + 1]
                      /\ avail' = r.mem.avail
                      /\ handles' = handles + 1
                      /\ session' = [doing |-> "relaying", box |-> r.node]
                /\ files' = IF ~absent /\ CreateMakes(name) THEN files \cup {name} ELSE files
    BY <1>2 DEF reg_subscriber
  <2>3. /\ heap \in [Addr -> Node] /\ avail \subseteq Addr /\ head \in Addr \cup {NULL}
        /\ files \subseteq CreatableBox /\ handles \in 0 .. MAX_OPEN_FILES /\ lost \subseteq files
        /\ lost \subseteq CreatableBox /\ MAX_OPEN_FILES \in Nat
        /\ \A a \in Listed(heap, head) : heap[a].box_name \notin lost
        /\ Memory.heap = heap /\ Memory.avail = avail
    BY Types DEF IInv, RegistryTypeOK, LostInv, RemovableAreClosed
  <2>4. files \subseteq files' /\ files' \subseteq CreatableBox /\ lost' \subseteq files'
    BY <2>1, <2>2, <2>3 DEF CreateMakes
  <2>5. CASE /\ heap' = free(r.mem, r.node).heap /\ avail' = free(r.mem, r.node).avail
             /\ UNCHANGED <<handles, session>>
    BY <2>1, <2>3, <2>4, <2>5, FreedKeeps
  <2>6. CASE /\ r.mem.heap[r.node].hasWriter # -1 /\ CreateOpens(name)
             /\ heap' = [r.mem.heap EXCEPT ![r.node].n_readers = @ + 1]
             /\ avail' = r.mem.avail
             /\ handles' = handles + 1
             /\ session' = [doing |-> "relaying", box |-> r.node]
    <3>1. Hit(name, r)
      <4>1. ~Miss(name, r)
        BY <2>6 DEF Miss
      <4> QED
        BY <2>2, <4>1, FindBox DEF IInv
    <3>2. /\ r.node \in Addr /\ avail' = avail /\ heap[r.node].box_name = name
          /\ heap' = [heap EXCEPT ![r.node].n_readers = @ + 1]
      BY <2>3, <2>6, <3>1 DEF Hit
    <3>3. heap[r.node].n_readers = 0
      <4>1. session.doing = "reading requests"
        BY <2>1 DEF Reading
      <4>2. heap[r.node].n_readers # 1
        BY <3>2, <4>1 DEF IInv, SessionInv
      <4>3. heap[r.node].n_readers # -1
        BY <3>2 DEF IInv, NamesInv
      <4>4. heap[r.node] \in Node
        BY <2>3, <3>2
      <4> QED
        BY <4>2, <4>3, <4>4 DEF Node
    <3>4. /\ heap' \in [Addr -> Node]
          /\ \A a \in Addr : /\ heap'[a].next = heap[a].next
                             /\ heap'[a].box_name = heap[a].box_name
                             /\ heap'[a].hasWriter = heap[a].hasWriter
                             /\ heap[a].n_readers # -1 => heap'[a].n_readers # -1
      BY ONLY <2>3, <3>2, <3>3 DEF Node
    <3>5. handles' \in 1 .. MAX_OPEN_FILES
      BY <2>3, <2>6 DEF CreateOpens, HandleLeft
    <3>6. RegistryTypeOK'
      BY <2>1, <2>3, <2>4, <2>6, <3>2, <3>4, <3>5, TypesThen DEF IInv
    <3>7. NamesInv' /\ LostInv'
      BY <2>1, <2>4, <3>4, <3>6, CountersKeep
    <3>8. SessionInv'
      BY <2>6 DEF SessionInv
    <3> QED
      BY <3>6, <3>7, <3>8 DEF IInv
  <2> QED
    BY <2>2, <2>5, <2>6
<1> QED
  BY <1>1, <1>2

(* ... a step elsewhere ...                                                 *)
LEMMA UnchangedKeeps ==
    ASSUME IInv, UNCHANGED registryVars
    PROVE  IInv'
<1>1. UNCHANGED <<heap, avail, head, files, handles, lost, session>>
  BY DEF registryVars, memoryVars
<1> QED
  BY <1>1 DEF IInv, RegistryTypeOK, NamesInv, LostInv, RemovableAreClosed, SessionInv

(* ... list_box(), which changes nothing ...                                *)
LEMMA ListKeeps ==
    ASSUME IInv, NEW says, list_box(says)
    PROVE  IInv'
BY WalkOnKeeps, UnchangedKeeps DEF list_box

(* ... and the end of a publisher's session.                                *)
LEMMA EndPublisherKeeps ==
    ASSUME IInv, end_publisher
    PROVE  IInv'
<1>1. /\ session.doing = "publishing" /\ handles' = handles - 1
      /\ heap' = [heap EXCEPT ![session.box].hasWriter = 0]
      /\ session' = [doing |-> "reading requests", box |-> NULL]
      /\ UNCHANGED <<avail, head, files, lost>>
  BY DEF end_publisher
<1>2. /\ heap \in [Addr -> Node] /\ avail \subseteq Addr /\ head \in Addr \cup {NULL}
      /\ files \subseteq CreatableBox /\ lost \subseteq CreatableBox
      /\ handles \in 0 .. MAX_OPEN_FILES /\ MAX_OPEN_FILES \in Nat
  BY Types DEF IInv, RegistryTypeOK
<1>3. /\ heap' \in [Addr -> Node]
      /\ \A a \in Addr : /\ heap'[a].next = heap[a].next
                         /\ heap'[a].box_name = heap[a].box_name
                         /\ heap'[a].n_readers = heap[a].n_readers
                         /\ heap[a].hasWriter # -1 => heap'[a].hasWriter # -1
  <2>1. CASE session.box \in Addr
    <3>1. heap' = [heap EXCEPT ![session.box].hasWriter = 0]
      BY <1>1
    <3> QED
      BY ONLY <1>2, <2>1, <3>1 DEF Node
  <2>2. CASE session.box \notin Addr
    <3>1. heap' = heap
      BY <1>1, <1>2, <2>2
    <3> QED
      BY ONLY <1>2, <3>1
  <2> QED
    BY <2>1, <2>2
<1>4. handles' \in 0 .. MAX_OPEN_FILES
  <2>1. handles > 0
    BY <1>1 DEF IInv, SessionInv
  <2>2. handles' = handles - 1
    BY <1>1
  <2> QED
    BY ONLY <1>2, <2>1, <2>2
<1>5. RegistryTypeOK'
  BY <1>1, <1>2, <1>3, <1>4, TypesThen DEF IInv
<1>6. NamesInv' /\ LostInv'
  BY <1>1, <1>3, <1>5, CountersKeep
<1>7. SessionInv'
  <2>1. session'.doing = "reading requests"
    BY <1>1
  <2>2. \A a \in Addr : heap[a].n_readers # 1
    BY <1>1 DEF IInv, SessionInv
  <2> QED
    BY <1>3, <2>1, <2>2 DEF SessionInv
<1> QED
  BY <1>5, <1>6, <1>7 DEF IInv

(* The empty list satisfies the invariant.                                  *)
LEMMA InitIsWell == Init => IInv
<1> SUFFICES ASSUME Init
             PROVE  IInv
  OBVIOUS
<1>1. NULL \notin Addr /\ Garbage \notin Box /\ 0 \in 0 .. MAX_OPEN_FILES
  BY RegistryAssumption
<1>2. /\ heap = [a \in Addr |-> [box_name |-> Garbage, hasWriter |-> 0, n_readers |-> 0,
                                next |-> NULL]]
      /\ avail = Addr /\ head = NULL /\ files = {} /\ handles = 0 /\ lost = {}
      /\ session = [doing |-> "reading requests", box |-> NULL]
  BY DEF Init
<1>3. RegistryTypeOK
  BY <1>1, <1>2 DEF RegistryTypeOK
<1>4. \A a \in Addr : heap[a].box_name = Garbage /\ heap[a].n_readers = 0
  BY <1>2
<1>5. NamesInv /\ LostInv
  <2>1. lost = {} /\ files = {}
    BY <1>2
  <2> QED
    BY ONLY <1>1, <1>4, <2>1 DEF NamesInv, LostInv, RemovableAreClosed
<1>6. SessionInv
  <2>1. session.doing = "reading requests"
    BY <1>2
  <2>2. \A a \in Addr : heap[a].n_readers # 1
    BY ONLY <1>4
  <2> QED
    BY ONLY <2>1, <2>2 DEF SessionInv
<1> QED
  BY <1>3, <1>5, <1>6 DEF IInv

(* The strengthening is inductive, whatever managers ask for.               *)
THEOREM RegistryInvariance == RegistrySpec => []IInv
<1>1. IInv /\ [RegistryNext]_registryVars => IInv'
  <2> SUFFICES ASSUME IInv, [RegistryNext]_registryVars
               PROVE  IInv'
    OBVIOUS
  <2>1. CASE \E name \in Box, says \in Answer : create_box(name, says)
    BY <2>1, CreateKeeps
  <2>2. CASE \E name \in Box, says \in Answer : remove_box(name, says)
    BY <2>2, RemoveKeeps
  <2>3. CASE \E name \in Box, says \in Answer : reg_publisher(name, says)
    BY <2>3, PublisherKeeps
  <2>4. CASE \E name \in Box, says \in Answer : reg_subscriber(name, says)
    BY <2>4, SubscriberKeeps
  <2>5. CASE \E says \in Answer : list_box(says)
    BY <2>5, ListKeeps
  <2>6. CASE end_publisher
    BY <2>6, EndPublisherKeeps
  <2>7. CASE poll \/ UNCHANGED registryVars
    BY <2>7, UnchangedKeeps DEF poll
  <2> QED
    BY <2>1, <2>2, <2>3, <2>4, <2>5, <2>6, <2>7 DEF RegistryNext, Requests
<1> QED
  BY InitIsWell, <1>1, PTL DEF RegistrySpec

(* Every node keeps the shape of a box, and no handler opens more handles   *)
(* than the open file table holds.                                          *)
THEOREM RegistryTypes == RegistrySpec => []RegistryTypeOK
<1>1. IInv => RegistryTypeOK
  BY DEF IInv
<1> QED
  BY RegistryInvariance, <1>1, PTL

(* However many freed nodes stay linked and are handed out again: a node    *)
(* that bears the name of a box has a file behind it, and no two nodes bear *)
(* one name.                                                                *)
THEOREM ListedFiles == RegistrySpec => []ListedHaveFiles
<1>1. IInv => ListedHaveFiles
  BY Types DEF IInv, NamesInv, ListedHaveFiles
<1> QED
  BY RegistryInvariance, <1>1, PTL

(* A file on which remove_box() left a handle open has no node in the list  *)
(* and never gets one, so that no later removal unlinks an open file.       *)
THEOREM RemovablesAreClosed == RegistrySpec => []RemovableAreClosed
<1>1. IInv => RemovableAreClosed
  BY DEF IInv, LostInv
<1> QED
  BY RegistryInvariance, <1>1, PTL

-----------------------------------------------------------------------------
(* Careful managers.  No create_box() is refused, so that no listed node is *)
(* freed: the list has an end, and with the names that exist it is in step. *)

ListInv ==
    /\ ~Endless(heap, head)
    /\ {heap[a].box_name : a \in Listed(heap, head)} = files
    /\ Listed(heap, head) \cap avail = {}

(* The counters of a listed node say what the worker does with it.          *)
UseInv ==
    /\ session.doing # "endless walk"
    /\ Reading <=> session.box = NULL
    /\ session.box # NULL => session.box \in Listed(heap, head)
    /\ \A a \in Listed(heap, head) :
           /\ heap[a].hasWriter = 1 <=> session.doing = "publishing" /\ session.box = a
           /\ heap[a].n_readers = 1 <=> session.doing = "relaying" /\ session.box = a

CInv == ListInv /\ UseInv /\ lost = {} /\ HandlesAccounted

(* Between two requests no handle is open and no box is in use.             *)
LEMMA IdleBetweenRequests ==
    ASSUME IInv, CInv, Reading
    PROVE  /\ session.doing = "reading requests" /\ session.box = NULL /\ handles = 0
           /\ HandleLeft /\ ~Endless(heap, head) /\ lost = {}
           /\ \A a \in Listed(heap, head) : /\ a \in Addr /\ heap[a].box_name \in files
                                            /\ heap[a].hasWriter = 0 /\ heap[a].n_readers = 0
<1>1. /\ session.doing = "reading requests" /\ session.box = NULL /\ handles = 0
      /\ ~Endless(heap, head) /\ lost = {}
  BY DEF CInv, ListInv, UseInv, HandlesAccounted, Reading
<1>2. HandleLeft
  <2>1. handles = 0
    BY <1>1
  <2>2. MAX_OPEN_FILES \in Nat \ {0}
    BY RegistryAssumption
  <2> QED
    BY ONLY <2>1, <2>2 DEF HandleLeft
<1>3. heap \in [Addr -> Node] /\ Listed(heap, head) \subseteq Addr /\ files \subseteq Box
  BY Types DEF IInv
<1>4. ASSUME NEW a \in Listed(heap, head)
      PROVE  /\ a \in Addr /\ heap[a].box_name \in files
             /\ heap[a].hasWriter = 0 /\ heap[a].n_readers = 0
  <2>1. a \in Addr /\ heap[a].box_name \in files
    BY <1>3 DEF CInv, ListInv
  <2>2. heap[a].hasWriter # -1 /\ heap[a].n_readers # -1
    BY <1>3, <2>1 DEF IInv, NamesInv
  <2>3. heap[a].hasWriter # 1 /\ heap[a].n_readers # 1
    BY <1>1 DEF CInv, UseInv
  <2>4. heap[a] \in Node
    BY <1>3, <2>1
  <2>5. heap[a].hasWriter \in {-1, 0, 1} /\ heap[a].n_readers \in {-1, 0, 1}
    BY <2>4 DEF Node
  <2> QED
    BY <2>1, <2>2, <2>3, <2>5
<1> QED
  BY <1>1, <1>2, <1>4

(* The list has a node of a name exactly when there is a file.              *)
LEMMA HitIfFile ==
    ASSUME IInv, CInv, NEW name, NEW r \in find_box(name)
    PROVE  IF name \in files THEN Hit(name, r) ELSE Miss(name, r)
<1>1. Hit(name, r) => name \in files
  BY DEF Hit, CInv, ListInv
<1>2. Miss(name, r) => name \notin files
  BY DEF Miss, CInv, ListInv
<1> QED
  BY <1>1, <1>2, FindBox DEF IInv

(* Steps that leave the list alone.                                         *)
LEMMA SameList ==
    ASSUME IInv, CInv, head' = head, files' = files, avail' \subseteq avail,
           \A a \in Addr : heap'[a].next = heap[a].next,
           \A a \in Listed(heap, head) : heap'[a].box_name = heap[a].box_name
    PROVE  ListInv' /\ Listed(heap', head') = Listed(heap, head)
<1>1. heap \in [Addr -> Node] /\ head \in Addr \cup {NULL}
  BY Types DEF IInv
<1>2. Listed(heap', head') = Listed(heap, head) /\ (Endless(heap', head') <=> Endless(heap, head))
  BY <1>1, SameLinks
<1>3. {heap'[a].box_name : a \in Listed(heap', head')} = {heap[a].box_name : a \in Listed(heap, head)}
  BY <1>2
<1> QED
  BY <1>2, <1>3 DEF CInv, ListInv

(* Steps that touch no listed node: a search in vain.                       *)
LEMMA VainKeeps ==
    ASSUME IInv, CInv, UNCHANGED <<head, files, handles, lost, session>>,
           NEW n \in avail, avail' \subseteq avail,
           \A a \in Addr : heap'[a].next = heap[a].next,
           \A a \in Addr \ {n} : heap'[a] = heap[a]
    PROVE  CInv'
<1>1. n \notin Listed(heap, head) /\ Listed(heap, head) \subseteq Addr
  BY Types DEF CInv, ListInv, IInv
<1>2. \A a \in Listed(heap, head) : heap'[a] = heap[a]
  BY <1>1
<1>3. ListInv' /\ Listed(heap', head') = Listed(heap, head)
  BY <1>2, SameList
<1>4. UseInv'
  BY <1>2, <1>3 DEF CInv, UseInv, Reading
<1>5. HandlesAccounted'
  BY DEF CInv, HandlesAccounted, Reading
<1> QED
  BY <1>3, <1>4, <1>5 DEF CInv

(* The node of a search in vain goes back as it came.                       *)
LEMMA VainSearchFreed ==
    ASSUME IInv, CInv, NEW name, NEW r \in find_box(name), Miss(name, r),
           heap' = free(r.mem, r.node).heap, avail' = free(r.mem, r.node).avail,
           UNCHANGED <<head, files, handles, lost, session>>
    PROVE  CInv'
<1>1. r.node \in avail /\ r.mem \in Mem /\ r.mem.avail = avail \ {r.node} /\ r.node \in Addr
  BY DEF Miss
<1>2. avail' = avail
  <2>1. free(r.mem, r.node).avail = r.mem.avail \cup {r.node}
    BY <1>1, FreeNode
  <2> QED
    BY <1>1, <2>1
<1>3. /\ \A a \in Addr : heap'[a].next = heap[a].next
      /\ \A a \in Addr \ {r.node} : heap'[a] = heap[a]
  BY FoundAndFreed
<1> QED
  BY <1>1, <1>2, <1>3, VainKeeps

(* create_box() of a box that does not exist.                               *)
LEMMA CarefulCreate ==
    ASSUME IInv, CInv, NEW name \in Box \ files, NEW says, create_box(name, says)
    PROVE  /\ CInv' /\ Reading /\ session' = session
           /\ files' = files \/ (name \in CreatableBox /\ files' = files \cup {name})
<1>1. /\ Reading /\ ~find_box_hangs(name) /\ UNCHANGED <<handles, lost, session>>
  BY DEF create_box, find_box_hangs, CInv, ListInv
<1>2. PICK r \in find_box(name) :
          LET refused == CreateRefused(name, r.mem.heap[r.node])
              list == insert_box(Named(name, r), r.node)
          IN  \/ /\ refused
              \/ /\ ~refused /\ CreateOpens(name)
                 /\ heap' = list.heap /\ head' = list.head /\ avail' = r.mem.avail
                 /\ files' = files \cup {name}
              \/ /\ ~refused /\ ~CreateOpens(name)
                 /\ heap' = r.mem.heap /\ avail' = r.mem.avail
                 /\ files' = IF CreateMakes(name) THEN files \cup {name} ELSE files
                 /\ UNCHANGED head
  BY <1>1 DEF create_box, Named
<1>3. Miss(name, r)
  BY HitIfFile
<1>4. /\ r.node \in avail /\ r.node \in Addr /\ r.mem.avail = avail \ {r.node}
      /\ r.mem.heap[r.node].hasWriter = -1
      /\ r.mem.heap[r.node].next = heap[r.node].next
      /\ \A a \in Addr \ {r.node} : r.mem.heap[a] = heap[a]
  BY <1>3 DEF Miss
<1>5. ~CreateRefused(name, r.mem.heap[r.node])
  BY <1>4 DEF CreateRefused, AppendOpens
<1>6. /\ session.doing = "reading requests" /\ session.box = NULL
      /\ HandleLeft /\ ~Endless(heap, head)
      /\ \A a \in Listed(heap, head) : heap[a].hasWriter = 0 /\ heap[a].n_readers = 0
  BY <1>1, IdleBetweenRequests
<1>7. CASE ~CreateOpens(name)
  <2>1. ~CreateMakes(name)
    BY <1>6, <1>7 DEF CreateOpens
  <2>2. /\ heap' = r.mem.heap /\ avail' = r.mem.avail /\ UNCHANGED <<head, files>>
    BY <1>2, <1>5, <1>7, <2>1
  <2>3. \A a \in Addr : heap'[a].next = heap[a].next
    BY <1>4, <2>2
  <2>4. CInv'
    BY <1>1, <1>4, <2>2, <2>3, VainKeeps
  <2> QED
    BY <1>1, <2>2, <2>4
<1>8. CASE CreateOpens(name)
  <2>1. /\ heap' = insert_box(Named(name, r), r.node).heap
        /\ head' = insert_box(Named(name, r), r.node).head
        /\ avail' = r.mem.avail /\ files' = files \cup {name}
    BY <1>2, <1>5, <1>8
  <2>2. r.node \notin Listed(heap, head) /\ Listed(heap, head) \subseteq Addr
    BY <1>4, Types DEF CInv, ListInv, IInv
  <2>3. RegistryTypeOK /\ name \in Box
    BY DEF IInv
  <2>4. /\ heap'[r.node].box_name = name
        /\ heap'[r.node].hasWriter = 0 /\ heap'[r.node].n_readers = 0
        /\ \A a \in Addr \ {r.node} : /\ heap'[a].box_name = heap[a].box_name
                                      /\ heap'[a].hasWriter = heap[a].hasWriter
                                      /\ heap'[a].n_readers = heap[a].n_readers
        /\ ~Endless(heap', head') /\ Listed(heap', head') = Listed(heap, head) \cup {r.node}
    BY <1>3, <1>6, <2>1, <2>2, <2>3, CreatedNode
  <2>5. {heap[a].box_name : a \in Listed(heap, head)} = files /\ Listed(heap, head) \cap avail = {}
    BY DEF CInv, ListInv
  <2>6. \A a \in Listed(heap, head) : /\ heap'[a].box_name = heap[a].box_name
                                      /\ heap'[a].hasWriter = 0 /\ heap'[a].n_readers = 0
    BY <1>6, <2>2, <2>4
  <2>7. {heap'[a].box_name : a \in Listed(heap', head')} = files'
    BY ONLY <2>1, <2>4, <2>5, <2>6
  <2>8. Listed(heap', head') \cap avail' = {}
    BY ONLY <1>4, <2>1, <2>4, <2>5
  <2>9. ListInv'
    BY ONLY <2>4, <2>7, <2>8 DEF ListInv
  <2>10. UseInv'
    <3>1. \A a \in Listed(heap', head') : heap'[a].hasWriter = 0 /\ heap'[a].n_readers = 0
      BY ONLY <2>4, <2>6
    <3>2. session'.doing = "reading requests" /\ session'.box = NULL
      BY <1>1, <1>6
    <3>3. \A a \in Listed(heap', head') :
              /\ heap'[a].hasWriter = 1 <=> session'.doing = "publishing" /\ session'.box = a
              /\ heap'[a].n_readers = 1 <=> session'.doing = "relaying" /\ session'.box = a
      <4>1. \A a \in Listed(heap', head') : heap'[a].hasWriter # 1 /\ heap'[a].n_readers # 1
        BY ONLY <3>1
      <4>2. session'.doing # "publishing" /\ session'.doing # "relaying"
        BY ONLY <3>2
      <4> QED
        BY ONLY <4>1, <4>2
    <3>4. session'.doing # "endless walk" /\ (Reading' <=> session'.box = NULL)
      BY ONLY <3>2 DEF Reading
    <3> QED
      BY ONLY <3>2, <3>3, <3>4 DEF UseInv
  <2>11. HandlesAccounted' /\ lost' = {}
    BY <1>1 DEF CInv, HandlesAccounted, Reading
  <2>12. name \in CreatableBox
    BY <1>8 DEF CreateOpens, CreateMakes
  <2> QED
    BY <1>1, <2>1, <2>9, <2>10, <2>11, <2>12 DEF CInv
<1> QED
  BY <1>7, <1>8

(* remove_box(): a refusal means that there is no such box.                 *)
LEMMA CarefulRemove ==
    ASSUME IInv, CInv, NEW name \in Box, NEW says, remove_box(name, says)
    PROVE  /\ CInv' /\ Reading /\ session' = session
           /\ files' = files \/ (name \in files /\ files' = files \ {name})
           /\ says = "doesn't exist" => name \notin files
<1>1. Reading /\ ~Endless(heap, head) /\ session' = session
  BY DEF remove_box, CInv, ListInv
<1>2. PICK r \in find_box(name) :
          LET refused == ~AppendOpens(name) \/ r.mem.heap[r.node].n_readers = -1
              freed == free(r.mem, r.node)
              rest == delete_box(r.mem, r.node)
          IN  /\ \/ /\ refused
                    /\ heap' = freed.heap /\ avail' = freed.avail
                    /\ UNCHANGED <<head, files>>
                 \/ /\ ~refused
                    /\ says = "OK"
                    /\ heap' = rest.mem.heap /\ avail' = rest.mem.avail
                    /\ head' = rest.head
                    /\ files' = files \ {name}
              /\ IF LeavesOpen(name, refused)
                 THEN handles' = handles + 1 /\ lost' = lost \cup {name}
                 ELSE UNCHANGED <<handles, lost>>
  BY <1>1 DEF remove_box
<1>3. /\ session.doing = "reading requests" /\ session.box = NULL /\ HandleLeft
      /\ \A a \in Listed(heap, head) : heap[a].hasWriter = 0 /\ heap[a].n_readers = 0
  BY <1>1, IdleBetweenRequests
<1>4. CASE name \notin files
  <2>1. Miss(name, r)
    BY <1>4, HitIfFile
  <2>2. ~AppendOpens(name)
    BY <1>4 DEF AppendOpens
  <2>3. /\ heap' = free(r.mem, r.node).heap /\ avail' = free(r.mem, r.node).avail
        /\ UNCHANGED <<head, files, handles, lost>>
    BY <1>2, <2>2 DEF LeavesOpen
  <2> QED
    BY <1>1, <1>4, <2>1, <2>3, VainSearchFreed
<1>5. CASE name \in files
  <2>1. Hit(name, r)
    BY <1>5, HitIfFile
  <2>2. /\ r.node \in Listed(heap, head) /\ r.node \in Addr /\ heap[r.node].box_name = name
        /\ r.mem = Memory
    BY <2>1 DEF Hit
  <2>3. Memory.heap = heap /\ Memory.avail = avail /\ Memory \in Mem /\ head \in Addr \cup {NULL}
    BY Types DEF IInv
  <2>4. AppendOpens(name) /\ r.mem.heap[r.node].n_readers # -1
    <3>1. AppendOpens(name)
      BY <1>3, <1>5 DEF AppendOpens
    <3>2. r.mem.heap[r.node] = heap[r.node] /\ heap[r.node].n_readers = 0
      BY <1>3, <2>2, <2>3
    <3> QED
      BY <3>1, <3>2
  <2>5. /\ heap' = delete_box(Memory, r.node).mem.heap
        /\ avail' = delete_box(Memory, r.node).mem.avail
        /\ head' = delete_box(Memory, r.node).head
        /\ files' = files \ {name} /\ UNCHANGED <<handles, lost>> /\ says = "OK"
    BY <1>2, <2>2, <2>4 DEF LeavesOpen
  <2>6. /\ \A a \in Addr \ {r.node} : heap'[a].box_name = heap[a].box_name
        /\ \A a \in Addr : heap'[a].hasWriter = heap[a].hasWriter /\ heap'[a].n_readers = heap[a].n_readers
        /\ avail' = avail \cup {r.node}
        /\ ~Endless(heap', head') /\ Listed(heap', head') = Listed(heap, head) \ {r.node}
    <3> DEFINE d == delete_box(Memory, r.node)
    <3>1. r.node \in Listed(Memory.heap, head) /\ ~Endless(Memory.heap, head)
      BY <1>1, <2>2, <2>3
    <3>2. /\ \A a \in Addr \ {r.node} : d.mem.heap[a].box_name = Memory.heap[a].box_name
          /\ \A a \in Addr : /\ d.mem.heap[a].hasWriter = Memory.heap[a].hasWriter
                             /\ d.mem.heap[a].n_readers = Memory.heap[a].n_readers
          /\ d.mem.avail = Memory.avail \cup {r.node}
      BY <2>3, <3>1, DeleteNode
    <3>3. /\ ~Endless(d.mem.heap, d.head)
          /\ Listed(d.mem.heap, d.head) = Listed(Memory.heap, head) \ {r.node}
      BY <2>3, <3>1, DeleteLists
    <3> QED
      BY ONLY <2>3, <2>5, <3>2, <3>3
  <2>7. Listed(heap, head) \subseteq Addr /\ files \subseteq Box
    BY Types DEF IInv
  <2>8. {heap[a].box_name : a \in Listed(heap, head)} = files /\ Listed(heap, head) \cap avail = {}
    BY DEF CInv, ListInv
  <2>9. \A a \in Listed(heap, head) \ {r.node} : heap[a].box_name # name
    BY <1>5, <2>2, <2>7, <2>8 DEF IInv, NamesInv
  <2>10. \A a \in Listed(heap', head') : heap'[a].box_name = heap[a].box_name
    BY ONLY <2>6, <2>7
  <2>11. {heap'[a].box_name : a \in Listed(heap', head')} = files'
    <3>1. {heap[a].box_name : a \in Listed(heap', head')} = files \ {name}
      BY ONLY <2>2, <2>6, <2>8, <2>9
    <3> QED
      BY <2>5, <2>10, <3>1
  <2>12. ListInv'
    BY ONLY <2>6, <2>8, <2>11 DEF ListInv
  <2>13. UseInv'
    <3>1. \A a \in Listed(heap', head') : heap'[a].hasWriter = 0 /\ heap'[a].n_readers = 0
      BY ONLY <1>3, <2>6, <2>7
    <3>2. session'.doing = "reading requests" /\ session'.box = NULL
      BY <1>1, <1>3
    <3>3. \A a \in Listed(heap', head') :
              /\ heap'[a].hasWriter = 1 <=> session'.doing = "publishing" /\ session'.box = a
              /\ heap'[a].n_readers = 1 <=> session'.doing = "relaying" /\ session'.box = a
      <4>1. \A a \in Listed(heap', head') : heap'[a].hasWriter # 1 /\ heap'[a].n_readers # 1
        BY ONLY <3>1
      <4>2. session'.doing # "publishing" /\ session'.doing # "relaying"
        BY ONLY <3>2
      <4> QED
        BY ONLY <4>1, <4>2
    <3>4. session'.doing # "endless walk" /\ (Reading' <=> session'.box = NULL)
      BY ONLY <3>2 DEF Reading
    <3> QED
      BY ONLY <3>2, <3>3, <3>4 DEF UseInv
  <2>14. HandlesAccounted' /\ lost' = {}
    BY <1>1, <2>5 DEF CInv, HandlesAccounted, Reading
  <2> QED
    BY <1>1, <1>5, <2>5, <2>12, <2>13, <2>14 DEF CInv
<1> QED
  BY <1>4, <1>5

(* A session begins on a node of the list.                                  *)
LEMMA BeginKeeps ==
    ASSUME IInv, CInv, Reading, NEW n \in Listed(heap, head), NEW use \in {"publishing", "relaying"},
           UNCHANGED <<avail, head, files, lost>>, handles' = handles + 1,
           session' = [doing |-> use, box |-> n],
           \A a \in Addr : /\ heap'[a].next = heap[a].next
                           /\ heap'[a].box_name = heap[a].box_name
                           /\ a # n => heap'[a] = heap[a],
           heap'[n].hasWriter = IF use = "publishing" THEN 1 ELSE 0,
           heap'[n].n_readers = IF use = "relaying" THEN 1 ELSE 0
    PROVE  CInv'
<1>1. /\ handles = 0 /\ lost = {}
      /\ \A a \in Listed(heap, head) : /\ a \in Addr
                                       /\ heap[a].hasWriter = 0 /\ heap[a].n_readers = 0
  BY IdleBetweenRequests
<1>2. ListInv' /\ Listed(heap', head') = Listed(heap, head)
  BY <1>1, SameList
<1>3. session'.doing = use /\ session'.box = n /\ n # NULL
  BY DEF Listed
<1>4. UseInv'
  <2>1. ASSUME NEW a \in Listed(heap', head')
        PROVE  /\ heap'[a].hasWriter = 1 <=> session'.doing = "publishing" /\ session'.box = a
               /\ heap'[a].n_readers = 1 <=> session'.doing = "relaying" /\ session'.box = a
    <3>1. CASE a = n
      <4>1. CASE use = "publishing"
        <5>1. heap'[a].hasWriter = 1 /\ heap'[a].n_readers # 1
          BY <3>1, <4>1
        <5>2. session'.doing = "publishing" /\ session'.doing # "relaying" /\ session'.box = a
          BY <1>3, <3>1, <4>1
        <5> QED
          BY ONLY <5>1, <5>2
      <4>2. CASE use = "relaying"
        <5>1. heap'[a].n_readers = 1 /\ heap'[a].hasWriter # 1
          BY <3>1, <4>2
        <5>2. session'.doing = "relaying" /\ session'.doing # "publishing" /\ session'.box = a
          BY <1>3, <3>1, <4>2
        <5> QED
          BY ONLY <5>1, <5>2
      <4> QED
        BY <4>1, <4>2
    <3>2. CASE a # n
      <4>1. heap'[a].hasWriter # 1 /\ heap'[a].n_readers # 1
        BY <1>1, <1>2, <3>2
      <4> QED
        BY ONLY <1>3, <3>2, <4>1
    <3> QED
      BY <3>1, <3>2
  <2>2. session'.box \in Listed(heap', head')
    BY ONLY <1>2, <1>3, n \in Listed(heap, head)
  <2>3. session'.doing # "endless walk" /\ session'.doing # "reading requests"
    BY <1>3
  <2> QED
    BY ONLY <1>3, <2>1, <2>2, <2>3 DEF UseInv, Reading
<1>5. HandlesAccounted'
  <2>1. handles' = 1
    BY <1>1
  <2>2. ~Reading'
    BY <1>3 DEF Reading
  <2> QED
    BY <2>1, <2>2 DEF HandlesAccounted
<1> QED
  BY <1>1, <1>2, <1>4, <1>5 DEF CInv

(* reg_publisher(): a session has the node that bears its name ...          *)
LEMMA CarefulPublisher ==
    ASSUME IInv, CInv, NEW name \in Box, NEW says, reg_publisher(name, says)
    PROVE  /\ CInv' /\ Reading /\ files' = files
           /\ \/ session' = session
              \/ /\ name \in files
                 /\ session'.doing = "publishing" /\ session'.box \in Addr
                 /\ heap'[session'.box].box_name = name
<1>1. Reading /\ ~find_box_hangs(name) /\ UNCHANGED <<head, files, lost>>
  BY DEF reg_publisher, find_box_hangs, CInv, ListInv
<1>2. PICK r \in find_box(name) :
          LET refused == r.mem.heap[r.node].hasWriter # 0 \/ ~AppendOpens(name)
              freed == free(r.mem, r.node)
          IN  \/ /\ refused
                 /\ heap' = freed.heap /\ avail' = freed.avail
                 /\ UNCHANGED <<handles, session>>
              \/ /\ ~refused
                 /\ heap' = [r.mem.heap EXCEPT ![r.node].hasWriter = 1]
                 /\ avail' = r.mem.avail
                 /\ handles' = handles + 1
                 /\ session' = [doing |-> "publishing", box |-> r.node]
  BY <1>1 DEF reg_publisher
<1>3. CASE name \notin files
  <2>1. Miss(name, r)
    BY <1>3, HitIfFile
  <2>2. r.mem.heap[r.node].hasWriter # 0
    BY <2>1 DEF Miss
  <2>3. heap' = free(r.mem, r.node).heap /\ avail' = free(r.mem, r.node).avail
        /\ UNCHANGED <<handles, session>>
    BY <1>2, <2>2
  <2> QED
    BY <1>1, <2>1, <2>3, VainSearchFreed
<1>4. CASE name \in files
  <2>1. Hit(name, r)
    BY <1>4, HitIfFile
  <2>2. /\ r.node \in Listed(heap, head) /\ r.node \in Addr /\ heap[r.node].box_name = name
        /\ r.mem = Memory /\ Memory.heap = heap /\ Memory.avail = avail
        /\ heap \in [Addr -> Node]
    BY <2>1, Types DEF Hit, IInv
  <2>3. HandleLeft /\ heap[r.node].hasWriter = 0 /\ heap[r.node].n_readers = 0
    BY <1>1, <2>2, IdleBetweenRequests
  <2>4. r.mem.heap[r.node].hasWriter = 0 /\ AppendOpens(name)
    BY <1>4, <2>2, <2>3 DEF AppendOpens
  <2>5. /\ heap' = [heap EXCEPT ![r.node].hasWriter = 1] /\ avail' = avail
        /\ handles' = handles + 1
        /\ session' = [doing |-> "publishing", box |-> r.node]
    BY <1>2, <2>2, <2>4
  <2>6. /\ \A a \in Addr : /\ heap'[a].next = heap[a].next
                           /\ heap'[a].box_name = heap[a].box_name
                           /\ a # r.node => heap'[a] = heap[a]
        /\ heap'[r.node].hasWriter = 1 /\ heap'[r.node].n_readers = 0
    <3>1. heap' = [heap EXCEPT ![r.node].hasWriter = 1]
      BY <2>5
    <3> QED
      BY ONLY <2>2, <2>3, <3>1 DEF Node
  <2>7. CInv'
    <3>1. /\ heap'[r.node].hasWriter = IF "publishing" = "publishing" THEN 1 ELSE 0
          /\ heap'[r.node].n_readers = IF "publishing" = "relaying" THEN 1 ELSE 0
      BY ONLY <2>6
    <3> QED
      BY <1>1, <2>2, <2>5, <2>6, <3>1, BeginKeeps
  <2> QED
    BY <1>1, <1>4, <2>2, <2>5, <2>6, <2>7
<1> QED
  BY <1>3, <1>4

(* ... and so for reg_subscriber().                                         *)
LEMMA CarefulSubscriber ==
    ASSUME IInv, CInv, NEW name \in Box, NEW says, reg_subscriber(name, says)
    PROVE  /\ CInv' /\ Reading /\ files' = files
           /\ \/ session' = session
              \/ /\ name \in files
                 /\ session'.doing = "relaying" /\ session'.box \in Addr
                 /\ heap'[session'.box].box_name = name
<1>1. Reading /\ ~find_box_hangs(name) /\ UNCHANGED <<head, lost>>
  BY DEF reg_subscriber, find_box_hangs, CInv, ListInv
<1>2. PICK r \in find_box(name) :
          LET absent == r.mem.heap[r.node].hasWriter = -1
              refused == absent \/ ~CreateOpens(name)
              freed == free(r.mem, r.node)
          IN  /\ \/ /\ refused
                    /\ heap' = freed.heap /\ avail' = freed.avail
                    /\ UNCHANGED <<handles, session>>
                 \/ /\ ~refused
                    /\ heap' = [r.mem.heap EXCEPT ![r.node].n_readers = @ + 1]
                    /\ avail' = r.mem.avail
                    /\ handles' = handles + 1
                    /\ session' = [doing |-> "relaying", box |-> r.node]
              /\ files' = IF ~absent /\ CreateMakes(name) THEN files \cup {name} ELSE files
  BY <1>1 DEF reg_subscriber
<1>3. CASE name \notin files
  <2>1. Miss(name, r)
    BY <1>3, HitIfFile
  <2>2. r.mem.heap[r.node].hasWriter = -1
    BY <2>1 DEF Miss
  <2>3. heap' = free(r.mem, r.node).heap /\ avail' = free(r.mem, r.node).avail
        /\ UNCHANGED <<files, handles, session>>
    BY <1>2, <2>2
  <2> QED
    BY <1>1, <2>1, <2>3, VainSearchFreed
<1>4. CASE name \in files
  <2>1. Hit(name, r)
    BY <1>4, HitIfFile
  <2>2. /\ r.node \in Listed(heap, head) /\ r.node \in Addr /\ heap[r.node].box_name = name
        /\ r.mem = Memory /\ Memory.heap = heap /\ Memory.avail = avail
        /\ heap \in [Addr -> Node]
    BY <2>1, Types DEF Hit, IInv
  <2>3. HandleLeft /\ heap[r.node].hasWriter = 0 /\ heap[r.node].n_readers = 0
    BY <1>1, <2>2, IdleBetweenRequests
  <2>4. r.mem.heap[r.node].hasWriter # -1 /\ CreateOpens(name) /\ ~CreateMakes(name)
    BY <1>4, <2>2, <2>3 DEF CreateOpens, CreateMakes
  <2>5. /\ heap' = [heap EXCEPT ![r.node].n_readers = @ + 1] /\ avail' = avail
        /\ handles' = handles + 1 /\ files' = files
        /\ session' = [doing |-> "relaying", box |-> r.node]
    BY <1>2, <2>2, <2>4
  <2>6. /\ \A a \in Addr : /\ heap'[a].next = heap[a].next
                           /\ heap'[a].box_name = heap[a].box_name
                           /\ a # r.node => heap'[a] = heap[a]
        /\ heap'[r.node].hasWriter = 0 /\ heap'[r.node].n_readers = 1
    <3>1. heap' = [heap EXCEPT ![r.node].n_readers = @ + 1]
      BY <2>5
    <3> QED
      BY ONLY <2>2, <2>3, <3>1 DEF Node
  <2>7. CInv'
    <3>1. /\ heap'[r.node].hasWriter = IF "relaying" = "publishing" THEN 1 ELSE 0
          /\ heap'[r.node].n_readers = IF "relaying" = "relaying" THEN 1 ELSE 0
      BY ONLY <2>6
    <3> QED
      BY <1>1, <2>2, <2>5, <2>6, <3>1, BeginKeeps
  <2> QED
    BY <1>1, <1>4, <2>2, <2>5, <2>6, <2>7
<1> QED
  BY <1>3, <1>4

(* The session that ends still has a node of the list.                      *)
LEMMA CarefulEnd ==
    ASSUME IInv, CInv, end_publisher
    PROVE  /\ CInv' /\ files' = files /\ session'.box = NULL
           /\ session.doing = "publishing" /\ session.box \in Listed(heap, head)
           /\ session.box \in Addr
<1>1. /\ session.doing = "publishing" /\ handles' = handles - 1
      /\ heap' = [heap EXCEPT ![session.box].hasWriter = 0]
      /\ session' = [doing |-> "reading requests", box |-> NULL]
      /\ UNCHANGED <<avail, head, files, lost>>
  BY DEF end_publisher
<1>2. /\ session.box \in Listed(heap, head) /\ handles = 1 /\ lost = {}
      /\ \A a \in Listed(heap, head) : /\ a # session.box => heap[a].hasWriter # 1
                                       /\ heap[a].n_readers # 1
  BY <1>1 DEF CInv, UseInv, HandlesAccounted, Reading
<1>3. Listed(heap, head) \subseteq Addr /\ heap \in [Addr -> Node]
  BY Types DEF IInv
<1>4. /\ \A a \in Addr : /\ heap'[a].next = heap[a].next
                         /\ heap'[a].box_name = heap[a].box_name
                         /\ heap'[a].n_readers = heap[a].n_readers
                         /\ a # session.box => heap'[a] = heap[a]
      /\ heap'[session.box].hasWriter = 0
  <2>1. heap' = [heap EXCEPT ![session.box].hasWriter = 0] /\ session.box \in Addr
    BY <1>1, <1>2, <1>3
  <2> QED
    BY ONLY <1>3, <2>1 DEF Node
<1>5. ListInv' /\ Listed(heap', head') = Listed(heap, head)
  BY <1>1, <1>3, <1>4, SameList
<1>6. \A a \in Listed(heap', head') : heap'[a].hasWriter # 1 /\ heap'[a].n_readers # 1
  BY ONLY <1>2, <1>3, <1>4, <1>5
<1>7. session'.doing = "reading requests" /\ session'.box = NULL
  BY <1>1
<1>8. UseInv'
  <2>1. session'.doing # "publishing" /\ session'.doing # "relaying" /\ session'.doing # "endless walk"
    BY <1>7
  <2> QED
    BY ONLY <1>6, <1>7, <2>1 DEF UseInv, Reading
<1>9. HandlesAccounted'
  <2>1. handles' = 0
    <3>1. handles' = handles - 1 /\ handles = 1
      BY <1>1, <1>2
    <3> QED
      BY ONLY <3>1
  <2>2. Reading'
    BY <1>7 DEF Reading
  <2> QED
    BY <2>1, <2>2 DEF HandlesAccounted
<1> QED
  BY <1>1, <1>2, <1>3, <1>5, <1>7, <1>8, <1>9 DEF CInv

(* A step elsewhere ...                                                     *)
LEMMA CarefulUnchanged ==
    ASSUME CInv, UNCHANGED registryVars
    PROVE  CInv'
<1>1. UNCHANGED <<heap, avail, head, files, handles, lost, session>>
  BY DEF registryVars, memoryVars
<1> QED
  BY <1>1 DEF CInv, ListInv, UseInv, HandlesAccounted, Reading

(* ... and a listing leave the list alone.                                  *)
LEMMA CarefulList ==
    ASSUME CInv, NEW says, list_box(says)
    PROVE  UNCHANGED registryVars
BY DEF CInv, ListInv, list_box

(* The empty list satisfies the careful invariant too.                      *)
LEMMA InitIsCareful == Init => CInv
<1> SUFFICES ASSUME Init
             PROVE  CInv
  OBVIOUS
<1>1. /\ head = NULL /\ files = {} /\ handles = 0 /\ lost = {}
      /\ session.doing = "reading requests" /\ session.box = NULL
  BY DEF Init
<1>2. Listed(heap, head) = {}
  BY <1>1, NoNodes
<1>3. ~Endless(heap, head)
  <2>1. 0 \in Steps /\ Cardinality(Addr) \in Steps /\ 0 <= Cardinality(Addr)
    BY StepsAreNaturals
  <2>2. Walk(heap, head)[0] = NULL
    BY <1>1, WalkFits
  <2>3. Walk(heap, head)[Cardinality(Addr)] = NULL
    BY <2>1, <2>2, NullStays
  <2> QED
    BY <2>3 DEF Endless
<1>4. ListInv
  <2>1. {heap[a].box_name : a \in Listed(heap, head)} = files
    BY <1>1, <1>2
  <2> QED
    BY <1>2, <1>3, <2>1 DEF ListInv
<1>5. UseInv
  BY <1>1, <1>2 DEF UseInv, Reading
<1> QED
  BY <1>1, <1>4, <1>5 DEF CInv, HandlesAccounted, Reading

(* With careful managers the stronger invariant is inductive too.           *)
THEOREM CarefulInvariance == CarefulSpec => [](IInv /\ CInv)
<1>1. CarefulNext => RegistryNext
  BY DEF CarefulNext, RegistryNext, Requests
<1>2. CarefulSpec => []IInv
  <2>1. CarefulSpec => RegistrySpec
    BY <1>1, PTL DEF CarefulSpec, RegistrySpec
  <2> QED
    BY <2>1, RegistryInvariance, PTL
<1>3. IInv /\ CInv /\ [CarefulNext]_registryVars => CInv'
  <2> SUFFICES ASSUME IInv, CInv, [CarefulNext]_registryVars
               PROVE  CInv'
    OBVIOUS
  <2>1. CASE \E name \in Box \ files, says \in Answer : create_box(name, says)
    BY <2>1, CarefulCreate
  <2>2. CASE \E name \in Box, says \in Answer : remove_box(name, says)
    BY <2>2, CarefulRemove
  <2>3. CASE \E name \in Box, says \in Answer : reg_publisher(name, says)
    BY <2>3, CarefulPublisher
  <2>4. CASE \E name \in Box, says \in Answer : reg_subscriber(name, says)
    BY <2>4, CarefulSubscriber
  <2>5. CASE \E says \in Answer : list_box(says)
    BY <2>5, CarefulList, CarefulUnchanged
  <2>6. CASE end_publisher
    BY <2>6, CarefulEnd
  <2>7. CASE poll \/ UNCHANGED registryVars
    BY <2>7, CarefulUnchanged DEF poll
  <2> QED
    BY <2>1, <2>2, <2>3, <2>4, <2>5, <2>6, <2>7 DEF CarefulNext, Requests
<1> QED
  BY InitIsCareful, <1>2, <1>3, PTL DEF CarefulSpec

(* As long as no manager creates a box twice, the list has an end and holds *)
(* exactly the boxes that have files, each once: create_box() and           *)
(* remove_box() keep the two structures in step, for any number of boxes.   *)
THEOREM ListMatches == CarefulSpec => []ListMatchesFiles
<1>1. IInv /\ CInv => ListMatchesFiles
  <2> SUFFICES ASSUME IInv, CInv
               PROVE  ListMatchesFiles
    OBVIOUS
  <2> DEFINE L == Listed(heap, head)
             f == [a \in L |-> heap[a].box_name]
  <2>1. ~Endless(heap, head) /\ {heap[a].box_name : a \in L} = files
    BY DEF CInv, ListInv
  <2>2. L \subseteq Addr /\ files \subseteq Box
    BY Types DEF IInv
  <2>3. IsFiniteSet(L)
    BY <2>2, RegistryAssumption, FS_Subset
  <2>4. f \in Bijection(L, files)
    <3> HIDE DEF L
    <3>1. f \in [L -> files] /\ \A name \in files : \E a \in L : f[a] = name
      BY <2>1
    <3>2. \A a, b \in L : f[a] = f[b] => a = b
      BY <2>1, <2>2 DEF IInv, NamesInv
    <3> HIDE DEF f
    <3> QED
      BY <3>1, <3>2, Fun_IsBij
  <2> HIDE DEF f
  <2>5. Cardinality(L) = Cardinality(files)
    BY <2>3, <2>4, FS_Bijection DEF ExistsBijection
  <2> QED
    BY <2>1, <2>5 DEF ListMatchesFiles
<1> QED
  BY CarefulInvariance, <1>1, PTL

(* No handler frees a node that is linked or that a session works with.     *)
THEOREM LinkedNodesAllocated == CarefulSpec => []LinkedAllocated
<1>1. IInv /\ CInv => LinkedAllocated
  <2> SUFFICES ASSUME IInv, CInv
               PROVE  LinkedAllocated
    OBVIOUS
  <2>1. avail \subseteq Addr /\ NULL \notin Addr
    BY Types DEF IInv
  <2>2. /\ Listed(heap, head) \cap avail = {}
        /\ session.box = NULL \/ session.box \in Listed(heap, head)
    BY DEF CInv, ListInv, UseInv
  <2> QED
    BY <2>1, <2>2 DEF LinkedAllocated
<1> QED
  BY CarefulInvariance, <1>1, PTL

(* Every handler closes what it opened: no handle is in use while the       *)
(* worker waits for a request, and one during a session.                    *)
THEOREM HandlesAreAccounted == CarefulSpec => []HandlesAccounted
<1>1. IInv /\ CInv => HandlesAccounted
  BY DEF CInv
<1> QED
  BY CarefulInvariance, <1>1, PTL

(* A removal is refused only for a box that does not exist, unless some     *)
(* manager created a box twice before (MCBoxRegistryRefusal.cfg shows how). *)
THEOREM RefusalsMeanAbsent == CarefulSpec => RefusalMeansAbsent
<1>1. IInv /\ CInv /\ [CarefulNext]_registryVars =>
          [\A name \in Box : remove_box(name, "doesn't exist") => name \notin files]_registryVars
  BY CarefulRemove
<1> QED
  BY CarefulInvariance, <1>1, PTL DEF CarefulSpec, RefusalMeansAbsent

-----------------------------------------------------------------------------
(* The list and its counters implement the set of boxes of AbstractBoxes.   *)

(* The boxes as files and session have them.                                *)
InUse ==
    [name \in files |->
        IF ~Reading /\ name = heap[session.box].box_name THEN session.doing ELSE "idle"]

(* Chosen by name, a box's node is the one that is linked.                  *)
LEMMA BoxesMapIsInUse == IInv /\ CInv => boxesMap = InUse
<1> SUFFICES ASSUME IInv, CInv
             PROVE  boxesMap = InUse
  OBVIOUS
<1> DEFINE L == Listed(heap, head)
<1>1. {heap[a].box_name : a \in L} = files
  BY DEF CInv, ListInv
<1>2. L \subseteq Addr /\ files \subseteq Box
  BY Types DEF IInv
<1>3. \A a, b \in L : heap[a].box_name = heap[b].box_name => a = b
  BY <1>1, <1>2 DEF IInv, NamesInv
<1>4. /\ session.doing \in {"reading requests", "publishing", "relaying"}
      /\ ~Reading => session.box \in L
      /\ \A a \in L : /\ heap[a].hasWriter = 1 <=> session.doing = "publishing" /\ session.box = a
                      /\ heap[a].n_readers = 1 <=> session.doing = "relaying" /\ session.box = a
  BY DEF CInv, UseInv, IInv, RegistryTypeOK
<1>5. ASSUME NEW name \in files
      PROVE  Use(NodeOf(name)) = InUse[name]
  <2>1. NodeOf(name) \in L /\ heap[NodeOf(name)].box_name = name
    BY <1>1 DEF NodeOf
  <2> DEFINE a == NodeOf(name)
  <2> HIDE DEF a
  <2>2. a \in L /\ heap[a].box_name = name
    BY <2>1 DEF a
  <2>3. InUse[name] = IF ~Reading /\ name = heap[session.box].box_name THEN session.doing ELSE "idle"
    BY DEF InUse
  <2>4. CASE session.doing = "publishing" /\ session.box = a
    <3>1. Use(a) = "publishing"
      BY <1>4, <2>2, <2>4 DEF Use
    <3>2. InUse[name] = "publishing"
      BY <2>2, <2>3, <2>4 DEF Reading
    <3> QED
      BY <3>1, <3>2 DEF a
  <2>5. CASE session.doing = "relaying" /\ session.box = a
    <3>1. heap[a].n_readers = 1 /\ heap[a].hasWriter # 1
      BY <1>4, <2>2, <2>5
    <3>2. Use(a) = "relaying"
      BY <3>1 DEF Use
    <3>3. InUse[name] = "relaying"
      BY <2>2, <2>3, <2>5 DEF Reading
    <3> QED
      BY <3>2, <3>3 DEF a
  <2>6. CASE session.doing = "reading requests" \/ session.box # a
    <3>1. heap[a].n_readers # 1 /\ heap[a].hasWriter # 1
      BY <1>4, <2>2, <2>6
    <3>2. Use(a) = "idle"
      BY <3>1 DEF Use
    <3>3. ~(~Reading /\ name = heap[session.box].box_name)
      BY <1>3, <1>4, <2>2, <2>6 DEF Reading
    <3>4. InUse[name] = "idle"
      BY <2>3, <3>3
    <3> QED
      BY <3>2, <3>4 DEF a
  <2> QED
    BY <1>4, <2>4, <2>5, <2>6
<1>6. boxesMap = [name \in files |-> Use(NodeOf(name))]
  BY <1>1 DEF boxesMap
<1>7. InUse = [name \in files |-> InUse[name]]
  BY DEF InUse
<1> QED
  BY <1>5, <1>6, <1>7

(* The linked list with its counters, the files and the sessions implement  *)
(* a set of boxes of which at most one is in use, and none that is in use   *)
(* is removed.                                                              *)
THEOREM ListImplementsBoxes == CarefulSpec => ImplementsBoxes
<1> DEFINE Good == IInv /\ CInv
           MapInv == boxesMap = InUse
<1>1. Init => Boxes!Init
  <2> SUFFICES ASSUME Init
               PROVE  Boxes!Init
    OBVIOUS
  <2>1. Listed(heap, head) = {}
    BY NoNodes DEF Init
  <2>2. {heap[a].box_name : a \in Listed(heap, head)} = {}
    BY <2>1
  <2> QED
    BY <2>2 DEF boxesMap, Boxes!Init
<1>2. Good /\ MapInv /\ MapInv' /\ [CarefulNext]_registryVars => [Boxes!Next]_boxesMap
  <2> SUFFICES ASSUME IInv, CInv, boxesMap = InUse, boxesMap' = InUse', CarefulNext \/ UNCHANGED registryVars
               PROVE  Boxes!Next \/ boxesMap' = boxesMap
    BY DEF Boxes!Next
  <2>1. boxesMap' = [name \in files' |->
                        IF ~Reading' /\ name = heap'[session'.box].box_name THEN session'.doing
                        ELSE "idle"]
    BY DEF InUse
  <2>2. boxesMap = [name \in files |->
                       IF ~Reading /\ name = heap[session.box].box_name THEN session.doing
                       ELSE "idle"]
    BY DEF InUse
  <2>3. files \subseteq CreatableBox /\ CreatableBox \subseteq Box
    BY Types DEF IInv
  <2>4. Reading => boxesMap = [name \in files |-> "idle"] /\ Boxes!AllIdle
    BY <2>2 DEF Boxes!AllIdle
  <2>5. Reading' => boxesMap' = [name \in files' |-> "idle"]
    BY <2>1
  <2>6. CASE \E name \in Box \ files, says \in Answer : create_box(name, says)
    <3>1. PICK name \in Box \ files : \E says \in Answer : create_box(name, says)
      BY <2>6
    <3>2. /\ Reading /\ session' = session
          /\ files' = files \/ (name \in CreatableBox /\ files' = files \cup {name})
      BY <3>1, CarefulCreate
    <3>3. /\ boxesMap = [b \in files |-> "idle"] /\ Boxes!AllIdle
          /\ boxesMap' = [b \in files' |-> "idle"]
      BY <2>4, <2>5, <3>2 DEF Reading
    <3>4. CASE files' = files
      BY <3>3, <3>4
    <3>5. CASE name \in CreatableBox /\ files' = files \cup {name}
      <4>1. boxesMap' = Boxes!Put(name, "idle")
        BY <3>3, <3>5 DEF Boxes!Put
      <4> QED
        BY <3>1, <3>3, <3>5, <4>1 DEF Boxes!Next, Boxes!Create
    <3> QED
      BY <3>2, <3>4, <3>5
  <2>7. CASE \E name \in Box, says \in Answer : remove_box(name, says)
    <3>1. PICK name \in Box : \E says \in Answer : remove_box(name, says)
      BY <2>7
    <3>2. /\ Reading /\ session' = session
          /\ files' = files \/ (name \in files /\ files' = files \ {name})
      BY <3>1, CarefulRemove
    <3>3. /\ boxesMap = [b \in files |-> "idle"] /\ Boxes!AllIdle
          /\ boxesMap' = [b \in files' |-> "idle"]
      BY <2>4, <2>5, <3>2 DEF Reading
    <3>4. CASE files' = files
      BY <3>3, <3>4
    <3>5. CASE name \in files /\ files' = files \ {name}
      <4>1. /\ DOMAIN boxesMap = files
            /\ boxesMap' = [b \in DOMAIN boxesMap \ {name} |-> boxesMap[b]]
        BY <3>3, <3>5
      <4> QED
        BY <2>3, <3>3, <3>5, <4>1 DEF Boxes!Next, Boxes!Remove
    <3> QED
      BY <3>2, <3>4, <3>5
  <2>8. CASE \E name \in Box, says \in Answer : reg_publisher(name, says) \/ reg_subscriber(name, says)
    <3>1. PICK name \in Box : \E says \in Answer : reg_publisher(name, says) \/ reg_subscriber(name, says)
      BY <2>8
    <3>2. /\ Reading /\ files' = files
          /\ \/ session' = session
             \/ /\ name \in files
                /\ session'.doing \in {"publishing", "relaying"}
                /\ heap'[session'.box].box_name = name
      BY <3>1, CarefulPublisher, CarefulSubscriber
    <3>3. boxesMap = [b \in files |-> "idle"] /\ Boxes!AllIdle
      BY <2>4, <3>2
    <3>4. CASE session' = session
      BY <2>5, <3>2, <3>3, <3>4 DEF Reading
    <3>5. CASE /\ name \in files
               /\ session'.doing \in {"publishing", "relaying"}
               /\ heap'[session'.box].box_name = name
      <4>1. ~Reading'
        BY <3>5 DEF Reading
      <4>2. boxesMap' = [b \in files |-> IF b = name THEN session'.doing ELSE "idle"]
        BY <2>1, <3>2, <3>5, <4>1
      <4>3. boxesMap' = Boxes!Put(name, session'.doing)
        BY <3>3, <3>5, <4>2 DEF Boxes!Put
      <4> QED
        BY <2>3, <3>3, <3>5, <4>3 DEF Boxes!Next, Boxes!Begin
    <3> QED
      BY <3>2, <3>4, <3>5
  <2>9. CASE end_publisher
    <3>1. /\ files' = files /\ session.doing = "publishing" /\ session.box \in Listed(heap, head)
          /\ session'.doing = "reading requests"
      BY <2>9, CarefulEnd DEF end_publisher
    <3> DEFINE name == heap[session.box].box_name
    <3>2. name \in files
      BY <3>1 DEF CInv, ListInv
    <3> HIDE DEF name
    <3>3. boxesMap = [b \in files |-> IF b = name THEN "publishing" ELSE "idle"]
      BY <2>2, <3>1 DEF Reading, name
    <3>4. boxesMap' = [b \in files |-> "idle"]
      BY <2>5, <3>1 DEF Reading
    <3>5. boxesMap' = Boxes!Put(name, "idle")
      BY <3>2, <3>3, <3>4 DEF Boxes!Put
    <3> QED
      BY <2>3, <3>2, <3>3, <3>5 DEF Boxes!Next, Boxes!EndPublishing
  <2>10. CASE (\E says \in Answer : list_box(says)) \/ poll \/ UNCHANGED registryVars
    <3>1. UNCHANGED <<heap, head, files, session>>
      BY <2>10, CarefulList DEF poll, registryVars, memoryVars
    <3> QED
      BY <2>1, <2>2, <3>1 DEF Reading
  <2> QED
    BY <2>6, <2>7, <2>8, <2>9, <2>10 DEF CarefulNext, Requests
<1>3. Good => MapInv
  BY BoxesMapIsInUse
<1> HIDE DEF Good, MapInv
<1>4. CarefulSpec => []Good
  BY CarefulInvariance DEF Good
<1>5. CarefulSpec => Boxes!Spec
  BY <1>1, <1>2, <1>3, <1>4, PTL DEF CarefulSpec, Boxes!Spec
<1> QED
  BY <1>5 DEF ImplementsBoxes

=============================================================================
