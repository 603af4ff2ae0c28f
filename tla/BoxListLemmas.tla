------------------------------ MODULE BoxListLemmas ------------------------------
(***************************************************************************)
(* What the operators of BoxRegistry on the linked list do, for every set   *)
(* of addresses: where a walk can come, when two walks are the same, what   *)
(* find_box() returns and what free(), insert_box() and delete_box() leave  *)
(* of the nodes and of the list.  A walk is a recursive function on a       *)
(* bounded range; facts about all of it are proved by its least             *)
(* counterexample.                                                          *)
(***************************************************************************)
EXTENDS BoxRegistry, FiniteSetTheorems, FunctionTheorems, WellFoundedInduction, TLAPS

(* A set of numbers that is not empty has a least element.                  *)
LEMMA LeastElement ==
    ASSUME NEW S, S \subseteq Nat, S # {}
    PROVE  \E x \in S : \A y \in S : x <= y
<1> DEFINE Less == {ss \in Nat \X Nat : ss[1] < ss[2]}
<1>1. IsWellFoundedOn(Less, Nat)
  BY NatLessThanWellFounded DEF OpToRel
<1>2. PICK x \in S : \A y \in S : ~(<<y, x>> \in Less)
  BY <1>1, WFMin
<1>3. ASSUME NEW y \in S
      PROVE  x <= y
  <2>1. x \in Nat /\ y \in Nat
    OBVIOUS
  <2>2. <<y, x>> \in Nat \X Nat /\ <<y, x>>[1] = y /\ <<y, x>>[2] = x
    BY <2>1
  <2>3. ~(y < x)
    BY <1>2, <2>2
  <2> QED
    BY <2>1, <2>3
<1> QED
  BY <1>3

(* The step of a walk.                                                      *)
After(h, a) == IF a = NULL THEN NULL ELSE h[a].next

(* A walk's steps are counted from 0 to the number of nodes.                *)
LEMMA StepsAreNaturals == Cardinality(Addr) \in Nat /\ Steps = 0 .. Cardinality(Addr)
BY RegistryAssumption, FS_CardinalityType DEF Steps

(* w is the walk of n links from `first`.                                   *)
IsWalk(w, h, first, n) ==
    w = [i \in 0 .. n |-> IF i = 0 THEN first
                          ELSE IF w[i - 1] = NULL THEN NULL ELSE h[w[i - 1]].next]

(* A function that follows the links, step by step, is a walk ...           *)
LEMMA WalkOfFunction ==
    ASSUME NEW h, NEW first, NEW n \in Nat, NEW w, w = [i \in 0 .. n |-> w[i]],
           w[0] = first, \A i \in 1 .. n : w[i] = After(h, w[i - 1])
    PROVE  IsWalk(w, h, first, n)
<1> DEFINE u == [i \in 0 .. n |-> IF i = 0 THEN first
                                  ELSE IF w[i - 1] = NULL THEN NULL ELSE h[w[i - 1]].next]
<1>1. \A i \in 0 .. n : w[i] = u[i]
  BY DEF After
<1>2. w = u
  BY <1>1
<1> QED
  BY <1>2 DEF IsWalk

(* ... and a walk is such a function.                                       *)
LEMMA FunctionOfWalk ==
    ASSUME NEW h, NEW first, NEW n \in Nat, NEW w, IsWalk(w, h, first, n)
    PROVE  /\ DOMAIN w = 0 .. n /\ w = [i \in 0 .. n |-> w[i]]
           /\ w[0] = first /\ \A i \in 1 .. n : w[i] = After(h, w[i - 1])
BY DEF IsWalk, After

(* From any node there is a walk of any length.                             *)
LEMMA WalkExists ==
    ASSUME NEW h, NEW first, NEW N \in Nat
    PROVE  \E w : IsWalk(w, h, first, N)
<1> DEFINE Bad == {n \in Nat : ~ \E w : IsWalk(w, h, first, n)}
<1> SUFFICES ASSUME Bad # {}
             PROVE  FALSE
  OBVIOUS
<1>1. PICK n \in Bad : \A m \in Bad : n <= m
  <2>1. Bad \subseteq Nat
    OBVIOUS
  <2> HIDE DEF Bad
  <2> QED
    BY <2>1, LeastElement
<1>2. CASE n = 0
  <2> DEFINE v == [i \in 0 .. 0 |-> first]
  <2>1. v = [i \in 0 .. 0 |-> v[i]] /\ v[0] = first
    OBVIOUS
  <2>2. \A i \in 1 .. 0 : v[i] = After(h, v[i - 1])
    <3>1. 1 .. 0 = {}
      OBVIOUS
    <3> QED
      BY ONLY <3>1
  <2> HIDE DEF v
  <2>3. IsWalk(v, h, first, 0)
    BY <2>1, <2>2, WalkOfFunction
  <2> QED
    BY <1>2, <2>3
<1>3. CASE n # 0
  <2>1. n \in Nat /\ n - 1 \in Nat /\ n - 1 \notin Bad
    BY <1>1, <1>3
  <2>2. PICK w : IsWalk(w, h, first, n - 1)
    BY <2>1
  <2>3. w[0] = first /\ \A i \in 1 .. n - 1 : w[i] = After(h, w[i - 1])
    BY <2>1, <2>2, FunctionOfWalk
  <2> DEFINE v == [i \in 0 .. n |-> IF i = n THEN After(h, w[n - 1]) ELSE w[i]]
  <2>4. v = [i \in 0 .. n |-> v[i]] /\ v[0] = first
    BY <2>1, <2>3
  <2>5. \A i \in 1 .. n : v[i] = After(h, v[i - 1])
    BY <2>1, <2>3
  <2> HIDE DEF v
  <2>6. IsWalk(v, h, first, n)
    BY <2>1, <2>4, <2>5, WalkOfFunction
  <2> QED
    BY <2>6
<1> QED
  BY <1>2, <1>3

(* Walk is the walk that it is defined to be.                               *)
LEMMA WalkFits ==
    ASSUME NEW h, NEW first
    PROVE  /\ Walk(h, first)[0] = first
           /\ \A i \in Steps \ {0} : Walk(h, first)[i] = After(h, Walk(h, first)[i - 1])
<1> DEFINE N == Cardinality(Addr)
<1>1. N \in Nat /\ Steps = 0 .. N
  BY StepsAreNaturals
<1>2. Walk(h, first) = CHOOSE w : IsWalk(w, h, first, N)
  BY DEF Walk, IsWalk, Steps
<1> HIDE DEF N
<1>3. IsWalk(Walk(h, first), h, first, N)
  BY <1>1, <1>2, WalkExists
<1> QED
  BY <1>1, <1>3, FunctionOfWalk

(* A set that a walk cannot leave.                                          *)
LEMMA WalkStays ==
    ASSUME NEW h, NEW S, NEW first \in S \cup {NULL}, NULL \notin S,
           \A a \in S : h[a].next \in S \cup {NULL}
    PROVE  /\ \A i \in Steps : Walk(h, first)[i] \in S \cup {NULL}
           /\ Listed(h, first) \subseteq S
<1> DEFINE w == Walk(h, first)
           Out == {i \in Steps : w[i] \notin S \cup {NULL}}
<1>1. w[0] = first /\ \A i \in Steps \ {0} : w[i] = After(h, w[i - 1])
  BY WalkFits
<1> HIDE DEF w
<1>2. ASSUME Out # {}
      PROVE  FALSE
  <2>1. PICK i \in Out : \A j \in Out : i <= j
    <3>1. Out \subseteq Nat
      BY StepsAreNaturals
    <3> HIDE DEF Out
    <3> QED
      BY <1>2, <3>1, LeastElement
  <2>2. i # 0
    BY <1>1
  <2>3. i - 1 \in Steps /\ i - 1 \notin Out
    BY <2>1, <2>2, StepsAreNaturals
  <2> QED
    BY <1>1, <2>2, <2>3 DEF After
<1>3. \A i \in Steps : w[i] \in S \cup {NULL}
  BY <1>2
<1> QED
  BY <1>3 DEF w, Listed

(* A walk that comes to an end passes by all that its nodes refer to.       *)
LEMMA ListIsClosed ==
    ASSUME NEW h, NEW first, ~Endless(h, first)
    PROVE  /\ first \in Listed(h, first) \cup {NULL} /\ NULL \notin Listed(h, first)
           /\ \A a \in Listed(h, first) : h[a].next \in Listed(h, first) \cup {NULL}
<1> DEFINE w == Walk(h, first)
<1>1. w[0] = first /\ \A i \in Steps \ {0} : w[i] = After(h, w[i - 1])
  BY WalkFits
<1>2. w[Cardinality(Addr)] = NULL
  BY DEF Endless
<1>3. Listed(h, first) = {w[i] : i \in Steps} \ {NULL}
  BY DEF Listed
<1> HIDE DEF w
<1>4. ASSUME NEW a \in Listed(h, first)
      PROVE  h[a].next \in Listed(h, first) \cup {NULL}
  <2>1. PICK i \in Steps : w[i] = a
    BY <1>3
  <2>2. a # NULL /\ i # Cardinality(Addr)
    BY <1>2, <1>3, <2>1
  <2>3. i + 1 \in Steps \ {0} /\ (i + 1) - 1 = i
    BY <2>2, StepsAreNaturals
  <2>4. w[i + 1] = h[a].next
    BY <1>1, <2>1, <2>2, <2>3 DEF After
  <2> QED
    BY <1>3, <2>3, <2>4
<1>5. 0 \in Steps
  BY StepsAreNaturals
<1> QED
  BY <1>1, <1>3, <1>4, <1>5

(* Two heaps with the same links on a list.                                 *)
LEMMA SameWalk ==
    ASSUME NEW h, NEW g, NEW first, NEW S, NULL \notin S, first \in S \cup {NULL},
           \A a \in S : h[a].next \in S \cup {NULL} /\ g[a].next = h[a].next
    PROVE  /\ \A i \in Steps : Walk(g, first)[i] = Walk(h, first)[i]
           /\ Listed(g, first) = Listed(h, first)
           /\ Endless(g, first) <=> Endless(h, first)
<1> DEFINE w == Walk(h, first)
           v == Walk(g, first)
           Apart == {i \in Steps : v[i] # w[i]}
<1>1. /\ w[0] = first /\ \A i \in Steps \ {0} : w[i] = After(h, w[i - 1])
      /\ v[0] = first /\ \A i \in Steps \ {0} : v[i] = After(g, v[i - 1])
  BY WalkFits
<1>2. \A i \in Steps : w[i] \in S \cup {NULL}
  BY WalkStays
<1>3. /\ Listed(h, first) = {w[i] : i \in Steps} \ {NULL}
      /\ Listed(g, first) = {v[i] : i \in Steps} \ {NULL}
      /\ Endless(h, first) <=> w[Cardinality(Addr)] # NULL
      /\ Endless(g, first) <=> v[Cardinality(Addr)] # NULL
  BY DEF Listed, Endless
<1> HIDE DEF w, v
<1>4. ASSUME Apart # {}
      PROVE  FALSE
  <2>1. PICK i \in Apart : \A j \in Apart : i <= j
    <3>1. Apart \subseteq Nat
      BY StepsAreNaturals
    <3> HIDE DEF Apart
    <3> QED
      BY <1>4, <3>1, LeastElement
  <2>2. i # 0
    BY <1>1
  <2>3. i - 1 \in Steps /\ i - 1 \notin Apart
    BY <2>1, <2>2, StepsAreNaturals
  <2>4. v[i - 1] = w[i - 1] /\ w[i - 1] \in S \cup {NULL}
    BY <1>2, <2>3
  <2> QED
    BY <1>1, <2>2, <2>4 DEF After
<1>5. \A i \in Steps : v[i] = w[i]
  BY <1>4
<1>6. Cardinality(Addr) \in Steps
  BY StepsAreNaturals
<1> QED
  BY <1>3, <1>5, <1>6 DEF w, v

-----------------------------------------------------------------------------
(* Walks that end.                                                          *)

LEMMA NullStays ==
    ASSUME NEW h, NEW first, NEW i \in Steps, NEW j \in Steps, i <= j,
           Walk(h, first)[i] = NULL
    PROVE  Walk(h, first)[j] = NULL
<1> DEFINE w == Walk(h, first)
           Bad == {k \in Steps : i <= k /\ w[k] # NULL}
<1>1. \A k \in Steps \ {0} : w[k] = After(h, w[k - 1])
  BY WalkFits
<1>2. w[i] = NULL
  OBVIOUS
<1> HIDE DEF w
<1>3. ASSUME Bad # {}
      PROVE  FALSE
  <2>1. PICK k \in Bad : \A m \in Bad : k <= m
    <3>1. Bad \subseteq Nat
      BY StepsAreNaturals
    <3> HIDE DEF Bad
    <3> QED
      BY <1>3, <3>1, LeastElement
  <2>2. k - 1 \in Steps /\ i <= k - 1 /\ k - 1 \notin Bad /\ k # 0
    BY <1>2, <2>1, StepsAreNaturals
  <2>3. w[k - 1] = NULL
    BY <2>2
  <2> QED
    BY <1>1, <2>1, <2>2, <2>3 DEF After
<1>4. w[j] = NULL
  BY <1>3
<1> QED
  BY <1>4 DEF w

(* The number of nodes a walk passes by before it ends.                     *)
LEMMA WalkEnds ==
    ASSUME NEW h, NEW first, ~Endless(h, first)
    PROVE  \E n \in Steps : \A i \in Steps : Walk(h, first)[i] # NULL <=> i < n
<1> DEFINE w == Walk(h, first)
           Ends == {i \in Steps : w[i] = NULL}
<1>1. Cardinality(Addr) \in Ends
  BY StepsAreNaturals DEF Endless
<1>2. PICK n \in Ends : \A i \in Ends : n <= i
  <2>1. Ends \subseteq Nat
    BY StepsAreNaturals
  <2> HIDE DEF Ends
  <2> QED
    BY <1>1, <2>1, LeastElement
<1>3. ASSUME NEW i \in Steps
      PROVE  w[i] # NULL <=> i < n
  <2>1. n \in Steps /\ w[n] = NULL /\ n \in Nat /\ i \in Nat
    BY <1>2, StepsAreNaturals
  <2>2. CASE i < n
    BY <1>2, <2>1, <2>2
  <2>3. CASE n <= i
    BY <2>1, <2>3, NullStays
  <2> QED
    BY <2>1, <2>2, <2>3
<1> QED
  BY <1>2, <1>3

(* A walk that ends passes by each node once: from a node it has passed by  *)
(* before it would go round for ever.                                       *)
LEMMA NoReturn ==
    ASSUME NEW h, NEW first, ~Endless(h, first), NEW i \in Steps, NEW j \in Steps, i < j,
           Walk(h, first)[i] = Walk(h, first)[j]
    PROVE  Walk(h, first)[i] = NULL
<1> SUFFICES ASSUME Walk(h, first)[i] # NULL
             PROVE  FALSE
  OBVIOUS
<1> DEFINE w == Walk(h, first)
           Bad == {k \in Steps : j <= k /\ w[k] # w[k - (j - i)]}
<1>1. \A k \in Steps \ {0} : w[k] = After(h, w[k - 1])
  BY WalkFits
<1>2. w[i] = w[j] /\ w[j] # NULL
  OBVIOUS
<1>3. PICK n \in Steps : \A k \in Steps : w[k] # NULL <=> k < n
  BY WalkEnds
<1> HIDE DEF w
<1>4. i \in Nat /\ j \in Nat /\ n \in Nat /\ j < n
  BY <1>2, <1>3, StepsAreNaturals
<1>5. ASSUME Bad # {}
      PROVE  FALSE
  <2>1. PICK k \in Bad : \A m \in Bad : k <= m
    <3>1. Bad \subseteq Nat
      BY StepsAreNaturals
    <3> HIDE DEF Bad
    <3> QED
      BY <1>5, <3>1, LeastElement
  <2>2. k \in Steps /\ k \in Nat /\ j <= k /\ w[k] # w[k - (j - i)]
    BY <2>1, StepsAreNaturals
  <2>3. k # j
    BY <1>2, <1>4, <2>2
  <2>4. k - 1 \in Steps /\ j <= k - 1
    BY <1>4, <2>2, <2>3, StepsAreNaturals
  <2>5. w[k - 1] = w[(k - 1) - (j - i)]
    <3>1. k - 1 \notin Bad
      BY <2>1, <2>2
    <3> QED
      BY <2>4, <3>1
  <2>6. k \in Steps \ {0} /\ k - (j - i) \in Steps \ {0} /\ (k - 1) - (j - i) = (k - (j - i)) - 1
    BY <1>4, <2>2, <2>3, StepsAreNaturals
  <2> QED
    BY <1>1, <2>2, <2>5, <2>6
<1>6. n \notin Bad
  BY <1>5
<1>7. w[n] = w[n - (j - i)]
  BY <1>4, <1>6
<1>8. n - (j - i) \in Steps /\ n - (j - i) < n
  BY <1>4, StepsAreNaturals
<1> QED
  BY <1>3, <1>4, <1>7, <1>8

(* The nodes of such a list, and what the links between them are.           *)
LEMMA ListShape ==
    ASSUME NEW h, NEW first, ~Endless(h, first)
    PROVE  \E n \in Steps :
               LET w == Walk(h, first)
               IN  /\ \A i \in Steps : w[i] # NULL <=> i < n
                   /\ w[0] = first
                   /\ \A i \in 0 .. n - 1 : w[i] # NULL /\ h[w[i]].next = w[i + 1]
                   /\ \A i, j \in 0 .. n - 1 : w[i] = w[j] => i = j
                   /\ Listed(h, first) = {w[i] : i \in 0 .. n - 1}
<1> DEFINE w == Walk(h, first)
<1>1. PICK n \in Steps : \A i \in Steps : w[i] # NULL <=> i < n
  BY WalkEnds
<1>2. w[0] = first /\ \A k \in Steps \ {0} : w[k] = After(h, w[k - 1])
  BY WalkFits
<1>3. \A i, j \in Steps : i < j /\ w[i] = w[j] => w[i] = NULL
  BY NoReturn
<1>4. Listed(h, first) = {w[i] : i \in Steps} \ {NULL}
  BY DEF Listed
<1> HIDE DEF w
<1>5. n \in Nat /\ 0 .. n - 1 \subseteq Steps
      /\ \A i \in 0 .. n - 1 : i + 1 \in Steps \ {0} /\ (i + 1) - 1 = i
  BY StepsAreNaturals
<1>6. \A i \in 0 .. n - 1 : w[i] # NULL /\ h[w[i]].next = w[i + 1]
  BY <1>1, <1>2, <1>5 DEF After
<1>7. \A i, j \in 0 .. n - 1 : w[i] = w[j] => i = j
  <2>1. ASSUME NEW i \in 0 .. n - 1, NEW j \in 0 .. n - 1, w[i] = w[j]
        PROVE  i = j
    <3>1. i \in Steps /\ j \in Steps /\ i \in Nat /\ j \in Nat /\ w[i] # NULL
      BY <1>1, <1>5
    <3> QED
      BY <1>3, <2>1, <3>1
  <2> QED
    BY <2>1
<1>8. Listed(h, first) = {w[i] : i \in 0 .. n - 1}
  <2>1. \A i \in Steps : w[i] # NULL => i \in 0 .. n - 1
    BY <1>1, <1>5, StepsAreNaturals
  <2> QED
    BY <1>4, <1>5, <1>6, <2>1
<1> QED
  BY <1>1, <1>2, <1>6, <1>7, <1>8 DEF w

(* A sequence that follows the links to an end is the walk.                 *)
LEMMA ListIs ==
    ASSUME NEW h, NEW first, NEW m \in Steps, NEW v, v[0] = first,
           \A i \in 1 .. m : v[i] = After(h, v[i - 1]),
           v[m] = NULL, \A i \in 0 .. m - 1 : v[i] # NULL
    PROVE  /\ ~Endless(h, first)
           /\ \A i \in 0 .. m - 1 : v[i] \in Listed(h, first)
           /\ \A a \in Listed(h, first) : \E i \in 0 .. m - 1 : v[i] = a
<1> DEFINE w == Walk(h, first)
           Apart == {i \in 0 .. m : w[i] # v[i]}
<1>1. w[0] = first /\ \A i \in Steps \ {0} : w[i] = After(h, w[i - 1])
  BY WalkFits
<1>2. \A i \in Steps : m <= i /\ w[m] = NULL => w[i] = NULL
  BY NullStays
<1>3. /\ Listed(h, first) = {w[i] : i \in Steps} \ {NULL}
      /\ Endless(h, first) <=> w[Cardinality(Addr)] # NULL
  BY DEF Listed, Endless
<1> HIDE DEF w
<1>4. m \in Nat /\ 0 .. m \subseteq Steps /\ Cardinality(Addr) \in Steps /\ m <= Cardinality(Addr)
  BY StepsAreNaturals
<1>5. ASSUME Apart # {}
      PROVE  FALSE
  <2>1. PICK i \in Apart : \A j \in Apart : i <= j
    <3>1. Apart \subseteq Nat
      BY <1>4
    <3> HIDE DEF Apart
    <3> QED
      BY <1>5, <3>1, LeastElement
  <2>2. i # 0
    BY <1>1
  <2>3. i \in 1 .. m /\ i \in Steps \ {0} /\ i - 1 \in 0 .. m /\ i - 1 \notin Apart
    BY <1>4, <2>1, <2>2
  <2> QED
    BY <1>1, <2>1, <2>3
<1>6. \A i \in 0 .. m : w[i] = v[i]
  BY <1>5
<1>7. ~Endless(h, first)
  <2>1. m \in 0 .. m /\ w[m] = NULL
    BY <1>4, <1>6
  <2> QED
    BY <1>2, <1>3, <1>4, <2>1
<1>8. \A i \in Steps : w[i] # NULL => i \in 0 .. m - 1
  <2>1. ASSUME NEW i \in Steps, w[i] # NULL
        PROVE  i \in 0 .. m - 1
    <3>1. i \in Nat /\ ~(m <= i)
      BY <1>2, <1>4, <1>6, <2>1, StepsAreNaturals
    <3> QED
      BY <1>4, <3>1
  <2> QED
    BY <2>1
<1>9. \A i \in 0 .. m - 1 : i \in Steps /\ w[i] = v[i] /\ w[i] # NULL
  BY <1>4, <1>6
<1> QED
  BY <1>3, <1>7, <1>8, <1>9

(* Different nodes are no more than there are nodes.                        *)
LEMMA Pigeonhole ==
    ASSUME NEW n \in Nat, NEW f \in [0 .. n -> Addr],
           \A i, j \in 0 .. n : f[i] = f[j] => i = j
    PROVE  n < Cardinality(Addr)
<1>1. IsFiniteSet(Addr) /\ Cardinality(Addr) \in Nat
  BY RegistryAssumption, FS_CardinalityType
<1>2. f \in Injection(0 .. n, Addr)
  BY Fun_IsInj
<1>3. Cardinality(0 .. n) <= Cardinality(Addr)
  BY <1>1, <1>2, FS_Injection
<1>4. Cardinality(0 .. n) = n + 1
  BY FS_Interval
<1> QED
  BY <1>1, <1>3, <1>4

(* A node put behind the last one.                                          *)
LEMMA Appended ==
    ASSUME NEW h, NEW g, NEW first, ~Endless(h, first), NEW new \in Addr,
           new \notin Listed(h, first), Listed(h, first) \subseteq Addr, NULL \notin Addr,
           \A a \in Listed(h, first) : g[a].next = IF h[a].next = NULL THEN new ELSE h[a].next,
           g[new].next = NULL,
           NEW now, now = IF first = NULL THEN new ELSE first
    PROVE  ~Endless(g, now) /\ Listed(g, now) = Listed(h, first) \cup {new}
<1> DEFINE w == Walk(h, first)
<1>1. PICK n \in Steps :
          /\ \A i \in Steps : w[i] # NULL <=> i < n
          /\ w[0] = first
          /\ \A i \in 0 .. n - 1 : w[i] # NULL /\ h[w[i]].next = w[i + 1]
          /\ \A i, j \in 0 .. n - 1 : w[i] = w[j] => i = j
          /\ Listed(h, first) = {w[i] : i \in 0 .. n - 1}
  BY ListShape
<1> HIDE DEF w
<1> DEFINE v == [i \in 0 .. n + 1 |-> IF i < n THEN w[i] ELSE IF i = n THEN new ELSE NULL]
<1>2. n \in Nat /\ 0 \in Steps /\ 0 .. n \subseteq Steps
  BY StepsAreNaturals
<1>3. /\ \A i \in 0 .. n - 1 : v[i] = w[i] /\ w[i] \in Listed(h, first) /\ w[i] \in Addr
      /\ v[n] = new /\ v[n + 1] = NULL
  BY <1>1, <1>2
<1> HIDE DEF v
<1>4. \A i, j \in 0 .. n : v[i] = v[j] => i = j
  <2>1. \A i \in 0 .. n : i = n \/ i \in 0 .. n - 1
    BY <1>2
  <2> QED
    BY <1>1, <1>3, <2>1
<1>5. n + 1 \in Steps
  <2> DEFINE f == [i \in 0 .. n |-> v[i]]
  <2>1. f \in [0 .. n -> Addr]
    BY <1>2, <1>3
  <2>2. \A i, j \in 0 .. n : f[i] = f[j] => i = j
    BY <1>4
  <2> HIDE DEF f
  <2>3. n < Cardinality(Addr)
    BY <1>2, <2>1, <2>2, Pigeonhole
  <2> QED
    BY <1>2, <2>3, StepsAreNaturals
<1>6. v[0] = now
  <2>1. CASE n = 0
    BY <1>1, <1>2, <1>3, <2>1
  <2>2. CASE n # 0
    <3>1. 0 \in 0 .. n - 1
      BY <1>2, <2>2
    <3> QED
      BY <1>1, <1>3, <3>1
  <2> QED
    BY <2>1, <2>2
<1>7. ASSUME NEW i \in 1 .. n + 1
      PROVE  v[i] = After(g, v[i - 1])
  <2>1. CASE i = n + 1
    <3>1. v[i - 1] = new /\ v[i] = NULL
      BY <1>2, <1>3, <2>1
    <3> QED
      BY <3>1 DEF After
  <2>2. CASE i = n
    <3>1. i - 1 \in 0 .. n - 1 /\ (i - 1) + 1 = n
      BY <1>2, <2>2
    <3>2. h[w[i - 1]].next = NULL
      BY <1>1, <3>1
    <3> QED
      BY <1>1, <1>3, <2>2, <3>1, <3>2 DEF After
  <2>3. CASE i \in 1 .. n - 1
    <3>1. i - 1 \in 0 .. n - 1 /\ (i - 1) + 1 = i /\ i \in 0 .. n - 1
      BY <1>2, <2>3
    <3>2. h[w[i - 1]].next = w[i] /\ w[i] # NULL
      BY <1>1, <3>1
    <3> QED
      BY <1>1, <1>3, <3>1, <3>2 DEF After
  <2> QED
    BY <1>2, <2>1, <2>2, <2>3
<1>8. \A i \in 0 .. n : v[i] # NULL
  <2>1. \A i \in 0 .. n : i = n \/ i \in 0 .. n - 1
    BY <1>2
  <2> QED
    BY <1>1, <1>3, <2>1
<1>9. (n + 1) - 1 = n
  BY <1>2
<1>10. ~Endless(g, now) /\ Listed(g, now) = {v[i] : i \in 0 .. n}
  <2> DEFINE m == n + 1
  <2>1. m \in Steps /\ v[m] = NULL /\ v[0] = now
    BY <1>3, <1>5, <1>6
  <2>2. \A i \in 1 .. m : v[i] = After(g, v[i - 1])
    BY <1>7
  <2>3. \A i \in 0 .. m - 1 : v[i] # NULL
    BY <1>8, <1>9
  <2> HIDE DEF m
  <2>4. /\ ~Endless(g, now)
        /\ \A i \in 0 .. m - 1 : v[i] \in Listed(g, now)
        /\ \A a \in Listed(g, now) : \E i \in 0 .. m - 1 : v[i] = a
    BY ONLY <2>1, <2>2, <2>3, ListIs
  <2>5. m - 1 = n
    BY <1>9 DEF m
  <2> QED
    BY ONLY <2>4, <2>5
<1>11. {v[i] : i \in 0 .. n} = Listed(h, first) \cup {new}
  <2>1. \A i \in 0 .. n : i = n \/ i \in 0 .. n - 1
    BY <1>2
  <2>2. 0 .. n - 1 \subseteq 0 .. n /\ n \in 0 .. n
    BY <1>2
  <2> QED
    BY <1>1, <1>3, <2>1, <2>2
<1> QED
  BY <1>10, <1>11

(* A node taken out.                                                        *)
LEMMA Unlinked ==
    ASSUME NEW h, NEW g, NEW first, ~Endless(h, first), NEW box \in Listed(h, first),
           \A a \in Listed(h, first) \ {box} :
               g[a].next = IF h[a].next = box THEN h[box].next ELSE h[a].next,
           NEW now, now = IF box = first THEN h[box].next ELSE first
    PROVE  ~Endless(g, now) /\ Listed(g, now) = Listed(h, first) \ {box}
<1> DEFINE w == Walk(h, first)
<1>1. PICK n \in Steps :
          /\ \A i \in Steps : w[i] # NULL <=> i < n
          /\ w[0] = first
          /\ \A i \in 0 .. n - 1 : w[i] # NULL /\ h[w[i]].next = w[i + 1]
          /\ \A i, j \in 0 .. n - 1 : w[i] = w[j] => i = j
          /\ Listed(h, first) = {w[i] : i \in 0 .. n - 1}
  BY ListShape
<1> HIDE DEF w
<1>2. PICK k \in 0 .. n - 1 : w[k] = box
  BY <1>1
<1>3. n \in Nat /\ k \in Nat /\ k < n /\ n - 1 \in Steps /\ n - 1 \in Nat /\ 0 .. n \subseteq Steps
  BY <1>2, StepsAreNaturals
<1> DEFINE v == [i \in 0 .. n - 1 |-> IF i < k THEN w[i] ELSE w[i + 1]]
<1>4. \A i \in 0 .. n - 1 : v[i] = IF i < k THEN w[i] ELSE w[i + 1]
  OBVIOUS
<1> HIDE DEF v
<1>5. w[n] = NULL
  BY <1>1, <1>3
<1>6. v[n - 1] = NULL
  BY <1>3, <1>4, <1>5
<1>7. \A i \in 0 .. (n - 1) - 1 : v[i] # NULL
  <2>1. ASSUME NEW i \in 0 .. (n - 1) - 1
        PROVE  i \in 0 .. n - 1 /\ i + 1 \in 0 .. n - 1
    BY <1>3
  <2> QED
    BY <1>1, <1>4, <2>1
<1>8. v[0] = now
  <2>1. 0 \in 0 .. n - 1 /\ (0 < k <=> k # 0)
    BY <1>3
  <2>2. box = first <=> k = 0
    BY <1>1, <1>2, <2>1
  <2>3. h[w[k]].next = w[k + 1]
    BY <1>1, <1>2
  <2> QED
    BY <1>1, <1>2, <1>4, <2>1, <2>2, <2>3
<1>9. ASSUME NEW i \in 1 .. n - 1
      PROVE  v[i] = After(g, v[i - 1])
  <2>1. /\ i - 1 \in 0 .. n - 1 /\ i \in 0 .. n - 1 /\ (i - 1) + 1 = i
        /\ h[w[i - 1]].next = w[i] /\ h[w[i]].next = w[i + 1]
        /\ w[i] # NULL /\ w[i - 1] # NULL /\ w[i] \in Listed(h, first)
        /\ w[i - 1] \in Listed(h, first) /\ i \in Nat
    BY <1>1, <1>3
  <2>2. \A j \in 0 .. n - 1 : w[j] = box => j = k
    BY <1>1, <1>2
  <2>3. CASE i < k
    <3>1. v[i] = w[i] /\ v[i - 1] = w[i - 1] /\ w[i - 1] # box /\ w[i] # box
      BY <1>3, <1>4, <2>1, <2>2, <2>3
    <3> QED
      BY <2>1, <3>1 DEF After
  <2>4. CASE i = k
    <3>1. v[i] = w[i + 1] /\ v[i - 1] = w[i - 1] /\ w[i - 1] # box /\ w[i] = box
      BY <1>2, <1>3, <1>4, <2>1, <2>2, <2>4
    <3> QED
      BY <2>1, <3>1 DEF After
  <2>5. CASE k < i
    <3>1. v[i] = w[i + 1] /\ v[i - 1] = w[i] /\ w[i] # box
      BY <1>3, <1>4, <2>1, <2>2, <2>5
    <3>2. w[i + 1] # box
      <4>1. CASE i = n - 1
        <5>1. w[i + 1] = NULL
          BY <1>3, <1>5, <4>1
        <5> QED
          BY <1>1, <1>2, <5>1
      <4>2. CASE i # n - 1
        <5>1. i + 1 \in 0 .. n - 1 /\ i + 1 # k
          BY <1>3, <2>5, <4>2
        <5> QED
          BY <2>2, <5>1
      <4> QED
        BY <4>1, <4>2
    <3> QED
      BY <2>1, <3>1, <3>2 DEF After
  <2> QED
    BY <1>3, <2>1, <2>3, <2>4, <2>5
<1>10. ~Endless(g, now) /\ Listed(g, now) = {v[i] : i \in 0 .. (n - 1) - 1}
  <2> DEFINE m == n - 1
  <2>1. m \in Steps /\ v[m] = NULL /\ v[0] = now
    BY <1>3, <1>6, <1>8
  <2>2. \A i \in 1 .. m : v[i] = After(g, v[i - 1])
    BY <1>9
  <2>3. \A i \in 0 .. m - 1 : v[i] # NULL
    BY <1>7
  <2> HIDE DEF m
  <2>4. /\ ~Endless(g, now)
        /\ \A i \in 0 .. m - 1 : v[i] \in Listed(g, now)
        /\ \A a \in Listed(g, now) : \E i \in 0 .. m - 1 : v[i] = a
    BY ONLY <2>1, <2>2, <2>3, ListIs
  <2> QED
    BY <2>4 DEF m
<1>11. {v[i] : i \in 0 .. (n - 1) - 1} = Listed(h, first) \ {box}
  <2>1. ASSUME NEW i \in 0 .. (n - 1) - 1
        PROVE  v[i] \in Listed(h, first) \ {box}
    <3>1. i \in 0 .. n - 1 /\ i + 1 \in 0 .. n - 1 /\ i + 1 # i /\ i \in Nat
      BY <1>3
    <3>2. CASE i < k
      BY <1>1, <1>2, <1>3, <1>4, <3>1, <3>2
    <3>3. CASE ~(i < k)
      <4>1. v[i] = w[i + 1] /\ i + 1 # k
        BY <1>3, <1>4, <3>1, <3>3
      <4> QED
        BY <1>1, <1>2, <3>1, <4>1
    <3> QED
      BY <3>2, <3>3
  <2>2. ASSUME NEW a \in Listed(h, first) \ {box}
        PROVE  \E i \in 0 .. (n - 1) - 1 : v[i] = a
    <3>1. PICK j \in 0 .. n - 1 : w[j] = a
      BY <1>1
    <3>2. CASE j < k
      <4>1. j \in 0 .. (n - 1) - 1 /\ j \in 0 .. n - 1
        BY <1>3, <3>2
      <4> QED
        BY <1>4, <3>1, <3>2, <4>1
    <3>3. CASE k < j
      <4>1. j - 1 \in 0 .. (n - 1) - 1 /\ j - 1 \in 0 .. n - 1 /\ ~(j - 1 < k) /\ (j - 1) + 1 = j
        BY <1>3, <3>3
      <4> QED
        BY <1>4, <3>1, <4>1
    <3>4. j # k
      BY <1>2, <3>1
    <3> QED
      BY <1>3, <3>2, <3>3, <3>4
  <2> QED
    BY <2>1, <2>2
<1> QED
  BY <1>10, <1>11

-----------------------------------------------------------------------------
(* What find_box() finds.                                                   *)

Node == [box_name : Box \cup {Unexistent, Garbage}, hasWriter : {-1, 0, 1},
         n_readers : {-1, 0, 1}, next : Addr \cup {NULL}]

Mem == [heap : [Addr -> Node], avail : SUBSET Addr]

(* Links lead to nodes or to NULL, and nothing but nodes is listed.         *)
LEMMA HeapLinks ==
    ASSUME NEW h \in [Addr -> Node], NEW first \in Addr \cup {NULL}
    PROVE  /\ NULL \notin Addr /\ \A a \in Addr : h[a].next \in Addr \cup {NULL}
           /\ Listed(h, first) \subseteq Addr
<1>1. NULL \notin Addr /\ \A a \in Addr : h[a].next \in Addr \cup {NULL}
  BY RegistryAssumption DEF Node
<1> QED
  BY <1>1, WalkStays

(* Fields other than the links do not matter to a walk.                     *)
LEMMA SameLinks ==
    ASSUME NEW h \in [Addr -> Node], NEW g, NEW first \in Addr \cup {NULL},
           \A a \in Addr : g[a].next = h[a].next
    PROVE  /\ \A i \in Steps : Walk(g, first)[i] = Walk(h, first)[i]
           /\ Listed(g, first) = Listed(h, first)
           /\ Endless(g, first) <=> Endless(h, first)
<1>1. /\ NULL \notin Addr
      /\ \A a \in Addr : h[a].next \in Addr \cup {NULL} /\ g[a].next = h[a].next
  BY HeapLinks
<1> QED
  BY ONLY <1>1, first \in Addr \cup {NULL}, SameWalk

(* A search returns a listed node of that name, or there is none.           *)
LEMMA FirstNamedIsListed ==
    ASSUME NEW h, NEW first, NEW name
    PROVE  /\ FirstNamed(h, first, name) # NULL =>
                  /\ FirstNamed(h, first, name) \in Listed(h, first)
                  /\ h[FirstNamed(h, first, name)].box_name = name
           /\ FirstNamed(h, first, name) = NULL =>
                  \A a \in Listed(h, first) : h[a].box_name # name
<1> DEFINE w == Walk(h, first)
           match == {i \in Steps : w[i] # NULL /\ h[w[i]].box_name = name}
           least == CHOOSE i \in match : \A j \in match : i <= j
<1>1. FirstNamed(h, first, name) = IF match = {} THEN NULL ELSE w[least]
  BY DEF FirstNamed
<1>2. Listed(h, first) = {w[i] : i \in Steps} \ {NULL}
  BY DEF Listed
<1> HIDE DEF w
<1>3. CASE match = {}
  BY <1>1, <1>2, <1>3
<1>4. CASE match # {}
  <2>1. least \in match
    <3>1. match \subseteq Nat
      BY StepsAreNaturals
    <3> HIDE DEF match
    <3> QED
      BY <1>4, <3>1, LeastElement
  <2> HIDE DEF least
  <2> QED
    BY <1>1, <1>2, <1>4, <2>1
<1> QED
  BY <1>3, <1>4

(* find_box() returns a listed node of the name, or a node of its own.      *)
Hit(name, r) ==
    /\ r.node \in Listed(heap, head) /\ r.node \in Addr /\ heap[r.node].box_name = name
    /\ r.mem = Memory

Miss(name, r) ==
    /\ r.node \in avail /\ r.node \in Addr
    /\ FirstNamed(heap, head, name) = NULL
    /\ \A a \in Listed(heap, head) : heap[a].box_name # name
    /\ r.mem \in Mem /\ r.mem.avail = avail \ {r.node}
    /\ r.mem.heap[r.node] = [box_name |-> Unexistent, hasWriter |-> -1, n_readers |-> -1,
                            next |-> heap[r.node].next]
    /\ \A a \in Addr \ {r.node} : r.mem.heap[a] = heap[a]

(* find_box() finds the node, or returns one that it has allocated.         *)
LEMMA FindBox ==
    ASSUME RegistryTypeOK, NEW name, NEW r \in find_box(name)
    PROVE  Hit(name, r) \/ Miss(name, r)
<1> DEFINE hit == FirstNamed(heap, head, name)
           miss(a) == [heap EXCEPT ![a] = [box_name |-> Unexistent, hasWriter |-> -1,
                                           n_readers |-> -1, next |-> @.next]]
<1>1. heap \in [Addr -> Node] /\ avail \subseteq Addr /\ head \in Addr \cup {NULL}
  BY DEF RegistryTypeOK, Node
<1>2. CASE hit # NULL
  <2>1. r = [node |-> hit, mem |-> Memory]
    BY <1>2 DEF find_box
  <2>2. r.node = hit /\ r.mem = Memory
    BY <2>1
  <2> HIDE DEF hit
  <2>3. hit \in Listed(heap, head) /\ heap[hit].box_name = name
    BY <1>2, FirstNamedIsListed DEF hit
  <2>4. hit \in Addr
    BY <1>1, <2>3, HeapLinks
  <2> QED
    BY <2>2, <2>3, <2>4 DEF Hit
<1>3. CASE hit = NULL
  <2>1. PICK a \in avail : r = [node |-> a, mem |-> [heap |-> miss(a), avail |-> avail \ {a}]]
    BY <1>3 DEF find_box
  <2>2. r.node = a /\ r.mem.heap = miss(a) /\ r.mem.avail = avail \ {a}
    BY <2>1
  <2>3. \A b \in Listed(heap, head) : heap[b].box_name # name
    BY <1>3, FirstNamedIsListed
  <2>4. /\ miss(a) \in [Addr -> Node]
        /\ miss(a)[a] = [box_name |-> Unexistent, hasWriter |-> -1, n_readers |-> -1,
                         next |-> heap[a].next]
        /\ \A b \in Addr \ {a} : miss(a)[b] = heap[b]
    BY <1>1 DEF Node
  <2> QED
    <3> HIDE DEF miss
    <3>1. r.mem \in Mem
      BY <1>1, <2>1, <2>2, <2>4 DEF Mem
    <3> QED
      BY <1>1, <1>3, <2>2, <2>3, <2>4, <3>1 DEF Miss
<1> QED
  BY <1>2, <1>3

(* A node is freed.                                                         *)
LEMMA FreeNode ==
    ASSUME NEW m \in Mem, NEW a \in Addr
    PROVE  /\ free(m, a) \in Mem
           /\ free(m, a).avail = m.avail \cup {a}
           /\ free(m, a).heap[a].box_name = Garbage
           /\ \A b \in Addr \ {a} : free(m, a).heap[b] = m.heap[b]
           /\ \A b \in Addr : /\ free(m, a).heap[b].next = m.heap[b].next
                              /\ free(m, a).heap[b].hasWriter = m.heap[b].hasWriter
                              /\ free(m, a).heap[b].n_readers = m.heap[b].n_readers
BY DEF free, Node, Mem

(* A node is put last.                                                      *)
LEMMA InsertNode ==
    ASSUME NEW h \in [Addr -> Node], NEW new \in Addr, head \in Addr \cup {NULL},
           ~Endless(h, head)
    PROVE  LET l == insert_box(h, new)
           IN  /\ l.heap \in [Addr -> Node] /\ l.head \in Addr \cup {NULL}
               /\ \A a \in Addr : /\ l.heap[a].box_name = h[a].box_name
                                  /\ l.heap[a].hasWriter = h[a].hasWriter
                                  /\ l.heap[a].n_readers = h[a].n_readers
               /\ Listed(l.heap, l.head) \subseteq Listed(h, head) \cup {new}
<1> DEFINE ended == [h EXCEPT ![new].next = NULL]
           last == CHOOSE a \in Listed(ended, head) : ended[a].next = NULL
           g == [ended EXCEPT ![last].next = new]
           S == Listed(h, head) \cup {new}
<1>1. insert_box(h, new) = IF head = NULL THEN [heap |-> ended, head |-> new]
                           ELSE [heap |-> g, head |-> head]
  BY DEF insert_box
<1>2. /\ head \in Listed(h, head) \cup {NULL}
      /\ \A a \in Listed(h, head) : h[a].next \in Listed(h, head) \cup {NULL}
      /\ NULL \notin Addr /\ Listed(h, head) \subseteq Addr
  BY ListIsClosed, HeapLinks
<1>3. /\ ended \in [Addr -> Node]
      /\ \A a \in Addr : /\ ended[a].box_name = h[a].box_name
                         /\ ended[a].hasWriter = h[a].hasWriter
                         /\ ended[a].n_readers = h[a].n_readers
                         /\ ended[a].next = IF a = new THEN NULL ELSE h[a].next
  BY DEF Node
<1> HIDE DEF last, ended
<1>4. /\ g \in [Addr -> Node]
      /\ \A a \in Addr : /\ g[a].box_name = ended[a].box_name
                         /\ g[a].hasWriter = ended[a].hasWriter
                         /\ g[a].n_readers = ended[a].n_readers
                         /\ g[a].next = IF a = last THEN new ELSE ended[a].next
  <2>1. /\ g = [a \in Addr |-> g[a]]
        /\ \A a \in Addr : g[a] = IF a = last THEN [ended[a] EXCEPT !.next = new] ELSE ended[a]
    BY <1>3
  <2> HIDE DEF g
  <2>2. ASSUME NEW a \in Addr
        PROVE  /\ g[a] \in Node
               /\ g[a].box_name = ended[a].box_name
               /\ g[a].hasWriter = ended[a].hasWriter
               /\ g[a].n_readers = ended[a].n_readers
               /\ g[a].next = IF a = last THEN new ELSE ended[a].next
    <3>1. ended[a] \in Node
      BY <1>3
    <3> QED
      BY <2>1, <3>1 DEF Node
  <2> QED
    BY <2>1, <2>2
<1> HIDE DEF g
<1>5. S \subseteq Addr /\ NULL \notin S /\ new \in S /\ head \in S \cup {NULL}
  BY <1>2
<1>6. \A a \in S : h[a].next \in S \cup {NULL} \/ a = new
  BY <1>2
<1> HIDE DEF S
<1>7. \A a \in S : ended[a].next \in S \cup {NULL} /\ g[a].next \in S \cup {NULL}
  BY <1>3, <1>4, <1>5, <1>6
<1>8. Listed(ended, new) \subseteq S /\ Listed(g, head) \subseteq S
  BY <1>5, <1>7, WalkStays
<1>9. CASE head = NULL
  <2>1. insert_box(h, new).heap = ended /\ insert_box(h, new).head = new
    BY <1>1, <1>9
  <2> QED
    BY <1>3, <1>8, <2>1 DEF S
<1>10. CASE head # NULL
  <2>1. insert_box(h, new).heap = g /\ insert_box(h, new).head = head
    BY <1>1, <1>10
  <2> QED
    BY <1>3, <1>4, <1>8, <2>1 DEF S
<1> QED
  BY <1>9, <1>10

(* A node of the list is unlinked and freed.                                *)
LEMMA DeleteNode ==
    ASSUME NEW m \in Mem, head \in Addr \cup {NULL},
           ~Endless(m.heap, head), NEW box \in Listed(m.heap, head)
    PROVE  LET d == delete_box(m, box)
           IN  /\ d.mem \in Mem /\ d.head \in Addr \cup {NULL}
               /\ d.mem.avail = m.avail \cup {box}
               /\ d.mem.heap[box].box_name = Garbage
               /\ \A a \in Addr \ {box} : d.mem.heap[a].box_name = m.heap[a].box_name
               /\ \A a \in Addr : /\ d.mem.heap[a].hasWriter = m.heap[a].hasWriter
                                  /\ d.mem.heap[a].n_readers = m.heap[a].n_readers
               /\ Listed(d.mem.heap, d.head) \subseteq Listed(m.heap, head)
<1> DEFINE w == Walk(m.heap, head)
           at == CHOOSE i \in Steps : w[i] = box /\ \A j \in 0 .. i - 1 : w[j] # box
           p == w[at - 1]
           unlinked == [m.heap EXCEPT ![p].next = m.heap[box].next]
           cut == [m EXCEPT !.heap = unlinked]
           S == Listed(m.heap, head)
<1>1. delete_box(m, box) = IF box = head THEN [mem |-> free(m, box), head |-> m.heap[box].next]
                           ELSE [mem |-> free(cut, box), head |-> head]
  BY DEF delete_box
<1>2. /\ head \in S \cup {NULL} /\ \A a \in S : m.heap[a].next \in S \cup {NULL}
      /\ NULL \notin S /\ S \subseteq Addr /\ box \in S /\ m.heap \in [Addr -> Node]
  BY ListIsClosed, HeapLinks DEF Mem
<1>3. free(m, box) \in Mem /\ \A a \in S : free(m, box).heap[a].next \in S \cup {NULL}
  BY <1>2, FreeNode
<1>4. Listed(free(m, box).heap, m.heap[box].next) \subseteq S
  <2> DEFINE f == free(m, box).heap
             second == m.heap[box].next
  <2> HIDE DEF S
  <2>1. second \in S \cup {NULL} /\ NULL \notin S /\ \A a \in S : f[a].next \in S \cup {NULL}
    BY <1>2, <1>3
  <2> HIDE DEF f, second
  <2>2. Listed(f, second) \subseteq S
    BY <2>1, WalkStays
  <2> QED
    BY <2>2 DEF f, second
<1> HIDE DEF p
<1>5. CASE box = head
  <2>1. delete_box(m, box).mem = free(m, box) /\ delete_box(m, box).head = m.heap[box].next
    BY <1>1, <1>5
  <2> QED
    BY <1>2, <1>4, <2>1, FreeNode
<1>6. CASE box # head
  <2>1. delete_box(m, box).mem = free(cut, box) /\ delete_box(m, box).head = head
    BY <1>1, <1>6
  <2>2. /\ unlinked \in [Addr -> Node]
        /\ \A a \in Addr : /\ unlinked[a].box_name = m.heap[a].box_name
                           /\ unlinked[a].hasWriter = m.heap[a].hasWriter
                           /\ unlinked[a].n_readers = m.heap[a].n_readers
                           /\ unlinked[a].next = IF a = p THEN m.heap[box].next ELSE m.heap[a].next
    BY <1>2 DEF Node
  <2> HIDE DEF unlinked
  <2>3. cut \in Mem /\ cut.heap = unlinked /\ cut.avail = m.avail
    BY <2>2 DEF Mem
  <2> HIDE DEF cut
  <2>4. /\ free(cut, box) \in Mem /\ free(cut, box).avail = m.avail \cup {box}
        /\ free(cut, box).heap[box].box_name = Garbage
        /\ \A b \in Addr \ {box} : free(cut, box).heap[b] = unlinked[b]
        /\ \A b \in Addr : /\ free(cut, box).heap[b].next = unlinked[b].next
                           /\ free(cut, box).heap[b].hasWriter = unlinked[b].hasWriter
                           /\ free(cut, box).heap[b].n_readers = unlinked[b].n_readers
    BY <1>2, <2>2, <2>3, FreeNode
  <2>5. \A a \in S : free(cut, box).heap[a].next \in S \cup {NULL}
    BY <1>2, <2>2, <2>4
  <2>6. Listed(free(cut, box).heap, head) \subseteq S
    BY <1>2, <2>5, WalkStays
  <2> QED
    BY <1>2, <2>1, <2>2, <2>4, <2>6
<1> QED
  BY <1>5, <1>6

(* An empty list has no nodes.                                              *)
LEMMA NoNodes ==
    ASSUME NEW h
    PROVE  Listed(h, NULL) = {}
<1> DEFINE E == {}
<1>1. NULL \in E \cup {NULL} /\ NULL \notin E /\ \A a \in E : h[a].next \in E \cup {NULL}
  OBVIOUS
<1> HIDE DEF E
<1>2. Listed(h, NULL) \subseteq E
  BY <1>1, WalkStays
<1> QED
  BY <1>2 DEF E

(* insert_box() makes the list one node longer.                             *)
LEMMA InsertLists ==
    ASSUME NEW h \in [Addr -> Node], NEW new \in Addr, head \in Addr \cup {NULL},
           ~Endless(h, head), new \notin Listed(h, head)
    PROVE  LET l == insert_box(h, new)
           IN  /\ ~Endless(l.heap, l.head)
               /\ Listed(l.heap, l.head) = Listed(h, head) \cup {new}
<1> DEFINE ended == [h EXCEPT ![new].next = NULL]
           last == CHOOSE a \in Listed(ended, head) : ended[a].next = NULL
           g == [ended EXCEPT ![last].next = new]
           S == Listed(h, head)
<1>1. insert_box(h, new) = IF head = NULL THEN [heap |-> ended, head |-> new]
                           ELSE [heap |-> g, head |-> head]
  BY DEF insert_box
<1>2. /\ head \in S \cup {NULL} /\ \A a \in S : h[a].next \in S \cup {NULL}
      /\ NULL \notin Addr /\ S \subseteq Addr /\ NULL \notin S /\ new \notin S
  BY ListIsClosed, HeapLinks
<1>3. /\ ended \in [Addr -> Node] /\ ended[new].next = NULL
      /\ \A a \in Addr \ {new} : ended[a].next = h[a].next
  BY DEF Node
<1> HIDE DEF ended, S
<1>4. \A a \in S : ended[a].next = h[a].next
  BY <1>2, <1>3
<1>5. CASE head = NULL
  <2>1. S = {}
    BY <1>5, NoNodes DEF S
  <2>2. /\ new = IF head = NULL THEN new ELSE head
        /\ \A a \in Listed(h, head) : ended[a].next = IF h[a].next = NULL THEN new ELSE h[a].next
        /\ ended[new].next = NULL /\ Listed(h, head) \subseteq Addr /\ NULL \notin Addr
        /\ new \notin Listed(h, head) /\ ~Endless(h, head) /\ new \in Addr
    BY <1>2, <1>3, <1>5, <2>1 DEF S
  <2>3. ~Endless(ended, new) /\ Listed(ended, new) = Listed(h, head) \cup {new}
    BY ONLY <2>2, Appended
  <2>4. insert_box(h, new).heap = ended /\ insert_box(h, new).head = new
    BY <1>1, <1>5
  <2> QED
    BY <2>3, <2>4
<1>6. CASE head # NULL
  <2>1. Listed(ended, head) = S
    <3>1. \A a \in S : h[a].next \in S \cup {NULL} /\ ended[a].next = h[a].next
      BY <1>2, <1>4
    <3>2. Listed(ended, head) = Listed(h, head)
      BY ONLY <1>2, <3>1, SameWalk
    <3> QED
      BY <3>2 DEF S
  <2>2. \E a \in S : h[a].next = NULL
    <3> DEFINE w == Walk(h, head)
    <3>1. PICK n \in Steps : /\ \A i \in Steps : w[i] # NULL <=> i < n
                             /\ w[0] = head
                             /\ \A i \in 0 .. n - 1 : w[i] # NULL /\ h[w[i]].next = w[i + 1]
                             /\ S = {w[i] : i \in 0 .. n - 1}
      BY ListShape DEF S
    <3> HIDE DEF w
    <3>2. n \in Nat /\ 0 \in Steps
      BY StepsAreNaturals
    <3>3. 0 < n
      BY <1>6, <3>1, <3>2
    <3>4. n - 1 \in 0 .. n - 1 /\ (n - 1) + 1 = n
      BY <3>2, <3>3
    <3> QED
      BY <3>1, <3>2, <3>4
  <2>3. \A a, b \in S : h[a].next = NULL /\ h[b].next = NULL => a = b
    <3> DEFINE w == Walk(h, head)
    <3>1. PICK n \in Steps : /\ \A i \in Steps : w[i] # NULL <=> i < n
                             /\ w[0] = head
                             /\ \A i \in 0 .. n - 1 : w[i] # NULL /\ h[w[i]].next = w[i + 1]
                             /\ S = {w[i] : i \in 0 .. n - 1}
      BY ListShape DEF S
    <3> HIDE DEF w
    <3>2. n \in Nat /\ \A i \in 0 .. n - 1 : i + 1 \in Steps /\ (i + 1 < n \/ i = n - 1)
      BY StepsAreNaturals
    <3>3. \A i \in 0 .. n - 1 : h[w[i]].next = NULL => i = n - 1
      BY <3>1, <3>2
    <3> QED
      BY <3>1, <3>3
  <2>4. last \in S /\ h[last].next = NULL
    BY <1>4, <2>1, <2>2
  <2> HIDE DEF last
  <2>5. \A a \in Addr : g[a].next = IF a = last THEN new ELSE ended[a].next
    BY <1>3 DEF Node
  <2> HIDE DEF g
  <2>6. g[new].next = NULL
    BY <1>2, <1>3, <2>4, <2>5
  <2>7. \A a \in S : g[a].next = IF h[a].next = NULL THEN new ELSE h[a].next
    BY <1>2, <1>4, <2>3, <2>4, <2>5
  <2>8. /\ head = IF head = NULL THEN new ELSE head
        /\ \A a \in Listed(h, head) : g[a].next = IF h[a].next = NULL THEN new ELSE h[a].next
        /\ g[new].next = NULL /\ Listed(h, head) \subseteq Addr /\ NULL \notin Addr
        /\ new \notin Listed(h, head) /\ ~Endless(h, head) /\ new \in Addr
    BY <1>2, <1>6, <2>6, <2>7 DEF S
  <2>9. ~Endless(g, head) /\ Listed(g, head) = Listed(h, head) \cup {new}
    BY ONLY <2>8, Appended
  <2>10. insert_box(h, new).heap = g /\ insert_box(h, new).head = head
    BY <1>1, <1>6 DEF g, last
  <2> QED
    BY <2>9, <2>10
<1> QED
  BY <1>5, <1>6

(* delete_box() takes the node it frees out of the list, and no other.      *)
LEMMA DeleteLists ==
    ASSUME NEW m \in Mem, head \in Addr \cup {NULL},
           ~Endless(m.heap, head), NEW box \in Listed(m.heap, head)
    PROVE  LET d == delete_box(m, box)
           IN  /\ ~Endless(d.mem.heap, d.head)
               /\ Listed(d.mem.heap, d.head) = Listed(m.heap, head) \ {box}
<1> DEFINE h == m.heap
           w == Walk(h, head)
           at == CHOOSE i \in Steps : w[i] = box /\ \A j \in 0 .. i - 1 : w[j] # box
           unlinked == [m.heap EXCEPT ![w[at - 1]].next = m.heap[box].next]
           cut == [m EXCEPT !.heap = unlinked]
           S == Listed(h, head)
<1>1. delete_box(m, box) = IF box = head THEN [mem |-> free(m, box), head |-> m.heap[box].next]
                           ELSE [mem |-> free(cut, box), head |-> head]
  BY DEF delete_box
<1>2. h \in [Addr -> Node] /\ S \subseteq Addr /\ NULL \notin Addr
  BY HeapLinks DEF Mem
<1>3. PICK n \in Steps :
          /\ \A i \in Steps : w[i] # NULL <=> i < n
          /\ w[0] = head
          /\ \A i \in 0 .. n - 1 : w[i] # NULL /\ h[w[i]].next = w[i + 1]
          /\ \A i, j \in 0 .. n - 1 : w[i] = w[j] => i = j
          /\ S = {w[i] : i \in 0 .. n - 1}
  BY ListShape
<1> HIDE DEF w
<1>4. PICK k \in 0 .. n - 1 : w[k] = box
  BY <1>3
<1>5. n \in Nat /\ k \in Nat /\ 0 .. n - 1 \subseteq Steps /\ n \in Steps /\ w[n] = NULL
  BY <1>3, StepsAreNaturals
<1>6. \A a \in S : h[a].next = box => k # 0 /\ a = w[k - 1]
  <2>1. ASSUME NEW i \in 0 .. n - 1, h[w[i]].next = box
        PROVE  k # 0 /\ i = k - 1
    <3>1. w[i + 1] = box /\ i \in Nat
      BY <1>3, <2>1
    <3>2. i + 1 \in 0 .. n - 1
      <4>1. i + 1 # n
        BY <1>3, <1>4, <1>5, <3>1
      <4> QED
        BY <1>5, <4>1
    <3>3. i + 1 = k
      BY <1>3, <1>4, <3>1, <3>2
    <3> QED
      BY <3>1, <3>3
  <2> QED
    BY <1>3, <2>1
<1>7. CASE box = head
  <2>1. k = 0
    <3>1. 0 \in 0 .. n - 1
      BY <1>4, <1>5
    <3> QED
      BY <1>3, <1>4, <1>7, <3>1
  <2>2. \A a \in Addr : free(m, box).heap[a].next = h[a].next
    BY <1>2, FreeNode
  <2> DEFINE g == free(m, box).heap
             now == h[box].next
  <2>3. \A a \in S \ {box} : g[a].next = IF h[a].next = box THEN h[box].next ELSE h[a].next
    BY <1>2, <1>6, <2>1, <2>2
  <2>4. now = IF box = head THEN h[box].next ELSE head
    BY <1>7
  <2>5. ~Endless(h, head) /\ box \in Listed(h, head)
    OBVIOUS
  <2> HIDE DEF g, now, h
  <2>6. ~Endless(g, now) /\ Listed(g, now) = Listed(h, head) \ {box}
    BY ONLY <2>3, <2>4, <2>5, Unlinked
  <2>7. delete_box(m, box).mem.heap = g /\ delete_box(m, box).head = now
    BY <1>1, <1>7 DEF g, now, h
  <2> QED
    BY <2>6, <2>7 DEF h
<1>8. CASE box # head
  <2>1. k # 0 /\ k - 1 \in 0 .. n - 1 /\ (k - 1) + 1 = k
    BY <1>3, <1>4, <1>5, <1>8
  <2>2. at = k
    <3>1. k \in Steps /\ w[k] = box /\ \A j \in 0 .. k - 1 : w[j] # box
      <4>1. \A j \in 0 .. k - 1 : j \in 0 .. n - 1 /\ j # k
        BY <1>4, <1>5
      <4> QED
        BY <1>3, <1>4, <1>5, <4>1
    <3>2. \A i \in Steps : w[i] = box => i = k
      <4>1. ASSUME NEW i \in Steps, w[i] = box
            PROVE  i = k
        <5>1. w[i] # NULL /\ i \in Nat
          BY <1>3, <1>4, <4>1, StepsAreNaturals
        <5>2. i \in 0 .. n - 1
          BY <1>3, <1>5, <5>1
        <5> QED
          BY <1>3, <1>4, <4>1, <5>2
      <4> QED
        BY <4>1
    <3> QED
      BY <3>1, <3>2
  <2> HIDE DEF at
  <2>3. /\ unlinked \in [Addr -> Node]
        /\ \A a \in Addr : unlinked[a].next = IF a = w[k - 1] THEN h[box].next ELSE h[a].next
    <3>1. unlinked = [h EXCEPT ![w[k - 1]].next = h[box].next]
      BY <2>2
    <3>2. h[box] \in Node /\ box \in Addr
      BY <1>2
    <3> HIDE DEF unlinked, h
    <3>3. h[box].next \in Addr \cup {NULL}
      BY <3>2 DEF Node
    <3> QED
      BY ONLY <1>2, <3>1, <3>3 DEF Node
  <2> HIDE DEF unlinked
  <2>4. cut \in Mem /\ cut.heap = unlinked
    BY <2>3 DEF Mem
  <2> HIDE DEF cut
  <2> DEFINE g == free(cut, box).heap
  <2>5. \A a \in Addr : g[a].next = unlinked[a].next
    <3>1. box \in Addr
      BY <1>2
    <3>2. \A a \in Addr : g[a].next = cut.heap[a].next
      BY ONLY <2>4, <3>1, FreeNode
    <3> QED
      BY <2>4, <3>2
  <2> HIDE DEF g
  <2>6. h[w[k - 1]].next = box
    BY <1>3, <1>4, <2>1
  <2>7. \A a \in S \ {box} : g[a].next = IF h[a].next = box THEN h[box].next ELSE h[a].next
    BY <1>2, <1>6, <2>3, <2>5, <2>6
  <2>8. /\ head = IF box = head THEN h[box].next ELSE head
        /\ ~Endless(h, head) /\ box \in Listed(h, head)
    BY <1>8
  <2> HIDE DEF h
  <2>9. ~Endless(g, head) /\ Listed(g, head) = Listed(h, head) \ {box}
    BY ONLY <2>7, <2>8, Unlinked
  <2>10. delete_box(m, box).mem.heap = g /\ delete_box(m, box).head = head
    BY <1>1, <1>8 DEF g
  <2> QED
    BY <2>9, <2>10 DEF h
<1> QED
  BY <1>7, <1>8

=============================================================================
