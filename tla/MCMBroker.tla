----------------------------- MODULE MCMBroker -----------------------------
(* MBroker for TLC: two to four clients, whatever they ask for, and one box *)
(* or two of which one may have room.                                       *)
EXTENDS MBroker, TLC

CONSTANTS x, y, a1, a2, a3, c1, c2, c3, c4

MCTwoBox == {x, y}
MCAddr == {a1, a2, a3}
MCTwoClient == {c1, c2}
MCFourClient == {c1, c2, c3, c4}
MCCode == {"publish", "subscribe", "create", "remove", "list"}

Wants(codes, boxes) == [code : codes, box : boxes]

(* Two clients, any requests.                                               *)
MCAnything == {[c \in MCTwoClient |-> Wants(MCCode, MCTwoBox)]}

(* Three clients ask for anything about one box.                            *)
MCThreeOfAnyKind == {[c \in MCFourClient |-> IF c = c4 THEN {} ELSE Wants(MCCode, {x})]}

(* Three creations, as many as it takes to make the list a cycle, and a     *)
(* manager that has the list walked, at any point among them.               *)
MCCycle ==
    {[c \in MCFourClient |-> IF c = c4 THEN Wants({"create", "remove", "list"}, MCTwoBox)
                                       ELSE Wants({"create"}, MCTwoBox)]}

MCThreeOrFour == MCThreeOfAnyKind \cup MCCycle

(* These clients, and addresses, are compared for equality only.            *)
Symmetry == Permutations(MCAddr) \cup Permutations({c1, c2, c3})

=============================================================================
