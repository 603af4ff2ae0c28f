--------------------------- MODULE MCBoxRegistry ---------------------------
(* BoxRegistry for TLC: two boxes and a name that cannot be created, four   *)
(* addresses (two boxes, a node freed while linked, and find_box()'s),      *)
(* room for as many files as names, and two handles to lose.                *)
EXTENDS BoxRegistry, TLC

CONSTANTS x, y, slash, a1, a2, a3, a4

MCBox == {x, y, slash}
MCCreatableBox == {x, y}
MCAddr == {a1, a2, a3, a4}

(* Names and addresses are compared for equality only.                      *)
Symmetry == Permutations(MCCreatableBox) \cup Permutations(MCAddr)

=============================================================================
