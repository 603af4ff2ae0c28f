--------------------------- MODULE AbstractBoxes ---------------------------
(***************************************************************************)
(* What the broker promises of its boxes: a set of names, of which at most *)
(* one is in use at a time.  No list, no nodes, no files.  BoxRegistry is  *)
(* shown to implement it as long as no manager creates a box twice.        *)
(***************************************************************************)
CONSTANT Box

VARIABLE boxes    (* the boxes that exist, and how each is used             *)

Put(b, use) == [c \in DOMAIN boxes \cup {b} |-> IF c = b THEN use ELSE boxes[c]]

AllIdle == \A b \in DOMAIN boxes : boxes[b] = "idle"

Init == boxes = [b \in {} |-> "idle"]

Create(b) ==
    /\ b \notin DOMAIN boxes /\ AllIdle
    /\ boxes' = Put(b, "idle")

Remove(b) ==
    /\ b \in DOMAIN boxes /\ AllIdle
    /\ boxes' = [c \in DOMAIN boxes \ {b} |-> boxes[c]]

(* A session begins; only a publisher's ends.                               *)
Begin(b, use) ==
    /\ b \in DOMAIN boxes /\ AllIdle
    /\ boxes' = Put(b, use)

EndPublishing(b) ==
    /\ b \in DOMAIN boxes /\ boxes[b] = "publishing"
    /\ boxes' = Put(b, "idle")

Next ==
    \E b \in Box :
        \/ Create(b)
        \/ Remove(b)
        \/ \E use \in {"publishing", "relaying"} : Begin(b, use)
        \/ EndPublishing(b)

Spec == Init /\ [][Next]_boxes

=============================================================================
