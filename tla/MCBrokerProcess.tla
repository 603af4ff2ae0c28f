-------------------------- MODULE MCBrokerProcess --------------------------
(* BrokerProcess for TLC: two clients that may ask for anything, and one    *)
(* that may create a box, so that the list may be a cycle when the third    *)
(* request is served.                                                       *)
EXTENDS BrokerProcess

CONSTANTS c1, c2, c3

MCClient == {c1, c2, c3}
MCOneCreates == [c \in MCClient |-> IF c = c3 THEN {"create"} ELSE Code]

(* The standard ones only, so that each client may have a descriptor; or so *)
(* many that one is left besides the register pipe.                         *)
MCInherited == {3, 5}

=============================================================================
