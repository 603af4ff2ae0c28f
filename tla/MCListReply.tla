----------------------------- MODULE MCListReply -----------------------------
(* ListReply for TLC, with the sizes of the code.                           *)
EXTENDS ListReply

=============================================================================
