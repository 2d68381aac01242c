----------------------------- MODULE MCBackend -----------------------------
(***************************************************************************)
(* Instances of Backend for TLC: every conversation belongs to the first   *)
(* user.                                                                   *)
(***************************************************************************)
EXTENDS Backend

CONSTANT FirstUser
OwnedByFirst == [c \in Conversations |-> FirstUser]
=============================================================================
