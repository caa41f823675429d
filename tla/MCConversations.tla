-------------------------- MODULE MCConversations --------------------------
(* Small instances of Conversations for TLC. *)
EXTENDS Conversations, TLC

CONSTANTS u1, u2, c1, r1, r2

\* No user, conversation or handler slot is named by the specification.
Interchangeable == Permutations(Users) \cup Permutations(Convs) \cup Permutations(Requests)
=============================================================================
