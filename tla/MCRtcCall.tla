----------------------------- MODULE MCRtcCall -----------------------------
(* Small instances of RtcCall for TLC. *)
EXTENDS RtcCall, TLC

CONSTANTS u1, u2, v1, c1, c2, c3, k1, k2, r1, r2, r3

OneUser == {u1}
TwoUsers == {u1, u2}
EveryoneIn(users) == [v \in Conversations |-> users]
One == EveryoneIn(OneUser)
Two == EveryoneIn(TwoUsers)

\* No guard reads who joined, and neither a guard nor the property about unanswered
\* calls reads the history.
RowsAndHandlers == <<accounts, convs, call, part, left, req>>

\* No guard reads which candidates were acknowledged; the property that does is
\* checked in another instance.
AllButAcked == <<rows, sent, cut, late, req>>

\* Users of one conversation, calls, candidates and handler slots are
\* interchangeable; none of them is named by the specification.
Interchangeable ==
    Permutations(Users) \cup Permutations(CallIds) \cup Permutations(Requests)
        \cup Permutations(Candidates)
=============================================================================
