----------------------------- MODULE MCServices -----------------------------
(***************************************************************************)
(* A small instance of Services for TLC: two or three handlers at a time.  *)
(***************************************************************************)
EXTENDS Services, TLC

CONSTANTS
    n1, n2, w,   \* "a b.png", "a_b.jpg" and "a_b.webp"
    p1, p2

\* What blanks and compression make of two names that the client tells apart.
Blanks == [n \in {n1, n2} |-> n]
Packed == [n \in {n1, n2} |-> w]

\* The two slots are not told apart, nor are the sockets, files and later tokens, nor
\* the two accounts of sign-in and presence, which are named nowhere else.
Interchangeable == Permutations(Slots) \cup Permutations(Ids) \cup Permutations(MoreUsers)
=============================================================================
