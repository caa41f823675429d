-------------------------- MODULE MCPasswordReset --------------------------
(* Small instances of PasswordReset for TLC. *)
EXTENDS PasswordReset, TLC

CONSTANTS u1, u2, p1, p2, t1, t2, t3, r1, r2

OneUser == {u1}
TwoUsers == {u1, u2}

\* With one password to choose, every guard on passwords is true in every state.
AllButPasswords == <<accounts, otp, token, history, req>>

\* No user, password, token or handler slot is named by the specification.
Interchangeable ==
    Permutations(Users) \cup Permutations(Passwords) \cup Permutations(Tokens)
        \cup Permutations(Requests)
=============================================================================
