--------------------------- MODULE RefreshTokens ---------------------------
(***************************************************************************)
(* Refresh tokens: AuthLogoutService and the token pairs of                *)
(* AuthUtilsService.  A pair given with a session id, as every sign-in     *)
(* does, has no row; rows come from refreshing and from the time before    *)
(* there were session ids.  Access tokens, which nobody stores, are left   *)
(* out, and so is the cached session, which nothing reads.                 *)
(***************************************************************************)
EXTENDS Naturals, FiniteSets

CONSTANTS
    Accounts,
    Tokens,      \* bound: the refresh tokens that can be given
    Old,         \* the tokens that had a row before there were session ids
    Requests,    \* bound: handlers in flight at the same time
    None

\* What is assumed of the constants; Services assumes it of each instance.
RefreshTokensAssumption ==
    /\ None \notin Accounts \cup Tokens
    /\ Old \subseteq Tokens
    /\ IsFiniteSet(Tokens)
    /\ IsFiniteSet(Requests) /\ Requests # {}

VARIABLES
    accounts,  \* the User rows that exist
    tok,       \* tok[t]: what became of a token
    left,      \* history: the tokens that a logout has revoked
    req        \* req[r]: the handler that runs in slot r

vars == <<accounts, tok, left, req>>

Tok == [state   : {"unborn", "unsaved", "there", "gone"},
        of      : Accounts \cup {None},
        expired : BOOLEAN,
        given   : {"never", "old", "sign-in", "refresh"},   \* history: by what
        from    : Tokens \cup {None},    \* history: the token it was refreshed from
        late    : BOOLEAN]               \* history: after a logout with that one

Request == [pc : {"idle", "user", "dead", "revoke", "create"},
            tok : Tokens \cup {None}]    \* the token presented, and found

Idle == [pc |-> "idle", tok |-> None]
Unborn == [state |-> "unborn", of |-> None, expired |-> FALSE, given |-> "never",
           from |-> None, late |-> FALSE]

\* A row belongs to an account that exists.
TypeOK ==
    /\ accounts \subseteq Accounts
    /\ tok \in [Tokens -> Tok]
    /\ left \subseteq Tokens
    /\ req \in [Requests -> Request]
    /\ \A t \in Tokens : tok[t].state = "there" => tok[t].of \in accounts
    /\ \A r \in Requests : req[r] # Idle => req[r].tok # None

Init ==
    /\ accounts = Accounts
    /\ \E owner \in [Old -> Accounts] :
          tok = [t \in Tokens |-> IF t \notin Old THEN Unborn
                    ELSE [Unborn EXCEPT !.state = "there", !.of = owner[t], !.given = "old"]]
    /\ left = {}
    /\ req = [r \in Requests |-> Idle]

-----------------------------------------------------------------------------

At(r, where) == req[r].pc = where
Goto(r, where) == req' = [req EXCEPT ![r].pc = where]
Finish(r) == req' = [req EXCEPT ![r] = Idle]

\* deleteMany: to delete a row that is gone is no error.
Revoke(t) == tok' = [tok EXCEPT ![t].state = IF tok[t].state = "there" THEN "gone" ELSE tok[t].state]

\* generateTokenPairAndSave with a session id, at the end of a login, a
\* verification or a Google sign-in: the refresh token has no row.
SignedIn(a, t) ==
    /\ a \in accounts
    /\ tok[t].state = "unborn"
    /\ tok' = [tok EXCEPT ![t] = [Unborn EXCEPT !.state = "unsaved", !.of = a, !.given = "sign-in"]]
    /\ UNCHANGED <<accounts, left, req>>

\* Any string can be presented; without a row it is refused at once.
RefreshFind(r, t) ==
    /\ req[r] = Idle
    /\ tok[t].state = "there"
    /\ req' = [req EXCEPT ![r] = [pc |-> IF tok[t].expired THEN "dead" ELSE "user", tok |-> t]]
    /\ UNCHANGED <<accounts, tok, left>>

RefreshUser(r) ==
    /\ At(r, "user")
    /\ Goto(r, IF tok[req[r].tok].of \in accounts THEN "revoke" ELSE "dead")
    /\ UNCHANGED <<accounts, tok, left>>

\* The token is expired or its user is gone: it is deleted and refused.
RefreshDead(r) ==
    /\ At(r, "dead")
    /\ Revoke(req[r].tok)
    /\ Finish(r)
    /\ UNCHANGED <<accounts, left>>

\* Mutant: the token that was presented stays.
RefreshRevokeNot(r) ==
    /\ At(r, "revoke")
    /\ Goto(r, "create")
    /\ UNCHANGED <<accounts, tok, left>>

\* Whether a row was deleted is not looked at.
RefreshRevoke(r) ==
    /\ At(r, "revoke")
    /\ Revoke(req[r].tok)
    /\ Goto(r, "create")
    /\ UNCHANGED <<accounts, left>>

\* The next token has no session id, and a row.
RefreshCreate(r, t) ==
    LET old == req[r].tok IN
    /\ At(r, "create")
    /\ tok[old].of \in accounts
    /\ tok[t].state = "unborn"
    /\ tok' = [tok EXCEPT ![t] = [state |-> "there", of |-> tok[old].of, expired |-> FALSE,
                                  given |-> "refresh", from |-> old, late |-> old \in left]]
    /\ Finish(r)
    /\ UNCHANGED <<accounts, left>>

\* Mutant: the token stays.
LogoutOnly(r, t) ==
    /\ req[r] = Idle
    /\ tok[t].state # "unborn"
    /\ left' = left \cup {t}
    /\ UNCHANGED <<accounts, tok, req>>

\* The signed-in user names a token; whose it is, is not looked at.
Logout(r, t) ==
    /\ req[r] = Idle
    /\ tok[t].state # "unborn"
    /\ Revoke(t)
    /\ left' = left \cup {t}
    /\ UNCHANGED <<accounts, req>>

\* The tokens of an account go with it.
DeleteAccount(a) ==
    /\ a \in accounts
    /\ accounts' = accounts \ {a}
    /\ tok' = [t \in Tokens |-> IF tok[t].state = "there" /\ tok[t].of = a
                                THEN [tok[t] EXCEPT !.state = "gone"] ELSE tok[t]]
    /\ UNCHANGED <<left, req>>

Expire(t) ==
    /\ tok[t].state = "there" /\ ~tok[t].expired
    /\ tok' = [tok EXCEPT ![t].expired = TRUE]
    /\ UNCHANGED <<accounts, left, req>>

\* The operation that a handler is about to perform fails, or the process stops.
Fail(r) ==
    /\ req[r] # Idle
    /\ Finish(r)
    /\ UNCHANGED <<accounts, tok, left>>

Next ==
    \/ \E r \in Requests :
          \/ RefreshUser(r)
          \/ RefreshDead(r)
          \/ RefreshRevoke(r)
          \/ Fail(r)
          \/ \E t \in Tokens : RefreshFind(r, t) \/ RefreshCreate(r, t) \/ Logout(r, t)
    \/ \E a \in Accounts : DeleteAccount(a) \/ \E t \in Tokens : SignedIn(a, t)
    \/ \E t \in Tokens : Expire(t)

Spec == Init /\ [][Next]_vars

-----------------------------------------------------------------------------
(* Properties *)

From(t) == {n \in Tokens : tok[n].from = t}

\* A token is meant to be used once.  Refreshes that find it before one of them
\* deletes it each give a token for it, but no more than run at once.  The one
\* that a sign-in gave is never refreshed, since it has no row at any time.
PairsBounded == \A t \in Tokens :
    Cardinality(From(t)) <= IF tok[t].given = "sign-in" THEN 0 ELSE Cardinality(Requests)

\* After a logout that names a token nothing is refreshed from that one, but by
\* refreshes that had found it: fewer than run at once, as the logout is one of
\* those.  It says nothing of the other tokens of the account, nor of those that
\* were refreshed from this one before: they go on, as the logout ends none of them.
LogoutBounded ==
    \A t \in Tokens : Cardinality({n \in From(t) : tok[n].late}) < Cardinality(Requests)
=============================================================================
