------------------------ MODULE RefreshTokensProofs ------------------------
(***************************************************************************)
(* What holds of RefreshTokens for any number of accounts, tokens and      *)
(* requests in flight, with expiry, logouts, deletions and failures.       *)
(***************************************************************************)
EXTENDS RefreshTokens, FiniteSetTheorems, TLAPS

-----------------------------------------------------------------------------
(* Lemmas about counting *)

\* Two finite sets that lose elements stay within the bound on their sizes.
LEMMA BothShrink ==
  ASSUME NEW X, IsFiniteSet(X), NEW Y, IsFiniteSet(Y),
         NEW C \in SUBSET X, NEW D \in SUBSET Y,
         NEW n \in Int, Cardinality(X) + Cardinality(Y) <= n
  PROVE  Cardinality(C) + Cardinality(D) <= n
  <1>1. /\ Cardinality(C) <= Cardinality(X) /\ IsFiniteSet(C)
        /\ Cardinality(D) <= Cardinality(Y) /\ IsFiniteSet(D)
    BY FS_Subset
  <1>2. /\ Cardinality(X) \in Nat /\ Cardinality(Y) \in Nat
        /\ Cardinality(C) \in Nat /\ Cardinality(D) \in Nat
    BY <1>1, FS_CardinalityType
  <1> QED
    BY <1>1, <1>2

\* So do they when the first gains an element for one that the second loses.
LEMMA Exchange ==
  ASSUME NEW X, IsFiniteSet(X), NEW Y, IsFiniteSet(Y),
         NEW x, NEW C \in SUBSET (X \cup {x}), NEW y \in Y, NEW D \in SUBSET (Y \ {y}),
         NEW n \in Int, Cardinality(X) + Cardinality(Y) <= n
  PROVE  Cardinality(C) + Cardinality(D) <= n
  <1>1. /\ IsFiniteSet(X \cup {x})
        /\ Cardinality(X \cup {x}) \in {Cardinality(X), Cardinality(X) + 1}
    BY FS_AddElement
  <1>2. IsFiniteSet(Y \ {y}) /\ Cardinality(Y \ {y}) = Cardinality(Y) - 1
    BY FS_RemoveElement
  <1>3. /\ Cardinality(X) \in Nat /\ Cardinality(Y) \in Nat
        /\ Cardinality(X \cup {x}) \in Nat /\ Cardinality(Y \ {y}) \in Nat
    BY <1>1, <1>2, FS_CardinalityType
  <1>4. Cardinality(X \cup {x}) + Cardinality(Y \ {y}) <= n
    BY <1>1, <1>2, <1>3
  <1> QED
    BY <1>1, <1>2, <1>4, BothShrink

-----------------------------------------------------------------------------
(* The invariant *)

\* The requests that have found t, and what was refreshed from it after a logout.
Using(t) == {r \in Requests : req[r].tok = t}
After(t) == {n \in From(t) : tok[n].late}

\* A request that has found a token holds one that has, or had, a row, and one
\* that is about to give the next has seen its row go.
Holding ==
  \A r \in Requests :
     /\ req[r] # Idle => tok[req[r].tok].state \in {"there", "gone"}
     /\ At(r, "create") => tok[req[r].tok].state = "gone"

\* A token that was refreshed, or left, has no row, and one of a sign-in never had.
Spent ==
  \A t \in Tokens :
     /\ From(t) # {} => tok[t].state = "gone"
     /\ t \in left => tok[t].state \in {"gone", "unsaved"}
     /\ tok[t].given = "sign-in" => tok[t].state = "unsaved"

\* What was refreshed from a token and what may still be is no more than runs at
\* once; after a logout it is less, since that is a request too.
Counted ==
  \A t \in Tokens :
     /\ Cardinality(From(t)) + Cardinality(Using(t)) <= Cardinality(Requests)
     /\ IF t \in left THEN Cardinality(After(t)) + Cardinality(Using(t)) <= Cardinality(Requests) - 1
                      ELSE After(t) = {}

TokInv == TypeOK /\ Holding /\ Spent /\ Counted

-----------------------------------------------------------------------------
(* Lemmas about tokens and requests *)

LEMMA IdleType == Idle \in Request
  BY DEF Idle, Request

\* What a request that runs holds is a token.
LEMMA HoldsToken ==
  ASSUME RefreshTokensAssumption, TypeOK, NEW r \in Requests, req[r] # Idle
  PROVE  /\ req[r] = [pc |-> req[r].pc, tok |-> req[r].tok]
         /\ req[r].tok \in Tokens
         /\ r \in Using(req[r].tok)
  BY DEF TypeOK, Request, Using

LEMMA Finite ==
  ASSUME RefreshTokensAssumption, NEW t
  PROVE  /\ IsFiniteSet(From(t)) /\ IsFiniteSet(Using(t)) /\ IsFiniteSet(After(t))
         /\ Cardinality(Requests) \in Nat \ {0}
  <1>1. From(t) \subseteq Tokens /\ Using(t) \subseteq Requests /\ After(t) \subseteq Tokens
    BY DEF From, Using, After
  <1>2. Cardinality(Requests) \in Nat /\ Cardinality(Requests) # 0
    BY FS_CardinalityType, FS_EmptySet DEF RefreshTokensAssumption
  <1> QED
    BY <1>1, <1>2, FS_Subset DEF RefreshTokensAssumption

\* A step after which less was refreshed from t, and less may still be, keeps its count.
LEMMA CountShrinks ==
  ASSUME RefreshTokensAssumption, Counted, NEW t \in Tokens,
         From(t)' \subseteq From(t), Using(t)' \subseteq Using(t),
         After(t)' \subseteq After(t), (t \in left') <=> (t \in left)
  PROVE  /\ Cardinality(From(t)') + Cardinality(Using(t)') <= Cardinality(Requests)
         /\ IF t \in left'
            THEN Cardinality(After(t)') + Cardinality(Using(t)') <= Cardinality(Requests) - 1
            ELSE After(t)' = {}
  <1>1. /\ IsFiniteSet(From(t)) /\ IsFiniteSet(Using(t)) /\ IsFiniteSet(After(t))
        /\ Cardinality(Requests) \in Int /\ Cardinality(Requests) - 1 \in Int
    BY Finite
  <1>2. /\ Cardinality(From(t)) + Cardinality(Using(t)) <= Cardinality(Requests)
        /\ IF t \in left THEN Cardinality(After(t)) + Cardinality(Using(t)) <= Cardinality(Requests) - 1
                         ELSE After(t) = {}
    BY DEF Counted
  <1>3. Cardinality(From(t)') + Cardinality(Using(t)') <= Cardinality(Requests)
    BY <1>1, <1>2, BothShrink
  <1>4. CASE t \in left
    BY <1>1, <1>2, <1>3, <1>4, BothShrink
  <1>5. CASE t \notin left
    BY <1>2, <1>3, <1>5
  <1> QED
    BY <1>4, <1>5

LEMMA AllShrink ==
  ASSUME RefreshTokensAssumption, Counted, left' = left,
         \A t \in Tokens : /\ From(t)' \subseteq From(t)
                           /\ Using(t)' \subseteq Using(t)
                           /\ After(t)' \subseteq After(t)
  PROVE  Counted'
  <1> SUFFICES ASSUME NEW t \in Tokens
               PROVE  /\ Cardinality(From(t)') + Cardinality(Using(t)') <= Cardinality(Requests)
                      /\ IF t \in left'
                         THEN Cardinality(After(t)') + Cardinality(Using(t)') <= Cardinality(Requests) - 1
                         ELSE After(t)' = {}
    BY DEF Counted
  <1> QED
    BY CountShrinks

\* A step that only ages rows, and only ends requests or lets them go on, except
\* to the place where the next token is given.
LEMMA Aging ==
  ASSUME RefreshTokensAssumption, TokInv, TypeOK', left' = left,
         \A t \in Tokens :
            /\ tok'[t].from = tok[t].from /\ tok'[t].late = tok[t].late
            /\ tok'[t].given = tok[t].given
            /\ \/ tok'[t].state = tok[t].state
               \/ tok[t].state = "there" /\ tok'[t].state = "gone",
         \A r \in Requests :
            \/ req'[r] = req[r]
            \/ req'[r] = Idle
            \/ /\ req[r] # Idle /\ req'[r].tok = req[r].tok
               /\ req'[r].pc = "create" => tok'[req[r].tok].state = "gone"
  PROVE  TokInv'
  <1>1. \A r \in Requests : req[r] # Idle => req[r].tok \in Tokens
    BY HoldsToken DEF TokInv
  <1>2. ASSUME NEW t \in Tokens
        PROVE  /\ From(t)' = From(t) /\ After(t)' = After(t)
               /\ Using(t)' \subseteq Using(t)
    <2>1. Using(t)' \subseteq Using(t)
      BY DEF Using, Idle, RefreshTokensAssumption
    <2> QED
      BY <2>1 DEF From, After
  <1>3. Holding'
    BY <1>1 DEF TokInv, Holding, At, Idle
  <1>4. Spent'
    BY <1>2 DEF TokInv, Spent
  <1>5. Counted'
    BY <1>2, AllShrink DEF TokInv
  <1> QED
    BY <1>3, <1>4, <1>5 DEF TokInv

-----------------------------------------------------------------------------
(* The initial states and the steps *)

LEMMA TokInit == RefreshTokensAssumption /\ Init => TokInv
  <1> SUFFICES ASSUME RefreshTokensAssumption, Init
               PROVE  TokInv
    OBVIOUS
  <1>1. PICK owner \in [Old -> Accounts] :
          tok = [t \in Tokens |-> IF t \notin Old THEN Unborn
                    ELSE [Unborn EXCEPT !.state = "there", !.of = owner[t], !.given = "old"]]
    BY DEF Init
  <1>2. accounts = Accounts /\ left = {} /\ req = [r \in Requests |-> Idle]
    BY DEF Init
  <1>3. /\ Unborn \in Tok /\ Unborn.state = "unborn" /\ Unborn.from = None
        /\ Unborn.given = "never"
    BY DEF Unborn, Tok
  <1>4. ASSUME NEW t \in Tokens
        PROVE  /\ tok[t] \in Tok
               /\ tok[t].state = "there" => tok[t].of \in Accounts
               /\ tok[t].from = None /\ tok[t].given # "sign-in"
    BY <1>1 DEF Unborn, Tok
  <1>5. tok \in [Tokens -> Tok]
    BY <1>1, <1>4
  <1>6. TypeOK
    BY <1>2, <1>4, <1>5, IdleType DEF TypeOK
  <1>7. ASSUME NEW t \in Tokens
        PROVE  From(t) = {} /\ After(t) = {} /\ Using(t) = {}
    BY <1>2, <1>4 DEF From, After, Using, Idle, RefreshTokensAssumption
  <1>8. Holding /\ Spent
    BY <1>2, <1>4, <1>7 DEF Holding, Spent, At, Idle
  <1>9. Counted
    <2>1. Cardinality({}) = 0 /\ Cardinality(Requests) \in Nat
      BY FS_EmptySet, Finite
    <2> QED
      BY <1>2, <1>7, <2>1 DEF Counted
  <1> QED
    BY <1>6, <1>8, <1>9 DEF TokInv

LEMMA SignedInStep ==
  ASSUME RefreshTokensAssumption, TokInv,
         NEW a \in Accounts, NEW t \in Tokens, SignedIn(a, t)
  PROVE  TokInv'
  <1> DEFINE new == [Unborn EXCEPT !.state = "unsaved", !.of = a, !.given = "sign-in"]
  <1>1. /\ tok' = [tok EXCEPT ![t] = new] /\ tok[t].state = "unborn"
        /\ accounts' = accounts /\ left' = left /\ req' = req
    BY DEF SignedIn
  <1>2. /\ new \in Tok /\ new.state = "unsaved" /\ new.given = "sign-in" /\ new.from = None
    BY DEF Unborn, Tok
  <1> HIDE DEF new
  <1>3. \A s \in Tokens : tok'[s] = IF s = t THEN new ELSE tok[s]
    BY <1>1 DEF TokInv, TypeOK
  <1>4. TypeOK'
    BY <1>1, <1>2, <1>3 DEF TokInv, TypeOK
  <1>5. ASSUME NEW s \in Tokens
        PROVE  /\ From(s)' \subseteq From(s) /\ After(s)' \subseteq After(s)
               /\ Using(s)' = Using(s)
    BY <1>1, <1>2, <1>3 DEF From, After, Using, RefreshTokensAssumption
  <1>6. Holding'
    <2>1. \A r \in Requests : req[r] # Idle => req[r].tok \in Tokens /\ req[r].tok # t
      BY <1>1, HoldsToken DEF TokInv, Holding
    <2> QED
      BY <1>1, <1>3, <2>1 DEF TokInv, Holding, At, Idle
  <1>7. Spent'
    BY <1>1, <1>2, <1>3, <1>5 DEF TokInv, Spent
  <1>8. Counted'
    BY <1>1, <1>5, AllShrink DEF TokInv
  <1> QED
    BY <1>4, <1>6, <1>7, <1>8 DEF TokInv

\* A token that is found has a row, so nothing was refreshed from it yet.
LEMMA FindStep ==
  ASSUME RefreshTokensAssumption, TokInv, NEW r \in Requests, NEW t \in Tokens, RefreshFind(r, t)
  PROVE  TokInv'
  <1>1. PICK where \in {"dead", "user"} : req' = [req EXCEPT ![r] = [pc |-> where, tok |-> t]]
    BY DEF RefreshFind
  <1>2. /\ req[r] = Idle /\ tok[t].state = "there"
        /\ accounts' = accounts /\ tok' = tok /\ left' = left
    BY DEF RefreshFind
  <1>3. [pc |-> where, tok |-> t] \in Request
    BY DEF Request
  <1>4. \A s \in Requests : req'[s] = IF s = r THEN [pc |-> where, tok |-> t] ELSE req[s]
    BY <1>1 DEF TokInv, TypeOK
  <1>5. TypeOK'
    BY <1>1, <1>2, <1>3, <1>4 DEF TokInv, TypeOK, RefreshTokensAssumption
  <1>6. Holding'
    BY <1>2, <1>4 DEF TokInv, Holding, At
  <1>7. Spent'
    BY <1>2 DEF TokInv, Spent, From
  <1>8. Counted'
    <2> SUFFICES ASSUME NEW s \in Tokens
                 PROVE  /\ Cardinality(From(s)') + Cardinality(Using(s)') <= Cardinality(Requests)
                        /\ IF s \in left'
                           THEN Cardinality(After(s)') + Cardinality(Using(s)') <= Cardinality(Requests) - 1
                           ELSE After(s)' = {}
      BY DEF Counted
    <2>1. From(s)' = From(s) /\ After(s)' = After(s)
      BY <1>2 DEF From, After
    <2>2. CASE s = t
      <3>1. From(s)' = {} /\ After(s)' = {} /\ s \notin left'
        BY <1>2, <2>1, <2>2 DEF TokInv, Spent, After
      <3>2. Using(s)' \subseteq Requests
        BY DEF Using
      <3>3. /\ Cardinality(Using(s)') <= Cardinality(Requests) /\ Cardinality(Using(s)') \in Nat
            /\ Cardinality({}) = 0
        BY <3>2, FS_Subset, FS_CardinalityType, FS_EmptySet DEF RefreshTokensAssumption
      <3> QED
        BY <3>1, <3>3
    <2>3. CASE s # t
      <3>1. Using(s)' \subseteq Using(s)
        BY <1>4, <2>3 DEF Using
      <3> QED
        BY <1>2, <2>1, <3>1, CountShrinks DEF TokInv
    <2> QED
      BY <2>2, <2>3
  <1> QED
    BY <1>5, <1>6, <1>7, <1>8 DEF TokInv

\* The next token takes the place of the request that gives it.
LEMMA CreateStep ==
  ASSUME RefreshTokensAssumption, TokInv, NEW r \in Requests, NEW t \in Tokens, RefreshCreate(r, t)
  PROVE  TokInv'
  <1>0. req[r].pc = "create" /\ req[r] # Idle
    BY DEF RefreshCreate, At, Idle
  <1>o. PICK old \in Tokens : old = req[r].tok /\ r \in Using(old)
    BY <1>0, HoldsToken DEF TokInv
  <1> DEFINE new == [state |-> "there", of |-> tok[old].of, expired |-> FALSE,
                     given |-> "refresh", from |-> old, late |-> old \in left]
  <1>1. /\ tok[old].of \in accounts /\ tok[t].state = "unborn"
        /\ tok' = [tok EXCEPT ![t] = new] /\ req' = [req EXCEPT ![r] = Idle]
        /\ accounts' = accounts /\ left' = left
    BY <1>o DEF RefreshCreate, Finish
  <1>3. req[r].tok = old /\ r \in Using(old) /\ tok[old].state = "gone"
    BY <1>0, <1>o DEF TokInv, Holding, At
  <1>4. new \in Tok
    BY <1>1, <1>3 DEF Tok, TokInv, TypeOK
  <1>5. /\ new.state = "there" /\ new.of \in accounts /\ new.given = "refresh"
        /\ new.from = old /\ (new.late <=> old \in left)
    BY <1>1
  <1> HIDE DEF new
  <1>6. /\ \A s \in Tokens : tok'[s] = IF s = t THEN new ELSE tok[s]
        /\ \A s \in Requests : req'[s] = IF s = r THEN Idle ELSE req[s]
    BY <1>1 DEF TokInv, TypeOK
  <1>7. TypeOK'
    <2>1. tok' \in [Tokens -> Tok] /\ req' \in [Requests -> Request]
      BY <1>1, <1>4, IdleType DEF TokInv, TypeOK
    <2> QED
      BY <1>1, <1>5, <1>6, <2>1 DEF TokInv, TypeOK
  <1>8. Holding'
    <2>1. \A s \in Requests : req[s] # Idle => req[s].tok \in Tokens /\ req[s].tok # t
      BY <1>1, HoldsToken DEF TokInv, Holding
    <2> QED
      BY <1>6, <2>1 DEF TokInv, Holding, At, Idle
  <1>9. ASSUME NEW s \in Tokens, s # old
        PROVE  /\ From(s)' \subseteq From(s) /\ After(s)' \subseteq After(s)
               /\ Using(s)' \subseteq Using(s)
    <2>1. Using(s)' \subseteq Using(s)
      BY <1>6 DEF Using, Idle, RefreshTokensAssumption
    <2> QED
      BY <1>5, <1>6, <1>9, <2>1 DEF From, After
  <1>10. /\ From(old)' \subseteq From(old) \cup {t}
         /\ After(old)' \subseteq After(old) \cup {t}
         /\ Using(old)' \subseteq Using(old) \ {r}
    <2>1. Using(old)' \subseteq Using(old) \ {r}
      BY <1>1, <1>3, <1>6 DEF Using, Idle, RefreshTokensAssumption
    <2> QED
      BY <1>6, <2>1 DEF From, After
  <1>11. Spent'
    <2> SUFFICES ASSUME NEW s \in Tokens
                 PROVE  /\ From(s)' # {} => tok'[s].state = "gone"
                        /\ s \in left' => tok'[s].state \in {"gone", "unsaved"}
                        /\ tok'[s].given = "sign-in" => tok'[s].state = "unsaved"
      BY DEF Spent
    <2>1. CASE s = t
      <3>1. s # old /\ From(s) = {} /\ s \notin left
        BY <1>1, <1>3, <2>1 DEF TokInv, Spent
      <3> QED
        BY <1>1, <1>5, <1>6, <1>9, <2>1, <3>1
    <2>2. CASE s = old
      BY <1>1, <1>3, <1>6, <2>2 DEF TokInv, Spent
    <2>3. CASE s # t /\ s # old
      BY <1>1, <1>6, <1>9, <2>3 DEF TokInv, Spent
    <2> QED
      BY <2>1, <2>2, <2>3
  <1>12. Counted'
    <2> SUFFICES ASSUME NEW s \in Tokens
                 PROVE  /\ Cardinality(From(s)') + Cardinality(Using(s)') <= Cardinality(Requests)
                        /\ IF s \in left'
                           THEN Cardinality(After(s)') + Cardinality(Using(s)') <= Cardinality(Requests) - 1
                           ELSE After(s)' = {}
      BY DEF Counted
    <2>1. CASE s # old
      BY <1>1, <1>9, <2>1, CountShrinks DEF TokInv
    <2>2. CASE s = old
      <3>1. /\ IsFiniteSet(From(s)) /\ IsFiniteSet(Using(s)) /\ IsFiniteSet(After(s))
            /\ Cardinality(Requests) \in Int /\ Cardinality(Requests) - 1 \in Int
        BY Finite
      <3>2. Cardinality(From(s)) + Cardinality(Using(s)) <= Cardinality(Requests)
        BY DEF TokInv, Counted
      <3>3. Cardinality(From(s)') + Cardinality(Using(s)') <= Cardinality(Requests)
        BY <1>3, <1>10, <2>2, <3>1, <3>2, Exchange
      <3>4. CASE s \in left
        <4>1. Cardinality(After(s)) + Cardinality(Using(s)) <= Cardinality(Requests) - 1
          BY <3>4 DEF TokInv, Counted
        <4>2. Cardinality(After(s)') + Cardinality(Using(s)') <= Cardinality(Requests) - 1
          BY <1>3, <1>10, <2>2, <3>1, <4>1, Exchange
        <4> QED
          BY <1>1, <3>3, <3>4, <4>2
      <3>5. CASE s \notin left
        <4>1. After(s) = {}
          BY <3>5 DEF TokInv, Counted
        <4>2. After(s)' = {}
          BY <1>5, <1>6, <2>2, <3>5, <4>1 DEF After, From
        <4> QED
          BY <1>1, <3>3, <3>5, <4>2
      <3> QED
        BY <3>4, <3>5
    <2> QED
      BY <2>1, <2>2
  <1> QED
    BY <1>7, <1>8, <1>11, <1>12 DEF TokInv

\* A logout is a request itself: what may still be refreshed is one less.
LEMMA LogoutStep ==
  ASSUME RefreshTokensAssumption, TokInv, NEW r \in Requests, NEW t \in Tokens, Logout(r, t)
  PROVE  TokInv'
  <1>1. /\ req[r] = Idle /\ tok[t].state # "unborn" /\ left' = left \cup {t}
        /\ accounts' = accounts /\ req' = req
        /\ tok' = [tok EXCEPT ![t].state = IF tok[t].state = "there" THEN "gone" ELSE tok[t].state]
    BY DEF Logout, Revoke
  <1>2. tok \in [Tokens -> Tok]
    BY DEF TokInv, TypeOK
  <1>3. ASSUME NEW s \in Tokens
        PROVE  /\ tok'[s] \in Tok
               /\ tok'[s].of = tok[s].of /\ tok'[s].from = tok[s].from
               /\ tok'[s].late = tok[s].late /\ tok'[s].given = tok[s].given
               /\ tok'[s].state = IF s = t /\ tok[s].state = "there" THEN "gone" ELSE tok[s].state
    BY <1>1, <1>2 DEF Tok
  <1>4. TypeOK'
    <2>1. tok' \in [Tokens -> Tok]
      BY <1>1, <1>2, <1>3
    <2> QED
      BY <1>1, <1>3, <2>1 DEF TokInv, TypeOK
  <1>5. \A s \in Tokens : From(s)' = From(s) /\ After(s)' = After(s) /\ Using(s)' = Using(s)
    BY <1>1, <1>3 DEF From, After, Using
  <1>6. Holding'
    <2>1. \A s \in Requests : req[s] # Idle => req[s].tok \in Tokens
      BY HoldsToken DEF TokInv
    <2> QED
      BY <1>1, <1>3, <2>1 DEF TokInv, Holding, At, Idle
  <1>7. Spent'
    BY <1>1, <1>2, <1>3, <1>5 DEF TokInv, Spent, Tok
  <1>8. Counted'
    <2> SUFFICES ASSUME NEW s \in Tokens
                 PROVE  /\ Cardinality(From(s)') + Cardinality(Using(s)') <= Cardinality(Requests)
                        /\ IF s \in left'
                           THEN Cardinality(After(s)') + Cardinality(Using(s)') <= Cardinality(Requests) - 1
                           ELSE After(s)' = {}
      BY DEF Counted
    <2>1. CASE s \in left <=> s \in left'
      BY <1>5, <2>1, CountShrinks DEF TokInv
    <2>2. CASE s \notin left /\ s \in left'
      <3>1. After(s) = {} /\ Cardinality(From(s)) + Cardinality(Using(s)) <= Cardinality(Requests)
        BY <2>2 DEF TokInv, Counted
      <3>2. Using(s) \subseteq Requests \ {r}
        BY <1>1 DEF Using, Idle, RefreshTokensAssumption
      <3>3. IsFiniteSet(Requests \ {r}) /\ Cardinality(Requests \ {r}) = Cardinality(Requests) - 1
        BY FS_RemoveElement DEF RefreshTokensAssumption
      <3>4. /\ Cardinality(Using(s)) <= Cardinality(Requests) - 1 /\ Cardinality({}) = 0
            /\ Cardinality(Using(s)) \in Nat
        BY <3>2, <3>3, FS_Subset, FS_EmptySet, FS_CardinalityType
      <3> QED
        BY <1>5, <2>2, <3>1, <3>4, Finite
    <2> QED
      BY <1>1, <2>1, <2>2
  <1> QED
    BY <1>4, <1>6, <1>7, <1>8 DEF TokInv

LEMMA DeleteStep ==
  ASSUME RefreshTokensAssumption, TokInv, NEW a \in Accounts, DeleteAccount(a)
  PROVE  TokInv'
  <1>1. /\ accounts' = accounts \ {a} /\ left' = left /\ req' = req
        /\ tok' = [t \in Tokens |-> IF tok[t].state = "there" /\ tok[t].of = a
                                    THEN [tok[t] EXCEPT !.state = "gone"] ELSE tok[t]]
    BY DEF DeleteAccount
  <1>2. tok \in [Tokens -> Tok]
    BY DEF TokInv, TypeOK
  <1>3. ASSUME NEW s \in Tokens
        PROVE  /\ tok'[s] \in Tok
               /\ tok'[s].of = tok[s].of /\ tok'[s].from = tok[s].from
               /\ tok'[s].late = tok[s].late /\ tok'[s].given = tok[s].given
               /\ tok'[s].state = IF tok[s].state = "there" /\ tok[s].of = a
                                  THEN "gone" ELSE tok[s].state
    BY <1>1, <1>2 DEF Tok
  <1>4. TypeOK'
    <2>1. tok' \in [Tokens -> Tok]
      BY <1>1, <1>3
    <2> QED
      BY <1>1, <1>3, <2>1 DEF TokInv, TypeOK
  <1> QED
    BY <1>1, <1>3, <1>4, Aging

LEMMA ExpireStep ==
  ASSUME RefreshTokensAssumption, TokInv, NEW t \in Tokens, Expire(t)
  PROVE  TokInv'
  <1>1. /\ tok' = [tok EXCEPT ![t].expired = TRUE]
        /\ accounts' = accounts /\ left' = left /\ req' = req
    BY DEF Expire
  <1>2. tok \in [Tokens -> Tok]
    BY DEF TokInv, TypeOK
  <1>3. ASSUME NEW s \in Tokens
        PROVE  /\ tok'[s] \in Tok
               /\ tok'[s].of = tok[s].of /\ tok'[s].from = tok[s].from
               /\ tok'[s].late = tok[s].late /\ tok'[s].given = tok[s].given
               /\ tok'[s].state = tok[s].state
    BY <1>1, <1>2 DEF Tok
  <1>4. TypeOK'
    <2>1. tok' \in [Tokens -> Tok]
      BY <1>1, <1>2, <1>3
    <2> QED
      BY <1>1, <1>3, <2>1 DEF TokInv, TypeOK
  <1> QED
    BY <1>1, <1>3, <1>4, Aging

\* A request that goes on: only one that has seen the row go gets to the creation.
LEMMA OnStep ==
  ASSUME RefreshTokensAssumption, TokInv, NEW r \in Requests,
         \/ RefreshUser(r) \/ RefreshDead(r) \/ RefreshRevoke(r) \/ Fail(r)
  PROVE  TokInv'
  <1>0. tok \in [Tokens -> Tok] /\ req \in [Requests -> Request] /\ req[r] # Idle
    BY DEF TokInv, TypeOK, RefreshUser, RefreshDead, RefreshRevoke, Fail, At, Idle
  <1>1. PICK old \in Tokens : old = req[r].tok
    BY <1>0, HoldsToken DEF TokInv
  <1>2. tok[old].state \in {"there", "gone"}
    BY <1>0, <1>1 DEF TokInv, Holding
  <1>3. /\ accounts' = accounts /\ left' = left
        /\ tok' = tok \/ tok' = [tok EXCEPT ![old].state = "gone"]
    <2>1. Revoke(old) => tok' = [tok EXCEPT ![old].state = "gone"]
      BY <1>0, <1>2 DEF Revoke
    <2> QED
      BY <1>1, <2>1 DEF RefreshUser, RefreshDead, RefreshRevoke, Fail
  <1>4. PICK q \in Request :
           /\ req' = [req EXCEPT ![r] = q]
           /\ q = Idle \/ q.tok = old
           /\ q.pc = "create" => tok' = [tok EXCEPT ![old].state = "gone"]
    <2>1. ASSUME NEW where \in {"revoke", "dead", "create"}, Goto(r, where),
                 where = "create" => tok' = [tok EXCEPT ![old].state = "gone"]
          PROVE  \E q \in Request :
                    /\ req' = [req EXCEPT ![r] = q]
                    /\ q = Idle \/ q.tok = old
                    /\ q.pc = "create" => tok' = [tok EXCEPT ![old].state = "gone"]
      <3> DEFINE q == [req[r] EXCEPT !.pc = where]
      <3>1. q \in Request /\ q.pc = where /\ q.tok = old
        BY <1>0, <1>1 DEF Request
      <3>2. req' = [req EXCEPT ![r] = q]
        BY <1>0, <2>1 DEF Goto
      <3> HIDE DEF q
      <3> QED
        BY <2>1, <3>1, <3>2
    <2>2. ASSUME Finish(r)
          PROVE  \E q \in Request :
                    /\ req' = [req EXCEPT ![r] = q]
                    /\ q = Idle \/ q.tok = old
                    /\ q.pc = "create" => tok' = [tok EXCEPT ![old].state = "gone"]
      <3>1. Idle.pc # "create"
        BY DEF Idle
      <3> QED
        BY <2>2, <3>1, IdleType DEF Finish
    <2>3. CASE RefreshUser(r)
      BY <2>1, <2>3 DEF RefreshUser
    <2>4. CASE RefreshRevoke(r)
      <3>1. tok' = [tok EXCEPT ![old].state = "gone"] /\ Goto(r, "create")
        BY <1>0, <1>1, <1>2, <2>4 DEF RefreshRevoke, Revoke
      <3> QED
        BY <2>1, <3>1
    <2>5. CASE RefreshDead(r) \/ Fail(r)
      BY <2>2, <2>5 DEF RefreshDead, Fail
    <2> QED
      BY <2>3, <2>4, <2>5
  <1>5. ASSUME NEW s \in Tokens
        PROVE  /\ tok'[s] \in Tok
               /\ tok'[s].of = tok[s].of /\ tok'[s].from = tok[s].from
               /\ tok'[s].late = tok[s].late /\ tok'[s].given = tok[s].given
               /\ \/ tok'[s].state = tok[s].state
                  \/ s = old /\ tok'[s].state = "gone"
    BY <1>0, <1>3 DEF Tok
  <1>6. \A s \in Requests : req'[s] = IF s = r THEN q ELSE req[s]
    BY <1>0, <1>4
  <1>7. TypeOK'
    <2>1. tok' \in [Tokens -> Tok] /\ req' \in [Requests -> Request]
      BY <1>0, <1>3, <1>4, <1>5
    <2>2. old # None
      BY DEF RefreshTokensAssumption
    <2> QED
      BY <1>3, <1>4, <1>5, <1>6, <2>1, <2>2 DEF TokInv, TypeOK
  <1>8. \A s \in Requests :
            \/ req'[s] = req[s]
            \/ req'[s] = Idle
            \/ /\ req[s] # Idle /\ req'[s].tok = req[s].tok
               /\ req'[s].pc = "create" => tok'[req[s].tok].state = "gone"
    <2>1. tok' = [tok EXCEPT ![old].state = "gone"] => tok'[old].state = "gone"
      BY <1>0 DEF Tok
    <2> QED
      BY <1>0, <1>1, <1>4, <1>6, <2>1
  <1>9. \A s \in Tokens : \/ tok'[s].state = tok[s].state
                          \/ tok[s].state = "there" /\ tok'[s].state = "gone"
    BY <1>2, <1>5
  <1> QED
    BY <1>3, <1>5, <1>7, <1>8, <1>9, Aging

LEMMA TokNext == RefreshTokensAssumption /\ TokInv /\ [Next]_vars => TokInv'
  <1> SUFFICES ASSUME RefreshTokensAssumption, TokInv, [Next]_vars
               PROVE  TokInv'
    OBVIOUS
  <1>1. CASE UNCHANGED vars
    BY <1>1 DEF vars, TokInv, TypeOK, Holding, Spent, Counted, At, From, Using, After
  <1>2. CASE Next
    BY <1>2, OnStep, FindStep, CreateStep, LogoutStep, DeleteStep, SignedInStep, ExpireStep DEF Next
  <1> QED
    BY <1>1, <1>2

-----------------------------------------------------------------------------
(* The theorems *)

LEMMA TokSafety ==
  ASSUME RefreshTokensAssumption
  PROVE  Spec => []TokInv
  <1>1. Init => TokInv
    BY TokInit
  <1>2. TokInv /\ [Next]_vars => TokInv'
    BY TokNext
  <1> QED
    BY <1>1, <1>2, PTL DEF Spec

\* Tokens that were given from one, and requests that use it, are as many as run at once.
LEMMA PairsFollows == RefreshTokensAssumption /\ TokInv => PairsBounded
  <1> SUFFICES ASSUME RefreshTokensAssumption, TokInv, NEW t \in Tokens
               PROVE  Cardinality(From(t)) <= IF tok[t].given = "sign-in" THEN 0
                                              ELSE Cardinality(Requests)
    BY DEF PairsBounded
  <1>1. /\ Cardinality(From(t)) \in Nat /\ Cardinality(Using(t)) \in Nat
        /\ Cardinality(Requests) \in Nat /\ Cardinality({}) = 0
    BY Finite, FS_CardinalityType, FS_EmptySet
  <1>2. tok[t].given = "sign-in" => Cardinality(From(t)) = 0
    BY <1>1 DEF TokInv, Spent
  <1>3. Cardinality(From(t)) + Cardinality(Using(t)) <= Cardinality(Requests)
    BY DEF TokInv, Counted
  <1> QED
    BY <1>1, <1>2, <1>3

\* A logout stops the tokens but for those of requests that had found theirs.
LEMMA LogoutFollows == RefreshTokensAssumption /\ TokInv => LogoutBounded
  <1> SUFFICES ASSUME RefreshTokensAssumption, TokInv, NEW t \in Tokens
               PROVE  Cardinality(After(t)) < Cardinality(Requests)
    BY DEF LogoutBounded, After
  <1>1. /\ Cardinality(After(t)) \in Nat /\ Cardinality(Using(t)) \in Nat
        /\ Cardinality(Requests) \in Nat \ {0} /\ Cardinality({}) = 0
    BY Finite, FS_CardinalityType, FS_EmptySet
  <1>2. IF t \in left THEN Cardinality(After(t)) + Cardinality(Using(t)) <= Cardinality(Requests) - 1
                      ELSE Cardinality(After(t)) = 0
    BY <1>1 DEF TokInv, Counted
  <1> QED
    BY <1>1, <1>2

\* The rows of refresh tokens belong to accounts that exist.
THEOREM TokenTypes == RefreshTokensAssumption => (Spec => []TypeOK)
  <1> SUFFICES ASSUME RefreshTokensAssumption PROVE Spec => []TypeOK
    OBVIOUS
  <1>1. TokInv => TypeOK
    BY DEF TokInv
  <1>2. Spec => []TokInv
    BY TokSafety
  <1> QED
    BY <1>1, <1>2, PTL

\* However many refreshes, logouts, deletions and failures overlap, no more tokens
\* come from one than requests run at once, and none from one of a sign-in.
THEOREM PairsSafety == RefreshTokensAssumption => (Spec => []PairsBounded)
  <1> SUFFICES ASSUME RefreshTokensAssumption PROVE Spec => []PairsBounded
    OBVIOUS
  <1>1. TokInv => PairsBounded
    BY PairsFollows
  <1>2. Spec => []TokInv
    BY TokSafety
  <1> QED
    BY <1>1, <1>2, PTL

\* After a logout fewer tokens come from the one that it names than handlers run at
\* once; other tokens of the account are not meant.
THEOREM LogoutSafety == RefreshTokensAssumption => (Spec => []LogoutBounded)
  <1> SUFFICES ASSUME RefreshTokensAssumption PROVE Spec => []LogoutBounded
    OBVIOUS
  <1>1. TokInv => LogoutBounded
    BY LogoutFollows
  <1>2. Spec => []TokInv
    BY TokSafety
  <1> QED
    BY <1>1, <1>2, PTL
=============================================================================
