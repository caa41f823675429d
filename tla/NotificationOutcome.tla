------------------------ MODULE NotificationOutcome ------------------------
(***************************************************************************)
(* What the notification queue promises to those who add jobs to it: every *)
(* job is decided, once and for good.  Its notification is stored for the  *)
(* recipient, or skipped because the recipient does not want it, or given  *)
(* up after the attempts are spent.                                        *)
(***************************************************************************)
CONSTANT Events

VARIABLE outcome

OutcomeTypeOK ==
    outcome \in [Events -> {"none", "pending", "stored", "skipped", "lost"}]

OutcomeInit == outcome = [e \in Events |-> "none"]

Accept(e) ==
    /\ outcome[e] = "none"
    /\ outcome' = [outcome EXCEPT ![e] = "pending"]

Decide(e) ==
    /\ outcome[e] = "pending"
    /\ \E verdict \in {"stored", "skipped", "lost"} :
          outcome' = [outcome EXCEPT ![e] = verdict]

OutcomeNext == \E e \in Events : Accept(e) \/ Decide(e)

OutcomeSafety == OutcomeInit /\ [][OutcomeNext]_outcome

OutcomeSpec == OutcomeSafety /\ \A e \in Events : WF_outcome(Decide(e))
=============================================================================
