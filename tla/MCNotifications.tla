-------------------------- MODULE MCNotifications --------------------------
(* Small instances of Notifications for TLC. *)
EXTENDS Notifications

CONSTANTS e1, e2, u1

\* Everything is for one user.
ToOneUser == [e \in Events |-> u1]
=============================================================================
