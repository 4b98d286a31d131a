-------------------------- MODULE MCNotifications --------------------------
(* Small instances of Notifications. *)
EXTENDS Notifications, TLC

CONSTANTS e1, e2, e3, p1, d1, d2, k1, q1, q2

=============================================================================
