------------------------ MODULE MCNotificationEmail ------------------------
(* One recipient with two notices, and two overlapping runs.               *)
EXTENDS NotificationEmail, TLC

CONSTANTS u1, r1, r2

MCUserOf == [n \in Notification |-> u1]
MCSymmetry == Permutations({r1, r2})
=============================================================================
