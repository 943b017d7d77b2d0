------------------------ MODULE MCNotificationQueue ------------------------
(* Small instances of NotificationQueue for TLC.                             *)
EXTENDS NotificationQueue, TLC

CONSTANTS n1, n2, t1

\* All notifications are for one zone at one slave.
OneTarget == [n \in Notifications |-> t1]
=============================================================================
