-------------------------- MODULE MCNotificationScan --------------------------
(***************************************************************************)
(* Instances of NotificationScan: two tasks, two runs that overlap.        *)
(***************************************************************************)
EXTENDS NotificationScan, TLC

CONSTANTS t1, t2, s1, s2
================================================================================
