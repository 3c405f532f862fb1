------------------------- MODULE MCNotificationOutbox -------------------------
(***************************************************************************)
(* An instance of NotificationOutbox: two rows, an ordinary and an         *)
(* urgent event, two senders, and one send an hour.                        *)
(***************************************************************************)
EXTENDS NotificationOutbox, TLC

CONSTANTS d1, d2, o1, o2, s1, s2

AgeTwo == (d1 :> 1) @@ (d2 :> 2)
================================================================================
