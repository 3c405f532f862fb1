----------------------------- MODULE UnitOwnership -----------------------------
(***************************************************************************)
(* What the SLSKD reservation protocol promises to the rest of InkDrop:    *)
(* at most one download task may fetch a unit over Soulseek at a time.  A  *)
(* task becomes the owner of a unit only while nobody owns it, and         *)
(* ownership never passes from one task to another without being given up  *)
(* in between.                                                             *)
(*                                                                         *)
(* SlskdReservation implements this for exact units: the owners are the    *)
(* active SLSKD download tasks.                                            *)
(***************************************************************************)
CONSTANTS Owned, Tasks

VARIABLE owners

Init == owners = [u \in Owned |-> {}]

\* A task takes something that nobody owns.
Take(u, t) ==
    /\ owners[u] = {}
    /\ owners' = [owners EXCEPT ![u] = {t}]

\* The owners of S end; one sweep may end several.
Drop(S) == owners' = [u \in Owned |-> IF u \in S THEN {} ELSE owners[u]]

Next ==
    \/ \E u \in Owned, t \in Tasks : Take(u, t)
    \/ \E S \in SUBSET Owned : Drop(S)

Spec == Init /\ [][Next]_owners
================================================================================
