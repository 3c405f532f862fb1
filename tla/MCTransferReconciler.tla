------------------------- MODULE MCTransferReconciler -------------------------
(* Small instances of TransferReconciler for TLC. *)
EXTENDS TransferReconciler, TLC

CONSTANTS a1, a2, e1, e2, w1, q1, i1, u1, c1

IssueOfOne == q1 :> i1
UnitOfOne == i1 :> u1
EpisodeOfTwo == (a1 :> e1) @@ (a2 :> e2)
EpisodeOfOne == a1 :> e1
\* Attempts are interchangeable when their episode rows move along with them.
AttemptSwap == {[x \in {a1, a2, e1, e2} |-> x],
                (a1 :> a2) @@ (a2 :> a1) @@ (e1 :> e2) @@ (e2 :> e1)}
OneSymmetry == AttemptSwap
================================================================================
