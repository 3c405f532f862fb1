------------------------- MODULE MCSlskdReservation -------------------------
(***************************************************************************)
(* Small instances of SlskdReservation for TLC.                            *)
(***************************************************************************)
EXTENDS SlskdReservation, TLC

CONSTANTS a1, a2, e1, e2, w1, q1, q2, i1, i2, u1, c1, c2

\* One queue row.
IssueOfOne == q1 :> i1
UnitOfOne == i1 :> u1
\* Two queue rows whose issues are the same unit under two metadata providers.
IssueOfTwo == (q1 :> i1) @@ (q2 :> i2)
UnitOfTwo == (i1 :> u1) @@ (i2 :> u1)

EpisodeOfTwo == (a1 :> e1) @@ (a2 :> e2)
EpisodeOfOne == a1 :> e1

\* Attempts are interchangeable when their episode rows move along with them.
AttemptSwap == {[x \in {a1, a2, e1, e2} |-> x],
                (a1 :> a2) @@ (a2 :> a1) @@ (e1 :> e2) @@ (e2 :> e1)}
\* So are the candidates, and the two rows together with their issues.
RowSwap == {[x \in {q1, q2, i1, i2} |-> x],
            (q1 :> q2) @@ (q2 :> q1) @@ (i1 :> i2) @@ (i2 :> i1)}
OneSymmetry == AttemptSwap
TwoSymmetry == {f @@ g @@ h : f \in AttemptSwap, g \in RowSwap, h \in Permutations(Cands)}

\* Bounds of the two-row instance: the removal of the series and the importer are
\* explored with one row.
NothingImported == ~removed /\ \A i \in Issues : ~proof[i]
=============================================================================
