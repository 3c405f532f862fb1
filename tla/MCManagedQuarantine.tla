------------------------ MODULE MCManagedQuarantine ------------------------
(* The instance of ManagedQuarantine that TLC checks.                      *)
EXTENDS ManagedQuarantine, TLC

CONSTANTS f1, f2, r1, r2, r3, r4

\* Requests may overlap; after that, two of them at most go on.
Few == overlapped => Cardinality({r \in Requests : req[r].pc # "new"}) <= 2

\* Files and requests are not ordered.
Alike == Permutations(Files) \cup Permutations(Requests)
=============================================================================
