--------------------------- MODULE MCCompanionJobs ---------------------------
(***************************************************************************)
(* Small instances of CompanionJobs for TLC.                               *)
(***************************************************************************)
EXTENDS CompanionJobs, TLC

CONSTANTS j1, j2, r1, r2, p1

AgeTwo == (j1 :> 1) @@ (j2 :> 2)
\* Two runs in one process compete for its slot.
ProcOfTwo == (r1 :> p1) @@ (r2 :> p1)
=============================================================================
