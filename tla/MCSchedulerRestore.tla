-------------------------- MODULE MCSchedulerRestore --------------------------
(***************************************************************************)
(* Instances of SchedulerRestore.  "swap" has two restores, a preview and *)
(* a writer at two databases; "live" a scheduler whose two jobs compete    *)
(* for one slot, beside two restores.                                      *)
(***************************************************************************)
EXTENDS SchedulerRestore, TLC

CONSTANTS s1, j1, j2, r1, r2, p1, d1, d2

OneDb == <<d1>>
TwoDbs == <<d1, d2>>
Sym == Permutations({r1, r2})
================================================================================
