------------------------------ MODULE WorkOrSwap ------------------------------
(***************************************************************************)
(* What the two lock files promise to whoever replaces the databases: at   *)
(* any time either one scheduler runs jobs, or one restore swaps files, or *)
(* neither.  SchedulerRestore implements this.                             *)
(***************************************************************************)
CONSTANTS Schedulers, Swappers

VARIABLES
    working,   \* the schedulers that have jobs running
    swapping   \* the restores that may touch the databases

vars == <<working, swapping>>

Init == working = {} /\ swapping = {}

Work(s) ==
    /\ swapping = {} /\ working \subseteq {s}
    /\ working' = {s}
    /\ UNCHANGED swapping

Rest(s) ==
    /\ working' = working \ {s}
    /\ UNCHANGED swapping

Swap(r) ==
    /\ working = {} /\ swapping = {}
    /\ swapping' = {r}
    /\ UNCHANGED working

Leave(r) ==
    /\ swapping' = swapping \ {r}
    /\ UNCHANGED working

Next ==
    \/ \E s \in Schedulers : Work(s) \/ Rest(s)
    \/ \E r \in Swappers : Swap(r) \/ Leave(r)

Spec == Init /\ [][Next]_vars
================================================================================
