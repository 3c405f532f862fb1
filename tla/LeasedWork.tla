------------------------------ MODULE LeasedWork ------------------------------
(***************************************************************************)
(* What a table of leased jobs promises: a piece of work that is posted is *)
(* held by at most one worker; it changes hands only after it was given    *)
(* back or after the holder's lease ran out; it is completed only under a  *)
(* running lease; and what is completed is never held again.               *)
(*                                                                         *)
(* CompanionJobs implements this with manga_companion_jobs.                *)
(***************************************************************************)
CONSTANTS Work, Holders, Nobody

VARIABLES
    posted,   \* the work that was ever posted
    holder,   \* who holds a piece of work
    lapsed,   \* the held work whose lease ran out
    done      \* the completed work

vars == <<posted, holder, lapsed, done>>

Held(w) == holder[w] # Nobody

Init ==
    /\ posted = {} /\ lapsed = {} /\ done = {}
    /\ holder = [w \in Work |-> Nobody]

Post(w) ==
    /\ posted' = posted \cup {w}
    /\ UNCHANGED <<holder, lapsed, done>>

\* Free work, or work whose holder let the lease run out.
Take(w, h) ==
    /\ w \in posted \ done
    /\ Held(w) => w \in lapsed
    /\ holder' = [holder EXCEPT ![w] = h]
    /\ lapsed' = lapsed \ {w}
    /\ UNCHANGED <<posted, done>>

\* The holder gives up; late is not too late.
GiveBack(w) ==
    /\ Held(w)
    /\ holder' = [holder EXCEPT ![w] = Nobody]
    /\ lapsed' = lapsed \ {w}
    /\ UNCHANGED <<posted, done>>

Complete(w) ==
    /\ Held(w) /\ w \notin lapsed
    /\ holder' = [holder EXCEPT ![w] = Nobody]
    /\ done' = done \cup {w}
    /\ UNCHANGED <<posted, lapsed>>

\* Time passes.
Lapse(S) ==
    /\ \A w \in S : Held(w)
    /\ lapsed' = lapsed \cup S
    /\ UNCHANGED <<posted, holder, done>>

Next ==
    \/ \E w \in Work : Post(w) \/ GiveBack(w) \/ Complete(w)
    \/ \E w \in Work, h \in Holders : Take(w, h)
    \/ \E S \in SUBSET Work : Lapse(S)

Spec == Init /\ [][Next]_vars
================================================================================
