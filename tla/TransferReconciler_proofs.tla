----------------------- MODULE TransferReconciler_proofs ----------------------
(***************************************************************************)
(* Proofs about TransferReconciler, for any number of attempts, workers,   *)
(* rows and candidates, for any leases and any bound on recoveries.        *)
(***************************************************************************)
EXTENDS TransferReconciler, SlskdTransfers_proofs

\* What the pass has read: transfers that had been enqueued, tasks that exist.
PassReads ==
    /\ pass.at <= now
    /\ \A x \in pass.listed : att[x].pc \notin {"idle", "reserved", "enqueue"} /\ task[x].status # "none"
    /\ \A x \in pass.done : /\ xfer[x] \in {"done", "none"}
                            /\ att[x].pc \notin {"idle", "reserved", "enqueue"}
    /\ \A p \in pass.owned : task[p[1]].status # "none"
    /\ \A s \in pass.spare : task[s].status # "none"
    /\ \A r \in pass.unbound : r \in Attempts /\ att[r].pc = "done"

\* An attempt reports an unknown outcome at its end only.
UnknownAtEnd ==
    /\ \A r \in Attempts : task[r].status = "enqueue_response_ambiguous" => att[r].pc = "done"
    /\ \A a \in Attempts :
        (att[a].pc = "finish" /\ att[a].rsv # a /\ att[a].out = "enqueue_response_ambiguous")
            => att[att[a].rsv].pc = "done"

\* The claim of an attempt runs out before its task may count as missing.
ClaimBeforeDeadline ==
    \A q \in Queues, a \in Attempts : claims[q].owner = a =>
        att[a].pc # "idle" /\ (task[a].status # "none" => claims[q].exp < task[a].deadline)

\* A transfer that a whole list does not show was enqueued after it.  When the deadline
\* of its task had passed before the list, the task's outcome is not unknown.
LateTransfer ==
    \A r \in Attempts :
        (/\ pass.pc \in {"select", "judge"} /\ pass.whole /\ r \notin pass.listed
         /\ xfer[r] # "none" /\ task[r].deadline <= pass.at)
            => /\ task[r].status # "enqueue_response_ambiguous" /\ r \notin pass.unbound
               /\ \A a \in Attempts \ {r} : att[a].pc = "finish" /\ att[a].rsv = r
                                               => att[a].out # "enqueue_response_ambiguous"

PassOK == /\ pass \in PassState
          /\ ledger \in [Queues -> [Attempts -> 0..MaxRecoveries]]

RInv == /\ Base /\ Transfers /\ PassOK
        /\ PassReads /\ UnknownAtEnd /\ ClaimBeforeDeadline /\ LateTransfer

USE DEF TaskIds, TaskStatus, ActiveStatus, TerminalStatus, Pc, Holding

\* The empty tables and the idle pass satisfy the invariant.
THEOREM InitRInv == RInit => RInv
<1> SUFFICES ASSUME RInit PROVE RInv
  OBVIOUS
<1>1. Base /\ Transfers
  BY InitTInv DEF RInit, TInv, IInv
<1>2. PassOK
  BY RecoveryAssumption DEF RInit, IdlePass, PassOK, PassState, PassPc
<1>3. PassReads /\ LateTransfer
  BY ConstAssumption DEF RInit, Init, IdlePass, PassReads, LateTransfer
<1>4. UnknownAtEnd
  BY ConstAssumption DEF RInit, Init, NoTask, Idle, UnknownAtEnd
<1>5. ClaimBeforeDeadline
  BY ConstAssumption DEF RInit, Init, NoClaim, ClaimBeforeDeadline
<1> QED
  BY <1>1, <1>2, <1>3, <1>4, <1>5 DEF RInv

--------------------------------------------------------------------------------
(* The steps of the reservation protocol *)

\* An attempt that has enqueued does not go back, and one that is over stays over.
LEMMA AttemptsAdvance ==
    ASSUME Base, [Next]_vars, NEW a \in Attempts
    PROVE  /\ att[a].pc # "idle" => att'[a].pc # "idle"
           /\ att[a].pc = "done" => att'[a].pc = "done"
           /\ att[a].pc \notin {"idle", "reserved", "enqueue"}
                => att'[a].pc \notin {"idle", "reserved", "enqueue"}
BY StepAtts, Granted DEF AttStep, Moves

\* An attempt without a row that has left its start gets no row.
LEMMA AbsentRow ==
    ASSUME Base, Transfers, [Next]_vars, NEW a \in Attempts,
           task[a].status = "none", att[a].pc # "idle"
    PROVE  task'[a].status = "none"
<1>1. CASE Work
  BY <1>1 DEF Work
<1>2. ASSUME NEW b \in Attempts, NEW q \in Queues, NEW c \in Cands, NewReservation(b, q, c)
      PROVE  task'[a] = task[a]
  <2>1. a # b
    BY <1>2 DEF NewReservation
  <2> QED
    BY <1>2, <2>1, NewWork
<1>3. ASSUME NEW b \in Attempts, InsertsEpisode(b) PROVE task'[a] = task[a]
  BY <1>3, EpisodeWork
<1> QED
  BY <1>1, <1>2, <1>3, StepWork

\* Attempt a reports an unknown outcome for row r under its live claim.
ReportsUnknown(a, r) ==
    /\ att[a].pc = "finish" /\ att[a].rsv = r /\ att[a].out = "enqueue_response_ambiguous"
    /\ att'[a].pc = "done"
    /\ task[r].queue \in Queues
    /\ claims[task[r].queue].owner = a /\ claims[task[r].queue].exp > now

\* A handoff step makes a row one of unknown outcome only when it reports so.
LEMMA HandoffUnknown ==
    ASSUME Base, Transfers, NEW a \in Attempts, Handoff(a), NEW r \in TaskIds,
           task'[r].status = "enqueue_response_ambiguous"
    PROVE  task[r].status = "enqueue_response_ambiguous" \/ ReportsUnknown(a, r)
<1> USE DEF Base, Transfers
<1>0. /\ att[a].out \in TaskStatus /\ att[a].ext \in Attempts \cup {None}
      /\ NoDb => UNCHANGED task
  BY DEF TypeOK, AttemptState, NoDb, rows
<1>1. CASE UNCHANGED task
  BY <1>1
<1>2. ASSUME NEW s \in TaskIds, MatchApplies(a, s)
      PROVE  task[r].status = "enqueue_response_ambiguous"
  <2>1. Transition(s, "started_waiting", att[a].ext, None, now) /\ att[a].ext # None
    BY <1>2 DEF MatchApplies, Transition, MarksTransfer
  <2>2. task'[r] = task[r] \/ (r = s /\ Takes(s, "started_waiting", att[a].ext, None, now))
    BY <1>0, <2>1, TransitionWrites
  <2> QED
    BY <2>1, <2>2 DEF Takes, Effective
<1>3. CASE Finish(a)
  <2> DEFINE s == att[a].rsv
  <2>1. /\ s \in TaskIds /\ att[a].out # "none" /\ att[a].pc = "finish"
        /\ Transition(s, att[a].out, att[a].ext, a, now)
    BY <1>3 DEF Finish, HoldsRow
  <2>2. task'[r] = task[r] \/ (r = s /\ Takes(s, att[a].out, att[a].ext, a, now))
    BY <1>0, <2>1, TransitionWrites
  <2>3. CASE r = s /\ Takes(s, att[a].out, att[a].ext, a, now)
    <3>1. att[a].out = "started_waiting" => att[a].ext # None
      BY <2>1 DEF MarksTransfer
    <3>2. att[a].out = "enqueue_response_ambiguous"
      BY <2>3, <3>1 DEF Takes, Effective
    <3>3. ClaimPermits(task[r].queue, r, a, now) /\ Active(r) /\ a # None
      BY <2>3, ConstAssumption DEF Takes
    <3>4. task[r].queue \in Queues
      BY <3>3 DEF RowsPlaced, Active
    <3>5. att'[a].pc = "done"
      BY <1>3 DEF Finish, Done, Idle, TypeOK
    <3> QED
      BY <2>1, <2>3, <3>2, <3>3, <3>4, <3>5 DEF ReportsUnknown, ClaimPermits
  <2> QED
    BY <2>2, <2>3
<1>4. CASE RecordWaiting(a)
  <2>1. ASSUME NEW s \in TaskIds, NEW st \in TaskStatus \ {"enqueue_response_ambiguous"},
               task' = Recorded(a, s, st)
        PROVE  task[r].status = "enqueue_response_ambiguous"
    BY <2>1 DEF Recorded, TypeOK
  <2>2. EpisodeOf[a] \in TaskIds
    BY ConstAssumption
  <2> QED
    BY <1>1, <1>4, <2>1, <2>2 DEF RecordWaiting, FirstRows, Overwritten, SameWork
<1> QED
  BY <1>0, <1>1, <1>2, <1>3, <1>4
     DEF Handoff, CheckFindsNothing, CheckFinds, CheckRaises, Enqueue, EnqueueAmbiguous,
         EnqueueRaises, ValidateLost, ValidateHeld, MarkQueue, MarkSkips, MarkFails, MatchRefused

\* No other step makes a row one of unknown outcome.
LEMMA StepUnknown ==
    ASSUME Base, Transfers, [Next]_vars, NEW r \in TaskIds,
           task'[r].status = "enqueue_response_ambiguous"
    PROVE  \/ task[r].status = "enqueue_response_ambiguous"
           \/ \E a \in Attempts : ReportsUnknown(a, r)
<1> USE DEF Base
<1>1. CASE UNCHANGED task
  BY <1>1
<1>2. ASSUME NEW a \in Attempts, NEW q \in Queues, NEW c \in Cands, NewReservation(a, q, c)
      PROVE  task[r].status = "enqueue_response_ambiguous"
  BY <1>2, NewWork
<1>3. ASSUME NEW s \in Attempts, ReserveExpires(s)
      PROVE  task[r].status = "enqueue_response_ambiguous"
  BY <1>3 DEF ReserveExpires, TypeOK, TaskRow
<1>4. ASSUME NEW S, task' = CleanedTasks(S)
      PROVE  task[r].status = "enqueue_response_ambiguous"
  BY <1>4 DEF CleanedTasks, TypeOK, TaskRow
<1>5. ASSUME NEW q \in Queues, CancelQueueItem(q)
      PROVE  task[r].status = "enqueue_response_ambiguous"
  BY <1>5 DEF CancelQueueItem, TypeOK, TaskRow
<1>6. ASSUME NEW s \in TaskIds, CleanupStaleTask(s)
      PROVE  task[r].status = "enqueue_response_ambiguous"
  BY <1>6 DEF CleanupStaleTask, TypeOK, TaskRow
<1>7. CASE ReconcileReservations
  BY <1>7 DEF ReconcileReservations, TypeOK, TaskRow
<1> QED
  BY <1>1, <1>2, <1>3, <1>4, <1>5, <1>6, <1>7, HandoffUnknown
     DEF Next, ReserveCreates, PersistSlotWait, ReserveReuses, Crash, NoDb, ClaimQueueItem,
         WorkerStarts, WorkerReleases, WorkerCrashes, XferEnds, AltEnds, RecordImport,
         MarkQueueVerified, RetireRemovedSeries, CleanupExpiredClaims, CleanupInactiveTasks,
         Tick, vars, rows

\* A claim is kept, given up, or written by whoever takes it.
ClaimWritten(q) ==
    \/ claims'[q] = claims[q] \/ claims'[q] = NoClaim
    \/ \E a \in Attempts, c \in Cands : /\ ReserveCreates(a, q, c)
                                   /\ claims'[q] = [owner |-> a, exp |-> now + Lease, rsv |-> a]
    \/ \E a, r \in Attempts : ReserveReuses(a, r) /\ claims'[q].owner = a
    \/ claims'[q].owner \in Workers

\* A transition gives claims up at most.
LEMMA TransitionReleases ==
    ASSUME TypeOK, NEW r, NEW want, NEW x, NEW o, NEW at, Transition(r, want, x, o, at),
           NEW q \in Queues
    PROVE  claims'[q] = claims[q] \/ claims'[q] = NoClaim
BY DEF Transition, TransitionFenced, TransitionReconciled, TransitionRefused,
       TransitionApplied, AfterClaimsRelease, TypeOK

\* Every step writes a claim in one of these ways.
LEMMA StepWrites ==
    ASSUME Base, [Next]_vars, NEW q \in Queues
    PROVE  ClaimWritten(q)
<1> USE DEF Base
<1>1. CASE claims'[q] = claims[q] \/ claims'[q] = NoClaim
  BY <1>1 DEF ClaimWritten
<1>2. ASSUME NEW o, NEW p \in Queues, NEW r, NEW lease, CanClaim(p, o), Claim(p, o, r, lease), p # q
      PROVE  claims'[q] = claims[q]
  BY <1>2 DEF Claim, TypeOK
<1>3. ASSUME NEW a \in Attempts, NEW p \in Queues, NEW c \in Cands, ReserveCreates(a, p, c)
      PROVE  ClaimWritten(q)
  <2>1. CanClaim(p, a) /\ Claim(p, a, a, Lease)
    BY <1>3 DEF ReserveCreates
  <2>2. CASE p = q
    BY <1>3, <2>1, <2>2, ClaimTaken DEF ClaimWritten
  <2> QED
    BY <1>2, <2>1, <2>2 DEF ClaimWritten
<1>4. ASSUME NEW a \in Attempts, NEW r \in Attempts, ReserveReuses(a, r) PROVE ClaimWritten(q)
  <2> DEFINE p == task[r].queue
  <2>1. p \in Queues /\ CanClaim(p, a) /\ Claim(p, a, r, Lease)
    BY <1>4 DEF ReserveReuses, RowsPlaced, Active
  <2>2. CASE p = q
    <3>1. claims'[q] = [owner |-> a, exp |-> now + Lease, rsv |-> r]
      BY <2>1, <2>2, ClaimTaken
    <3>2. claims'[q].owner = a
      BY <3>1
    <3> QED
      BY <1>4, <3>2 DEF ClaimWritten
  <2> QED
    BY <1>2, <2>1, <2>2 DEF ClaimWritten
<1>5. ASSUME NEW w \in Workers, NEW p \in Queues, ClaimQueueItem(w, p) PROVE ClaimWritten(q)
  <2>1. CanClaim(p, w) /\ Claim(p, w, None, WorkerLease)
    BY <1>5 DEF ClaimQueueItem
  <2>2. CASE p = q
    <3>1. claims'[q] = [owner |-> w, exp |-> now + WorkerLease, rsv |-> None]
      BY <2>1, <2>2, ClaimTaken
    <3>2. claims'[q].owner = w
      BY <3>1
    <3> QED
      BY <3>2 DEF ClaimWritten
  <2> QED
    BY <1>2, <2>1, <2>2 DEF ClaimWritten
<1>6. ASSUME NEW a \in Attempts, Finish(a) PROVE ClaimWritten(q)
  BY <1>1, <1>6, TransitionReleases DEF Finish
<1>7. ASSUME NEW a \in Attempts, NEW r \in TaskIds, MatchApplies(a, r) PROVE ClaimWritten(q)
  <2>1. Transition(r, "started_waiting", att[a].ext, None, now)
    BY <1>7 DEF MatchApplies, Transition
  <2> QED
    BY <1>1, <2>1, TransitionReleases
<1>8. ASSUME NEW a \in Attempts, Handoff(a) \/ Crash(a) PROVE ClaimWritten(q)
  BY <1>1, <1>6, <1>7, <1>8
     DEF Handoff, Crash, NoDb, CheckFindsNothing, CheckFinds, CheckRaises, Enqueue,
         EnqueueAmbiguous, EnqueueRaises, ValidateLost, ValidateHeld, MarkQueue, MarkSkips,
         MarkFails, MatchRefused, RecordWaiting
<1>9. ASSUME NEW r \in Attempts, ReserveExpires(r) PROVE ClaimWritten(q)
  BY <1>1, <1>9 DEF ReserveExpires, AfterReservationRelease, TypeOK
<1>10. ASSUME NEW w \in Workers, WorkerReleases(w) PROVE ClaimWritten(q)
  BY <1>1, <1>10 DEF WorkerReleases, ReleaseClaim, TypeOK
<1>11. CASE CleanupExpiredClaims \/ ReconcileReservations
  BY <1>1, <1>11 DEF CleanupExpiredClaims, ReconcileReservations, AfterReservationRelease
<1> QED
  BY <1>1, <1>3, <1>4, <1>5, <1>8, <1>9, <1>10, <1>11
     DEF Next, PersistSlotWait, WorkerStarts, WorkerCrashes, XferEnds, AltEnds, RecordImport,
         MarkQueueVerified, CancelQueueItem, CleanupStaleTask, RetireRemovedSeries,
         CleanupInactiveTasks, Tick, vars, rows

\* Every step of the protocol keeps claims shorter than deadlines.
LEMMA NextClaims ==
    ASSUME Base, Transfers, ClaimBeforeDeadline, [Next]_vars
    PROVE  ClaimBeforeDeadline'
<1> SUFFICES ASSUME NEW q \in Queues, NEW a \in Attempts, claims'[q].owner = a
             PROVE  /\ att'[a].pc # "idle"
                    /\ task'[a].status # "none" => claims'[q].exp < task'[a].deadline
  BY DEF ClaimBeforeDeadline
<1>0. a # None /\ a \notin Workers
  BY ConstAssumption
<1>1. CASE claims'[q] = claims[q]
  <2>1. att[a].pc # "idle" /\ (task[a].status # "none" => claims[q].exp < task[a].deadline)
    BY <1>1 DEF ClaimBeforeDeadline
  <2> QED
    BY <1>1, <2>1, AttemptsAdvance, AbsentRow, KeptRow
<1>2. ASSUME NEW b \in Attempts, NEW c \in Cands, ReserveCreates(b, q, c),
             claims'[q] = [owner |-> b, exp |-> now + Lease, rsv |-> b]
      PROVE  att'[a].pc # "idle" /\ claims'[q].exp < task'[a].deadline
  <2>1. a = b /\ claims'[q].exp = now + Lease
    BY <1>2
  <2>2. att'[a].pc = "reserved" /\ task'[a].deadline = now + Ttl
    <3>1. NewReservation(a, q, c) /\ ReserveCreates(a, q, c)
      BY <1>2, <2>1 DEF ReserveCreates
    <3> QED
      BY <3>1, Granted, NewWork
  <2>3. now \in Nat /\ Lease \in Nat /\ Ttl \in Nat /\ Lease < Ttl
    BY ConstAssumption DEF Base, TypeOK
  <2> QED
    BY <2>1, <2>2, <2>3
<1>3. ASSUME NEW b \in Attempts, NEW r \in Attempts, ReserveReuses(b, r), claims'[q].owner = b
      PROVE  att'[a].pc # "idle" /\ task'[a].status = "none"
  <2>1. att[a].pc = "idle" /\ att'[a].pc = "finish" /\ UNCHANGED task
    BY <1>3, Granted
  <2> QED
    BY <2>1 DEF Base, Fresh
<1>4. claims'[q] # NoClaim /\ claims'[q].owner \notin Workers
  BY <1>0 DEF NoClaim
<1>5. ClaimWritten(q)
  BY StepWrites
<1> QED
  BY <1>1, <1>2, <1>3, <1>4, <1>5 DEF ClaimWritten

\* Every step of the protocol keeps unknown outcomes at the end of their attempts.
LEMMA NextUnknown ==
    ASSUME Base, Transfers, UnknownAtEnd, [Next]_vars
    PROVE  UnknownAtEnd'
<1>1. ASSUME NEW r \in Attempts, task'[r].status = "enqueue_response_ambiguous"
      PROVE  att'[r].pc = "done"
  <2>1. CASE task[r].status = "enqueue_response_ambiguous"
    BY <2>1, AttemptsAdvance DEF UnknownAtEnd
  <2>2. ASSUME NEW a \in Attempts, ReportsUnknown(a, r) PROVE att'[r].pc = "done"
    <3>1. a # r => att[r].pc = "done"
      BY <2>2 DEF ReportsUnknown, UnknownAtEnd
    <3> QED
      BY <2>2, <3>1, AttemptsAdvance DEF ReportsUnknown
  <2> QED
    BY <1>1, <2>1, <2>2, StepUnknown
<1>2. ASSUME NEW a \in Attempts, att'[a].pc = "finish", att'[a].rsv # a,
             att'[a].out = "enqueue_response_ambiguous"
      PROVE  att'[att'[a].rsv].pc = "done"
  <2>1. CASE att'[a] = att[a]
    <3>1. att[att[a].rsv].pc = "done" /\ att[a].rsv \in Attempts
      BY <1>2, <2>1 DEF UnknownAtEnd, Base, HoldsRow
    <3> QED
      BY <2>1, <3>1, AttemptsAdvance
  <2>2. CASE CarriesOn(a)
    BY <1>2, <2>2 DEF CarriesOn, Transfers, OwnReservation
  <2>3. ASSUME NEW r \in Attempts, ReserveReuses(a, r) PROVE att'[att'[a].rsv].pc = "done"
    <3>1. att'[a].rsv = r /\ task[r].status = "enqueue_response_ambiguous"
      BY <1>2, <2>3, Granted
    <3> QED
      BY <3>1, AttemptsAdvance DEF UnknownAtEnd
  <2> QED
    BY <1>2, <2>1, <2>2, <2>3, StepCarries, Granted DEF CarryStep
<1> QED
  BY <1>1, <1>2 DEF UnknownAtEnd

\* Every step of the protocol keeps what the pass has read true.
LEMMA NextReads ==
    ASSUME Base, Transfers, PassOK, PassReads, [Next]_vars, UNCHANGED pass
    PROVE  PassReads'
<1>1. pass.at <= now'
  <2>1. pass.at \in Nat
    BY DEF PassOK, PassState
  <2> QED
    BY <2>1, Clock DEF PassReads
<1>2. ASSUME NEW x \in pass.listed
      PROVE  att'[x].pc \notin {"idle", "reserved", "enqueue"} /\ task'[x].status # "none"
  <2>1. x \in Attempts
    BY DEF PassOK, PassState
  <2> QED
    BY <2>1, AttemptsAdvance, KeptRow DEF PassReads
<1>3. ASSUME NEW x \in pass.done
      PROVE  /\ xfer'[x] \in {"done", "none"}
             /\ att'[x].pc \notin {"idle", "reserved", "enqueue"}
  <2>1. x \in Attempts
    BY DEF PassOK, PassState
  <2> QED
    BY <2>1, AttemptsAdvance, StepXfers DEF PassReads, XferStep
<1>4. ASSUME NEW p \in pass.owned PROVE task'[p[1]].status # "none"
  <2>1. p[1] \in TaskIds
    BY DEF PassOK, PassState
  <2> QED
    BY <2>1, KeptRow DEF PassReads
<1>5. ASSUME NEW s \in pass.spare PROVE task'[s].status # "none"
  <2>1. s \in TaskIds
    BY DEF PassOK, PassState
  <2> QED
    BY <2>1, KeptRow DEF PassReads
<1>6. \A r \in pass.unbound : r \in Attempts /\ att'[r].pc = "done"
  BY AttemptsAdvance DEF PassReads
<1> QED
  BY <1>1, <1>2, <1>3, <1>4, <1>5, <1>6 DEF PassReads

\* Every step of the protocol keeps late transfers apart from unknown outcomes.
LEMMA NextLate ==
    ASSUME RInv, [Next]_vars, UNCHANGED pass
    PROVE  LateTransfer'
<1> USE DEF RInv
<1> SUFFICES ASSUME NEW r \in Attempts, pass.pc \in {"select", "judge"}, pass.whole,
                    r \notin pass.listed, xfer'[r] # "none", task'[r].deadline <= pass.at
             PROVE  /\ task'[r].status # "enqueue_response_ambiguous" /\ r \notin pass.unbound
                    /\ \A a \in Attempts \ {r} : att'[a].pc = "finish" /\ att'[a].rsv = r
                                                    => att'[a].out # "enqueue_response_ambiguous"
  BY DEF LateTransfer
<1>1. /\ task[r].status # "enqueue_response_ambiguous" /\ r \notin pass.unbound
      /\ \A a \in Attempts \ {r} : att[a].pc = "finish" /\ att[a].rsv = r
                                      => att[a].out # "enqueue_response_ambiguous"
      /\ \A a \in Attempts : ~ReportsUnknown(a, r)
  <2>1. CASE xfer[r] # "none"
    <3>1. task'[r].deadline = task[r].deadline /\ task[r].status # "none"
      BY <2>1, KeptRow DEF Transfers, TransferPlaced
    <3>2. /\ task[r].status # "enqueue_response_ambiguous" /\ r \notin pass.unbound
          /\ \A a \in Attempts \ {r} : att[a].pc = "finish" /\ att[a].rsv = r
                                          => att[a].out # "enqueue_response_ambiguous"
      BY <2>1, <3>1 DEF LateTransfer
    <3>3. ~ReportsUnknown(r, r)
      <4> SUFFICES ASSUME ReportsUnknown(r, r) PROVE FALSE
        OBVIOUS
      <4> DEFINE q == task[r].queue
      <4>1. q \in Queues /\ claims[q].owner = r /\ claims[q].exp > now
        BY DEF ReportsUnknown
      <4>2. claims[q].exp < task[r].deadline
        BY <3>1, <4>1 DEF ClaimBeforeDeadline
      <4>3. claims[q].exp \in Nat /\ task[r].deadline \in Nat /\ pass.at \in Nat /\ now \in Nat
        BY <4>1, Clock DEF Base, TypeOK, TaskRow, ClaimRow, PassOK, PassState
      <4>4. pass.at <= now
        BY DEF PassReads
      <4> QED
        BY <3>1, <4>1, <4>2, <4>3, <4>4
    <3> QED
      BY <3>2, <3>3 DEF ReportsUnknown
  <2>2. CASE xfer[r] = "none"
    <3>1. att[r].pc = "enqueue" /\ att'[r].pc # "done"
      BY <2>2, StepXfers DEF XferStep
    <3>2. \A a \in Attempts : ~ReportsUnknown(a, r)
      BY <3>1 DEF ReportsUnknown, UnknownAtEnd
    <3> QED
      BY <3>1, <3>2 DEF UnknownAtEnd, PassReads
  <2> QED
    BY <2>1, <2>2
<1>2. task'[r].status # "enqueue_response_ambiguous"
  BY <1>1, StepUnknown
<1>3. ASSUME NEW a \in Attempts \ {r}, att'[a].pc = "finish", att'[a].rsv = r
      PROVE  att'[a].out # "enqueue_response_ambiguous"
  <2>1. CASE att'[a] = att[a]
    BY <1>1, <1>3, <2>1
  <2>2. CASE CarriesOn(a)
    BY <1>3, <2>2 DEF CarriesOn, Transfers, OwnReservation
  <2>3. ASSUME NEW s \in Attempts, ReserveReuses(a, s)
        PROVE  att'[a].out # "enqueue_response_ambiguous"
    BY <1>1, <1>3, <2>3, Granted
  <2> QED
    BY <1>3, <2>1, <2>2, <2>3, StepCarries, Granted DEF CarryStep
<1> QED
  BY <1>1, <1>2, <1>3

\* The protocol keeps the invariant beside a pass.
LEMMA NextKeeps ==
    ASSUME RInv, [Next]_vars, UNCHANGED <<pass, ledger>>
    PROVE  RInv'
<1>1. PassOK'
  BY DEF RInv, PassOK
<1> QED
  BY <1>1, BaseStep, TransfersStep, NextReads, NextUnknown, NextClaims, NextLate DEF RInv

--------------------------------------------------------------------------------
(* The steps of the reconciler and of the importer *)

\* The rows stay with their queue rows, gain no reservation id and keep their work.
TableStep ==
    \A r \in TaskIds :
        \/ task'[r] = task[r]
        \/ /\ task[r].status # "none" /\ task'[r].queue = task[r].queue
           /\ task'[r].bound => task[r].bound
           /\ KeepsWork(r)

\* A step beside the protocol: the attempts and the transfers are left alone, claims are
\* given up at most, and only a task that was selected takes an unknown outcome.
Beside ==
    /\ TableStep
    /\ UNCHANGED <<now, att, xfer>>
    /\ \A q \in Queues : claims'[q] = claims[q] \/ claims'[q] = NoClaim
    /\ \A r \in Attempts : task'[r].status = "enqueue_response_ambiguous"
          => task[r].status = "enqueue_response_ambiguous" \/ r \in pass.unbound

\* The pass goes on with what it has read.
ReadsOn ==
    /\ pass'.pc = pass.pc /\ pass'.at = pass.at /\ pass'.listed = pass.listed
    /\ pass'.done = pass.done /\ pass'.whole = pass.whole
    /\ pass'.unbound \subseteq pass.unbound /\ pass'.owned \subseteq pass.owned
    /\ \A s \in pass'.spare : s \in TaskIds /\ task[s].status # "none"

\* Such a step keeps what holds of the rows and of their transfers.
LEMMA BesideKeepsTable ==
    ASSUME Base, Transfers, TypeOK', Beside
    PROVE  Base' /\ Transfers'
<1> USE DEF Base, Transfers
<1>1. \A r \in TaskIds : task[r].status # "none" => task'[r].status # "none" /\ task'[r].cand = task[r].cand
  BY DEF Beside, TableStep, KeepsWork
<1>2. HoldsRow'
  BY <1>1 DEF Beside, HoldsRow
<1>3. RowsPlaced'
  BY DEF Beside, TableStep, KeepsWork, RowsPlaced
<1>4. Fresh'
  <2>1. \A r \in TaskIds : task[r].status = "none" => task'[r].status = "none"
    BY DEF Beside, TableStep
  <2>2. \A a \in Attempts : a \in TaskIds /\ EpisodeOf[a] \in TaskIds
    BY ConstAssumption
  <2> QED
    BY <2>1, <2>2 DEF Beside, Fresh
<1>5. FollowsCandidate' /\ RowStatus'
  <2>1. Work
    BY DEF Beside, TableStep, Work
  <2> QED
    BY <2>1, WorkKeepsRows
<1>6. CarriesCandidate'
  <2>1. ASSUME NEW a \in Attempts, att[a].pc \in Holding
        PROVE  /\ att[a].rsv \in TaskIds /\ task[att[a].rsv].status # "none"
               /\ att[a].ext \in TaskIds \cup {None}
    BY <2>1 DEF HoldsRow, TypeOK, AttemptState
  <2> QED
    BY <1>1, <2>1 DEF Beside, CarriesCandidate, Candidate
<1>7. MarksTransfer' /\ OwnReservation'
  BY DEF Beside, MarksTransfer, OwnReservation
<1>8. TransferPlaced'
  BY <1>1 DEF Beside, TransferPlaced
<1> QED
  BY <1>2, <1>3, <1>4, <1>5, <1>6, <1>7, <1>8

\* It keeps unknown outcomes at the end of their attempts, and claims short.
LEMMA BesideKeepsAttempts ==
    ASSUME RInv, Beside
    PROVE  UnknownAtEnd' /\ ClaimBeforeDeadline'
<1>1. UnknownAtEnd'
  BY DEF RInv, Beside, UnknownAtEnd, PassReads
<1>2. ClaimBeforeDeadline'
  <2> SUFFICES ASSUME NEW q \in Queues, NEW a \in Attempts, claims'[q].owner = a
               PROVE  /\ att'[a].pc # "idle"
                      /\ task'[a].status # "none" => claims'[q].exp < task'[a].deadline
    BY DEF ClaimBeforeDeadline
  <2>1. claims'[q] = claims[q]
    BY ConstAssumption DEF Beside, NoClaim
  <2>2. att[a].pc # "idle" /\ (task[a].status # "none" => claims[q].exp < task[a].deadline)
    BY <2>1 DEF RInv, ClaimBeforeDeadline
  <2>3. task'[a].status # "none" => task[a].status # "none" /\ task'[a].deadline = task[a].deadline
    BY DEF Beside, TableStep, KeepsWork
  <2> QED
    BY <2>1, <2>2, <2>3 DEF Beside
<1> QED
  BY <1>1, <1>2

\* While the pass goes on, what it has read stays true.
LEMMA BesideKeepsPass ==
    ASSUME RInv, Beside, ReadsOn
    PROVE  PassReads' /\ LateTransfer'
<1>1. \A r \in TaskIds : task[r].status # "none" => task'[r].status # "none" /\ task'[r].deadline = task[r].deadline
  BY DEF Beside, TableStep, KeepsWork
<1>2. /\ pass.listed \subseteq TaskIds
      /\ \A p \in pass.owned : p[1] \in TaskIds
  BY DEF RInv, PassOK, PassState
<1>3. PassReads'
  BY <1>1, <1>2 DEF RInv, PassReads, Beside, ReadsOn
<1>4. LateTransfer'
  <2> SUFFICES ASSUME NEW r \in Attempts, pass.pc \in {"select", "judge"}, pass.whole,
                      r \notin pass.listed, xfer[r] # "none", task'[r].deadline <= pass.at
               PROVE  /\ task'[r].status # "enqueue_response_ambiguous" /\ r \notin pass.unbound
                      /\ \A a \in Attempts \ {r} : att[a].pc = "finish" /\ att[a].rsv = r
                                                  => att[a].out # "enqueue_response_ambiguous"
    BY DEF LateTransfer, ReadsOn, Beside
  <2>1. task[r].deadline <= pass.at
    BY <1>1 DEF RInv, Transfers, TransferPlaced
  <2>2. /\ task[r].status # "enqueue_response_ambiguous" /\ r \notin pass.unbound
        /\ \A a \in Attempts \ {r} : att[a].pc = "finish" /\ att[a].rsv = r
                                        => att[a].out # "enqueue_response_ambiguous"
    BY <2>1 DEF RInv, LateTransfer
  <2> QED
    BY <2>2 DEF Beside
<1> QED
  BY <1>3, <1>4

\* Together: a step beside the protocol, while the pass goes on, keeps the invariant.
LEMMA BesideKeeps ==
    ASSUME RInv, TypeOK', PassOK', Beside, ReadsOn
    PROVE  RInv'
BY BesideKeepsTable, BesideKeepsAttempts, BesideKeepsPass DEF RInv

\* A transition asked for by the reconciler is such a step, when it names a transfer of
\* the right candidate and an unknown outcome only for a task that was selected.
LEMMA TransitionBeside ==
    ASSUME Base, NEW r \in TaskIds, NEW want \in TaskStatus \ {"none"},
           NEW x \in Attempts \cup {None}, NEW at, Transition(r, want, x, None, at),
           x # None => OfCandidate(x, r),
           Effective(r, want, x) = "enqueue_response_ambiguous" => r \in pass.unbound,
           UNCHANGED <<now, removed, proof, alt, xfer, att, wk>>
    PROVE  TypeOK' /\ Beside
<1> USE DEF Base
<1>1. TypeOK'
  <2>1. /\ queue' \in [Queues -> QueueRow] /\ wanted' \in [Issues -> WantedStatus]
        /\ task' \in [TaskIds -> TaskRow] /\ claims' \in [Queues -> ClaimRow]
    BY TransitionTyped
  <2> QED
    BY <2>1 DEF TypeOK
<1>2. \A s \in TaskIds : task'[s] = task[s] \/ (s = r /\ Takes(r, want, x, None, at))
  BY TransitionWrites
<1>3. TableStep
  <2> SUFFICES ASSUME NEW s \in TaskIds, task'[s] # task[s]
               PROVE  /\ task[s].status # "none" /\ task'[s].queue = task[s].queue
                      /\ task'[s].bound => task[s].bound
                      /\ KeepsWork(s)
    BY DEF TableStep
  <2>1. task'[s].queue = task[s].queue /\ task'[s].bound = task[s].bound
    BY <1>2 DEF Takes
  <2>2. Work
    BY TransitionWork
  <2> QED
    BY <2>1, <2>2 DEF Work
<1>4. \A q \in Queues : claims'[q] = claims[q] \/ claims'[q] = NoClaim
  BY TransitionReleases
<1>5. \A s \in Attempts : task'[s].status = "enqueue_response_ambiguous"
          => task[s].status = "enqueue_response_ambiguous" \/ s \in pass.unbound
  BY <1>2 DEF Takes
<1> QED
  BY <1>1, <1>3, <1>4, <1>5 DEF Beside

\* A step that changes nothing but the status of one row that exists is one, too.
LEMMA StatusBeside ==
    ASSUME Base, NEW r \in TaskIds, task[r].status # "none",
           NEW st \in TaskStatus \ {"none", "started_waiting", "waiting_for_slot",
                                     "enqueue_response_ambiguous"},
           NEW b \in BOOLEAN, b => task[r].bound,
           task' = [task EXCEPT ![r] = [task[r] EXCEPT !.status = st, !.bound = b]],
           UNCHANGED <<now, claims, xfer, att>>
    PROVE  Beside /\ task' \in [TaskIds -> TaskRow]
<1>1. task[r] \in TaskRow /\ task \in [TaskIds -> TaskRow]
  BY DEF Base, TypeOK
<1>2. /\ task'[r].status = st /\ task'[r].bound = b /\ task'[r].queue = task[r].queue
      /\ task'[r].cand = task[r].cand /\ task'[r].deadline = task[r].deadline
      /\ task'[r].ext = task[r].ext
  BY <1>1 DEF TaskRow
<1>3. \A s \in TaskIds \ {r} : task'[s] = task[s]
  BY <1>1
<1>4. TableStep
  BY <1>2, <1>3 DEF TableStep, KeepsWork
<1>5. [task[r] EXCEPT !.status = st, !.bound = b] \in TaskRow
  BY <1>1 DEF TaskRow
<1> QED
  BY <1>1, <1>2, <1>3, <1>4, <1>5 DEF Beside

\* A pass reads: the tables are left alone.
LEMMA ReadKeeps ==
    ASSUME RInv, UNCHANGED <<vars, ledger>>, pass' \in PassState, PassReads', LateTransfer'
    PROVE  RInv'
<1>1. PassOK'
  BY DEF RInv, PassOK
<1> QED
  BY <1>1, BaseStep, TransfersStep, NextUnknown, NextClaims DEF RInv

\* BeginPass and EndPass forget what an earlier pass has read.
LEMMA IdleKeeps ==
    ASSUME RInv, BeginPass \/ EndPass
    PROVE  RInv'
<1>1. now \in Nat
  BY ConstAssumption DEF RInv, Base, TypeOK
<1> DEFINE M == {queue[q].mirror : q \in Queues} \ {None}
<1>2. M \subseteq TaskIds
  BY DEF RInv, Base, TypeOK, QueueRow
<1>3. \/ pass' = IdlePass
      \/ pass' = [pc |-> "mirror", at |-> now, mirrored |-> M,
                  listed |-> {}, done |-> {}, whole |-> TRUE, unbound |-> {}, owned |-> {}, spare |-> {}]
  BY DEF BeginPass, EndPass, IdlePass
<1>4. UNCHANGED now
  BY DEF BeginPass, EndPass, vars
<1> HIDE DEF M
<1>5. /\ pass'.at <= now /\ pass'.listed = {} /\ pass'.done = {} /\ pass'.owned = {}
      /\ pass'.spare = {} /\ pass'.unbound = {} /\ pass'.pc \in {"idle", "mirror"}
  BY <1>1, <1>3 DEF IdlePass
<1>6. pass' \in PassState
  <2>1. {} \subseteq TaskIds /\ {} \subseteq Attempts /\ {} \subseteq TaskIds \X Attempts
    OBVIOUS
  <2>2. CASE pass' = IdlePass
    BY <2>1, <2>2 DEF IdlePass, PassState, PassPc
  <2>3. CASE pass' # IdlePass
    <3>1. "mirror" \in PassPc /\ TRUE \in BOOLEAN /\ M \in SUBSET TaskIds
      BY <1>2 DEF PassPc
    <3>2. pass' = [pc |-> "mirror", at |-> now, mirrored |-> M, listed |-> {}, done |-> {},
                   whole |-> TRUE, unbound |-> {}, owned |-> {}, spare |-> {}]
      BY <1>3, <2>3
    <3> QED
      BY <1>1, <2>1, <3>1, <3>2 DEF PassState
  <2> QED
    BY <2>2, <2>3
<1>7. PassReads' /\ LateTransfer'
  BY <1>4, <1>5 DEF PassReads, LateTransfer
<1> QED
  BY <1>6, <1>7, ReadKeeps DEF BeginPass, EndPass

\* The list shows transfers that were enqueued; a whole one shows all there are.
LEMMA ListKeeps ==
    ASSUME RInv, ListTransfers
    PROVE  RInv'
<1> DEFINE held == {x \in Attempts : xfer[x] # "none"}
<1>1. PICK S \in SUBSET held :
         pass' = [pass EXCEPT !.pc = "select", !.listed = S, !.whole = (S = held),
                              !.done = {x \in S : xfer[x] = "done"}]
  BY DEF ListTransfers
<1>2. pass \in PassState /\ UNCHANGED <<now, task, att, xfer>>
  BY DEF RInv, PassOK, ListTransfers, vars, rows
<1>3. /\ pass'.pc = "select" /\ pass'.at = pass.at /\ pass'.listed = S
      /\ pass'.done = {x \in S : xfer[x] = "done"} /\ pass'.whole = (S = held)
      /\ pass'.owned = pass.owned /\ pass'.spare = pass.spare /\ pass'.unbound = pass.unbound
  BY <1>1, <1>2 DEF PassState
<1>4. pass' \in PassState
  <2>1. {x \in S : xfer[x] = "done"} \subseteq Attempts /\ S \subseteq Attempts
        /\ (S = held) \in BOOLEAN
    OBVIOUS
  <2> HIDE DEF held
  <2> QED
    BY <1>1, <1>2, <2>1 DEF PassState, PassPc
<1>5. PassReads'
  <2>1. \A x \in S : att[x].pc \notin {"idle", "reserved", "enqueue"} /\ task[x].status # "none"
    BY DEF RInv, Transfers, TransferPlaced
  <2> QED
    BY <1>2, <1>3, <2>1 DEF RInv, PassReads
<1>6. LateTransfer'
  BY <1>2, <1>3 DEF LateTransfer
<1> QED
  BY <1>4, <1>5, <1>6, ReadKeeps DEF ListTransfers

\* The tasks that are selected exist, and the attempts of those of unknown outcome are over.
LEMMA SelectKeeps ==
    ASSUME RInv, SelectTasks
    PROVE  RInv'
<1> DEFINE U == {r \in TaskIds : /\ task[r].status \in {"started_waiting", "enqueue_response_ambiguous"}
                                 /\ task[r].ext = None}
<1>1. pass' = [pass EXCEPT !.pc = "judge", !.owned = SelectOwners, !.unbound = U]
  BY DEF SelectTasks
<1>2. pass \in PassState /\ UNCHANGED <<now, task, att, xfer>> /\ pass.pc = "select"
  BY DEF RInv, PassOK, SelectTasks, vars, rows
<1>3. SelectOwners \subseteq TaskIds \X Attempts
  BY DEF SelectOwners, RInv, Base, TypeOK, TaskRow
<1>4. \A p \in SelectOwners : task[p[1]].status # "none"
  BY DEF SelectOwners, RInv, Transfers, FollowsCandidate
<1>5. \A r \in U : r \in Attempts /\ att[r].pc = "done" /\ task[r].status = "enqueue_response_ambiguous"
  BY DEF RInv, Transfers, RowStatus, UnknownAtEnd
<1>6. U \subseteq TaskIds
  OBVIOUS
<1> HIDE DEF U
<1>7. /\ pass'.pc = "judge" /\ pass'.at = pass.at /\ pass'.listed = pass.listed
      /\ pass'.done = pass.done /\ pass'.whole = pass.whole
      /\ pass'.owned = SelectOwners /\ pass'.spare = pass.spare /\ pass'.unbound = U
  BY <1>1, <1>2 DEF PassState
<1>8. pass' \in PassState
  BY <1>1, <1>2, <1>3, <1>6 DEF PassState, PassPc
<1>9. PassReads'
  BY <1>2, <1>4, <1>5, <1>7 DEF RInv, PassReads
<1>10. LateTransfer'
  BY <1>2, <1>5, <1>7 DEF RInv, LateTransfer
<1> QED
  BY <1>8, <1>9, <1>10, ReadKeeps DEF SelectTasks

\* An ended task that is reported once more stays as it is.
LEMMA ProjectKeeps ==
    ASSUME RInv, NEW r \in TaskIds, ProjectMirrored(r)
    PROVE  RInv'
<1> USE DEF RInv, PassOK
<1>1. /\ pass' = [pass EXCEPT !.mirrored = @ \ {r}]
      /\ UNCHANGED <<now, removed, proof, alt, xfer, att, wk, ledger>>
  BY DEF ProjectMirrored
<1>2. PassOK'
  BY <1>1 DEF PassState
<1>3. ReadsOn
  BY <1>1 DEF ReadsOn, PassState, PassReads
<1>4. CASE Terminal(task[r].status)
  <2>1. Transition(r, task[r].status, task[r].ext, None, pass.at)
    BY <1>4 DEF ProjectMirrored
  <2>2. /\ task[r].status \in TaskStatus \ {"none"} /\ task[r].ext \in Attempts \cup {None}
        /\ Effective(r, task[r].status, task[r].ext) # "enqueue_response_ambiguous"
    BY <1>4 DEF Terminal, Effective, Base, TypeOK, TaskRow
  <2>3. task[r].ext # None => OfCandidate(task[r].ext, r)
    BY <2>2 DEF OfCandidate, Transfers, FollowsCandidate
  <2>4. TypeOK' /\ Beside
    BY <1>1, <2>1, <2>2, <2>3, TransitionBeside
  <2> QED
    BY <1>2, <1>3, <2>4, BesideKeeps
<1>5. CASE ~Terminal(task[r].status)
  <2>1. UNCHANGED vars
    BY <1>1, <1>5 DEF ProjectMirrored, vars, rows
  <2>2. TypeOK'
    BY <2>1, BaseStep DEF Base
  <2>3. Beside
    BY <2>1 DEF Beside, TableStep, vars, rows
  <2> QED
    BY <1>2, <1>3, <2>2, <2>3, BesideKeeps
<1> QED
  BY <1>4, <1>5

\* The owners of a transfer are left alone.
LEMMA OwnersKeep ==
    ASSUME RInv, NEW x \in Attempts, PassOwners(x)
    PROVE  RInv'
<1> USE DEF RInv, PassOK
<1>1. pass' = [pass EXCEPT !.owned = {p \in @ : p[2] # x}, !.spare = {}]
      /\ UNCHANGED <<vars, ledger>>
  BY DEF PassOwners, Judged
<1> DEFINE O == {p \in pass.owned : p[2] # x}
<1>2. O \subseteq pass.owned /\ pass' = [pass EXCEPT !.owned = O, !.spare = {}]
  BY <1>1
<1> HIDE DEF O
<1>3. PassOK'
  <2>1. pass.owned \subseteq TaskIds \X Attempts
    BY DEF PassState
  <2>2. O \in SUBSET (TaskIds \X Attempts) /\ {} \in SUBSET TaskIds
    BY <1>2, <2>1
  <2>3. pass' \in PassState
    BY <1>2, <2>2 DEF PassState
  <2> QED
    BY <1>1, <2>3
<1>4. ReadsOn
  BY <1>2 DEF ReadsOn, PassState
<1>5. TypeOK' /\ Beside
  BY <1>1, BaseStep DEF Base, Beside, TableStep, vars, rows
<1> QED
  BY <1>3, <1>4, <1>5, BesideKeeps

\* A recovered task becomes ready for import, and its recovery is counted.
LEMMA RecoverKeeps ==
    ASSUME RInv, NEW r \in TaskIds, NEW x \in Attempts, RecoverOwner(r, x)
    PROVE  RInv'
<1> USE DEF RInv, PassOK
<1> DEFINE O == {p \in pass.owned : p[2] # x}
           S == Followers(x) \ {r}
<1>1. /\ O \subseteq pass.owned /\ pass' = [pass EXCEPT !.owned = O, !.spare = S]
      /\ r \in Followers(x)
      /\ UNCHANGED <<now, removed, proof, alt, claims, xfer, att, wk>>
  BY DEF RecoverOwner, Judged
<1>2. \A s \in Followers(x) : s \in TaskIds /\ task[s].status # "none"
  BY DEF Followers, PassReads
<1>3. S \subseteq TaskIds /\ \A s \in S : task[s].status # "none"
  BY <1>2
<1> HIDE DEF O, S
<1>4. pass' \in PassState
  BY <1>1, <1>3 DEF PassState
<1>5. ReadsOn
  BY <1>1, <1>3 DEF ReadsOn, PassState
<1>6. CASE UNCHANGED <<rows, ledger>>
  <2>1. UNCHANGED vars
    BY <1>1, <1>6 DEF vars
  <2>2. TypeOK' /\ Beside
    BY <2>1, BaseStep DEF Base, Beside, TableStep, vars, rows
  <2> QED
    BY <1>4, <1>5, <1>6, <2>2, BesideKeeps
<1>7. CASE ~Exhausted(task[r].queue, x) /\ Recover(r, x)
  <2> DEFINE q == task[r].queue
  <2>1. task[r].status # "none" /\ q \in Queues /\ task[r] \in TaskRow
    BY <1>1, <1>2 DEF Base, RowsPlaced, TypeOK
  <2>2. task' = [task EXCEPT ![r] = [task[r] EXCEPT !.status = "import_ready", !.bound = task[r].bound]]
    BY <1>7, <2>1 DEF Recover, TaskRow
  <2>3. Beside /\ task' \in [TaskIds -> TaskRow]
    BY <1>1, <2>1, <2>2, StatusBeside DEF TaskRow
  <2>4. queue' \in [Queues -> QueueRow] /\ wanted' \in [Issues -> WantedStatus]
    BY <1>7 DEF Recover, Base, TypeOK, QueueRow, QueueState, WantedStatus
  <2>5. TypeOK'
    BY <1>1, <2>3, <2>4 DEF Base, TypeOK
  <2>6. ledger' \in [Queues -> [Attempts -> 0..MaxRecoveries]]
    <3>1. ledger[q] \in [Attempts -> 0..MaxRecoveries] /\ ledger[q][x] \in 0..MaxRecoveries
      BY <2>1
    <3>2. ledger[q][x] + 1 \in 0..MaxRecoveries
      BY <1>7, <3>1, RecoveryAssumption DEF Exhausted
    <3>3. [ledger[q] EXCEPT ![x] = ledger[q][x] + 1] \in [Attempts -> 0..MaxRecoveries]
      BY <3>1, <3>2
    <3>4. ledger' = [ledger EXCEPT ![q] = [ledger[q] EXCEPT ![x] = ledger[q][x] + 1]]
      BY <1>7, <2>1 DEF Recover
    <3> QED
      BY <3>3, <3>4
  <2> QED
    BY <1>4, <1>5, <2>3, <2>5, <2>6, BesideKeeps
<1> QED
  BY <1>6, <1>7 DEF RecoverOwner

\* The spare owners are ended one by one.
LEMMA RetireKeeps ==
    ASSUME RInv, NEW r \in TaskIds, RetireDuplicate(r)
    PROVE  RInv'
<1> USE DEF RInv, PassOK
<1>1. /\ pass' = [pass EXCEPT !.spare = @ \ {r}] /\ r \in pass.spare
      /\ UNCHANGED <<now, queue, wanted, removed, proof, alt, claims, xfer, att, wk, ledger>>
  BY DEF RetireDuplicate
<1>2. PassOK'
  BY <1>1 DEF PassState
<1>3. ReadsOn
  BY <1>1 DEF ReadsOn, PassState, PassReads
<1>4. task[r].status # "none" /\ task[r] \in TaskRow
  BY <1>1 DEF PassReads, Base, TypeOK
<1>5. task' = [task EXCEPT ![r] = [task[r] EXCEPT !.status = "superseded_duplicate_owner",
                                                   !.bound = task[r].bound]]
  BY <1>4 DEF RetireDuplicate, TaskRow
<1>6. Beside /\ task' \in [TaskIds -> TaskRow]
  BY <1>1, <1>4, <1>5, StatusBeside DEF TaskRow
<1>7. TypeOK'
  BY <1>1, <1>6 DEF Base, TypeOK
<1> QED
  BY <1>2, <1>3, <1>6, <1>7, BesideKeeps

\* A handoff of unknown outcome is bound to a transfer of its candidate, or retired.
LEMMA JudgeKeeps ==
    ASSUME RInv, NEW r \in TaskIds, JudgeUnbound(r)
    PROVE  RInv'
<1> USE DEF RInv, PassOK
<1>1. /\ pass' = [pass EXCEPT !.unbound = @ \ {r}] /\ r \in pass.unbound
      /\ UNCHANGED <<now, removed, proof, alt, xfer, att, wk, ledger>>
  BY DEF JudgeUnbound
<1>2. PassOK'
  BY <1>1 DEF PassState
<1>3. ReadsOn
  BY <1>1 DEF ReadsOn, PassState, PassReads
<1>4. ASSUME NEW want \in {"started_waiting", "enqueue_response_ambiguous", "reservation_failed"},
             NEW x \in Matches(r) \cup {None}, Transition(r, want, x, None, pass.at)
      PROVE  TypeOK' /\ Beside
  <2>1. x # None => OfCandidate(x, r)
    BY DEF Matches, OfCandidate, PassReads, PassState
  <2>2. x \in Attempts \cup {None}
    BY DEF Matches, PassState
  <2> QED
    BY <1>1, <1>4, <2>1, <2>2, TransitionBeside
<1>5. ASSUME UNCHANGED <<rows, claims>> PROVE TypeOK' /\ Beside
  <2>1. UNCHANGED vars
    BY <1>1, <1>5 DEF vars
  <2>2. TypeOK'
    BY <2>1, BaseStep DEF Base
  <2>3. Beside
    BY <2>1 DEF Beside, TableStep, vars, rows
  <2> QED
    BY <2>2, <2>3
<1>6. \/ \E x \in Matches(r) : Transition(r, "started_waiting", x, None, pass.at)
      \/ Transition(r, "enqueue_response_ambiguous", None, None, pass.at)
      \/ Transition(r, "reservation_failed", None, None, pass.at)
      \/ UNCHANGED <<rows, claims>>
  BY DEF JudgeUnbound
<1>7. TypeOK' /\ Beside
  BY <1>4, <1>5, <1>6
<1> QED
  BY <1>2, <1>3, <1>7, BesideKeeps

\* A failed import ends its task.
LEMMA NothingStagedKeeps ==
    ASSUME RInv, NEW r \in TaskIds, NothingStaged(r)
    PROVE  RInv'
<1> USE DEF RInv, PassOK
<1>1. UNCHANGED <<now, removed, proof, alt, claims, xfer, att, wk, pass, ledger>>
  BY DEF NothingStaged
<1>2. PassOK' /\ ReadsOn
  BY <1>1 DEF ReadsOn, PassState, PassReads
<1>3. task[r].status # "none" /\ task[r] \in TaskRow
  BY DEF NothingStaged, Base, TypeOK
<1>4. PICK b \in {task[r].bound, FALSE} :
         task' = [task EXCEPT ![r].status = "transfer_failed", ![r].bound = b]
  BY DEF NothingStaged
<1>5. b \in BOOLEAN /\ (b => task[r].bound)
  BY <1>3 DEF TaskRow
<1>6. task' = [task EXCEPT ![r] = [task[r] EXCEPT !.status = "transfer_failed", !.bound = b]]
  BY <1>3, <1>4 DEF Base, TypeOK
<1>7. Beside /\ task' \in [TaskIds -> TaskRow]
  BY <1>1, <1>3, <1>5, <1>6, StatusBeside
<1>8. queue' \in [Queues -> QueueRow] /\ wanted' \in [Issues -> WantedStatus]
  <2>1. PICK st \in {"downloading", "queued"} : queue' = [queue EXCEPT ![task[r].queue].state = st]
    BY DEF NothingStaged
  <2>2. queue' \in [Queues -> QueueRow]
    <3>1. queue \in [Queues -> QueueRow] /\ st \in QueueState
      BY DEF Base, TypeOK, QueueState
    <3>2. \A x \in QueueRow : [x EXCEPT !.state = st] \in QueueRow
      BY <3>1 DEF QueueRow
    <3> QED
      BY <2>1, <3>1, <3>2
  <2> QED
    BY <2>2 DEF NothingStaged, Base, TypeOK, WantedStatus
<1>9. TypeOK'
  BY <1>1, <1>7, <1>8 DEF Base, TypeOK
<1> QED
  BY <1>2, <1>7, <1>9, BesideKeeps

\* The sweep of expired import claims writes the queue row and its wanted item only.
LEMMA ReleaseImportKeeps ==
    ASSUME RInv, NEW q \in Queues, ReleaseImport(q)
    PROVE  RInv'
<1> USE DEF RInv, PassOK
<1>1. UNCHANGED <<now, removed, proof, task, alt, claims, xfer, att, wk, pass, ledger>>
  BY DEF ReleaseImport
<1>2. PassOK' /\ ReadsOn /\ Beside
  BY <1>1 DEF ReadsOn, PassState, PassReads, Beside, TableStep
<1>3. queue' \in [Queues -> QueueRow] /\ wanted' \in [Issues -> WantedStatus]
  BY DEF ReleaseImport, Base, TypeOK, QueueRow, QueueState, WantedStatus
<1>4. TypeOK'
  BY <1>1, <1>3 DEF Base, TypeOK
<1> QED
  BY <1>2, <1>4, BesideKeeps

--------------------------------------------------------------------------------
(* The theorems *)

\* Every step of the protocol, of a pass and of the importer keeps the invariant.
THEOREM StepRInv == RInv /\ [RNext]_rvars => RInv'
<1> SUFFICES ASSUME RInv, [RNext]_rvars PROVE RInv'
  OBVIOUS
<1>1. CASE Next /\ UNCHANGED <<pass, ledger>>
  BY <1>1, NextKeeps
<1>2. CASE Pass
  BY <1>2, IdleKeeps, ProjectKeeps, ListKeeps, SelectKeeps, RecoverKeeps, OwnersKeep,
     RetireKeeps, JudgeKeeps DEF Pass
<1>3. ASSUME NEW r \in TaskIds, NothingStaged(r) PROVE RInv'
  BY <1>3, NothingStagedKeeps
<1>4. ASSUME NEW q \in Queues, ReleaseImport(q) PROVE RInv'
  BY <1>4, ReleaseImportKeeps
<1>5. CASE UNCHANGED rvars
  BY <1>5, NextKeeps DEF rvars
<1> QED
  BY <1>1, <1>2, <1>3, <1>4, <1>5 DEF RNext

\* What a pass has read stays usable while the protocol goes on: its tasks exist, its
\* transfers were enqueued, and a transfer that a complete list does not show was
\* enqueued under a claim that outlasts the list.
THEOREM RInvariance == RSpec => []RInv
BY InitRInv, StepRInv, PTL DEF RSpec

\* The tables, the pass and the ledger stay well-formed; no transfer is recovered more
\* often than slskd_completed_recovery_exhausted allows.
THEOREM RTypeCorrect == RSpec => []RTypeOK
<1>1. RInv => RTypeOK
  BY DEF RInv, Base, PassOK, RTypeOK
<1> QED
  BY <1>1, RInvariance, PTL

\* A handoff of unknown outcome is retired as missing (reconcile_slskd_transfer_identity_tasks)
\* only when its transfer neither runs nor is done.
THEOREM MissingMeansGone == RSpec => RetiredOnlyWhenGone
<1>1. ASSUME RInv, [RNext]_rvars, NEW r \in Attempts, pass.pc = "judge", Active(r),
             task'[r].status = "reservation_failed", r \in pass.unbound \ pass'.unbound
      PROVE  xfer[r] \notin {"running", "done"}
  <2> USE DEF RInv, Base
  <2>0. pass \in PassState
    BY <1>1 DEF PassOK
  <2>1. task'[r] # task[r]
    BY <1>1 DEF Active
  <2>2. PICK s \in TaskIds : JudgeUnbound(s)
    BY <1>1, <2>0, <2>1
       DEF RNext, Pass, rvars, vars, rows, BeginPass, ProjectMirrored, ListTransfers, SelectTasks,
           RecoverOwner, PassOwners, Judged, RetireDuplicate, EndPass, NothingStaged,
           ReleaseImport, PassState
  <2>3. s = r
    BY <1>1, <2>0, <2>2 DEF JudgeUnbound, PassState
  <2>4. ASSUME NEW want \in {"started_waiting", "enqueue_response_ambiguous"},
               NEW x \in Matches(r) \cup {None}, want = "started_waiting" => x # None,
               Transition(r, want, x, None, pass.at)
        PROVE  FALSE
    <3>1. x \in Attempts \cup {None}
      BY <2>0 DEF Matches, PassState
    <3>2. Takes(r, want, x, None, pass.at)
      BY <1>1, <2>1, <2>4, <3>1, TransitionWrites
    <3> QED
      BY <1>1, <3>2 DEF Takes, Effective
  <2>5. \A x \in Matches(r) : x # None
    BY <2>0, ConstAssumption DEF Matches, PassState
  <2>6. Missing(r)
    BY <2>1, <2>2, <2>3, <2>4, <2>5 DEF JudgeUnbound, rows
  <2>7. pass.whole /\ r \notin pass.listed /\ task[r].deadline <= pass.at
    BY <2>6 DEF Missing, Matches
  <2> QED
    BY <1>1, <2>7 DEF LateTransfer
<1>2. RInv /\ [RNext]_rvars
        => [\A r \in Attempts :
              (pass.pc = "judge" /\ Active(r) /\ task'[r].status = "reservation_failed"
                  /\ r \in pass.unbound \ pass'.unbound)
                 => xfer[r] \notin {"running", "done"}]_rvars
  BY <1>1
<1> QED
  BY <1>2, RInvariance, PTL DEF RSpec, RetiredOnlyWhenGone

\* The siblings of a task that is not fenced are neither active nor verified.
LEMMA Unfenced ==
    ASSUME NEW r \in TaskIds, ~RecoveryFenced(r), task[r].queue \in Queues,
           NEW s \in TaskIds \ {r}, task[s].queue = task[r].queue
    PROVE  ~Active(s) /\ ~Verified(s) /\ ~proof[IssueOf[task[r].queue]]
<1> DEFINE q == task[r].queue
<1>1. SiblingChoices(q, r) = {"none"} /\ s \in SiblingTasks(q, r)
  BY DEF RecoveryFenced, SiblingTasks
<1>2. ~VerifiedSibling(q, r) /\ "verified" # "none"
  BY <1>1 DEF SiblingChoices
<1>3. ~Active(s)
  <2> SUFFICES ASSUME Active(s) PROVE FALSE
    OBVIOUS
  <2> DEFINE st == IF task[s].status = "import_ready" THEN "import_ready" ELSE "downloading"
  <2>1. st \in ActiveSiblingStates(q, r) /\ st # "none"
    BY <1>1 DEF ActiveSiblingStates
  <2> QED
    BY <1>1, <1>2, <2>1 DEF SiblingChoices
<1> QED
  BY <1>1, <1>2, <1>3 DEF VerifiedSibling, RecoveryFenced

\* Task r, which has ended, goes to the importer again.
Revives(r) ==
    /\ task[r].status \notin ActiveStatus \cup {"none"}
    /\ \E x \in Attempts : RecoverOwner(r, x) /\ Recover(r, x)

\* A step is one of the protocol, keeps the table, or revives one task.
LEMMA RStepRows ==
    ASSUME RInv, [RNext]_rvars
    PROVE  [Next]_vars \/ KeepsRows \/ \E r \in TaskIds : Revives(r)
<1> USE DEF RInv, Base
<1>0. pass \in PassState /\ task \in [TaskIds -> TaskRow]
  BY DEF PassOK, TypeOK
<1>1. ASSUME NEW r \in TaskIds, ProjectMirrored(r) PROVE KeepsRows
  <2>1. CASE Terminal(task[r].status)
    <3>1. /\ Transition(r, task[r].status, task[r].ext, None, pass.at)
          /\ task[r].status \in TaskStatus \ {"none"} /\ task[r].ext \in Attempts \cup {None}
      BY <1>0, <1>1, <2>1 DEF ProjectMirrored, Terminal, TaskRow
    <3> QED
      BY <3>1, TransitionRows
  <2>2. CASE ~Terminal(task[r].status)
    BY <1>1, <2>2, SameRows DEF ProjectMirrored, rows
  <2> QED
    BY <2>1, <2>2
<1>2. ASSUME NEW r \in TaskIds, JudgeUnbound(r) PROVE KeepsRows
  <2>1. Matches(r) \subseteq Attempts
    BY <1>0 DEF Matches, PassState
  <2>2. ASSUME NEW want \in {"started_waiting", "enqueue_response_ambiguous", "reservation_failed"},
               NEW x \in Attempts \cup {None}, Transition(r, want, x, None, pass.at)
        PROVE  KeepsRows
    BY <2>2, TransitionRows
  <2>3. \/ \E x \in Matches(r) : Transition(r, "started_waiting", x, None, pass.at)
        \/ Transition(r, "enqueue_response_ambiguous", None, None, pass.at)
        \/ Transition(r, "reservation_failed", None, None, pass.at)
        \/ UNCHANGED <<rows, claims>>
    BY <1>2 DEF JudgeUnbound
  <2> QED
    BY <2>1, <2>2, <2>3, SameRows DEF rows
<1>3. ASSUME NEW r \in TaskIds, NEW st \in TaskStatus \ (ActiveStatus \cup {"none"}),
             NEW b \in BOOLEAN, b => task[r].bound, task[r].status # "none",
             task' = [task EXCEPT ![r].status = st, ![r].bound = b]
      PROVE  KeepsRows
  <2>1. \A s \in TaskIds : s # r => task'[s] = task[s]
    BY <1>0, <1>3
  <2>2. task'[r].status = st /\ task'[r].queue = task[r].queue /\ task'[r].bound = b
    BY <1>0, <1>3 DEF TaskRow
  <2> QED
    BY <1>3, <2>1, <2>2 DEF KeepsRows, KeepsRow
<1>4. ASSUME NEW r \in TaskIds, RetireDuplicate(r) PROVE KeepsRows
  <2>1. task[r] \in TaskRow /\ task[r].status # "none"
    BY <1>0, <1>4 DEF RetireDuplicate, PassReads
  <2>2. task' = [task EXCEPT ![r].status = "superseded_duplicate_owner", ![r].bound = task[r].bound]
    BY <1>0, <1>4, <2>1 DEF RetireDuplicate, TaskRow
  <2>3. task[r].bound \in BOOLEAN
    BY <2>1 DEF TaskRow
  <2> QED
    BY <1>3, <2>1, <2>2, <2>3
<1>5. ASSUME NEW r \in TaskIds, NothingStaged(r) PROVE KeepsRows
  <2>1. PICK b \in {task[r].bound, FALSE} :
           task' = [task EXCEPT ![r].status = "transfer_failed", ![r].bound = b]
    BY <1>5 DEF NothingStaged
  <2>2. task[r] \in TaskRow /\ task[r].status = "import_ready"
    BY <1>0, <1>5 DEF NothingStaged
  <2>3. b \in BOOLEAN /\ (b => task[r].bound)
    BY <2>2 DEF TaskRow
  <2> QED
    BY <1>3, <2>1, <2>2, <2>3
<1>6. ASSUME NEW r \in TaskIds, NEW x \in Attempts, RecoverOwner(r, x)
      PROVE  KeepsRows \/ Revives(r)
  <2>1. CASE UNCHANGED task
    BY <2>1, SameRows
  <2>2. CASE Recover(r, x)
    <3>1. task[r].status # "none" /\ task' = [task EXCEPT ![r].status = "import_ready"]
      BY <1>0, <1>6, <2>2 DEF RecoverOwner, Recover, Followers, PassReads
    <3>2. CASE Active(r)
      <4>1. \A s \in TaskIds : s # r => task'[s] = task[s]
        BY <1>0, <3>1
      <4>2. /\ task'[r].status = "import_ready" /\ task'[r].queue = task[r].queue
            /\ task'[r].bound = task[r].bound
        BY <1>0, <3>1 DEF TaskRow
      <4> QED
        BY <3>1, <3>2, <4>1, <4>2 DEF KeepsRows, KeepsRow, Active
    <3>3. CASE ~Active(r)
      BY <1>6, <2>2, <3>1, <3>3 DEF Revives, Active
    <3> QED
      BY <3>2, <3>3
  <2> QED
    BY <1>6, <2>1, <2>2 DEF RecoverOwner, rows
<1>7. CASE BeginPass \/ ListTransfers \/ SelectTasks \/ EndPass \/ \E x \in Attempts : PassOwners(x)
  BY <1>7, SameRows DEF BeginPass, ListTransfers, SelectTasks, EndPass, PassOwners, vars, rows
<1>8. ASSUME NEW q \in Queues, ReleaseImport(q) PROVE KeepsRows
  BY <1>8, SameRows DEF ReleaseImport
<1> QED
  BY <1>1, <1>2, <1>4, <1>5, <1>6, <1>7, <1>8 DEF RNext, Pass, rvars

\* What it writes, and what speaks for it.
LEMMA RevivesWrites ==
    ASSUME RInv, NEW r \in TaskIds, Revives(r)
    PROVE  /\ task'[r].status = "import_ready" /\ task'[r].queue = task[r].queue
           /\ task[r].queue \in Queues /\ ~Active(r) /\ ~RecoveryFenced(r)
           /\ task[r].ext \in pass.done
           /\ \A s \in TaskIds : s # r => task'[s] = task[s]
<1>1. task \in [TaskIds -> TaskRow]
  BY DEF RInv, Base, TypeOK
<1>2. task[r].queue \in Queues
  BY DEF RInv, Base, RowsPlaced, Revives
<1>3. task' = [task EXCEPT ![r].status = "import_ready"] /\ ~RecoveryFenced(r) /\ task[r].ext \in pass.done
  BY DEF Revives, RecoverOwner, Recover
<1> QED
  BY <1>1, <1>2, <1>3 DEF Revives, Active, TaskRow

\* No other step makes an ended task active.
LEMMA RevivedOnce ==
    ASSUME RInv, [RNext]_rvars, NEW r \in TaskIds,
           task[r].status \notin ActiveStatus \cup {"none"}, task'[r].status \in ActiveStatus
    PROVE  Revives(r)
<1>1. ~[Next]_vars
  BY EndedStep DEF RInv
<1>2. ~KeepsRows
  BY DEF KeepsRows, KeepsRow
<1>3. PICK s \in TaskIds : Revives(s)
  BY <1>1, <1>2, RStepRows
<1>4. s # r => task'[r] = task[r]
  BY <1>3, RevivesWrites
<1> QED
  BY <1>3, <1>4

\* An ended task is revived by the recovery of its finished transfer only
\* (recover_completed_slskd_candidate_task), and not against another active or verified
\* task of its row or a recorded import.
THEOREM RecoveryOnly == RSpec => OnlyRecoveryRevives
<1>1. ASSUME RInv, [RNext]_rvars, NEW r \in TaskIds,
             task[r].status \notin ActiveStatus \cup {"none"}, task'[r].status \in ActiveStatus
      PROVE  /\ task'[r].status = "import_ready"
             /\ task[r].ext \in Attempts /\ xfer[task[r].ext] \in {"done", "none"}
             /\ \A s \in TaskIds \ {r} : task[s].queue = task[r].queue => ~Active(s) /\ ~Verified(s)
             /\ ~proof[IssueOf[task[r].queue]]
  <2>1. Revives(r)
    BY <1>1, RevivedOnce
  <2>2. /\ task'[r].status = "import_ready" /\ task[r].queue \in Queues
        /\ ~RecoveryFenced(r) /\ task[r].ext \in pass.done
    BY <1>1, <2>1, RevivesWrites
  <2>3. task[r].ext \in Attempts /\ xfer[task[r].ext] \in {"done", "none"}
    BY <1>1, <2>2 DEF RInv, PassOK, PassState, PassReads
  <2>4. \A s \in TaskIds \ {r} : task[s].queue = task[r].queue => ~Active(s) /\ ~Verified(s)
    BY <2>2, Unfenced
  <2> QED
    BY <2>2, <2>3, <2>4 DEF RecoveryFenced
<1>2. RInv /\ [RNext]_rvars
        => [\A r \in TaskIds :
              (task[r].status \notin ActiveStatus \cup {"none"} /\ task'[r].status \in ActiveStatus)
                 => /\ task'[r].status = "import_ready"
                    /\ task[r].ext \in Attempts /\ xfer[task[r].ext] \in {"done", "none"}
                    /\ \A s \in TaskIds \ {r} :
                          task[s].queue = task[r].queue => ~Active(s) /\ ~Verified(s)
                    /\ ~proof[IssueOf[task[r].queue]]]_rvars
  BY <1>1
<1> QED
  BY <1>2, RInvariance, PTL DEF RSpec, OnlyRecoveryRevives

\* Under the reconciler too, what is recorded as started follows a transfer of its
\* own candidate: a list is bound to a row by the candidate it names.
THEOREM RStartedFollows == RSpec => []StartedFollowsCandidate
<1>1. RInv => StartedFollowsCandidate
  BY DEF RInv, Transfers, FollowsCandidate, RowStatus, StartedFollowsCandidate
<1> QED
  BY <1>1, RInvariance, PTL
--------------------------------------------------------------------------------
(* Who owns a unit while the reconciler works *)

\* A unit gets a second owner in one way only.  Reservations and reports take free units
\* or none (reserve_slskd_candidate scans by unit); recovery
\* (recover_completed_slskd_candidate_task) asks for rivals by queue row, so the finished
\* transfer of an ended task may be handed to the importer beside the owner of the same
\* unit on another queue row.
SecondOwnerIsRecovered ==
    [][\A u \in Units : \A r \in Owners(u)' \ Owners(u) : \A s \in Owners(u)' \ {r} :
         /\ task[r].status \notin ActiveStatus \cup {"none"}
         /\ task'[r].status = "import_ready" /\ xfer[task[r].ext] \in {"done", "none"}
         /\ s \in Owners(u) /\ task[s].queue # task[r].queue]_rvars

\* A step of the reservation protocol that takes a unit finds it free.
LEMMA TakenWasFree ==
    ASSUME Base, [Next]_vars, NEW u \in Units, NEW r \in Owners(u)' \ Owners(u)
    PROVE  Owners(u)' = {r}
<1>0. r \in Attempts /\ Owners(u)' \subseteq Attempts
  BY DEF Owners
<1>1. CASE KeepsRows
  BY <1>1, KeptOwner DEF KeepsRows, Owners, Active, Unit
<1>2. ASSUME NEW a \in Attempts, NEW q \in Queues, NEW c \in Cands, NewReservation(a, q, c)
      PROVE  Owners(u)' = {r}
  <2>1. \A t \in Attempts \ {a} : t \in Owners(u)' => t \in Owners(u)
    BY <1>2, NewRow DEF Owners, Active, Unit
  <2>2. r = a
    BY <1>0, <2>1
  <2>3. u = Unit(q)
    BY <1>2, <2>2, NewRow DEF Owners, Active, Unit
  <2>4. Owners(u) = {}
    BY <1>2, <2>3, ActivePlaced DEF NewReservation, Deciding, Owners
  <2> QED
    BY <1>0, <2>1, <2>2, <2>4
<1>3. ASSUME NEW a \in Attempts, InsertsEpisode(a) PROVE Owners(u)' = {r}
  <2>1. \A t \in Attempts : task'[t] = task[t]
    BY <1>3, EpisodeRow DEF Base
  <2> QED
    BY <2>1 DEF Owners, Active, Unit
<1> QED
  BY <1>1, <1>2, <1>3, StepRows

\* A recovered task joins the owners that there are, on other queue rows.
LEMMA RevivedBesideOthers ==
    ASSUME RInv, NEW t \in TaskIds, Revives(t),
           NEW u \in Units, NEW r \in Owners(u)' \ Owners(u), NEW s \in Owners(u)' \ {r}
    PROVE  /\ r = t /\ task'[r].status = "import_ready"
           /\ s \in Owners(u) /\ task[s].queue # task[r].queue
<1>1. /\ task'[t].status = "import_ready" /\ task'[t].queue = task[t].queue
      /\ task[t].queue \in Queues /\ ~RecoveryFenced(t)
      /\ \A v \in TaskIds : v # t => task'[v] = task[v]
  BY RevivesWrites
<1>2. r \in TaskIds /\ s \in TaskIds /\ s # r
  BY DEF Owners, TaskIds
<1>3. r = t
  BY <1>1, <1>2 DEF Owners, Active, Unit
<1>4. s \in Owners(u)
  BY <1>1, <1>2, <1>3 DEF Owners, Active, Unit
<1>5. task[s].queue # task[r].queue
  BY <1>1, <1>2, <1>3, <1>4, Unfenced DEF Owners
<1> QED
  BY <1>1, <1>3, <1>4, <1>5

\* A unit has a second active reserved row only when recovery handed the finished
\* transfer of an ended task to the importer beside the owner, on another queue row;
\* for every number of queue rows of a unit.
THEOREM SecondOwner == RSpec => SecondOwnerIsRecovered
<1>1. ASSUME RInv, [RNext]_rvars,
             NEW u \in Units, NEW r \in Owners(u)' \ Owners(u), NEW s \in Owners(u)' \ {r}
      PROVE  /\ task[r].status \notin ActiveStatus \cup {"none"}
             /\ task'[r].status = "import_ready" /\ xfer[task[r].ext] \in {"done", "none"}
             /\ s \in Owners(u) /\ task[s].queue # task[r].queue
  <2>1. ~[Next]_vars
    BY <1>1, TakenWasFree DEF RInv
  <2>2. ~KeepsRows
    BY <1>1, KeptOwner DEF KeepsRows, Owners, Active, Unit, RInv
  <2>3. PICK t \in TaskIds : Revives(t)
    BY <1>1, <2>1, <2>2, RStepRows
  <2>4. /\ r = t /\ task'[r].status = "import_ready"
        /\ s \in Owners(u) /\ task[s].queue # task[r].queue
    BY <1>1, <2>3, RevivedBesideOthers
  <2>5. task[r].status \notin ActiveStatus \cup {"none"} /\ task[r].ext \in pass.done
    BY <1>1, <2>3, <2>4, RevivesWrites DEF Revives
  <2>6. xfer[task[r].ext] \in {"done", "none"}
    BY <1>1, <2>5 DEF RInv, PassOK, PassState, PassReads
  <2> QED
    BY <2>4, <2>5, <2>6
<1>2. RInv /\ [RNext]_rvars
        => [\A u \in Units : \A r \in Owners(u)' \ Owners(u) : \A s \in Owners(u)' \ {r} :
              /\ task[r].status \notin ActiveStatus \cup {"none"}
              /\ task'[r].status = "import_ready" /\ xfer[task[r].ext] \in {"done", "none"}
              /\ s \in Owners(u) /\ task[s].queue # task[r].queue]_rvars
  BY <1>1
<1> QED
  BY <1>2, RInvariance, PTL DEF RSpec, SecondOwnerIsRecovered

--------------------------------------------------------------------------------
(* How often an ended task comes back *)

\* The ledger forgets no recovery, and every revival of a task is entered in it for the
\* task's queue row and transfer.
RevivalsCounted ==
    [][/\ \A q \in Queues, x \in Attempts : ledger'[q][x] >= ledger[q][x]
       /\ \A r \in TaskIds :
            (task[r].status \notin ActiveStatus \cup {"none"} /\ task'[r].status \in ActiveStatus)
               => /\ ledger[task[r].queue][task[r].ext] < MaxRecoveries
                  /\ ledger'[task[r].queue][task[r].ext] = ledger[task[r].queue][task[r].ext] + 1]_rvars

\* The ledger changes by recoveries only.
LEMMA LedgerStep ==
    ASSUME RInv, [RNext]_rvars, NEW q \in Queues, NEW x \in Attempts
    PROVE  ledger'[q][x] >= ledger[q][x]
<1>0. ledger \in [Queues -> [Attempts -> 0..MaxRecoveries]] /\ ledger[q][x] \in Nat
  BY RecoveryAssumption DEF RInv, PassOK
<1>1. CASE UNCHANGED ledger
  BY <1>0, <1>1
<1>2. ASSUME NEW r \in TaskIds, NEW y \in Attempts, Recover(r, y)
      PROVE  ledger'[q][x] >= ledger[q][x]
  <2>1. ledger' = [ledger EXCEPT ![task[r].queue][y] = @ + 1]
    BY <1>2 DEF Recover
  <2>2. ledger'[q][x] = ledger[q][x] \/ ledger'[q][x] = ledger[q][x] + 1
    BY <1>0, <2>1
  <2> QED
    BY <1>0, <2>2
<1> QED
  BY <1>1, <1>2
     DEF RNext, Pass, rvars, BeginPass, ProjectMirrored, ListTransfers, SelectTasks, RecoverOwner,
         PassOwners, RetireDuplicate, JudgeUnbound, EndPass, NothingStaged, ReleaseImport

\* A finished transfer brings the tasks of a queue row back at most MaxRecoveries times
\* (slskd_completed_recovery_exhausted): RTypeCorrect bounds what is counted here.
THEOREM RecoveriesCounted == RSpec => RevivalsCounted
<1>1. ASSUME RInv, [RNext]_rvars, NEW r \in TaskIds,
             task[r].status \notin ActiveStatus \cup {"none"}, task'[r].status \in ActiveStatus
      PROVE  /\ ledger[task[r].queue][task[r].ext] < MaxRecoveries
             /\ ledger'[task[r].queue][task[r].ext] = ledger[task[r].queue][task[r].ext] + 1
  <2> DEFINE q == task[r].queue
             x == task[r].ext
  <2>1. Revives(r)
    BY <1>1, RevivedOnce
  <2>2. RecoverOwner(r, x) /\ Recover(r, x) /\ x \in Attempts
    BY <2>1 DEF Revives, RecoverOwner
  <2>3. /\ ledger \in [Queues -> [Attempts -> 0..MaxRecoveries]] /\ q \in Queues
    BY <1>1, <2>1, RevivesWrites DEF RInv, PassOK
  <2>4. ledger' = [ledger EXCEPT ![q][x] = ledger[q][x] + 1]
    BY <2>2, <2>3 DEF Recover
  <2>5. ledger'[q][x] = ledger[q][x] + 1
    BY <2>2, <2>3, <2>4
  <2>6. task'[r] # task[r] /\ task[r].status # "import_ready"
    BY <1>1
  <2>7. ~Exhausted(q, x)
    BY <2>2, <2>6 DEF RecoverOwner, rows
  <2>8. ledger[q][x] \in 0..MaxRecoveries
    BY <2>2, <2>3
  <2> QED
    BY <2>5, <2>7, <2>8, RecoveryAssumption DEF Exhausted
<1>2. RInv /\ [RNext]_rvars
        => [/\ \A q \in Queues, x \in Attempts : ledger'[q][x] >= ledger[q][x]
            /\ \A r \in TaskIds :
                 (task[r].status \notin ActiveStatus \cup {"none"} /\ task'[r].status \in ActiveStatus)
                    => /\ ledger[task[r].queue][task[r].ext] < MaxRecoveries
                       /\ ledger'[task[r].queue][task[r].ext]
                             = ledger[task[r].queue][task[r].ext] + 1]_rvars
  BY <1>1, LedgerStep
<1> QED
  BY <1>2, RInvariance, PTL DEF RSpec, RevivalsCounted

--------------------------------------------------------------------------------
(* Who reopens a closed queue row while the reconciler works *)

\* A step that writes the state of one queue row at most opens none.
LEMMA StateOpensNone ==
    ASSUME TypeOK, NEW q, NEW st, queue' = queue \/ queue' = [queue EXCEPT ![q].state = st]
    PROVE  NoneOpens
<1>1. \A p \in Queues : queue'[p].active = queue[p].active
  BY DEF TypeOK, QueueRow
<1> QED
  BY <1>1 DEF NoneOpens

\* No step of the reconciler or of the importer opens a closed queue row.
LEMMA RStepOpens ==
    ASSUME RInv, [RNext]_rvars
    PROVE  [Next]_vars \/ NoneOpens
<1> USE DEF RInv, Base
<1>1. ASSUME UNCHANGED queue PROVE NoneOpens
  BY <1>1, StateOpensNone
<1>2. ASSUME NEW r \in TaskIds, ProjectMirrored(r) \/ JudgeUnbound(r) PROVE NoneOpens
  <2>1. CASE UNCHANGED queue
    BY <2>1, StateOpensNone
  <2>2. ASSUME NEW want, NEW x, Transition(r, want, x, None, pass.at) PROVE NoneOpens
    BY <2>2, TransitionOpensNone
  <2> QED
    BY <1>2, <2>1, <2>2 DEF ProjectMirrored, JudgeUnbound, rows
<1>3. ASSUME NEW r \in TaskIds, NEW x \in Attempts, RecoverOwner(r, x) PROVE NoneOpens
  <2>1. UNCHANGED queue \/ queue' = [queue EXCEPT ![task[r].queue].state = "importing"]
    BY <1>3 DEF RecoverOwner, Recover, rows
  <2> QED
    BY <2>1, StateOpensNone
<1>4. ASSUME NEW r \in TaskIds, NothingStaged(r) PROVE NoneOpens
  <2>1. PICK st : queue' = [queue EXCEPT ![task[r].queue].state = st]
    BY <1>4 DEF NothingStaged
  <2> QED
    BY <2>1, StateOpensNone
<1>5. ASSUME NEW q \in Queues, ReleaseImport(q) PROVE NoneOpens
  BY <1>5, StateOpensNone DEF ReleaseImport
<1>6. CASE \/ BeginPass \/ ListTransfers \/ SelectTasks \/ EndPass
           \/ \E x \in Attempts : PassOwners(x)
           \/ \E r \in TaskIds : RetireDuplicate(r)
  BY <1>1, <1>6
     DEF BeginPass, ListTransfers, SelectTasks, EndPass, PassOwners, RetireDuplicate, vars, rows
<1> QED
  BY <1>2, <1>3, <1>4, <1>5, <1>6 DEF RNext, Pass, rvars

\* Beside the reconciler too, a closed queue row is opened only by the expiry of a wait
\* that its closing left behind, or by the waiting record of an attempt under way: no
\* recovery, no retry of an import and no projection reopens one.
THEOREM RLateWriters == RSpec => OnlyLateWritersReopen
<1>1. RInv /\ [RNext]_rvars
        => [\A q \in Queues :
              (~queue[q].active /\ queue'[q].active)
                 => \/ \E r \in Attempts : /\ task[r].queue = q
                                           /\ task[r].status = "waiting_for_slot"
                                           /\ task'[r].status = "reservation_expired"
                    \/ ~removed /\ \E a \in Attempts : /\ att[a].queue = q
                                                        /\ att[a].pc \in {"mark", "record"}
                                                        /\ att'[a].pc # att[a].pc]_vars
  BY RStepOpens, StepOpens DEF RInv, Transfers, NoneOpens, OpensWaits, OpensOwn
<1> QED
  BY <1>1, RInvariance, PTL DEF RSpec, OnlyLateWritersReopen
=============================================================================
