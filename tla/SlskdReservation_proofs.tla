------------------------ MODULE SlskdReservation_proofs ------------------------
(***************************************************************************)
(* Proofs about SlskdReservation, for any number of attempts, workers,     *)
(* queue rows, issues, units and candidates and for any leases.            *)
(***************************************************************************)
EXTENDS SlskdReservation, TLAPS

--------------------------------------------------------------------------------
(* The inductive invariant *)

\* An attempt that holds a reservation knows its row, the row exists, and there is an
\* outcome to report once there was an answer from slskd.
HoldsRow ==
    \A a \in Attempts :
        att[a].pc \in Holding =>
            /\ att[a].queue \in Queues /\ att[a].rsv \in Attempts
            /\ task[att[a].rsv].status # "none"
            /\ att[a].pc \notin {"reserved", "enqueue"} => att[a].out # "none"

\* Exactly the rows that exist belong to a queue row; only reserved rows carry a
\* reservation id.
RowsPlaced ==
    /\ \A r \in TaskIds : task[r].status # "none" <=> task[r].queue \in Queues
    /\ \A r \in TaskIds : task[r].bound => r \in Attempts /\ task[r].status # "none"

\* The two row ids of an attempt are unused until it writes them.
Fresh ==
    \A a \in Attempts :
        /\ att[a].pc = "idle" => task[a].status = "none"
        /\ att[a].pc \notin {"finish", "done"} => task[EpisodeOf[a]].status = "none"

\* A holder whose lease runs finds its own claim, with the lease it was granted and
\* for the reservation it was granted for; without the last two a release by
\* reservation or by expiry could not be told apart from a robbery.
ClaimsHeld ==
    /\ \A a \in Attempts :
        (att[a].pc \in Holding /\ att[a].until > now /\ Active(att[a].rsv))
            => claims[att[a].queue] = [owner |-> a, exp |-> att[a].until, rsv |-> att[a].rsv]
    /\ \A w \in Workers :
        (wk[w].queue # None /\ wk[w].until > now)
            => claims[wk[w].queue] = [owner |-> w, exp |-> wk[w].until, rsv |-> None]

\* What holds of the rows and the attempts by themselves, whoever else writes the rows;
\* with exclusive units and held claims it is inductive for the whole protocol.
Base == TypeOK /\ HoldsRow /\ RowsPlaced /\ Fresh
IInv == Base /\ OneReservedPerUnit /\ ClaimsHeld

\* The steps that belong to no handoff attempt.
Others ==
    \/ \E w \in Workers, q \in Queues : ClaimQueueItem(w, q)
    \/ \E w \in Workers : WorkerStarts(w) \/ WorkerReleases(w) \/ WorkerCrashes(w)
    \/ \E x \in Attempts : XferEnds(x)
    \/ \E q \in Queues : AltEnds(q) \/ MarkQueueVerified(q) \/ CancelQueueItem(q)
    \/ \E i \in Issues : RecordImport(i)
    \/ \E r \in TaskIds : CleanupStaleTask(r)
    \/ RetireRemovedSeries
    \/ CleanupExpiredClaims
    \/ CleanupInactiveTasks
    \/ ReconcileReservations
    \/ Tick

USE DEF TaskIds, TaskStatus, ActiveStatus, TerminalStatus, Pc, Holding

\* The records that the actions write are rows of the tables.
LEMMA Records ==
    /\ NoTask \in TaskRow /\ NoClaim \in ClaimRow /\ Idle \in AttemptState
    /\ Done \in AttemptState /\ IdleWorker \in WorkerState
BY DEF NoTask, NoClaim, Idle, Done, IdleWorker, TaskRow, ClaimRow, AttemptState, WorkerState

\* A queue row stays one when its state or its active flag is set.
LEMMA QueueRowSet ==
    ASSUME NEW x \in QueueRow, NEW st \in QueueState, NEW b \in BOOLEAN
    PROVE  [x EXCEPT !.state = st] \in QueueRow /\ [x EXCEPT !.state = st, !.active = b] \in QueueRow
BY DEF QueueRow

\* The empty tables satisfy the inductive invariant.
THEOREM InitIInv == Init => IInv
<1> SUFFICES ASSUME Init PROVE IInv
  OBVIOUS
<1>1. TypeOK
  <2>1. now \in 0..MaxTime
    BY ConstAssumption DEF Init
  <2>2. queue \in [Queues -> QueueRow]
    BY DEF Init, QueueRow, QueueState
  <2>3. /\ wanted \in [Issues -> WantedStatus] /\ removed \in BOOLEAN
        /\ proof \in [Issues -> BOOLEAN]
    BY DEF Init, WantedStatus
  <2>4. /\ task \in [TaskIds -> TaskRow] /\ claims \in [Queues -> ClaimRow]
        /\ att \in [Attempts -> AttemptState] /\ wk \in [Workers -> WorkerState]
    BY Records DEF Init
  <2>5. alt \in [Queues -> AltState] /\ xfer \in [Attempts -> XferState]
    BY DEF Init, AltState, XferState
  <2> QED
    BY <2>1, <2>2, <2>3, <2>4, <2>5 DEF TypeOK
<1>2. HoldsRow /\ RowsPlaced
  BY ConstAssumption DEF Init, HoldsRow, RowsPlaced, NoTask, Idle
<1>3. Fresh /\ OneReservedPerUnit
  BY ConstAssumption DEF Init, Fresh, OneReservedPerUnit, Active, NoTask
<1>4. ClaimsHeld
  BY DEF Init, ClaimsHeld, Idle, IdleWorker
<1> QED
  BY <1>1, <1>2, <1>3, <1>4 DEF IInv, Base

--------------------------------------------------------------------------------
(* Types *)

SibState == {"none", "verified", "downloading", "import_ready"}

\* A sibling's state is one that a queue row can show.
LEMMA SiblingTyped ==
    ASSUME NEW q, NEW r, NEW sib \in SiblingChoices(q, r)
    PROVE  sib \in SibState
<1>1. ActiveSiblingStates(q, r) \subseteq SibState
  BY DEF ActiveSiblingStates, SibState
<1> QED
  BY <1>1 DEF SiblingChoices, SibState

\* The projection keeps the tables well-formed.
LEMMA ProjectTyped ==
    ASSUME TypeOK, NEW q, NEW r \in Attempts, NEW st, NEW sib \in SibState,
           Project(q, r, st, sib)
    PROVE  queue' \in [Queues -> QueueRow] /\ wanted' \in [Issues -> WantedStatus]
<1>1. ASSUME q \in Queues PROVE ProjectedQueue(q, r, st, sib) \in QueueRow
  <2>1. queue[q] \in QueueRow
    BY <1>1 DEF TypeOK
  <2>2. (sib # "verified") \in BOOLEAN
    OBVIOUS
  <2>3. queue[q].mirror \in Attempts \cup {None}
    BY <2>1 DEF QueueRow
  <2> QED
    BY <2>2, <2>3 DEF ProjectedQueue, QueueRow, QueueState, SibState
<1>2. ProjectedWanted(st, sib) \in WantedStatus
  BY DEF ProjectedWanted, WantedStatus
<1> QED
  BY <1>1, <1>2 DEF TypeOK, Project

\* Releasing a claim leaves a well-formed row behind.
LEMMA ReleaseTyped ==
    ASSUME TypeOK, NEW q \in Queues, NEW r, NEW o
    PROVE  /\ AfterReservationRelease(q, r) \in ClaimRow
           /\ AfterClaimsRelease(q, r, o) \in ClaimRow
BY Records DEF TypeOK, AfterReservationRelease, AfterClaimsRelease

\* So does the projection of a transition, with or without a sibling.
LEMMA ProjectUnlessPreservedTyped ==
    ASSUME TypeOK, NEW q, NEW r \in Attempts, NEW st,
           ProjectUnlessPreserved(q, r, st)
    PROVE  queue' \in [Queues -> QueueRow] /\ wanted' \in [Issues -> WantedStatus]
<1>1. CASE Terminal(st) /\ Preserved(q)
  BY <1>1 DEF ProjectUnlessPreserved, TypeOK
<1>2. CASE Terminal(st) /\ ~Preserved(q)
  <2>1. PICK sib \in SiblingChoices(q, r) : Project(q, r, st, sib)
    BY <1>2 DEF ProjectUnlessPreserved
  <2> QED
    BY <2>1, SiblingTyped, ProjectTyped
<1>3. CASE ~Terminal(st)
  <2>1. Project(q, r, st, "none")
    BY <1>3 DEF ProjectUnlessPreserved
  <2>2. "none" \in SibState
    BY DEF SibState
  <2> QED
    BY <2>1, <2>2, ProjectTyped
<1> QED
  BY <1>1, <1>2, <1>3

\* transition_slskd_candidate_task keeps the tables well-formed in all its outcomes.
LEMMA TransitionTyped ==
    ASSUME TypeOK, RowsPlaced, NEW r \in TaskIds, NEW want \in TaskStatus,
           NEW x \in Attempts \cup {None}, NEW o, NEW at,
           Transition(r, want, x, o, at)
    PROVE  /\ queue' \in [Queues -> QueueRow] /\ wanted' \in [Issues -> WantedStatus]
           /\ task' \in [TaskIds -> TaskRow] /\ claims' \in [Queues -> ClaimRow]
<1>1. CASE TransitionFenced(r, want, o)
  BY <1>1, ReleaseTyped DEF TransitionFenced, TypeOK, rows
<1>2. CASE TransitionReconciled(r, want, o)
  <2>1. r \in Attempts
    BY <1>2 DEF RowsPlaced, TransitionReconciled
  <2>2. claims' \in [Queues -> ClaimRow] /\ UNCHANGED task
    BY <1>2, ReleaseTyped DEF TransitionReconciled, TypeOK
  <2> QED
    BY <1>2, <2>1, <2>2, ProjectUnlessPreservedTyped DEF TransitionReconciled, TypeOK
<1>3. CASE TransitionRefused(r, want, o, at)
  BY <1>3 DEF TransitionRefused, TypeOK, rows
<1>4. CASE TransitionApplied(r, want, x, o, at)
  <2>1. r \in Attempts
    BY <1>4 DEF RowsPlaced, TransitionApplied
  <2>2. claims' \in [Queues -> ClaimRow]
    BY <1>4, ReleaseTyped DEF TransitionApplied, TypeOK
  <2>3. Effective(r, want, x) \in TaskStatus
    BY DEF Effective
  <2>4. task' \in [TaskIds -> TaskRow]
    <3>1. task \in [TaskIds -> TaskRow]
      BY DEF TypeOK
    <3>2. \A row \in TaskRow, st \in TaskStatus, e \in Attempts \cup {None} :
             [row EXCEPT !.status = st, !.ext = e] \in TaskRow
      BY DEF TaskRow
    <3>3. task[r].ext \in Attempts \cup {None}
      BY <2>1, <3>1 DEF TaskRow
    <3>4. PICK e \in Attempts \cup {None} :
             task' = [task EXCEPT ![r].status = Effective(r, want, x), ![r].ext = e]
      <4> DEFINE st == Effective(r, want, x)
                 kept == Terminal(st) \/ x = None
      <4>1. task' = [task EXCEPT ![r].status = st, ![r].ext = IF kept THEN @ ELSE x]
        BY <1>4 DEF TransitionApplied
      <4> HIDE DEF st, kept
      <4>2. CASE kept
        BY <3>1, <3>3, <4>1, <4>2 DEF TaskRow, st
      <4>3. CASE ~kept
        BY <4>1, <4>3 DEF st
      <4> QED
        BY <4>2, <4>3
    <3>5. PICK st \in TaskStatus : st = Effective(r, want, x)
      BY <2>3
    <3>6. task' = [task EXCEPT ![r] = [task[r] EXCEPT !.status = st, !.ext = e]]
      BY <3>1, <3>4, <3>5 DEF TaskRow
    <3> QED
      BY <3>1, <3>2, <3>6
  <2>5. ProjectUnlessPreserved(task[r].queue, r, Effective(r, want, x))
    BY <1>4 DEF TransitionApplied
  <2> QED
    BY <2>1, <2>2, <2>4, <2>5, ProjectUnlessPreservedTyped
<1> QED
  BY <1>1, <1>2, <1>3, <1>4 DEF Transition

\* Moving an attempt on keeps its record well-formed.
LEMMA GotoTyped ==
    ASSUME TypeOK, NEW a \in Attempts, NEW pc \in Pc, NEW out \in TaskStatus,
           NEW x \in Attempts \cup {None}, Goto(a, pc, out, x)
    PROVE  att' \in [Attempts -> AttemptState]
<1> HIDE DEF Pc, TaskStatus
<1>1. att[a] \in AttemptState /\ att \in [Attempts -> AttemptState]
  BY DEF TypeOK
<1>2. [att[a] EXCEPT !.pc = pc, !.out = out, !.ext = x] \in AttemptState
  BY <1>1 DEF AttemptState
<1>3. att' = [att EXCEPT ![a] = [att[a] EXCEPT !.pc = pc, !.out = out, !.ext = x]]
  BY <1>1 DEF Goto, AttemptState
<1> QED
  BY <1>1, <1>2, <1>3

\* Deleting a transfer keeps the inventory well-formed.
LEMMA MayDeleteTyped ==
    ASSUME TypeOK, NEW x, MayDelete(x)
    PROVE  xfer' \in [Attempts -> XferState]
BY DEF MayDelete, TypeOK, XferState

\* Retiring the work of a removed series keeps the tables well-formed.
LEMMA RetiredTyped ==
    ASSUME TypeOK
    PROVE  RetiredQueue \in [Queues -> QueueRow] /\ RetiredWanted \in [Issues -> WantedStatus]
BY DEF RetiredQueue, RetiredWanted, TypeOK, QueueRow, QueueState, WantedStatus

\* patch_queue_item_state keeps the tables well-formed.
LEMMA ShowDownloadingTyped ==
    ASSUME TypeOK, NEW q \in Queues, ShowDownloadingUnlessRemoved(q)
    PROVE  queue' \in [Queues -> QueueRow] /\ wanted' \in [Issues -> WantedStatus]
<1>1. CASE removed
  BY <1>1, RetiredTyped DEF ShowDownloadingUnlessRemoved
<1>2. CASE ~removed
  <2>1. queue' \in [Queues -> QueueRow]
    BY <1>2 DEF ShowDownloadingUnlessRemoved, ShowDownloading, TypeOK, QueueRow, QueueState
  <2>2. wanted' \in [Issues -> WantedStatus]
    BY <1>2 DEF ShowDownloadingUnlessRemoved, ShowDownloading, TypeOK, WantedStatus
  <2> QED
    BY <2>1, <2>2
<1> QED
  BY <1>1, <1>2

\* A waiting record writes a well-formed row.
LEMMA RecordedTyped ==
    ASSUME TypeOK, HoldsRow, NEW a \in Attempts, att[a].pc = "record",
           NEW r \in TaskIds, NEW st \in TaskStatus
    PROVE  Recorded(a, r, st) \in [TaskIds -> TaskRow]
<1>1. att[a].rsv \in Attempts /\ att[a].queue \in Queues
  BY DEF HoldsRow
<1>2. Candidate(a) \in Cands \cup {None} /\ att[a].ext \in Attempts \cup {None}
  BY <1>1 DEF Candidate, TypeOK, TaskRow, AttemptState
<1>3. task[r].deadline \in Nat
  BY DEF TypeOK, TaskRow
<1> QED
  BY <1>1, <1>2, <1>3 DEF Recorded, TypeOK, TaskRow

\* The cleanups of the queue sweeps.
LEMMA CleanedTyped ==
    ASSUME TypeOK, NEW S
    PROVE  CleanedTasks(S) \in [TaskIds -> TaskRow] /\ CleanedAlt(S) \in [Queues -> AltState]
BY DEF CleanedTasks, CleanedAlt, CleanedStatus, TypeOK, TaskRow, AltState

\* Every reservation step keeps the tables well-formed.
LEMMA ReserveTyped ==
    ASSUME TypeOK, RowsPlaced, NEW a \in Attempts, NEW q \in Queues, NEW c \in Cands,
           ReserveCreates(a, q, c) \/ PersistSlotWait(a, q, c)
    PROVE  TypeOK'
<1>0. NewReservation(a, q, c) /\ now \in Nat
  BY ConstAssumption DEF ReserveCreates, PersistSlotWait, TypeOK
<1>1. task' \in [TaskIds -> TaskRow]
  <2>1. now + Ttl \in Nat
    BY <1>0, ConstAssumption
  <2> QED
    BY <1>0, <2>1 DEF NewReservation, TypeOK, TaskRow
<1>2. queue' \in [Queues -> QueueRow] /\ wanted' \in [Issues -> WantedStatus]
  <2>1. Project(q, a, "waiting_for_slot", "none") /\ "none" \in SibState
    BY <1>0 DEF NewReservation, SibState
  <2> QED
    BY <2>1, ProjectTyped
<1>3. now + Lease \in Nat
  BY <1>0, ConstAssumption
<1>4. claims' \in [Queues -> ClaimRow]
  BY <1>3 DEF ReserveCreates, PersistSlotWait, Claim, TypeOK, ClaimRow
<1>5. att' \in [Attempts -> AttemptState]
  BY <1>3, Records DEF ReserveCreates, PersistSlotWait, TypeOK, AttemptState
<1> QED
  BY <1>0, <1>1, <1>2, <1>4, <1>5 DEF NewReservation, TypeOK

\* Reusing a reservation keeps the tables well-formed.
LEMMA ReserveReusesTyped ==
    ASSUME TypeOK, RowsPlaced, NEW a \in Attempts, NEW r \in Attempts, ReserveReuses(a, r)
    PROVE  TypeOK'
<1>1. now + Lease \in Nat /\ task[r].queue \in Queues
  BY ConstAssumption DEF TypeOK, RowsPlaced, ReserveReuses, Active
<1>2. claims' \in [Queues -> ClaimRow]
  BY <1>1 DEF ReserveReuses, Claim, TypeOK, ClaimRow
<1>3. att' \in [Attempts -> AttemptState]
  <2>1. task[r].status \in TaskStatus /\ task[r].ext \in Attempts \cup {None}
    BY DEF TypeOK, TaskRow
  <2> QED
    BY <1>1, <2>1 DEF ReserveReuses, TypeOK, AttemptState
<1> QED
  BY <1>2, <1>3 DEF ReserveReuses, TypeOK, rows

\* Expiring a reservation keeps the tables well-formed.
LEMMA ReserveExpiresTyped ==
    ASSUME TypeOK, RowsPlaced, NEW r \in Attempts, ReserveExpires(r)
    PROVE  TypeOK'
<1>1. task' \in [TaskIds -> TaskRow]
  BY DEF ReserveExpires, TypeOK, TaskRow
<1>2. queue' \in [Queues -> QueueRow] /\ wanted' \in [Issues -> WantedStatus]
  <2>1. Project(task[r].queue, r, "slot_request_expired", "none") /\ "none" \in SibState
    BY DEF ReserveExpires, SibState
  <2> QED
    BY <2>1, ProjectTyped
<1>3. claims' \in [Queues -> ClaimRow]
  BY ReleaseTyped DEF ReserveExpires, TypeOK
<1> QED
  BY <1>1, <1>2, <1>3 DEF ReserveExpires, TypeOK

\* So does every step of the handoff.
LEMMA HandoffTyped ==
    ASSUME TypeOK, HoldsRow, RowsPlaced, NEW a \in Attempts, Handoff(a) \/ Crash(a)
    PROVE  TypeOK'
<1>0. /\ att[a].out \in TaskStatus /\ att[a].ext \in Attempts \cup {None}
      /\ NoDb => UNCHANGED <<now, queue, wanted, task, removed, proof, alt, claims, wk>>
  BY DEF TypeOK, AttemptState, NoDb, rows
<1>1. CASE CheckFindsNothing(a) \/ CheckRaises(a)
  <2>1. \/ Goto(a, "enqueue", "none", None)
        \/ Goto(a, "finish", "reservation_failed", None)
    BY <1>1 DEF CheckFindsNothing, CheckRaises
  <2>2. att' \in [Attempts -> AttemptState]
    BY <2>1, GotoTyped
  <2> QED
    BY <1>0, <1>1, <2>2 DEF CheckFindsNothing, CheckRaises, TypeOK
<1>2. ASSUME NEW x \in Attempts, CheckFinds(a, x) PROVE TypeOK'
  <2>1. \/ Goto(a, "finish", "transfer_failed", x)
        \/ Goto(a, "mark", "started_waiting", x)
    BY <1>2 DEF CheckFinds
  <2>2. att' \in [Attempts -> AttemptState]
    BY <2>1, GotoTyped
  <2>3. xfer' \in [Attempts -> XferState]
    BY <1>2, MayDeleteTyped DEF CheckFinds, TypeOK
  <2> QED
    BY <1>0, <1>2, <2>2, <2>3 DEF CheckFinds, TypeOK
<1>3. CASE Enqueue(a) \/ EnqueueAmbiguous(a) \/ EnqueueRaises(a)
  <2>1. xfer' \in [Attempts -> XferState]
    BY <1>3 DEF Enqueue, EnqueueAmbiguous, EnqueueRaises, TypeOK, XferState
  <2>2. \/ Goto(a, "validate", "transfer_failed", a)
        \/ Goto(a, "validate", "started_waiting", a)
        \/ Goto(a, "validate", "enqueue_response_ambiguous", None)
        \/ Goto(a, "finish", "transfer_failed", None)
    BY <1>3 DEF Enqueue, EnqueueAmbiguous, EnqueueRaises
  <2>3. att' \in [Attempts -> AttemptState]
    BY <2>2, GotoTyped
  <2> QED
    BY <1>0, <1>3, <2>1, <2>3 DEF Enqueue, EnqueueAmbiguous, EnqueueRaises, TypeOK
<1>4. CASE ValidateLost(a) \/ ValidateHeld(a)
  <2>1. xfer' \in [Attempts -> XferState]
    BY <1>4, MayDeleteTyped DEF ValidateLost, ValidateHeld, TypeOK
  <2>2. \/ Goto(a, "finish", "reservation_failed", None)
        \/ Goto(a, "mark", att[a].out, att[a].ext)
        \/ Goto(a, "finish", att[a].out, att[a].ext)
    BY <1>4 DEF ValidateLost, ValidateHeld
  <2>3. att' \in [Attempts -> AttemptState]
    BY <1>0, <2>2, GotoTyped
  <2> QED
    BY <1>0, <1>4, <2>1, <2>3 DEF ValidateLost, ValidateHeld, TypeOK
<1>5. CASE MarkQueue(a)
  <2>1. att[a].queue \in Queues
    BY <1>5 DEF MarkQueue, HoldsRow
  <2>2. queue' \in [Queues -> QueueRow] /\ wanted' \in [Issues -> WantedStatus]
    BY <1>5, <2>1, ShowDownloadingTyped DEF MarkQueue
  <2>3. att' \in [Attempts -> AttemptState]
    BY <1>0, <1>5, GotoTyped DEF MarkQueue
  <2> QED
    BY <1>5, <2>2, <2>3 DEF MarkQueue, TypeOK
<1>6. CASE MarkSkips(a) \/ MarkFails(a) \/ MatchRefused(a)
  <2>1. xfer' \in [Attempts -> XferState]
    BY <1>6, MayDeleteTyped DEF MarkSkips, MarkFails, MatchRefused, TypeOK
  <2>2. \/ Goto(a, "finish", att[a].out, att[a].ext)
        \/ Goto(a, "finish", "transfer_failed", att[a].ext)
        \/ Goto(a, "finish", "reservation_failed", att[a].ext)
        \/ Goto(a, "record", att[a].out, att[a].ext)
    BY <1>6 DEF MarkSkips, MarkFails, MatchRefused
  <2>3. att' \in [Attempts -> AttemptState]
    BY <1>0, <2>2, GotoTyped
  <2> QED
    BY <1>0, <1>6, <2>1, <2>3 DEF MarkSkips, MarkFails, MatchRefused, TypeOK
<1>7. ASSUME NEW r \in TaskIds, MatchApplies(a, r) PROVE TypeOK'
  <2>1. Transition(r, "started_waiting", att[a].ext, None, now)
    BY <1>7 DEF MatchApplies, Transition
  <2>2. att' \in [Attempts -> AttemptState]
    BY <1>0, <1>7, GotoTyped DEF MatchApplies
  <2>3. /\ queue' \in [Queues -> QueueRow] /\ wanted' \in [Issues -> WantedStatus]
        /\ task' \in [TaskIds -> TaskRow] /\ claims' \in [Queues -> ClaimRow]
    BY <1>0, <2>1, TransitionTyped
  <2> QED
    BY <1>7, <2>2, <2>3 DEF MatchApplies, TypeOK
<1>8. CASE RecordWaiting(a)
  <2>1. att[a].queue \in Queues
    BY <1>8 DEF RecordWaiting, HoldsRow
  <2>2. queue' \in [Queues -> QueueRow] /\ wanted' \in [Issues -> WantedStatus]
    BY <1>8, <2>1, ShowDownloadingTyped DEF RecordWaiting
  <2>3. \/ task' = task
        \/ \E r \in TaskIds, st \in TaskStatus : task' = Recorded(a, r, st)
    <3>1. EpisodeOf[a] \in TaskIds
      BY ConstAssumption
    <3> QED
      BY <1>8, <3>1 DEF RecordWaiting, FirstRows, Overwritten, SameWork
  <2>4. task' \in [TaskIds -> TaskRow]
    BY <1>8, <2>3, RecordedTyped DEF RecordWaiting, TypeOK
  <2>5. att' \in [Attempts -> AttemptState]
    BY <1>0, <1>8, GotoTyped DEF RecordWaiting
  <2> QED
    BY <1>8, <2>2, <2>4, <2>5 DEF RecordWaiting, TypeOK
<1>9. CASE Finish(a)
  <2>1. att[a].rsv \in TaskIds
    BY <1>9 DEF Finish, HoldsRow
  <2>2. Transition(att[a].rsv, att[a].out, att[a].ext, a, now)
    BY <1>9 DEF Finish
  <2>3. /\ queue' \in [Queues -> QueueRow] /\ wanted' \in [Issues -> WantedStatus]
        /\ task' \in [TaskIds -> TaskRow] /\ claims' \in [Queues -> ClaimRow]
    BY <1>0, <2>1, <2>2, TransitionTyped
  <2> QED
    BY <1>9, <2>3, Records DEF Finish, TypeOK
<1>10. CASE Crash(a)
  BY <1>0, <1>10, Records DEF Crash, TypeOK
<1> QED
  BY <1>1, <1>2, <1>3, <1>4, <1>5, <1>6, <1>7, <1>8, <1>9, <1>10 DEF Handoff

\* And every step of a worker, of slskd, of the user and of a sweep.
LEMMA OthersTyped ==
    ASSUME TypeOK, RowsPlaced, Others
    PROVE  TypeOK'
<1>0. now \in Nat
  BY ConstAssumption DEF TypeOK
<1>1. ASSUME NEW w \in Workers, NEW q \in Queues, ClaimQueueItem(w, q) PROVE TypeOK'
  <2>1. now + WorkerLease \in Nat
    BY <1>0, ConstAssumption
  <2>2. claims' \in [Queues -> ClaimRow]
    BY <1>1, <2>1 DEF ClaimQueueItem, Claim, TypeOK, ClaimRow
  <2>3. wk' \in [Workers -> WorkerState]
    BY <1>1, <2>1 DEF ClaimQueueItem, TypeOK, WorkerState
  <2> QED
    BY <1>1, <2>2, <2>3 DEF ClaimQueueItem, TypeOK, rows
<1>2. ASSUME NEW w \in Workers, WorkerStarts(w) PROVE TypeOK'
  <2>1. alt' \in [Queues -> AltState]
    BY <1>2 DEF WorkerStarts, TypeOK, AltState
  <2>2. queue' \in [Queues -> QueueRow]
    <3>1. "downloading" \in QueueState /\ queue \in [Queues -> QueueRow]
      BY DEF TypeOK, QueueState
    <3>2. \A q \in Queues : [queue[q] EXCEPT !.state = "downloading"] \in QueueRow
      BY <3>1, QueueRowSet
    <3> QED
      BY <1>2, <3>1, <3>2 DEF WorkerStarts
  <2>3. wanted' \in [Issues -> WantedStatus]
    BY <1>2 DEF WorkerStarts, TypeOK, WantedStatus
  <2> QED
    BY <1>2, <2>1, <2>2, <2>3 DEF WorkerStarts, TypeOK
<1>3. ASSUME NEW w \in Workers, WorkerReleases(w) \/ WorkerCrashes(w) PROVE TypeOK'
  <2>1. claims' \in [Queues -> ClaimRow]
    BY <1>3, Records DEF WorkerReleases, WorkerCrashes, ReleaseClaim, TypeOK
  <2>2. wk' \in [Workers -> WorkerState]
    <3>1. [IdleWorker EXCEPT !.dead = TRUE] \in WorkerState
      BY DEF IdleWorker, WorkerState
    <3> QED
      BY <1>3, <3>1, Records DEF WorkerReleases, WorkerCrashes, TypeOK
  <2> QED
    BY <1>3, <2>1, <2>2 DEF WorkerReleases, WorkerCrashes, TypeOK, rows
<1>4. ASSUME NEW x \in Attempts, XferEnds(x) PROVE TypeOK'
  <2>1. xfer' \in [Attempts -> XferState]
    BY <1>4 DEF XferEnds, TypeOK, XferState
  <2> QED
    BY <1>4, <2>1 DEF XferEnds, TypeOK, rows
<1>5. ASSUME NEW q \in Queues, AltEnds(q) PROVE TypeOK'
  <2>1. alt' \in [Queues -> AltState]
    BY <1>5 DEF AltEnds, TypeOK, AltState
  <2> QED
    BY <1>5, <2>1 DEF AltEnds, TypeOK, rows
<1>6. ASSUME NEW i \in Issues, RecordImport(i) PROVE TypeOK'
  BY <1>6 DEF RecordImport, TypeOK, rows
<1>7. ASSUME NEW q \in Queues, MarkQueueVerified(q) PROVE TypeOK'
  <2>1. queue' \in [Queues -> QueueRow]
    <3>1. queue' = [queue EXCEPT ![q] = [queue[q] EXCEPT !.state = "verified",
                                                         !.active = FALSE]]
      BY <1>7 DEF MarkQueueVerified, TypeOK, QueueRow
    <3>2. [queue[q] EXCEPT !.state = "verified", !.active = FALSE] \in QueueRow
      <4>1. "verified" \in QueueState /\ queue[q] \in QueueRow /\ FALSE \in BOOLEAN
        BY DEF TypeOK, QueueState
      <4> QED
        BY <4>1, QueueRowSet
    <3> QED
      BY <3>1, <3>2 DEF TypeOK
  <2>2. wanted' \in [Issues -> WantedStatus]
    BY <1>7 DEF MarkQueueVerified, TypeOK, WantedStatus
  <2> QED
    BY <1>7, <2>1, <2>2, CleanedTyped DEF MarkQueueVerified, TypeOK
<1>8. ASSUME NEW q \in Queues, CancelQueueItem(q) PROVE TypeOK'
  <2>1. queue' \in [Queues -> QueueRow]
    <3>1. "cancelled" \in QueueState /\ queue \in [Queues -> QueueRow] /\ FALSE \in BOOLEAN
      BY DEF TypeOK, QueueState
    <3>2. [queue[q] EXCEPT !.state = "cancelled", !.active = FALSE] \in QueueRow
      BY <3>1, QueueRowSet
    <3>3. queue' = [queue EXCEPT ![q] = [queue[q] EXCEPT !.state = "cancelled", !.active = FALSE]]
      BY <1>8, <3>1 DEF CancelQueueItem, QueueRow
    <3> QED
      BY <3>1, <3>2, <3>3
  <2>2. task' \in [TaskIds -> TaskRow]
    BY <1>8 DEF CancelQueueItem, TypeOK, TaskRow
  <2>3. alt' \in [Queues -> AltState]
    BY <1>8 DEF CancelQueueItem, TypeOK, AltState
  <2> QED
    BY <1>8, <2>1, <2>2, <2>3 DEF CancelQueueItem, TypeOK
<1>9. ASSUME NEW r \in TaskIds, CleanupStaleTask(r) PROVE TypeOK'
  <2>1. task' \in [TaskIds -> TaskRow]
    BY <1>9 DEF CleanupStaleTask, TypeOK, TaskRow
  <2> QED
    BY <1>9, <2>1 DEF CleanupStaleTask, TypeOK
<1>10. CASE RetireRemovedSeries
  BY <1>10, RetiredTyped DEF RetireRemovedSeries, TypeOK
<1>11. CASE CleanupExpiredClaims
  <2>1. claims' \in [Queues -> ClaimRow]
    BY <1>11, Records DEF CleanupExpiredClaims, TypeOK
  <2> QED
    BY <1>11, <2>1 DEF CleanupExpiredClaims, TypeOK, rows
<1>12. CASE CleanupInactiveTasks
  BY <1>12, CleanedTyped DEF CleanupInactiveTasks, TypeOK
<1>13. CASE ReconcileReservations
  <2>1. \A r \in TaskIds : [task[r] EXCEPT !.status = "reservation_expired"] \in TaskRow
    BY DEF TypeOK, TaskRow
  <2>2. task' \in [TaskIds -> TaskRow]
    BY <1>13, <2>1 DEF ReconcileReservations, TypeOK
  <2>3. \A q \in Queues, r \in TaskIds :
            ProjectedQueue(q, r, "reservation_expired", "none") \in QueueRow
    BY DEF ProjectedQueue, Terminal, QueueRow, QueueState
  <2>4. queue' \in [Queues -> QueueRow]
    <3> DEFINE hit == {q \in Queues : \E r \in Overdue : task[r].queue = q}
               R(q) == CHOOSE r \in Overdue : task[r].queue = q
    <3>1. \A q \in hit : R(q) \in TaskIds
      BY DEF Overdue
    <3> QED
      BY <1>13, <2>3, <3>1 DEF ReconcileReservations, TypeOK
  <2>5. wanted' \in [Issues -> WantedStatus]
    <3>1. ProjectedWanted("reservation_expired", "none") \in WantedStatus
      BY DEF ProjectedWanted, WantedStatus
    <3> QED
      BY <1>13, <3>1 DEF ReconcileReservations, TypeOK
  <2>6. claims' \in [Queues -> ClaimRow]
    BY <1>13, ReleaseTyped DEF ReconcileReservations, TypeOK
  <2> QED
    BY <1>13, <2>2, <2>4, <2>5, <2>6 DEF ReconcileReservations, TypeOK
<1>14. CASE Tick
  BY <1>14, ConstAssumption DEF Tick, TypeOK, rows
<1> QED
  BY <1>1, <1>2, <1>3, <1>4, <1>5, <1>6, <1>7, <1>8, <1>9, <1>10, <1>11, <1>12, <1>13, <1>14
     DEF Others

--------------------------------------------------------------------------------
(* What a step does to the rows of download_tasks *)

\* The row stays what it is: it is not created or deleted, it keeps its unit, it is
\* not revived and it regains no reservation id.
KeepsRow(r) ==
    /\ task'[r].status = "none" <=> task[r].status = "none"
    /\ task'[r].queue \in Queues <=> task[r].queue \in Queues
    /\ task[r].queue \in Queues => IssueOf[task'[r].queue] = IssueOf[task[r].queue]
    /\ task'[r].status \in ActiveStatus => task[r].status \in ActiveStatus
    /\ task'[r].bound => task[r].bound
KeepsRows == \A r \in TaskIds : KeepsRow(r)

InsertsEpisode(a) ==
    /\ att[a].pc = "record" /\ att' = [att EXCEPT ![a].pc = "finish"]
    /\ task' = Recorded(a, EpisodeOf[a], "started_waiting")

\* A step that leaves the table alone keeps its rows.
LEMMA SameRows == ASSUME UNCHANGED task PROVE KeepsRows
BY DEF KeepsRows, KeepsRow

\* A transition changes the status of its own row, and only from an active one.
LEMMA TransitionRows ==
    ASSUME TypeOK, NEW r \in TaskIds, NEW want \in TaskStatus \ {"none"},
           NEW x \in Attempts \cup {None}, NEW o, NEW at,
           Transition(r, want, x, o, at)
    PROVE  KeepsRows
<1>1. CASE TransitionApplied(r, want, x, o, at)
  <2>1. Effective(r, want, x) # "none" /\ Active(r)
    BY <1>1 DEF Effective, TransitionApplied
  <2>2. task' = [task EXCEPT ![r].status = Effective(r, want, x),
                             ![r].ext = IF Terminal(Effective(r, want, x)) \/ x = None
                                        THEN @ ELSE x]
    BY <1>1 DEF TransitionApplied
  <2>3. \A s \in TaskIds : s # r => task'[s] = task[s]
    BY <2>2 DEF TypeOK
  <2>4. /\ task'[r].status = Effective(r, want, x) /\ task'[r].queue = task[r].queue
        /\ task'[r].bound = task[r].bound
    BY <2>2 DEF TypeOK, TaskRow
  <2> QED
    BY <2>1, <2>3, <2>4 DEF KeepsRows, KeepsRow, Active
<1>2. CASE UNCHANGED task
  BY <1>2, SameRows
<1> QED
  BY <1>1, <1>2 DEF Transition, TransitionFenced, TransitionReconciled, TransitionRefused, rows

\* Overwriting an existing row of the same candidate keeps the rows, when the row is
\* still active or is recorded as ended.
LEMMA OverwriteRows ==
    ASSUME TypeOK, RowsPlaced, NEW a \in Attempts, att[a].queue \in Queues,
           NEW r \in SameWork(a), NEW st \in TaskStatus \ {"none"},
           st \in ActiveStatus => Active(r),
           task' = Recorded(a, r, st)
    PROVE  KeepsRows
<1>1. r \in TaskIds /\ task[r].queue \in Queues /\ task[r].status # "none"
  BY DEF SameWork, RowsPlaced
<1>2. IssueOf[task[r].queue] = IssueOf[att[a].queue]
  BY DEF SameWork
<1>3. \A s \in TaskIds : s # r => task'[s] = task[s]
  BY DEF TypeOK, Recorded
<1>4. task'[r].status = st /\ task'[r].queue = att[a].queue /\ ~task'[r].bound
  BY <1>1 DEF TypeOK, Recorded
<1> QED
  BY <1>1, <1>2, <1>3, <1>4 DEF KeepsRows, KeepsRow, Active

\* Closing a row keeps it.
LEMMA ClosedRow ==
    ASSUME TypeOK, NEW r \in TaskIds, NEW st \in TaskStatus \ (ActiveStatus \cup {"none"}),
           \/ task'[r] = task[r]
           \/ task[r].status # "none" /\ task'[r] = [task[r] EXCEPT !.status = st]
    PROVE  KeepsRow(r)
<1>1. CASE task'[r] = task[r]
  BY <1>1 DEF KeepsRow
<1>2. CASE task[r].status # "none" /\ task'[r] = [task[r] EXCEPT !.status = st]
  <2>1. /\ task'[r].status = st /\ task'[r].queue = task[r].queue
        /\ task'[r].bound = task[r].bound
    BY <1>2 DEF TypeOK, TaskRow
  <2> QED
    BY <1>2, <2>1 DEF KeepsRow
<1> QED
  BY <1>1, <1>2

\* The cleanups only close rows.
LEMMA CleanedRows ==
    ASSUME TypeOK, NEW S, task' = CleanedTasks(S)
    PROVE  KeepsRows
<1> SUFFICES ASSUME NEW r \in TaskIds PROVE KeepsRow(r)
  BY DEF KeepsRows
<1>1. \/ task'[r] = task[r]
      \/ /\ task[r].status # "none"
         /\ \/ task'[r] = [task[r] EXCEPT !.status = "queue_verified"]
            \/ task'[r] = [task[r] EXCEPT !.status = "queue_inactive"]
  BY DEF CleanedTasks, CleanedStatus
<1> QED
  BY <1>1, ClosedRow

\* No step but a reservation or a waiting record adds a row.
LEMMA HandoffRows ==
    ASSUME Base, NEW a \in Attempts, Handoff(a)
    PROVE  KeepsRows \/ InsertsEpisode(a)
<1> USE DEF Base
<1>0. /\ att[a].out \in TaskStatus /\ att[a].ext \in Attempts \cup {None}
      /\ NoDb => UNCHANGED task
  BY DEF TypeOK, AttemptState, NoDb, rows
<1>1. CASE NoDb \/ MarkQueue(a)
  BY <1>0, <1>1, SameRows DEF MarkQueue
<1>2. ASSUME NEW r \in TaskIds, MatchApplies(a, r) PROVE KeepsRows
  <2>1. Transition(r, "started_waiting", att[a].ext, None, now)
    BY <1>2 DEF MatchApplies, Transition
  <2> QED
    BY <1>0, <2>1, TransitionRows
<1>3. CASE Finish(a)
  <2>1. /\ att[a].rsv \in TaskIds /\ att[a].out # "none"
        /\ Transition(att[a].rsv, att[a].out, att[a].ext, a, now)
    BY <1>3 DEF Finish, HoldsRow
  <2> QED
    BY <1>0, <2>1, TransitionRows
<1>4. CASE RecordWaiting(a)
  <2>0. att[a].pc = "record" /\ att[a].queue \in Queues
    BY <1>4 DEF RecordWaiting, HoldsRow
  <2>1. CASE removed
    BY <1>4, <2>1, SameRows DEF RecordWaiting
  <2>2. CASE ~removed /\ ~queue[att[a].queue].active
    <3>1. PICK r \in FirstRows(a) :
             task' = Recorded(a, r, IF queue[att[a].queue].state = "verified"
                                    THEN "queue_verified" ELSE "queue_inactive")
      BY <1>4, <2>2 DEF RecordWaiting
    <3> QED
      BY <2>0, <3>1, OverwriteRows DEF FirstRows
  <2>3. CASE ~removed /\ queue[att[a].queue].active /\ Overwritten(a) # {}
    <3>1. PICK r \in Overwritten(a) : task' = Recorded(a, r, "started_waiting")
      BY <1>4, <2>3 DEF RecordWaiting
    <3>2. r \in SameWork(a) /\ Active(r)
      BY DEF Overwritten
    <3> QED
      BY <2>0, <3>1, <3>2, OverwriteRows
  <2>4. CASE ~removed /\ queue[att[a].queue].active /\ Overwritten(a) = {}
    <3>1. task' = Recorded(a, EpisodeOf[a], "started_waiting")
      BY <1>4, <2>4 DEF RecordWaiting
    <3>2. att' = [att EXCEPT ![a].pc = "finish"]
      BY <1>4 DEF RecordWaiting, Goto, TypeOK, AttemptState
    <3> QED
      BY <2>0, <3>1, <3>2 DEF InsertsEpisode
  <2> QED
    BY <2>1, <2>2, <2>3, <2>4
<1> QED
  BY <1>1, <1>2, <1>3, <1>4
     DEF Handoff, CheckFindsNothing, CheckFinds, CheckRaises, Enqueue, EnqueueAmbiguous,
         EnqueueRaises, ValidateLost, ValidateHeld, MarkSkips, MarkFails, MatchRefused

\* The steps of the other actors end rows at most.
LEMMA OthersRows ==
    ASSUME Base, Others
    PROVE  KeepsRows
<1> USE DEF Base
<1>1. CASE UNCHANGED task
  BY <1>1, SameRows
<1>2. ASSUME NEW S, task' = CleanedTasks(S) PROVE KeepsRows
  BY <1>2, CleanedRows
<1>3. ASSUME NEW q \in Queues, CancelQueueItem(q) PROVE KeepsRows
  <2> SUFFICES ASSUME NEW r \in TaskIds PROVE KeepsRow(r)
    BY DEF KeepsRows
  <2>1. \/ task'[r] = task[r]
        \/ task[r].status # "none" /\ task'[r] = [task[r] EXCEPT !.status = "cancelled_by_user"]
    BY <1>3 DEF CancelQueueItem, Active
  <2> QED
    BY <2>1, ClosedRow
<1>4. ASSUME NEW r \in TaskIds, CleanupStaleTask(r) PROVE KeepsRows
  <2> SUFFICES ASSUME NEW s \in TaskIds PROVE KeepsRow(s)
    BY DEF KeepsRows
  <2>1. \/ task'[s] = task[s]
        \/ /\ task[s].status # "none"
           /\ task'[s] = [task[s] EXCEPT !.status = "transfer_stale_unknown"]
    BY <1>4 DEF CleanupStaleTask, TypeOK
  <2> QED
    BY <2>1, ClosedRow
<1>5. CASE ReconcileReservations
  <2> SUFFICES ASSUME NEW r \in TaskIds PROVE KeepsRow(r)
    BY DEF KeepsRows
  <2>1. \/ task'[r] = task[r]
        \/ /\ task[r].status # "none"
           /\ task'[r] = [task[r] EXCEPT !.status = "reservation_expired"]
    BY <1>5 DEF ReconcileReservations, Overdue
  <2> QED
    BY <2>1, ClosedRow
<1> QED
  BY <1>1, <1>2, <1>3, <1>4, <1>5
     DEF Others, ClaimQueueItem, WorkerStarts, WorkerReleases, WorkerCrashes, XferEnds,
         AltEnds, RecordImport, MarkQueueVerified, RetireRemovedSeries,
         CleanupExpiredClaims, CleanupInactiveTasks, Tick, rows

\* Every step keeps the rows, creates a reservation or inserts an episode.
LEMMA StepRows ==
    ASSUME Base, [Next]_vars
    PROVE  \/ KeepsRows
           \/ \E a \in Attempts, q \in Queues, c \in Cands :
                 /\ NewReservation(a, q, c)
                 /\ ReserveCreates(a, q, c) \/ PersistSlotWait(a, q, c)
           \/ \E a \in Attempts : InsertsEpisode(a)
<1>1. ASSUME NEW a \in Attempts, NEW r \in Attempts, ReserveReuses(a, r) PROVE KeepsRows
  BY <1>1, SameRows DEF ReserveReuses, rows
<1>2. ASSUME NEW r \in Attempts, ReserveExpires(r) PROVE KeepsRows
  <2> SUFFICES ASSUME NEW s \in TaskIds PROVE KeepsRow(s)
    BY DEF KeepsRows
  <2>1. \/ task'[s] = task[s]
        \/ /\ task[s].status # "none"
           /\ task'[s] = [task[s] EXCEPT !.status = "slot_request_expired"]
    BY <1>2 DEF ReserveExpires, Base, TypeOK, Active
  <2> QED
    BY <2>1, ClosedRow DEF Base
<1>3. ASSUME NEW a \in Attempts, Crash(a) PROVE KeepsRows
  BY <1>3, SameRows DEF Crash, NoDb, rows
<1>4. CASE UNCHANGED vars
  BY <1>4, SameRows DEF vars, rows
<1> QED
  BY <1>1, <1>2, <1>3, <1>4, HandoffRows, OthersRows
     DEF Next, ReserveCreates, PersistSlotWait, Others

\* An inserted episode is a row of its own, without a reservation id.
LEMMA EpisodeRow ==
    ASSUME TypeOK, HoldsRow, NEW a \in Attempts, InsertsEpisode(a)
    PROVE  LET e == EpisodeOf[a] IN
           /\ e \in TaskIds \ Attempts
           /\ task'[e].status = "started_waiting" /\ task'[e].queue \in Queues
           /\ ~task'[e].bound
           /\ \A r \in TaskIds \ {e} : task'[r] = task[r]
           /\ \A r \in Attempts : task'[r] = task[r]
<1> DEFINE e == EpisodeOf[a]
<1>1. e \in TaskIds \ Attempts /\ \A r \in Attempts : r # e
  BY ConstAssumption
<1>2. att[a].queue \in Queues
  BY DEF InsertsEpisode, HoldsRow
<1>3. task' = Recorded(a, e, "started_waiting") /\ task \in [TaskIds -> TaskRow]
  BY DEF InsertsEpisode, TypeOK
<1>4. \A r \in TaskIds \ {e} : task'[r] = task[r]
  BY <1>3 DEF Recorded
<1>5. /\ task'[e].status = "started_waiting" /\ task'[e].queue = att[a].queue
      /\ ~task'[e].bound
  BY <1>1, <1>3 DEF Recorded
<1> QED
  BY <1>1, <1>2, <1>4, <1>5

\* A reserved row that exists is not revived, whatever the step.
LEMMA ExistingRow ==
    ASSUME Base, [Next]_vars, NEW r \in Attempts, task[r].status # "none"
    PROVE  task'[r].status # "none" /\ (Active(r)' => Active(r))
<1>1. CASE KeepsRows
  BY <1>1 DEF KeepsRows, KeepsRow, Active
<1>2. ASSUME NEW a \in Attempts, NEW q \in Queues, NEW c \in Cands, NewReservation(a, q, c)
      PROVE  task'[r].status # "none" /\ (Active(r)' => Active(r))
  <2>1. r # a
    BY <1>2 DEF Base, Fresh, NewReservation
  <2>2. task'[r] = task[r]
    BY <1>2, <2>1 DEF NewReservation, Base, TypeOK
  <2> QED
    BY <2>2 DEF Active
<1>3. ASSUME NEW a \in Attempts, InsertsEpisode(a)
      PROVE  task'[r].status # "none" /\ (Active(r)' => Active(r))
  <2>1. task'[r] = task[r]
    BY <1>3, EpisodeRow DEF Base
  <2> QED
    BY <2>1 DEF Active
<1> QED
  BY <1>1, <1>2, <1>3, StepRows

--------------------------------------------------------------------------------
(* What a step does to an attempt *)

\* The attempt goes on with the reservation it holds.
Moves(b) ==
    /\ att[b].pc \in Holding \ {"finish"} /\ att'[b].pc \in Holding \ {"reserved"}
    /\ att'[b].queue = att[b].queue /\ att'[b].rsv = att[b].rsv /\ att'[b].until = att[b].until
    /\ att'[b].pc # "enqueue" => att'[b].out # "none"
    /\ att'[b].pc = "enqueue" => att[b].pc = "reserved"
AttStep(b) ==
    \/ att'[b] = att[b]
    \/ att'[b].pc = "done"
    \/ Moves(b)
    \/ \E q \in Queues, c \in Cands : ReserveCreates(b, q, c)
    \/ \E r \in Attempts : ReserveReuses(b, r)

\* Goto changes the point, the outcome and the transfer of one attempt.
LEMMA GotoMoves ==
    ASSUME TypeOK, NEW a \in Attempts, NEW pc \in Holding \ {"reserved"},
           NEW out, NEW x, Goto(a, pc, out, x),
           att[a].pc \in Holding \ {"finish"}, pc # "enqueue" => out # "none",
           pc = "enqueue" => att[a].pc = "reserved"
    PROVE  Moves(a) /\ \A b \in Attempts : b # a => att'[b] = att[b]
<1>1. \A b \in Attempts : b # a => att'[b] = att[b]
  BY DEF Goto, TypeOK
<1>2. /\ att'[a].pc = pc /\ att'[a].out = out /\ att'[a].queue = att[a].queue
      /\ att'[a].rsv = att[a].rsv /\ att'[a].until = att[a].until
  BY DEF Goto, TypeOK, AttemptState
<1> QED
  BY <1>1, <1>2 DEF Moves

\* A handoff step moves its own attempt.
LEMMA HandoffAtts ==
    ASSUME Base, NEW a \in Attempts, Handoff(a) \/ Crash(a), NEW b \in Attempts
    PROVE  AttStep(b)
<1> USE DEF Base
<1>1. CASE Finish(a) \/ Crash(a)
  BY <1>1 DEF Finish, Crash, Done, Idle, TypeOK, AttStep
<1>2. CASE CheckFindsNothing(a)
  <2>1. Goto(a, "enqueue", "none", None) /\ att[a].pc = "reserved"
    BY <1>2 DEF CheckFindsNothing
  <2> QED
    BY <2>1, GotoMoves DEF AttStep
<1>3. CASE \/ CheckRaises(a) \/ (\E x \in Attempts : CheckFinds(a, x)) \/ Enqueue(a)
           \/ EnqueueAmbiguous(a) \/ EnqueueRaises(a) \/ ValidateLost(a) \/ MarkFails(a)
  <2>1. /\ att[a].pc \in {"reserved", "enqueue", "validate", "mark"}
        /\ \E pc \in {"finish", "mark", "validate"},
              out \in {"reservation_failed", "transfer_failed", "started_waiting",
                       "enqueue_response_ambiguous"},
              x \in Attempts \cup {None} : Goto(a, pc, out, x)
    <3>1. att[a].ext \in Attempts \cup {None}
      BY DEF TypeOK, AttemptState
    <3> QED
      BY <1>3, <3>1 DEF CheckRaises, CheckFinds, Enqueue, EnqueueAmbiguous, EnqueueRaises,
                        ValidateLost, MarkFails
  <2> QED
    BY <2>1, GotoMoves DEF AttStep
<1>4. CASE \/ ValidateHeld(a) \/ MarkQueue(a) \/ MarkSkips(a) \/ MatchRefused(a)
           \/ RecordWaiting(a) \/ (\E r \in TaskIds : MatchApplies(a, r))
  <2>1. /\ att[a].pc \in {"validate", "mark", "match", "record"}
        /\ \E pc \in {"finish", "mark", "match", "record"} : Goto(a, pc, att[a].out, att[a].ext)
    BY <1>4 DEF ValidateHeld, MarkQueue, MarkSkips, MatchRefused, RecordWaiting, MatchApplies
  <2>2. att[a].out # "none"
    BY <2>1 DEF HoldsRow
  <2> QED
    BY <2>1, <2>2, GotoMoves DEF AttStep
<1> QED
  BY <1>1, <1>2, <1>3, <1>4 DEF Handoff

\* Every step leaves an attempt alone, ends it, moves it on or gives it a reservation.
LEMMA StepAtts ==
    ASSUME Base, [Next]_vars, NEW b \in Attempts
    PROVE  AttStep(b)
<1>1. ASSUME NEW a \in Attempts, NEW q \in Queues, NEW c \in Cands, ReserveCreates(a, q, c)
      PROVE  AttStep(b)
  <2>1. b # a => att'[b] = att[b]
    BY <1>1 DEF ReserveCreates, Base, TypeOK
  <2> QED
    BY <1>1, <2>1 DEF AttStep
<1>2. ASSUME NEW a \in Attempts, NEW q \in Queues, NEW c \in Cands, PersistSlotWait(a, q, c)
      PROVE  AttStep(b)
  BY <1>2 DEF PersistSlotWait, AttStep, Done, Idle, Base, TypeOK
<1>3. ASSUME NEW a \in Attempts, NEW r \in Attempts, ReserveReuses(a, r) PROVE AttStep(b)
  <2>1. b # a => att'[b] = att[b]
    BY <1>3 DEF ReserveReuses, Base, TypeOK
  <2> QED
    BY <1>3, <2>1 DEF AttStep
<1>4. CASE UNCHANGED att
  BY <1>4 DEF AttStep
<1>5. CASE Others
  BY <1>5, <1>4 DEF Others, ClaimQueueItem, WorkerStarts, WorkerReleases, WorkerCrashes,
         XferEnds, AltEnds, RecordImport, MarkQueueVerified, CancelQueueItem, CleanupStaleTask,
         RetireRemovedSeries, CleanupExpiredClaims, CleanupInactiveTasks,
         ReconcileReservations, Tick
<1>6. ASSUME NEW r \in Attempts, ReserveExpires(r) PROVE AttStep(b)
  BY <1>6, <1>4 DEF ReserveExpires
<1> QED
  BY <1>1, <1>2, <1>3, <1>4, <1>5, <1>6, HandoffAtts DEF Next, Others, vars

--------------------------------------------------------------------------------
(* What a step does to a claim *)

\* A claim that changes was free or expired, or its reservation ends in this step, or
\* its owner gives it up in this step or has given it up before.
ClaimStep(q) ==
    \/ claims'[q] = claims[q]
    \/ claims[q].owner = None
    \/ claims[q].exp <= now
    \/ claims[q].rsv \in Attempts /\ task'[claims[q].rsv].status \notin ActiveStatus
    \/ \E a \in Attempts : claims[q].owner = a /\ (att[a].pc \notin Holding \/ att'[a].pc \notin Holding)
    \/ \E w \in Workers : claims[q].owner = w /\ (wk[w].queue = None \/ wk'[w].queue = None)

\* A transition releases the claim of its caller, or an expired claim.
LEMMA TransitionClaims ==
    ASSUME TypeOK, NEW r \in TaskIds, NEW want, NEW x, NEW o \in Attempts, NEW at,
           Transition(r, want, x, o, at), NEW q \in Queues
    PROVE  claims'[q] = claims[q] \/ claims[q].owner = o
<1>1. o # None
  BY ConstAssumption
<1>2. claims \in [Queues -> ClaimRow]
  BY DEF TypeOK
<1>3. \/ UNCHANGED claims
      \/ claims' = [claims EXCEPT ![task[r].queue] = AfterClaimsRelease(task[r].queue, r, o)]
  BY <1>1, <1>2 DEF Transition, TransitionFenced, TransitionReconciled, TransitionRefused,
                    TransitionApplied
<1> QED
  BY <1>1, <1>2, <1>3 DEF AfterClaimsRelease

\* A handoff step releases its own claim or an expired one.
LEMMA HandoffClaims ==
    ASSUME Base, NEW a \in Attempts, Handoff(a) \/ Crash(a), NEW q \in Queues
    PROVE  ClaimStep(q)
<1> USE DEF Base
<1>1. CASE UNCHANGED claims
  BY <1>1 DEF ClaimStep
<1>2. ASSUME NEW r \in TaskIds, MatchApplies(a, r) PROVE ClaimStep(q)
  <2>1. /\ claims' = [claims EXCEPT ![task[r].queue] = AfterClaimsRelease(task[r].queue, r, None)]
        /\ ClaimPermits(task[r].queue, r, None, now)
    BY <1>2 DEF MatchApplies, TransitionApplied
  <2>2. claims'[q] = claims[q] \/ claims[q].exp <= now
    <3>1. claims \in [Queues -> ClaimRow] /\ claims[q].exp \in Nat /\ now \in Nat
      BY ConstAssumption DEF TypeOK, ClaimRow
    <3> QED
      BY <2>1, <3>1 DEF AfterClaimsRelease, ClaimPermits
  <2> QED
    BY <2>2 DEF ClaimStep
<1>3. CASE Finish(a)
  <2>1. /\ att[a].rsv \in TaskIds /\ att[a].pc = "finish"
        /\ Transition(att[a].rsv, att[a].out, att[a].ext, a, now)
    BY <1>3 DEF Finish, HoldsRow
  <2>2. att'[a].pc \notin Holding
    BY <1>3 DEF Finish, Done, Idle, TypeOK
  <2> QED
    BY <2>1, <2>2, TransitionClaims DEF ClaimStep
<1> QED
  BY <1>1, <1>2, <1>3
     DEF Handoff, Crash, NoDb, CheckFindsNothing, CheckFinds, CheckRaises, Enqueue,
         EnqueueAmbiguous, EnqueueRaises, ValidateLost, ValidateHeld, MarkQueue, MarkSkips,
         MarkFails, MatchRefused, RecordWaiting

\* Taking a claim.
LEMMA ClaimTaken ==
    ASSUME TypeOK, NEW o, NEW p \in Queues, NEW r, NEW lease, CanClaim(p, o), Claim(p, o, r, lease)
    PROVE  /\ claims'[p] = [owner |-> o, exp |-> now + lease, rsv |-> r]
           /\ \A q \in Queues : \/ claims'[q] = claims[q] \/ claims[q].owner \in {None, o}
                                \/ claims[q].exp <= now
BY DEF TypeOK, CanClaim, Claim

\* The other actors release their own claims, expired ones, and those of ended reservations.
LEMMA OthersClaims ==
    ASSUME Base, Others, NEW q \in Queues
    PROVE  ClaimStep(q)
<1> USE DEF Base
<1>1. CASE UNCHANGED claims
  BY <1>1 DEF ClaimStep
<1>2. ASSUME NEW w \in Workers, NEW p \in Queues, ClaimQueueItem(w, p) PROVE ClaimStep(q)
  <2>1. wk[w].queue = None /\ CanClaim(p, w) /\ Claim(p, w, None, WorkerLease)
    BY <1>2 DEF ClaimQueueItem
  <2>2. claims'[q] = claims[q] \/ claims[q].owner \in {None, w} \/ claims[q].exp <= now
    BY <2>1, ClaimTaken
  <2> QED
    BY <2>1, <2>2 DEF ClaimStep
<1>3. ASSUME NEW w \in Workers, WorkerReleases(w) PROVE ClaimStep(q)
  <2>1. claims'[q] = claims[q] \/ claims[q].owner = w
    BY <1>3 DEF WorkerReleases, ReleaseClaim, TypeOK
  <2>2. wk'[w].queue = None
    BY <1>3 DEF WorkerReleases, IdleWorker, TypeOK
  <2> QED
    BY <2>1, <2>2 DEF ClaimStep
<1>4. CASE CleanupExpiredClaims
  BY <1>4 DEF CleanupExpiredClaims, ClaimStep
<1>5. CASE ReconcileReservations
  <2> DEFINE hit == {p \in Queues : \E r \in Overdue : task[r].queue = p}
             R == CHOOSE r \in Overdue : task[r].queue = q
  <2>1. q \notin hit => claims'[q] = claims[q]
    BY <1>5 DEF ReconcileReservations
  <2>2. q \in hit => claims'[q] = AfterReservationRelease(q, R)
    BY <1>5 DEF ReconcileReservations
  <2>3. q \in hit => R \in Overdue
    OBVIOUS
  <2>4. \A r \in Overdue : r \in TaskIds /\ task'[r].status \notin ActiveStatus
    BY <1>5 DEF ReconcileReservations, Overdue, TypeOK, TaskRow
  <2>5. claims[q].rsv \in Attempts \cup {None}
    BY DEF TypeOK, ClaimRow
  <2>6. CASE q \in hit /\ claims[q].rsv = R
    <3>1. task'[claims[q].rsv].status \notin ActiveStatus /\ R \in TaskIds
      BY <2>3, <2>4, <2>6
    <3>2. R \in Attempts
      BY <2>5, <2>6, <3>1, ConstAssumption
    <3> QED
      BY <2>6, <3>1, <3>2 DEF ClaimStep
  <2> QED
    BY <2>1, <2>2, <2>6 DEF ClaimStep, AfterReservationRelease
<1> QED
  BY <1>1, <1>2, <1>3, <1>4, <1>5
     DEF Others, WorkerStarts, WorkerCrashes, XferEnds, AltEnds, RecordImport,
         MarkQueueVerified, CancelQueueItem, CleanupStaleTask, RetireRemovedSeries,
         CleanupInactiveTasks, Tick

\* Every change of a claim has one of the reasons of ClaimStep.
LEMMA StepClaims ==
    ASSUME Base, [Next]_vars, NEW q \in Queues
    PROVE  ClaimStep(q)
<1> USE DEF Base
<1>1. CASE UNCHANGED claims
  BY <1>1 DEF ClaimStep
<1>2. ASSUME NEW a \in Attempts, NEW p \in Queues, NEW c \in Cands, ReserveCreates(a, p, c)
      PROVE  ClaimStep(q)
  <2>1. att[a].pc \notin Holding /\ CanClaim(p, a) /\ Claim(p, a, a, Lease)
    BY <1>2 DEF ReserveCreates, NewReservation
  <2>2. claims'[q] = claims[q] \/ claims[q].owner \in {None, a} \/ claims[q].exp <= now
    BY <2>1, ClaimTaken
  <2> QED
    BY <2>1, <2>2 DEF ClaimStep
<1>3. ASSUME NEW a \in Attempts, NEW r \in Attempts, ReserveReuses(a, r) PROVE ClaimStep(q)
  <2>1. /\ att[a].pc \notin Holding /\ task[r].queue \in Queues
        /\ CanClaim(task[r].queue, a) /\ Claim(task[r].queue, a, r, Lease)
    BY <1>3 DEF ReserveReuses, RowsPlaced, Active
  <2>2. claims'[q] = claims[q] \/ claims[q].owner \in {None, a} \/ claims[q].exp <= now
    BY <2>1, ClaimTaken
  <2> QED
    BY <2>1, <2>2 DEF ClaimStep
<1>4. ASSUME NEW r \in Attempts, ReserveExpires(r) PROVE ClaimStep(q)
  <2>1. \/ claims'[q] = claims[q]
        \/ claims[q].exp <= now \/ claims[q].rsv = r
    BY <1>4 DEF ReserveExpires, AfterReservationRelease, TypeOK
  <2>2. task'[r].status \notin ActiveStatus
    BY <1>4 DEF ReserveExpires, TypeOK, TaskRow
  <2> QED
    BY <2>1, <2>2 DEF ClaimStep
<1> QED
  BY <1>1, <1>2, <1>3, <1>4, HandoffClaims, OthersClaims
     DEF Next, Others, PersistSlotWait, vars

--------------------------------------------------------------------------------
(* The invariant is inductive *)

\* Every step keeps the tables well-formed.
LEMMA TypeStep ==
    ASSUME Base, [Next]_vars
    PROVE  TypeOK'
<1>1. CASE UNCHANGED vars
  BY <1>1 DEF Base, TypeOK, vars, rows
<1> QED
  BY <1>1, ReserveTyped, ReserveReusesTyped, ReserveExpiresTyped, HandoffTyped, OthersTyped
     DEF Next, Others, Base

\* The row that a reservation creates.
LEMMA NewRow ==
    ASSUME Base, NEW a \in Attempts, NEW q \in Queues, NEW c \in Cands, NewReservation(a, q, c)
    PROVE  /\ task[a].status = "none"
           /\ task'[a].status = "waiting_for_slot" /\ task'[a].queue = q /\ task'[a].bound
           /\ \A r \in TaskIds \ {a} : task'[r] = task[r]
BY DEF Base, Fresh, TypeOK, NewReservation

\* Every step keeps each row with a queue row.
LEMMA RowsPlacedStep ==
    ASSUME Base, [Next]_vars
    PROVE  RowsPlaced'
<1>1. CASE KeepsRows
  BY <1>1 DEF KeepsRows, KeepsRow, Base, RowsPlaced
<1>2. ASSUME NEW a \in Attempts, NEW q \in Queues, NEW c \in Cands, NewReservation(a, q, c)
      PROVE  RowsPlaced'
  BY <1>2, NewRow DEF Base, RowsPlaced
<1>3. ASSUME NEW a \in Attempts, InsertsEpisode(a) PROVE RowsPlaced'
  BY <1>3, EpisodeRow DEF Base, RowsPlaced
<1> QED
  BY <1>1, <1>2, <1>3, StepRows

\* Every step keeps what the attempts know of their rows true.
LEMMA HoldsRowStep ==
    ASSUME Base, [Next]_vars
    PROVE  HoldsRow'
<1> SUFFICES ASSUME NEW a \in Attempts, att'[a].pc \in Holding
             PROVE  /\ att'[a].queue \in Queues /\ att'[a].rsv \in Attempts
                    /\ task'[att'[a].rsv].status # "none"
                    /\ att'[a].pc \notin {"reserved", "enqueue"} => att'[a].out # "none"
  BY DEF HoldsRow
<1>1. CASE att'[a] = att[a] \/ Moves(a)
  <2>1. /\ att[a].pc \in Holding /\ att'[a].queue = att[a].queue
        /\ att'[a].rsv = att[a].rsv
    BY <1>1 DEF Moves
  <2>2. att[a].rsv \in Attempts /\ task[att[a].rsv].status # "none" /\ att[a].queue \in Queues
    BY <2>1 DEF Base, HoldsRow
  <2>3. task'[att[a].rsv].status # "none"
    BY <2>2, ExistingRow
  <2>4. att'[a].pc \notin {"reserved", "enqueue"} => att'[a].out # "none"
    BY <1>1, <2>1 DEF Base, HoldsRow, Moves
  <2> QED
    BY <2>1, <2>2, <2>3, <2>4
<1>2. ASSUME NEW q \in Queues, NEW c \in Cands, ReserveCreates(a, q, c)
      PROVE  /\ att'[a].queue = q /\ att'[a].rsv = a /\ att'[a].pc = "reserved"
             /\ task'[a].status # "none"
  BY <1>2, NewRow DEF ReserveCreates, Base, TypeOK
<1>3. ASSUME NEW r \in Attempts, ReserveReuses(a, r)
      PROVE  /\ att'[a].queue \in Queues /\ att'[a].rsv = r /\ att'[a].out # "none"
             /\ task'[r].status # "none"
  <2>1. task[r].queue \in Queues /\ task[r].status # "none"
    BY <1>3 DEF ReserveReuses, Base, RowsPlaced, Active
  <2> QED
    BY <1>3, <2>1 DEF ReserveReuses, Base, TypeOK, rows
<1> QED
  BY <1>1, <1>2, <1>3, StepAtts DEF AttStep

\* Every step leaves the row ids of unstarted attempts unused.
LEMMA FreshStep ==
    ASSUME Base, [Next]_vars
    PROVE  Fresh'
<1> SUFFICES ASSUME NEW a \in Attempts
             PROVE  /\ att'[a].pc = "idle" => task'[a].status = "none"
                    /\ att'[a].pc \notin {"finish", "done"} => task'[EpisodeOf[a]].status = "none"
  BY DEF Fresh
<1>0. EpisodeOf[a] \in TaskIds \ Attempts /\ a \in TaskIds
  BY ConstAssumption
<1>1. /\ att'[a].pc = "idle" => att[a].pc = "idle" /\ att'[a] = att[a]
      /\ att'[a].pc \notin {"finish", "done"} => att[a].pc \notin {"finish", "done"}
  <2>1. ASSUME NEW q \in Queues, NEW c \in Cands, ReserveCreates(a, q, c)
        PROVE  att'[a].pc = "reserved" /\ att[a].pc = "idle"
    BY <2>1 DEF ReserveCreates, NewReservation, Base, TypeOK
  <2>2. ASSUME NEW r \in Attempts, ReserveReuses(a, r) PROVE att'[a].pc = "finish"
    BY <2>2 DEF ReserveReuses, Base, TypeOK
  <2> QED
    BY <2>1, <2>2, StepAtts DEF AttStep, Moves
<1>2. CASE KeepsRows
  BY <1>0, <1>1, <1>2 DEF KeepsRows, KeepsRow, Base, Fresh
<1>3. ASSUME NEW b \in Attempts, NEW q \in Queues, NEW c \in Cands, NewReservation(b, q, c),
             \/ ReserveCreates(b, q, c) \/ PersistSlotWait(b, q, c)
      PROVE  /\ att'[a].pc = "idle" => task'[a].status = "none"
             /\ att'[a].pc \notin {"finish", "done"} => task'[EpisodeOf[a]].status = "none"
  <2>1. att'[b].pc # "idle"
    BY <1>3 DEF ReserveCreates, PersistSlotWait, Done, Idle, Base, TypeOK
  <2> QED
    BY <1>0, <1>1, <1>3, <2>1, NewRow DEF Base, Fresh
<1>4. ASSUME NEW b \in Attempts, InsertsEpisode(b)
      PROVE  /\ att'[a].pc = "idle" => task'[a].status = "none"
             /\ att'[a].pc \notin {"finish", "done"} => task'[EpisodeOf[a]].status = "none"
  <2>1. att'[b].pc = "finish"
    BY <1>4 DEF InsertsEpisode, Base, TypeOK, AttemptState
  <2>2. a # b => EpisodeOf[a] # EpisodeOf[b]
    BY ConstAssumption
  <2> QED
    BY <1>0, <1>1, <1>4, <2>1, <2>2, EpisodeRow DEF Base, Fresh
<1> QED
  BY <1>2, <1>3, <1>4, StepRows

\* So every step keeps what holds of the rows and the attempts.
LEMMA BaseStep == ASSUME Base, [Next]_vars PROVE Base'
BY TypeStep, HoldsRowStep, RowsPlacedStep, FreshStep DEF Base

\* An active reserved row belongs to a queue row, so that it has a unit.
LEMMA ActivePlaced ==
    ASSUME Base, NEW r \in TaskIds, Active(r)
    PROVE  task[r].queue \in Queues /\ task[r].status # "none"
BY DEF Base, RowsPlaced, Active

\* A kept row that is active was active for the same unit before.
LEMMA KeptOwner ==
    ASSUME Base, NEW r \in TaskIds, KeepsRow(r), task'[r].status \in ActiveStatus
    PROVE  Active(r) /\ Unit(task[r].queue) = UnitOf[IssueOf[task'[r].queue]]
<1>1. Active(r)
  BY DEF KeepsRow, Active
<1> QED
  BY <1>1, ActivePlaced DEF KeepsRow, Unit

\* No step makes a second reserved row of a unit active.
LEMMA OneReservedStep ==
    ASSUME Base, OneReservedPerUnit, [Next]_vars
    PROVE  OneReservedPerUnit'
<1> DEFINE A(r) == task'[r].status \in ActiveStatus
           U(r) == UnitOf[IssueOf[task'[r].queue]]
<1> SUFFICES ASSUME NEW r \in Attempts, NEW s \in Attempts, A(r), A(s), U(r) = U(s)
             PROVE  r = s
  BY DEF OneReservedPerUnit, Active, Unit
<1>1. CASE KeepsRows
  <2>1. /\ Active(r) /\ Unit(task[r].queue) = U(r)
        /\ Active(s) /\ Unit(task[s].queue) = U(s)
    BY <1>1, KeptOwner DEF KeepsRows
  <2> QED
    BY <2>1 DEF Base, OneReservedPerUnit
<1>2. ASSUME NEW a \in Attempts, NEW q \in Queues, NEW c \in Cands, NewReservation(a, q, c)
      PROVE  r = s
  <2>1. ASSUME NEW t \in Attempts, t # a, A(t)
        PROVE  Active(t) /\ Unit(task[t].queue) = U(t) /\ U(t) # Unit(q)
    <3>1. task'[t] = task[t]
      BY <1>2, <2>1, NewRow
    <3>2. Active(t) /\ Unit(task[t].queue) = U(t)
      BY <2>1, <3>1 DEF Active, Unit
    <3>3. t \notin Deciding(q, c)
      BY <1>2 DEF NewReservation
    <3> QED
      BY <3>2, <3>3, ActivePlaced DEF Deciding
  <2>2. U(a) = Unit(q)
    BY <1>2, NewRow DEF Unit
  <2>3. CASE r # a /\ s # a
    BY <2>1, <2>3 DEF Base, OneReservedPerUnit
  <2> QED
    BY <2>1, <2>2, <2>3
<1>3. ASSUME NEW a \in Attempts, InsertsEpisode(a) PROVE r = s
  <2>1. task'[r] = task[r] /\ task'[s] = task[s]
    BY <1>3, EpisodeRow DEF Base
  <2> QED
    BY <2>1 DEF Base, OneReservedPerUnit, Active, Unit
<1> QED
  BY <1>1, <1>2, <1>3, StepRows

\* Time never runs backwards.
LEMMA Clock ==
    ASSUME Base, [Next]_vars
    PROVE  now' >= now /\ now \in Nat /\ now' \in Nat
<1>0. now \in Nat
  BY ConstAssumption DEF Base, TypeOK
<1>1. CASE UNCHANGED now
  BY <1>0, <1>1
<1>2. CASE Tick
  BY <1>0, <1>2 DEF Tick
<1>3. ASSUME NEW a \in Attempts, Handoff(a) PROVE UNCHANGED now
  BY <1>3 DEF Handoff, NoDb, CheckFindsNothing, CheckFinds, CheckRaises, Enqueue,
         EnqueueAmbiguous, EnqueueRaises, ValidateLost, ValidateHeld, MarkQueue, MarkSkips,
         MarkFails, MatchApplies, MatchRefused, RecordWaiting, Finish
<1> QED
  BY <1>1, <1>2, <1>3
     DEF Next, vars, ReserveCreates, PersistSlotWait, NewReservation, ReserveReuses,
         ReserveExpires, Crash, NoDb, ClaimQueueItem, WorkerStarts, WorkerReleases,
         WorkerCrashes, XferEnds, AltEnds, RecordImport, MarkQueueVerified, CancelQueueItem,
         CleanupStaleTask, RetireRemovedSeries, CleanupExpiredClaims, CleanupInactiveTasks,
         ReconcileReservations

\* A worker goes on as it was, gives up, or claims a row.
LEMMA StepWorkers ==
    ASSUME Base, [Next]_vars, NEW w \in Workers
    PROVE  \/ wk'[w] = wk[w] \/ wk'[w].queue = None
           \/ \E q \in Queues : ClaimQueueItem(w, q)
<1> USE DEF Base
<1>1. CASE UNCHANGED wk
  BY <1>1
<1>2. ASSUME NEW v \in Workers, NEW q \in Queues, ClaimQueueItem(v, q), v # w
      PROVE  wk'[w] = wk[w]
  BY <1>2 DEF ClaimQueueItem, TypeOK
<1>3. ASSUME NEW v \in Workers, WorkerReleases(v) \/ WorkerCrashes(v)
      PROVE  wk'[w] = wk[w] \/ wk'[w].queue = None
  BY <1>3 DEF WorkerReleases, WorkerCrashes, IdleWorker, TypeOK
<1>4. ASSUME NEW a \in Attempts, Handoff(a) PROVE UNCHANGED wk
  BY <1>4 DEF Handoff, NoDb, CheckFindsNothing, CheckFinds, CheckRaises, Enqueue,
         EnqueueAmbiguous, EnqueueRaises, ValidateLost, ValidateHeld, MarkQueue, MarkSkips,
         MarkFails, MatchApplies, MatchRefused, RecordWaiting, Finish
<1> QED
  BY <1>1, <1>2, <1>3, <1>4
     DEF Next, vars, ReserveCreates, PersistSlotWait, NewReservation, ReserveReuses,
         ReserveExpires, Crash, NoDb, WorkerStarts, XferEnds, AltEnds, RecordImport,
         MarkQueueVerified, CancelQueueItem, CleanupStaleTask, RetireRemovedSeries,
         CleanupExpiredClaims, CleanupInactiveTasks, ReconcileReservations, Tick

\* Every step keeps the live claims of the holders.
LEMMA ClaimsHeldStep ==
    ASSUME IInv, [Next]_vars
    PROVE  ClaimsHeld'
<1> USE DEF IInv
<1>1. ASSUME NEW a \in Attempts, att'[a].pc \in Holding, att'[a].until > now',
             task'[att'[a].rsv].status \in ActiveStatus
      PROVE  claims'[att'[a].queue] = [owner |-> a, exp |-> att'[a].until, rsv |-> att'[a].rsv]
  <2>1. CASE att'[a] = att[a] \/ Moves(a)
    <3> DEFINE q == att[a].queue
               r == att[a].rsv
    <3>1. /\ att[a].pc \in Holding /\ att'[a].queue = q /\ att'[a].rsv = r
          /\ att'[a].until = att[a].until
      BY <1>1, <2>1 DEF Moves
    <3>2. q \in Queues /\ r \in Attempts /\ task[r].status # "none"
      BY <3>1 DEF Base, HoldsRow
    <3>3. Active(r)
      BY <1>1, <3>1, <3>2, ExistingRow DEF Active
    <3>4. att[a].until \in Nat /\ att[a].until > now
      <4>1. att[a].until \in Nat
        BY DEF Base, TypeOK, AttemptState
      <4> QED
        BY <1>1, <3>1, <4>1, Clock
    <3>5. claims[q] = [owner |-> a, exp |-> att[a].until, rsv |-> r]
      BY <3>1, <3>3, <3>4 DEF Base, ClaimsHeld
    <3>6. /\ claims[q].owner = a /\ a # None /\ a \notin Workers
          /\ ~(claims[q].exp <= now) /\ claims[q].rsv = r
      BY <3>4, <3>5, Clock, ConstAssumption
    <3>7. claims'[q] = claims[q]
      BY <1>1, <3>1, <3>2, <3>6, StepClaims DEF ClaimStep
    <3> QED
      BY <3>1, <3>5, <3>7
  <2>2. ASSUME NEW q \in Queues, NEW c \in Cands, ReserveCreates(a, q, c)
        PROVE  claims'[att'[a].queue]
                  = [owner |-> a, exp |-> att'[a].until, rsv |-> att'[a].rsv]
    <3>1. att'[a].queue = q /\ att'[a].until = now + Lease /\ att'[a].rsv = a
      BY <2>2 DEF ReserveCreates, Base, TypeOK
    <3>2. claims'[q] = [owner |-> a, exp |-> now + Lease, rsv |-> a]
      BY <2>2, ClaimTaken DEF ReserveCreates, Base
    <3> QED
      BY <3>1, <3>2
  <2>3. ASSUME NEW r \in Attempts, ReserveReuses(a, r)
        PROVE  claims'[att'[a].queue]
                  = [owner |-> a, exp |-> att'[a].until, rsv |-> att'[a].rsv]
    <3>1. /\ att'[a].queue = task[r].queue /\ att'[a].until = now + Lease
          /\ att'[a].rsv = r
      BY <2>3 DEF ReserveReuses, Base, TypeOK
    <3>2. task[r].queue \in Queues
      BY <2>3, ActivePlaced DEF ReserveReuses
    <3>3. claims'[task[r].queue] = [owner |-> a, exp |-> now + Lease, rsv |-> r]
      BY <2>3, <3>2, ClaimTaken DEF ReserveReuses, Base
    <3> QED
      BY <3>1, <3>3
  <2> QED
    BY <1>1, <2>1, <2>2, <2>3, StepAtts DEF AttStep
<1>2. ASSUME NEW w \in Workers, wk'[w].queue # None, wk'[w].until > now'
      PROVE  claims'[wk'[w].queue] = [owner |-> w, exp |-> wk'[w].until, rsv |-> None]
  <2>1. CASE wk'[w] = wk[w]
    <3> DEFINE q == wk[w].queue
    <3>1. q \in Queues /\ wk[w].until \in Nat
      BY <1>2, <2>1 DEF Base, TypeOK, WorkerState
    <3>2. wk[w].until > now
      BY <1>2, <2>1, <3>1, Clock
    <3>3. claims[q] = [owner |-> w, exp |-> wk[w].until, rsv |-> None]
      BY <1>2, <2>1, <3>2 DEF Base, ClaimsHeld
    <3>4. /\ claims[q].owner = w /\ claims[q].owner \notin Attempts
          /\ ~(claims[q].exp <= now) /\ claims[q].rsv \notin Attempts /\ w # None
      BY <3>1, <3>2, <3>3, Clock, ConstAssumption
    <3>5. claims'[q] = claims[q]
      BY <1>2, <2>1, <3>1, <3>4, StepClaims DEF ClaimStep
    <3> QED
      BY <2>1, <3>3, <3>5
  <2>2. ASSUME NEW q \in Queues, ClaimQueueItem(w, q)
        PROVE  claims'[wk'[w].queue] = [owner |-> w, exp |-> wk'[w].until, rsv |-> None]
    <3>1. wk'[w].queue = q /\ wk'[w].until = now + WorkerLease
      BY <2>2 DEF ClaimQueueItem, Base, TypeOK
    <3>2. claims'[q] = [owner |-> w, exp |-> now + WorkerLease, rsv |-> None]
      BY <2>2, ClaimTaken DEF ClaimQueueItem, Base
    <3> QED
      BY <3>1, <3>2
  <2> QED
    BY <1>2, <2>1, <2>2, StepWorkers
<1> QED
  BY <1>1, <1>2 DEF ClaimsHeld, Active

\* Every step keeps the inductive invariant.
THEOREM StepIInv == IInv /\ [Next]_vars => IInv'
BY BaseStep, OneReservedStep, ClaimsHeldStep DEF IInv

--------------------------------------------------------------------------------
(* The theorems *)

\* Every reachable state satisfies the inductive invariant.
THEOREM Invariance == Spec => []IInv
BY InitIInv, StepIInv, PTL DEF Spec

\* Every row of every table keeps a known shape, whatever the actors do.
THEOREM TypeCorrect == Spec => []TypeOK
<1>1. IInv => TypeOK
  BY DEF IInv, Base
<1> QED
  BY <1>1, Invariance, PTL

\* reserve_slskd_candidate admits at most one active reserved row per exact unit.
THEOREM ExclusiveReservation == Spec => []OneReservedPerUnit
<1>1. IInv => OneReservedPerUnit
  BY DEF IInv, Base
<1> QED
  BY <1>1, Invariance, PTL

\* Nobody loses a live claim to another party's release, takeover or sweep.
THEOREM ClaimsNotRobbed == Spec => []NotRobbed
<1>1. IInv => NotRobbed
  <2> SUFFICES ASSUME ClaimsHeld PROVE NotRobbed
    BY DEF IInv, Base
  <2>1. ASSUME NEW a \in Attempts, att[a].pc \in Holding, att[a].until > now, Active(att[a].rsv)
        PROVE  claims[att[a].queue].owner = a
    <3>1. claims[att[a].queue] = [owner |-> a, exp |-> att[a].until, rsv |-> att[a].rsv]
      BY <2>1 DEF ClaimsHeld
    <3> QED
      BY <3>1
  <2>2. ASSUME NEW w \in Workers, wk[w].queue # None, wk[w].until > now
        PROVE  claims[wk[w].queue].owner = w
    <3>1. claims[wk[w].queue] = [owner |-> w, exp |-> wk[w].until, rsv |-> None]
      BY <2>2 DEF ClaimsHeld
    <3> QED
      BY <3>1
  <2> QED
    BY <2>1, <2>2 DEF NotRobbed
<1> QED
  BY <1>1, Invariance, PTL

\* No step revives a row that has ended.
LEMMA EndedStep ==
    ASSUME Base, [Next]_vars, NEW r \in TaskIds,
           task[r].status \notin ActiveStatus \cup {"none"}
    PROVE  task'[r].status \notin ActiveStatus \cup {"none"}
<1>1. CASE KeepsRows
  BY <1>1 DEF KeepsRows, KeepsRow
<1>2. ASSUME NEW a \in Attempts, NEW q \in Queues, NEW c \in Cands, NewReservation(a, q, c)
      PROVE  task'[r] = task[r]
  BY <1>2, NewRow
<1>3. ASSUME NEW a \in Attempts, InsertsEpisode(a) PROVE task'[r] = task[r]
  <2>1. task[EpisodeOf[a]].status = "none"
    BY <1>3 DEF InsertsEpisode, Base, Fresh
  <2> QED
    BY <1>3, <2>1, EpisodeRow DEF Base
<1> QED
  BY <1>1, <1>2, <1>3, StepRows

\* No late report, retry, waiting record or sweep revives a task that has ended.
THEOREM NoRevival == Spec => EndedStaysEnded
<1>1. IInv /\ [Next]_vars
        => [\A r \in TaskIds :
              task[r].status \notin ActiveStatus \cup {"none"}
                => task'[r].status \notin ActiveStatus \cup {"none"}]_vars
  BY EndedStep DEF IInv
<1> QED
  BY <1>1, Invariance, PTL DEF Spec, EndedStaysEnded

--------------------------------------------------------------------------------
(* Refinement of UnitOwnership *)

Own == [u \in Units |-> Owners(u)]

\* A kept table takes no unit and ends the ownership of some.
LEMMA KeptOwners ==
    ASSUME Base, OneReservedPerUnit, KeepsRows, NEW u \in Units
    PROVE  Owners(u)' = {} \/ Owners(u)' = Owners(u)
<1>1. Owners(u)' \subseteq Owners(u)
  BY KeptOwner DEF KeepsRows, Owners, Active, Unit
<1>2. \A r, s \in Owners(u) : r = s
  BY DEF OneReservedPerUnit, Owners
<1> QED
  BY <1>1, <1>2

\* A step that keeps the table drops the owners of some units.
LEMMA KeptOwnership ==
    ASSUME Base, OneReservedPerUnit, KeepsRows
    PROVE  Ownership!Next
<1> DEFINE S == {u \in Units : Owners(u)' = {}}
<1>1. Own' = [u \in Units |-> IF u \in S THEN {} ELSE Own[u]]
  BY KeptOwners DEF Own
<1>2. Ownership!Drop(S)
  BY <1>1 DEF Ownership!Drop, Own
<1> QED
  BY <1>2 DEF Ownership!Next

\* A reserved row that becomes active for a unit without an active row takes the unit.
LEMMA TakenOwnership ==
    ASSUME NEW a \in Attempts, NEW u \in Units,
           ~Active(a), task'[a].status \in ActiveStatus, UnitOf[IssueOf[task'[a].queue]] = u,
           \A r \in Attempts \ {a} : task'[r] = task[r],
           \A r \in Attempts : Active(r) => Unit(task[r].queue) # u
    PROVE  Ownership!Next
<1>1. Owners(u) = {}
  BY DEF Owners
<1>2. Owners(u)' = {a}
  <2>1. \A r \in Attempts \ {a} : r \notin Owners(u)'
    BY <1>1 DEF Owners, Active, Unit
  <2>2. a \in Owners(u)'
    BY DEF Owners, Active, Unit
  <2>3. Owners(u)' \subseteq Attempts
    BY DEF Owners
  <2> QED
    BY <2>1, <2>2, <2>3
<1>3. \A v \in Units \ {u} : Owners(v)' = Owners(v)
  BY DEF Owners, Active, Unit
<1>4. Own' = [Own EXCEPT ![u] = {a}]
  BY <1>2, <1>3 DEF Own
<1>5. Ownership!Take(u, a)
  BY <1>1, <1>4 DEF Ownership!Take, Own
<1> QED
  BY <1>5 DEF Ownership!Next

\* Every step takes a free unit, drops some, or leaves the owners alone.
LEMMA OwnershipStep ==
    ASSUME Base, OneReservedPerUnit, [Next]_vars
    PROVE  [Ownership!Next]_Own
<1>1. CASE KeepsRows
  BY <1>1, KeptOwnership
<1>2. ASSUME NEW a \in Attempts, NEW q \in Queues, NEW c \in Cands, NewReservation(a, q, c)
      PROVE  Ownership!Next
  <2>1. Unit(q) \in Units
    BY ConstAssumption DEF Unit
  <2>2. \A r \in Attempts : Active(r) => Unit(task[r].queue) # Unit(q)
    BY <1>2, ActivePlaced DEF NewReservation, Deciding
  <2>3. \A r \in Attempts \ {a} : task'[r] = task[r]
    BY <1>2, NewRow
  <2>4. ~Active(a) /\ task'[a].status \in ActiveStatus /\ UnitOf[IssueOf[task'[a].queue]] = Unit(q)
    BY <1>2, NewRow DEF Active, Unit
  <2> QED
    BY <2>1, <2>2, <2>3, <2>4, TakenOwnership
<1>3. ASSUME NEW a \in Attempts, InsertsEpisode(a) PROVE UNCHANGED Own
  <2>1. \A r \in Attempts : task'[r] = task[r]
    BY <1>3, EpisodeRow DEF Base
  <2>2. \A u \in Units : Owners(u)' = Owners(u)
    BY <2>1 DEF Owners, Active, Unit
  <2> QED
    BY <2>2 DEF Own
<1> QED
  BY <1>1, <1>2, <1>3, StepRows

\* The protocol implements exclusive ownership of units: owners are taken when there
\* is none and dropped, never exchanged.
THEOREM Refinement == Spec => OwnershipSpec
<1>1. Init => Ownership!Init
  BY DEF Init, Ownership!Init, Owners, Active, NoTask
<1>2. IInv /\ [Next]_vars => [Ownership!Next]_Own
  BY OwnershipStep DEF IInv
<1> QED
  BY <1>1, <1>2, Invariance, PTL DEF Spec, OwnershipSpec, Ownership!Spec, Own
================================================================================
