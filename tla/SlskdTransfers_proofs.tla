------------------------ MODULE SlskdTransfers_proofs -------------------------
(***************************************************************************)
(* Which transfer a task of SlskdReservation follows, and who reopens a    *)
(* closed queue row, proved for any number of attempts, workers, rows and  *)
(* candidates and for any leases.                                          *)
(***************************************************************************)
EXTENDS SlskdReservation_proofs

\* A transfer that a task follows was enqueued for a task of the same candidate.
FollowsCandidate ==
    \A r \in TaskIds : task[r].ext # None =>
        /\ task[r].status # "none" /\ task[task[r].ext].status # "none"
        /\ task[task[r].ext].cand = task[r].cand

\* So was a transfer that an attempt is about to report.
CarriesCandidate ==
    \A a \in Attempts : (att[a].pc \in Holding /\ att[a].ext # None) =>
        task[att[a].ext].status # "none" /\ task[att[a].ext].cand = Candidate(a)

\* An attempt that marks the row, or reports a start, has a transfer to show.
MarksTransfer ==
    \A a \in Attempts :
        (att[a].pc \in Holding /\ (att[a].pc \in {"mark", "match", "record"}
                                     \/ att[a].out = "started_waiting"))
            => att[a].ext # None

\* Only a reuse works for the reservation of another attempt, and it is at its end.
OwnReservation == \A a \in Attempts : att[a].pc \in Holding \ {"finish"} => att[a].rsv = a

\* What the rows say by their status alone.
RowStatus ==
    \A r \in TaskIds :
        /\ task[r].status = "started_waiting" => task[r].ext # None
        /\ task[r].status \in {"waiting_for_slot", "enqueue_response_ambiguous"} => r \in Attempts

\* A transfer belongs to a row, and was not there before its attempt enqueued it.
TransferPlaced ==
    \A x \in Attempts : /\ xfer[x] # "none" => task[x].status # "none"
                        /\ att[x].pc \in {"idle", "reserved", "enqueue"} => xfer[x] = "none"

Transfers ==
    /\ FollowsCandidate /\ CarriesCandidate /\ MarksTransfer
    /\ OwnReservation /\ RowStatus /\ TransferPlaced

\* Active reserved rows of one candidate do not coexist.
OneReservedPerCandidate ==
    \A r, s \in Attempts : (Active(r) /\ Active(s) /\ task[r].cand = task[s].cand) => r = s

TInv == IInv /\ Transfers /\ OneReservedPerCandidate

USE DEF TaskIds, TaskStatus, ActiveStatus, TerminalStatus, Pc, Holding

--------------------------------------------------------------------------------
(* What a step does to the work of a row *)

\* The transfer x belongs to a row of the candidate of row r.
OfCandidate(x, r) == x \in Attempts \ {None} /\ task[x].status # "none" /\ task[x].cand = task[r].cand

\* A row that exists keeps its candidate and its deadline, and changes its transfer for
\* one of its candidate; it shows a start only with a transfer, and no row without a
\* reservation id begins to wait.
KeepsWork(r) ==
    /\ task'[r].status # "none" /\ task'[r].cand = task[r].cand
    /\ task'[r].deadline = task[r].deadline
    /\ task'[r].ext = task[r].ext \/ OfCandidate(task'[r].ext, r)
    /\ task'[r].status = "started_waiting"
         => task'[r].ext # None \/ (task[r].status = "started_waiting" /\ task'[r].ext = task[r].ext)
    /\ task'[r].status \in {"waiting_for_slot", "enqueue_response_ambiguous"}
         => r \in Attempts \/ task'[r].status = task[r].status
Work ==
    \A r \in TaskIds :
        \/ task'[r] = task[r]
        \/ task[r].status # "none" /\ KeepsWork(r)

\* A step that leaves the table alone keeps the work.
LEMMA SameWorkKept == ASSUME UNCHANGED task PROVE Work
BY DEF Work

\* Ending a row keeps its work.
LEMMA EndedWork ==
    ASSUME TypeOK, NEW r \in TaskIds, NEW st \in TaskStatus \ (ActiveStatus \cup {"none"}),
           task[r].status # "none",
           task'[r] = task[r] \/ task'[r] = [task[r] EXCEPT !.status = st]
    PROVE  KeepsWork(r)
<1>1. CASE task'[r] = task[r]
  BY <1>1 DEF KeepsWork
<1>2. CASE task'[r] = [task[r] EXCEPT !.status = st]
  <2>1. /\ task'[r].status = st /\ task'[r].cand = task[r].cand
        /\ task'[r].deadline = task[r].deadline /\ task'[r].ext = task[r].ext
    BY <1>2 DEF TypeOK, TaskRow
  <2> QED
    BY <2>1 DEF KeepsWork
<1> QED
  BY <1>1, <1>2

\* The row takes the status and, if one is named, the transfer.
Takes(r, want, x, o, at) ==
    /\ r \in Attempts /\ task[r].bound
    /\ Active(r) /\ ClaimPermits(task[r].queue, r, o, at)
    /\ task'[r].status = Effective(r, want, x) /\ Effective(r, want, x) # "none"
    /\ task'[r].cand = task[r].cand /\ task'[r].deadline = task[r].deadline
    /\ task'[r].queue = task[r].queue /\ task'[r].bound = task[r].bound
    /\ task'[r].ext = task[r].ext \/ (x # None /\ task'[r].ext = x)
    /\ x # None /\ ~Terminal(want) => task'[r].ext = x

\* What a transition writes: the status of its own row, and a transfer if it names one.
LEMMA TransitionWrites ==
    ASSUME TypeOK, RowsPlaced, NEW r \in TaskIds, NEW want \in TaskStatus \ {"none"},
           NEW x \in Attempts \cup {None}, NEW o, NEW at,
           Transition(r, want, x, o, at), NEW s \in TaskIds
    PROVE  task'[s] = task[s] \/ (s = r /\ Takes(r, want, x, o, at))
<1>1. CASE TransitionApplied(r, want, x, o, at)
  <2>1. Effective(r, want, x) # "none"
    BY DEF Effective
  <2>2. task' = [task EXCEPT ![r].status = Effective(r, want, x),
                             ![r].ext = IF Terminal(Effective(r, want, x)) \/ x = None
                                        THEN @ ELSE x]
    BY <1>1 DEF TransitionApplied
  <2>3. s # r => task'[s] = task[s]
    BY <2>2 DEF TypeOK
  <2>4. /\ task'[r].status = Effective(r, want, x) /\ task'[r].cand = task[r].cand
        /\ task'[r].deadline = task[r].deadline
        /\ task'[r].queue = task[r].queue /\ task'[r].bound = task[r].bound
        /\ task'[r].ext = IF Terminal(Effective(r, want, x)) \/ x = None THEN task[r].ext ELSE x
    BY <2>2 DEF TypeOK, TaskRow
  <2>5. ~Terminal(want) => ~Terminal(Effective(r, want, x))
    BY DEF Effective, Terminal
  <2>6. r \in Attempts /\ task[r].bound /\ Active(r) /\ ClaimPermits(task[r].queue, r, o, at)
    BY <1>1 DEF TransitionApplied, RowsPlaced
  <2> QED
    BY <2>1, <2>3, <2>4, <2>5, <2>6 DEF Takes
<1>2. CASE UNCHANGED task
  BY <1>2
<1> QED
  BY <1>1, <1>2 DEF Transition, TransitionFenced, TransitionReconciled, TransitionRefused, rows

\* A transition keeps the work of the rows when the transfer it names is of the right
\* candidate.
LEMMA TransitionWork ==
    ASSUME TypeOK, RowsPlaced, NEW r \in TaskIds, NEW want \in TaskStatus \ {"none"},
           NEW x \in Attempts \cup {None}, NEW o, NEW at,
           Transition(r, want, x, o, at),
           x # None => OfCandidate(x, r)
    PROVE  Work
<1> SUFFICES ASSUME NEW s \in TaskIds, task'[s] # task[s]
             PROVE  task[s].status # "none" /\ KeepsWork(s)
  BY DEF Work
<1>0. s = r /\ Takes(r, want, x, o, at)
  BY TransitionWrites
<1>1. /\ s = r /\ r \in Attempts /\ task'[r].status = Effective(r, want, x)
      /\ Effective(r, want, x) # "none"
      /\ task'[r].cand = task[r].cand /\ task'[r].deadline = task[r].deadline
      /\ task'[r].ext = task[r].ext \/ (x # None /\ task'[r].ext = x)
      /\ x # None /\ ~Terminal(want) => task'[r].ext = x
  BY <1>0 DEF Takes
<1>2. task'[r].ext = task[r].ext \/ OfCandidate(task'[r].ext, r)
  BY <1>1
<1>3. task'[r].status = "started_waiting" => task'[r].ext # None
  <2> HAVE task'[r].status = "started_waiting"
  <2>1. want = "started_waiting" /\ (x # None \/ task[r].ext # None)
    BY <1>1 DEF Effective
  <2> QED
    BY <1>1, <2>1 DEF Terminal
<1> QED
  BY <1>0, <1>1, <1>2, <1>3 DEF KeepsWork, Takes, Active

\* A waiting record keeps the work of the row that it overwrites.
LEMMA OverwriteWork ==
    ASSUME TypeOK, RowsPlaced, MarksTransfer, CarriesCandidate, NEW a \in Attempts, att[a].pc = "record",
           NEW r \in SameWork(a),
           NEW st \in TaskStatus \ {"none", "waiting_for_slot", "enqueue_response_ambiguous"},
           task' = Recorded(a, r, st)
    PROVE  Work
<1> SUFFICES ASSUME NEW s \in TaskIds, task'[s] # task[s]
             PROVE  task[s].status # "none" /\ KeepsWork(s)
  BY DEF Work
<1>1. s = r
  BY DEF Recorded, TypeOK
<1>2. /\ task'[r].status = st /\ task'[r].cand = Candidate(a) /\ task'[r].ext = att[a].ext
      /\ task'[r].deadline = task[r].deadline
  BY <1>1 DEF Recorded, TypeOK
<1>3. task[r].cand = Candidate(a) /\ task[r].status # "none" /\ att[a].ext # None
  BY DEF SameWork, MarksTransfer, RowsPlaced
<1>4. OfCandidate(att[a].ext, r)
  BY <1>3 DEF CarriesCandidate, OfCandidate, TypeOK, AttemptState
<1> QED
  BY <1>1, <1>2, <1>3, <1>4 DEF KeepsWork

\* A handoff step keeps the work of every row, or inserts an episode.
LEMMA HandoffWork ==
    ASSUME Base, Transfers, NEW a \in Attempts, Handoff(a)
    PROVE  Work \/ InsertsEpisode(a)
<1> USE DEF Base, Transfers
<1>0. /\ att[a].out \in TaskStatus /\ att[a].ext \in Attempts \cup {None}
      /\ NoDb => UNCHANGED task
  BY DEF TypeOK, AttemptState, NoDb, rows
<1>1. CASE NoDb \/ MarkQueue(a)
  BY <1>0, <1>1, SameWorkKept DEF MarkQueue
<1>2. ASSUME NEW r \in TaskIds, MatchApplies(a, r) PROVE Work
  <2>1. /\ Transition(r, "started_waiting", att[a].ext, None, now)
        /\ att[a].pc \in Holding /\ Candidate(a) = task[r].cand
    BY <1>2 DEF MatchApplies, Transition, Matching
  <2>2. att[a].ext # None => OfCandidate(att[a].ext, r)
    BY <1>0, <2>1 DEF CarriesCandidate, OfCandidate
  <2> QED
    BY <1>0, <2>1, <2>2, TransitionWork
<1>3. CASE Finish(a)
  <2>1. /\ att[a].rsv \in TaskIds /\ att[a].out # "none" /\ att[a].pc \in Holding
        /\ Candidate(a) = task[att[a].rsv].cand
        /\ Transition(att[a].rsv, att[a].out, att[a].ext, a, now)
    BY <1>3 DEF Finish, HoldsRow, Candidate
  <2>2. att[a].ext # None => OfCandidate(att[a].ext, att[a].rsv)
    BY <1>0, <2>1 DEF CarriesCandidate, OfCandidate
  <2> QED
    BY <1>0, <2>1, <2>2, TransitionWork
<1>4. CASE RecordWaiting(a)
  <2>0. att[a].pc = "record"
    BY <1>4 DEF RecordWaiting
  <2>1. CASE removed
    BY <1>4, <2>1, SameWorkKept DEF RecordWaiting
  <2>2. CASE ~removed /\ ~queue[att[a].queue].active
    <3>1. PICK r \in FirstRows(a) :
             task' = Recorded(a, r, IF queue[att[a].queue].state = "verified"
                                    THEN "queue_verified" ELSE "queue_inactive")
      BY <1>4, <2>2 DEF RecordWaiting
    <3> QED
      BY <2>0, <3>1, OverwriteWork DEF FirstRows
  <2>3. CASE ~removed /\ queue[att[a].queue].active /\ Overwritten(a) # {}
    <3>1. PICK r \in Overwritten(a) : task' = Recorded(a, r, "started_waiting")
      BY <1>4, <2>3 DEF RecordWaiting
    <3> QED
      BY <2>0, <3>1, OverwriteWork DEF Overwritten
  <2>4. CASE ~removed /\ queue[att[a].queue].active /\ Overwritten(a) = {}
    <3>1. task' = Recorded(a, EpisodeOf[a], "started_waiting")
      BY <1>4, <2>4 DEF RecordWaiting
    <3>2. att' = [att EXCEPT ![a].pc = "finish"]
      BY <1>4 DEF RecordWaiting, Goto, TypeOK, AttemptState
    <3> QED
      BY <2>0, <3>1, <3>2 DEF InsertsEpisode
  <2> QED
    BY <2>1, <2>2, <2>3, <2>4
<1> QED
  BY <1>1, <1>2, <1>3, <1>4
     DEF Handoff, CheckFindsNothing, CheckFinds, CheckRaises, Enqueue, EnqueueAmbiguous,
         EnqueueRaises, ValidateLost, ValidateHeld, MarkSkips, MarkFails, MatchRefused

\* A table in which some rows ended keeps its work.
LEMMA EndedRowsWork ==
    ASSUME TypeOK,
           \A r \in TaskIds :
              \/ task'[r] = task[r]
              \/ /\ task[r].status # "none"
                 /\ \E st \in TaskStatus \ (ActiveStatus \cup {"none"}) :
                       task'[r] = [task[r] EXCEPT !.status = st]
    PROVE  Work
BY EndedWork DEF Work

\* The steps of the other actors end rows at most.
LEMMA OthersWork ==
    ASSUME Base, Others
    PROVE  Work
<1> USE DEF Base
<1>1. CASE UNCHANGED task
  BY <1>1, SameWorkKept
<1>2. ASSUME NEW S, task' = CleanedTasks(S) PROVE Work
  BY <1>2, EndedRowsWork DEF CleanedTasks, CleanedStatus
<1>3. ASSUME NEW q \in Queues, CancelQueueItem(q) PROVE Work
  BY <1>3, EndedRowsWork DEF CancelQueueItem, Active
<1>4. ASSUME NEW r \in TaskIds, CleanupStaleTask(r) PROVE Work
  <2>1. \A s \in TaskIds :
          \/ task'[s] = task[s]
          \/ /\ task[s].status # "none"
             /\ task'[s] = [task[s] EXCEPT !.status = "transfer_stale_unknown"]
    BY <1>4 DEF CleanupStaleTask, TypeOK
  <2> QED
    BY <2>1, EndedRowsWork
<1>5. CASE ReconcileReservations
  BY <1>5, EndedRowsWork DEF ReconcileReservations, Overdue
<1> QED
  BY <1>1, <1>2, <1>3, <1>4, <1>5
     DEF Others, ClaimQueueItem, WorkerStarts, WorkerReleases, WorkerCrashes, XferEnds,
         AltEnds, RecordImport, MarkQueueVerified, RetireRemovedSeries,
         CleanupExpiredClaims, CleanupInactiveTasks, Tick, rows

\* Every step keeps the work of the rows, creates a reservation or inserts an episode.
LEMMA StepWork ==
    ASSUME Base, Transfers, [Next]_vars
    PROVE  \/ Work
           \/ \E a \in Attempts, q \in Queues, c \in Cands : NewReservation(a, q, c)
           \/ \E a \in Attempts : InsertsEpisode(a)
<1>1. ASSUME NEW a \in Attempts, NEW r \in Attempts, ReserveReuses(a, r) PROVE Work
  BY <1>1, SameWorkKept DEF ReserveReuses, rows
<1>2. ASSUME NEW r \in Attempts, ReserveExpires(r) PROVE Work
  <2>1. \A s \in TaskIds :
          \/ task'[s] = task[s]
          \/ /\ task[s].status # "none"
             /\ task'[s] = [task[s] EXCEPT !.status = "slot_request_expired"]
    BY <1>2 DEF ReserveExpires, Base, TypeOK, Active
  <2> QED
    BY <2>1, EndedRowsWork DEF Base
<1>3. ASSUME NEW a \in Attempts, Crash(a) PROVE Work
  BY <1>3, SameWorkKept DEF Crash, NoDb, rows
<1>4. CASE UNCHANGED vars
  BY <1>4, SameWorkKept DEF vars, rows
<1> QED
  BY <1>1, <1>2, <1>3, <1>4, HandoffWork, OthersWork
     DEF Next, ReserveCreates, PersistSlotWait, Others

\* The work of a new reservation and of an inserted episode.
LEMMA NewWork ==
    ASSUME Base, NEW a \in Attempts, NEW q \in Queues, NEW c \in Cands, NewReservation(a, q, c)
    PROVE  /\ task[a].status = "none"
           /\ task'[a].status = "waiting_for_slot" /\ task'[a].cand = c /\ task'[a].ext = None
           /\ task'[a].deadline = now + Ttl
           /\ \A r \in TaskIds \ {a} : task'[r] = task[r]
BY DEF Base, Fresh, TypeOK, NewReservation

\* The further row that a waiting record inserts carries the attempt's transfer.
LEMMA EpisodeWork ==
    ASSUME Base, Transfers, NEW a \in Attempts, InsertsEpisode(a)
    PROVE  LET e == EpisodeOf[a] IN
           /\ e \in TaskIds \ Attempts /\ task[e].status = "none"
           /\ task'[e].status = "started_waiting" /\ task'[e].cand = Candidate(a)
           /\ task'[e].ext = att[a].ext /\ att[a].ext # None /\ att[a].pc \in Holding
           /\ \A r \in TaskIds \ {e} : task'[r] = task[r]
<1> DEFINE e == EpisodeOf[a]
<1>1. e \in TaskIds \ Attempts /\ att[a].pc = "record"
  BY ConstAssumption DEF InsertsEpisode
<1>2. task[e].status = "none" /\ att[a].ext # None
  BY <1>1 DEF Base, Fresh, Transfers, MarksTransfer
<1>3. task' = Recorded(a, e, "started_waiting") /\ task \in [TaskIds -> TaskRow]
  BY DEF InsertsEpisode, Base, TypeOK
<1> QED
  BY <1>1, <1>2, <1>3 DEF Recorded

--------------------------------------------------------------------------------
(* What a step does to what an attempt carries, and to the transfers *)

\* The attempt goes on with its reservation, and with the transfer that it had, found or
\* enqueued.
CarriesOn(b) ==
    /\ att[b].pc \in Holding \ {"finish"} /\ att'[b].rsv = att[b].rsv
    /\ att'[b].pc \in Holding \ {"reserved"}
    /\ \/ att'[b].ext = None \/ att'[b].ext = att[b].ext
       \/ att[b].pc = "reserved" /\ att'[b].ext \in TransfersOf(Candidate(b))
       \/ att[b].pc = "enqueue" /\ att'[b].ext = b
    /\ att'[b].pc \in {"mark", "match", "record"} \/ att'[b].out = "started_waiting"
         => att'[b].ext # None
CarryStep(b) ==
    \/ att'[b] = att[b]
    \/ att'[b].pc = "done"
    \/ CarriesOn(b)
    \/ \E q \in Queues, c \in Cands : ReserveCreates(b, q, c)
    \/ \E r \in Attempts : ReserveReuses(b, r)

\* Goto writes three fields of one attempt.
LEMMA GotoWrites ==
    ASSUME TypeOK, NEW a \in Attempts, NEW pc, NEW out, NEW x, Goto(a, pc, out, x)
    PROVE  /\ att'[a].pc = pc /\ att'[a].out = out /\ att'[a].ext = x
           /\ att'[a].rsv = att[a].rsv /\ att'[a].queue = att[a].queue
           /\ \A b \in Attempts : b # a => att'[b] = att[b]
BY DEF Goto, TypeOK, AttemptState

\* A Goto that carries the attempt on.
GoesOn(a, pc, out, x) ==
    /\ Goto(a, pc, out, x)
    /\ att[a].pc \in Holding \ {"finish"} /\ pc \in Holding \ {"reserved"}
    /\ \/ x = None \/ x = att[a].ext
       \/ att[a].pc = "reserved" /\ x \in TransfersOf(Candidate(a))
       \/ att[a].pc = "enqueue" /\ x = a
    /\ pc \in {"mark", "match", "record"} \/ out = "started_waiting" => x # None

\* An attempt that goes on with its transfer still carries one of its candidate.
LEMMA GoesOnCarries ==
    ASSUME TypeOK, NEW a \in Attempts, NEW pc, NEW out, NEW x, GoesOn(a, pc, out, x),
           NEW b \in Attempts
    PROVE  CarryStep(b)
<1>1. CarriesOn(a) /\ (b # a => att'[b] = att[b])
  BY GotoWrites DEF GoesOn, CarriesOn
<1> QED
  BY <1>1 DEF CarryStep

\* A handoff step carries its own attempt on.
LEMMA HandoffCarries ==
    ASSUME Base, Transfers, NEW a \in Attempts, Handoff(a) \/ Crash(a), NEW b \in Attempts
    PROVE  CarryStep(b)
<1> USE DEF Base, Transfers
<1>1. CASE Finish(a) \/ Crash(a)
  BY <1>1 DEF Finish, Crash, Done, Idle, TypeOK, CarryStep
<1>2. CASE CheckFindsNothing(a) \/ CheckRaises(a)
  <2>1. GoesOn(a, "enqueue", "none", None) \/ GoesOn(a, "finish", "reservation_failed", None)
    BY <1>2 DEF CheckFindsNothing, CheckRaises, GoesOn
  <2> QED
    BY <2>1, GoesOnCarries
<1>3. ASSUME NEW x \in Attempts, CheckFinds(a, x) PROVE CarryStep(b)
  <2>1. GoesOn(a, "finish", "transfer_failed", x) \/ GoesOn(a, "mark", "started_waiting", x)
    BY <1>3, ConstAssumption DEF CheckFinds, GoesOn
  <2> QED
    BY <2>1, GoesOnCarries
<1>4. CASE Enqueue(a) \/ EnqueueAmbiguous(a) \/ EnqueueRaises(a)
  <2>1. \/ GoesOn(a, "validate", "transfer_failed", a)
        \/ GoesOn(a, "validate", "started_waiting", a)
        \/ GoesOn(a, "validate", "enqueue_response_ambiguous", None)
        \/ GoesOn(a, "finish", "transfer_failed", None)
    BY <1>4, ConstAssumption DEF Enqueue, EnqueueAmbiguous, EnqueueRaises, GoesOn
  <2> QED
    BY <2>1, GoesOnCarries
<1>5. CASE ValidateLost(a) \/ ValidateHeld(a)
  <2>1. att[a].pc = "validate"
    BY <1>5 DEF ValidateLost, ValidateHeld
  <2>2. att[a].out = "started_waiting" => att[a].ext # None
    BY <2>1 DEF MarksTransfer
  <2>3. \/ GoesOn(a, "finish", "reservation_failed", None)
        \/ GoesOn(a, "mark", att[a].out, att[a].ext)
        \/ GoesOn(a, "finish", att[a].out, att[a].ext)
    BY <1>5, <2>1, <2>2 DEF ValidateLost, ValidateHeld, GoesOn
  <2> QED
    BY <2>3, GoesOnCarries
<1>6. CASE \/ MarkQueue(a) \/ MarkSkips(a) \/ MarkFails(a) \/ MatchRefused(a)
           \/ RecordWaiting(a) \/ (\E r \in TaskIds : MatchApplies(a, r))
  <2>1. att[a].pc \in {"mark", "match", "record"}
    BY <1>6 DEF MarkQueue, MarkSkips, MarkFails, MatchRefused, RecordWaiting, MatchApplies
  <2>2. att[a].ext # None
    BY <2>1 DEF MarksTransfer
  <2>3. \/ Goto(a, "match", att[a].out, att[a].ext)
        \/ Goto(a, "record", att[a].out, att[a].ext)
        \/ Goto(a, "finish", att[a].out, att[a].ext)
        \/ Goto(a, "finish", "transfer_failed", att[a].ext)
        \/ Goto(a, "finish", "reservation_failed", att[a].ext)
    BY <1>6 DEF MarkQueue, MarkSkips, MarkFails, MatchRefused, RecordWaiting, MatchApplies
  <2>4. \/ GoesOn(a, "match", att[a].out, att[a].ext)
        \/ GoesOn(a, "record", att[a].out, att[a].ext)
        \/ GoesOn(a, "finish", att[a].out, att[a].ext)
        \/ GoesOn(a, "finish", "transfer_failed", att[a].ext)
        \/ GoesOn(a, "finish", "reservation_failed", att[a].ext)
    BY <2>1, <2>2, <2>3 DEF GoesOn
  <2> QED
    BY <2>4, GoesOnCarries
<1> QED
  BY <1>1, <1>2, <1>3, <1>4, <1>5, <1>6 DEF Handoff

\* Every step carries an attempt on, ends it or gives it a reservation.
LEMMA StepCarries ==
    ASSUME Base, Transfers, [Next]_vars, NEW b \in Attempts
    PROVE  CarryStep(b)
<1> USE DEF Base
<1>1. ASSUME NEW a \in Attempts, NEW q \in Queues, NEW c \in Cands, ReserveCreates(a, q, c)
      PROVE  CarryStep(b)
  <2>1. b # a => att'[b] = att[b]
    BY <1>1 DEF ReserveCreates, TypeOK
  <2> QED
    BY <1>1, <2>1 DEF CarryStep
<1>2. ASSUME NEW a \in Attempts, NEW q \in Queues, NEW c \in Cands, PersistSlotWait(a, q, c)
      PROVE  CarryStep(b)
  BY <1>2 DEF PersistSlotWait, CarryStep, Done, Idle, TypeOK
<1>3. ASSUME NEW a \in Attempts, NEW r \in Attempts, ReserveReuses(a, r) PROVE CarryStep(b)
  <2>1. b # a => att'[b] = att[b]
    BY <1>3 DEF ReserveReuses, TypeOK
  <2> QED
    BY <1>3, <2>1 DEF CarryStep
<1>4. CASE UNCHANGED att
  BY <1>4 DEF CarryStep
<1>5. CASE Others
  BY <1>5, <1>4 DEF Others, ClaimQueueItem, WorkerStarts, WorkerReleases, WorkerCrashes,
         XferEnds, AltEnds, RecordImport, MarkQueueVerified, CancelQueueItem, CleanupStaleTask,
         RetireRemovedSeries, CleanupExpiredClaims, CleanupInactiveTasks,
         ReconcileReservations, Tick
<1>6. ASSUME NEW r \in Attempts, ReserveExpires(r) PROVE CarryStep(b)
  BY <1>6, <1>4 DEF ReserveExpires
<1> QED
  BY <1>1, <1>2, <1>3, <1>4, <1>5, <1>6, HandoffCarries DEF Next, Others, vars

\* A transfer stays as it is, is deleted, ends, or is enqueued by its attempt.
XferStep(x) ==
    \/ xfer'[x] = xfer[x]
    \/ xfer'[x] = "none"
    \/ xfer[x] = "running" /\ xfer'[x] \in {"done", "failed"}
    \/ att[x].pc = "enqueue" /\ att'[x].pc \in {"validate", "finish"}

\* A transfer appears only when its own attempt enqueues it.
LEMMA StepXfers ==
    ASSUME Base, [Next]_vars, NEW x \in Attempts
    PROVE  XferStep(x)
<1> USE DEF Base
<1>1. CASE UNCHANGED xfer
  BY <1>1 DEF XferStep
<1>2. ASSUME NEW y, MayDelete(y) PROVE XferStep(x)
  BY <1>2 DEF MayDelete, XferStep, TypeOK
<1>3. ASSUME NEW a \in Attempts, Enqueue(a) \/ EnqueueAmbiguous(a) \/ EnqueueRaises(a)
      PROVE  XferStep(x)
  <2>1. att[a].pc = "enqueue" /\ (x # a => xfer'[x] = xfer[x])
    BY <1>3 DEF Enqueue, EnqueueAmbiguous, EnqueueRaises, TypeOK
  <2>2. att'[a].pc \in {"validate", "finish"}
    BY <1>3, GotoWrites DEF Enqueue, EnqueueAmbiguous, EnqueueRaises
  <2> QED
    BY <2>1, <2>2 DEF XferStep
<1>4. ASSUME NEW a \in Attempts, Handoff(a) PROVE XferStep(x)
  BY <1>4, <1>1, <1>2, <1>3
     DEF Handoff, CheckFindsNothing, CheckFinds, CheckRaises, ValidateLost, ValidateHeld,
         MarkQueue, MarkSkips, MarkFails, MatchApplies, MatchRefused, RecordWaiting, Finish
<1>5. ASSUME NEW y \in Attempts, XferEnds(y) PROVE XferStep(x)
  BY <1>5 DEF XferEnds, XferStep, TypeOK
<1>6. CASE Others
  BY <1>1, <1>5, <1>6
     DEF Others, ClaimQueueItem, WorkerStarts, WorkerReleases, WorkerCrashes, AltEnds,
         RecordImport, MarkQueueVerified, CancelQueueItem, CleanupStaleTask,
         RetireRemovedSeries, CleanupExpiredClaims, CleanupInactiveTasks,
         ReconcileReservations, Tick
<1> QED
  BY <1>1, <1>4, <1>6
     DEF Next, Others, vars, ReserveCreates, PersistSlotWait, NewReservation, ReserveReuses,
         ReserveExpires, Crash

--------------------------------------------------------------------------------
(* The invariant is inductive *)

\* A table that keeps its work keeps what its rows say.
LEMMA WorkKeepsRows ==
    ASSUME TypeOK, FollowsCandidate, RowStatus, Work
    PROVE  FollowsCandidate' /\ RowStatus'
<1>1. ASSUME NEW r \in TaskIds, task'[r].ext # None
      PROVE  /\ task'[r].status # "none" /\ task'[task'[r].ext].status # "none"
             /\ task'[task'[r].ext].cand = task'[r].cand
  <2>1. /\ task'[r].status # "none" /\ task'[r].cand = task[r].cand
        /\ OfCandidate(task'[r].ext, r)
    BY <1>1 DEF Work, KeepsWork, FollowsCandidate, OfCandidate, TypeOK, TaskRow
  <2>2. \A x : task[x].status # "none" /\ x \in TaskIds
                 => task'[x].status # "none" /\ task'[x].cand = task[x].cand
    BY DEF Work, KeepsWork
  <2> QED
    BY <2>1, <2>2 DEF OfCandidate
<1>2. RowStatus'
  BY DEF RowStatus, Work, KeepsWork
<1> QED
  BY <1>1, <1>2 DEF FollowsCandidate

\* A row that exists keeps its candidate and its deadline, whatever the step.
LEMMA KeptRow ==
    ASSUME Base, Transfers, [Next]_vars, NEW r \in TaskIds, task[r].status # "none"
    PROVE  /\ task'[r].status # "none" /\ task'[r].cand = task[r].cand
           /\ task'[r].deadline = task[r].deadline
<1>1. CASE Work
  BY <1>1 DEF Work, KeepsWork
<1>2. ASSUME NEW a \in Attempts, NEW q \in Queues, NEW c \in Cands, NewReservation(a, q, c)
      PROVE  task'[r] = task[r]
  BY <1>2, NewWork
<1>3. ASSUME NEW a \in Attempts, InsertsEpisode(a) PROVE task'[r] = task[r]
  BY <1>3, EpisodeWork
<1> QED
  BY <1>1, <1>2, <1>3, StepWork

\* Every step keeps what the rows say of their transfers.
LEMMA RowsStep ==
    ASSUME Base, Transfers, [Next]_vars
    PROVE  FollowsCandidate' /\ RowStatus'
<1> USE DEF Base, Transfers
<1>1. CASE Work
  BY <1>1, WorkKeepsRows
<1>2. ASSUME NEW a \in Attempts, NEW q \in Queues, NEW c \in Cands, NewReservation(a, q, c)
      PROVE  FollowsCandidate' /\ RowStatus'
  <2>1. /\ task[a].status = "none"
        /\ task'[a].status = "waiting_for_slot" /\ task'[a].ext = None
        /\ \A r \in TaskIds \ {a} : task'[r] = task[r]
    BY <1>2, NewWork
  <2>2. \A r \in TaskIds : task[r].ext \in TaskIds \cup {None}
    BY DEF TypeOK, TaskRow
  <2>3. FollowsCandidate'
    BY <2>1, <2>2 DEF FollowsCandidate
  <2>4. RowStatus'
    BY <2>1 DEF RowStatus
  <2> QED
    BY <2>3, <2>4
<1>3. ASSUME NEW a \in Attempts, InsertsEpisode(a) PROVE FollowsCandidate' /\ RowStatus'
  <2> DEFINE e == EpisodeOf[a]
  <2>1. /\ e \in TaskIds \ Attempts /\ task[e].status = "none"
        /\ task'[e].status = "started_waiting" /\ task'[e].cand = Candidate(a)
        /\ task'[e].ext = att[a].ext /\ att[a].ext # None /\ att[a].pc \in Holding
        /\ \A r \in TaskIds \ {e} : task'[r] = task[r]
    BY <1>3, EpisodeWork
  <2> HIDE DEF e
  <2>2. task[att[a].ext].status # "none" /\ task[att[a].ext].cand = Candidate(a)
    BY <2>1 DEF CarriesCandidate
  <2>3. att[a].ext \in TaskIds /\ \A r \in TaskIds : task[r].ext \in TaskIds \cup {None}
    BY <2>1 DEF TypeOK, TaskRow, AttemptState
  <2>4. FollowsCandidate'
    BY <2>1, <2>2, <2>3 DEF FollowsCandidate
  <2>5. RowStatus'
    BY <2>1 DEF RowStatus
  <2> QED
    BY <2>4, <2>5
<1> QED
  BY <1>1, <1>2, <1>3, StepWork

\* What a new reservation and a reuse give to the attempt.
LEMMA Granted ==
    ASSUME Base, NEW a \in Attempts
    PROVE  /\ \A q \in Queues, c \in Cands : ReserveCreates(a, q, c) =>
                /\ att[a].pc = "idle" /\ att'[a].pc = "reserved" /\ att'[a].rsv = a
                /\ att'[a].out = "none" /\ att'[a].ext = None
           /\ \A r \in Attempts : ReserveReuses(a, r) =>
                /\ att[a].pc = "idle" /\ att'[a].pc = "finish" /\ att'[a].rsv = r
                /\ att'[a].ext = task[r].ext
                /\ att'[a].out = IF task[r].status = "import_ready" THEN "reservation_failed"
                                 ELSE task[r].status
                /\ UNCHANGED task
BY DEF Base, TypeOK, ReserveCreates, NewReservation, ReserveReuses, rows

\* Every step keeps what the attempts carry.
LEMMA CarriesStep ==
    ASSUME Base, Transfers, [Next]_vars
    PROVE  CarriesCandidate' /\ MarksTransfer' /\ OwnReservation'
<1> USE DEF Base, Transfers
<1> SUFFICES ASSUME NEW a \in Attempts, att'[a].pc \in Holding
    PROVE  /\ att'[a].ext # None => /\ task'[att'[a].ext].status # "none"
                                    /\ task'[att'[a].ext].cand = task'[att'[a].rsv].cand
           /\ att'[a].pc \in {"mark", "match", "record"} \/ att'[a].out = "started_waiting"
                => att'[a].ext # None
           /\ att'[a].pc # "finish" => att'[a].rsv = a
  BY DEF CarriesCandidate, MarksTransfer, OwnReservation, Candidate
<1>0. /\ att[a].ext \in TaskIds \cup {None} /\ att[a].rsv \in Attempts \cup {None}
      /\ att[a].pc \in Holding => att[a].rsv \in Attempts /\ task[att[a].rsv].status # "none"
  BY DEF TypeOK, AttemptState, HoldsRow
<1>1. CASE att'[a] = att[a] \/ CarriesOn(a)
  <2>1. att[a].pc \in Holding /\ att'[a].rsv = att[a].rsv
    BY <1>1 DEF CarriesOn
  <2>2. task'[att[a].rsv].cand = task[att[a].rsv].cand
    BY <1>0, <2>1, KeptRow
  <2>3. ASSUME att'[a].ext # None
        PROVE  /\ att'[a].ext \in TaskIds /\ task[att'[a].ext].status # "none"
               /\ task[att'[a].ext].cand = task[att[a].rsv].cand
    <3>1. CASE att'[a].ext = att[a].ext
      BY <1>0, <2>1, <2>3, <3>1 DEF CarriesCandidate, Candidate
    <3>2. CASE att[a].pc = "reserved" /\ att'[a].ext \in TransfersOf(Candidate(a))
      BY <3>2 DEF TransfersOf, TransferPlaced, Candidate
    <3>3. CASE att[a].pc = "enqueue" /\ att'[a].ext = a
      BY <1>0, <2>1, <3>3 DEF OwnReservation
    <3> QED
      BY <1>1, <2>3, <3>1, <3>2, <3>3 DEF CarriesOn
  <2>4. att'[a].ext # None => /\ task'[att'[a].ext].status # "none"
                              /\ task'[att'[a].ext].cand = task[att'[a].ext].cand
    BY <2>3, KeptRow
  <2>5. att'[a].pc \in {"mark", "match", "record"} \/ att'[a].out = "started_waiting"
           => att'[a].ext # None
    BY <1>1, <2>1 DEF CarriesOn, MarksTransfer
  <2>6. att'[a].pc # "finish" => att'[a].rsv = a
    BY <1>1, <2>1 DEF CarriesOn, OwnReservation
  <2> QED
    BY <2>1, <2>2, <2>3, <2>4, <2>5, <2>6
<1>2. ASSUME NEW q \in Queues, NEW c \in Cands, ReserveCreates(a, q, c)
      PROVE  att'[a].ext = None /\ att'[a].rsv = a /\ att'[a].pc = "reserved" /\ att'[a].out = "none"
  BY <1>2, Granted
<1>3. ASSUME NEW r \in Attempts, ReserveReuses(a, r)
      PROVE  /\ att'[a].ext # None => /\ task'[att'[a].ext].status # "none"
                                      /\ task'[att'[a].ext].cand = task'[att'[a].rsv].cand
             /\ att'[a].out = "started_waiting" => att'[a].ext # None
             /\ att'[a].pc = "finish"
  <2>1. /\ att'[a].pc = "finish" /\ att'[a].rsv = r /\ att'[a].ext = task[r].ext
        /\ att'[a].out = "started_waiting" => task[r].status = "started_waiting"
        /\ UNCHANGED task
    BY <1>3, Granted
  <2> QED
    BY <2>1 DEF FollowsCandidate, RowStatus
<1> QED
  BY <1>1, <1>2, <1>3, StepCarries DEF CarryStep

\* Every step keeps the transfers with the rows of their attempts.
LEMMA TransferPlacedStep ==
    ASSUME Base, Transfers, [Next]_vars
    PROVE  TransferPlaced'
<1> USE DEF Base, Transfers
<1> SUFFICES ASSUME NEW x \in Attempts
             PROVE  /\ xfer'[x] # "none" => task'[x].status # "none"
                    /\ att'[x].pc \in {"idle", "reserved", "enqueue"} => xfer'[x] = "none"
  BY DEF TransferPlaced
<1>1. att'[x].pc \in {"idle", "reserved", "enqueue"} => att[x].pc \in {"idle", "reserved", "enqueue"}
  BY StepAtts, Granted DEF AttStep, Moves
<1>2. XferStep(x)
  BY StepXfers
<1>3. CASE xfer[x] = "none"
  <2>1. CASE att[x].pc = "enqueue" /\ att'[x].pc \in {"validate", "finish"}
    <3>1. task[x].status # "none"
      BY <2>1 DEF OwnReservation, HoldsRow
    <3> QED
      BY <2>1, <3>1, KeptRow
  <2> QED
    BY <1>1, <1>2, <1>3, <2>1 DEF XferStep
<1>4. CASE xfer[x] # "none"
  <2>1. task'[x].status # "none"
    BY <1>4, KeptRow DEF TransferPlaced
  <2> QED
    BY <1>1, <1>4, <2>1 DEF TransferPlaced
<1> QED
  BY <1>3, <1>4

\* Every step keeps what is known of the transfers.
LEMMA TransfersStep == ASSUME Base, Transfers, [Next]_vars PROVE Transfers'
BY RowsStep, CarriesStep, TransferPlacedStep DEF Transfers

\* No step makes a second reserved row of a candidate active.
LEMMA OneReservedPerCandidateStep ==
    ASSUME TInv, [Next]_vars
    PROVE  OneReservedPerCandidate'
<1> USE DEF TInv, IInv
<1> DEFINE A(r) == task'[r].status \in ActiveStatus
<1> SUFFICES ASSUME NEW r \in Attempts, NEW s \in Attempts, A(r), A(s), task'[r].cand = task'[s].cand
             PROVE  r = s
  BY DEF OneReservedPerCandidate, Active
<1>1. ASSUME NEW t \in Attempts, task[t].status # "none", A(t)
      PROVE  Active(t) /\ task'[t].cand = task[t].cand
  BY <1>1, ExistingRow, KeptRow DEF Active
<1>2. CASE task[r].status # "none" /\ task[s].status # "none"
  BY <1>1, <1>2 DEF OneReservedPerCandidate
<1>3. ASSUME NEW t \in Attempts, task[t].status = "none", A(t)
      PROVE  \A u \in Attempts : u # t => ~(A(u) /\ task'[u].cand = task'[t].cand)
  <2>1. PICK a \in Attempts, q \in Queues, c \in Cands : NewReservation(a, q, c) /\ a = t
    <3>1. ~Work
      BY <1>3 DEF Work, Active
    <3>2. ASSUME NEW a \in Attempts, NEW q \in Queues, NEW c \in Cands, NewReservation(a, q, c)
          PROVE  a = t
      BY <1>3, <3>2, NewWork
    <3>3. ASSUME NEW a \in Attempts, InsertsEpisode(a) PROVE FALSE
      BY <1>3, <3>3, EpisodeWork
    <3> QED
      BY <3>1, <3>2, <3>3, StepWork
  <2>2. task'[t].cand = c /\ \A u \in Attempts \ {t} : task'[u] = task[u]
    BY <2>1, NewWork
  <2>3. \A u \in Attempts : Active(u) => task[u].cand # c
    BY <2>1, ActivePlaced DEF NewReservation, Deciding
  <2> QED
    BY <2>2, <2>3 DEF Active
<1> QED
  BY <1>2, <1>3

\* The empty tables satisfy the invariant.
THEOREM InitTInv == Init => TInv
<1> SUFFICES ASSUME Init PROVE TInv
  OBVIOUS
<1>1. FollowsCandidate /\ RowStatus /\ OneReservedPerCandidate
  BY ConstAssumption DEF Init, NoTask, FollowsCandidate, RowStatus, OneReservedPerCandidate, Active
<1>2. CarriesCandidate /\ MarksTransfer /\ OwnReservation /\ TransferPlaced
  BY DEF Init, Idle, CarriesCandidate, MarksTransfer, OwnReservation, TransferPlaced
<1> QED
  BY <1>1, <1>2, InitIInv DEF TInv, Transfers

\* Every step keeps the invariant.
THEOREM StepTInv == TInv /\ [Next]_vars => TInv'
BY StepIInv, TransfersStep, OneReservedPerCandidateStep DEF TInv, IInv

--------------------------------------------------------------------------------
(* The theorems *)

\* In every reachable state rows, attempts and transfers agree on their candidates, and
\* a candidate has one active reserved row.
THEOREM TransferInvariance == Spec => []TInv
BY InitTInv, StepTInv, PTL DEF Spec

\* A task counts as downloading only with a transfer, and one that was enqueued for its
\* own candidate, however the transfer was found, adopted or recorded.
THEOREM StartedFollows == Spec => []StartedFollowsCandidate
<1>1. TInv => StartedFollowsCandidate
  BY DEF TInv, Transfers, FollowsCandidate, RowStatus, StartedFollowsCandidate
<1> QED
  BY <1>1, TransferInvariance, PTL

\* No two active reservations follow the same physical transfer, also when a retry
\* adopts the transfer of an earlier attempt.
THEOREM TransfersNotShared == Spec => []NoSharedTransfer
<1>1. TInv => NoSharedTransfer
  BY DEF TInv, Transfers, FollowsCandidate, OneReservedPerCandidate, NoSharedTransfer
<1> QED
  BY <1>1, TransferInvariance, PTL

--------------------------------------------------------------------------------
(* Who reopens a closed queue row *)

\* No closed queue row opens.
NoneOpens == \A q \in Queues : ~queue[q].active => ~queue'[q].active

\* A transition projects its task on open rows only.
LEMMA TransitionOpensNone ==
    ASSUME TypeOK, NEW r, NEW want, NEW x, NEW o, NEW at, Transition(r, want, x, o, at)
    PROVE  NoneOpens
<1>1. ASSUME NEW q, NEW st, ProjectUnlessPreserved(q, r, st), ~Terminal(st) => ~Fenced(q)
      PROVE  NoneOpens
  <2>1. CASE UNCHANGED queue
    BY <2>1 DEF NoneOpens
  <2>2. ASSUME NEW sib, Project(q, r, st, sib), ~Fenced(q) PROVE NoneOpens
    <3>1. \A p \in Queues : p # q => queue'[p] = queue[p]
      BY <2>2 DEF Project, TypeOK
    <3>2. queue[q].active
      BY <2>2 DEF Fenced, Retryable
    <3> QED
      BY <3>1, <3>2 DEF NoneOpens
  <2> QED
    BY <1>1, <2>1, <2>2 DEF ProjectUnlessPreserved, Preserved
<1>2. CASE UNCHANGED queue
  BY <1>2 DEF NoneOpens
<1>3. CASE TransitionReconciled(r, want, o)
  BY <1>1, <1>3 DEF TransitionReconciled
<1>4. CASE TransitionApplied(r, want, x, o, at)
  <2>1. Terminal(Effective(r, want, x)) <=> Terminal(want)
    BY DEF Effective, Terminal
  <2> QED
    BY <1>1, <1>4, <2>1 DEF TransitionApplied
<1> QED
  BY <1>2, <1>3, <1>4 DEF Transition, TransitionFenced, TransitionRefused, rows

\* The queue rows that the step opens are those of the waits that it ends.
OpensWaits ==
    \A q \in Queues : (~queue[q].active /\ queue'[q].active)
        => \E r \in Attempts : /\ task[r].queue = q /\ task[r].status = "waiting_for_slot"
                               /\ task'[r].status = "reservation_expired"
\* The queue row that the step opens is the one of the attempt that shows a download.
OpensOwn(a) ==
    \A q \in Queues : (~queue[q].active /\ queue'[q].active)
        => /\ ~removed /\ att[a].queue = q /\ att[a].pc \in {"mark", "record"}
           /\ att'[a].pc # att[a].pc

\* Showing a download opens the attempt's own row, unless the series was removed.
LEMMA ShowOpens ==
    ASSUME TypeOK, NEW a \in Attempts, att[a].pc \in {"mark", "record"}, att'[a].pc # att[a].pc,
           ShowDownloadingUnlessRemoved(att[a].queue)
    PROVE  OpensOwn(a)
<1>1. CASE removed
  <2>1. queue \in [Queues -> QueueRow] /\ queue' = RetiredQueue
    BY <1>1 DEF ShowDownloadingUnlessRemoved, TypeOK
  <2>2. \A q \in Queues : queue'[q].active => queue[q].active
    BY <2>1 DEF RetiredQueue, QueueRow
  <2> QED
    BY <2>2 DEF OpensOwn
<1>2. CASE ~removed
  <2>1. \A q \in Queues : q # att[a].queue => queue'[q] = queue[q]
    BY <1>2 DEF ShowDownloadingUnlessRemoved, ShowDownloading, TypeOK
  <2> QED
    BY <1>2, <2>1 DEF OpensOwn
<1> QED
  BY <1>1, <1>2

\* The expiry sweep opens the rows of the waits that it ends.
LEMMA SweepOpens ==
    ASSUME TypeOK, RowStatus, ReconcileReservations
    PROVE  OpensWaits
<1> SUFFICES ASSUME NEW q \in Queues, ~queue[q].active, queue'[q].active
             PROVE  \E r \in Attempts : /\ task[r].queue = q
                                        /\ task[r].status = "waiting_for_slot"
                                        /\ task'[r].status = "reservation_expired"
  BY DEF OpensWaits
<1>1. PICK r \in Overdue : task[r].queue = q
  BY DEF ReconcileReservations, TypeOK
<1>2. r \in TaskIds /\ task[r].status = "waiting_for_slot"
  BY <1>1 DEF Overdue
<1>3. task'[r].status = "reservation_expired"
  BY <1>1, <1>2 DEF ReconcileReservations, TypeOK, TaskRow
<1>4. r \in Attempts
  BY <1>2 DEF RowStatus
<1> QED
  BY <1>1, <1>2, <1>3, <1>4

\* No step of the handoff but the waiting record opens a row.
LEMMA HandoffOpens ==
    ASSUME Base, NEW a \in Attempts, Handoff(a)
    PROVE  NoneOpens \/ OpensOwn(a)
<1> USE DEF Base
<1>1. CASE UNCHANGED queue
  BY <1>1 DEF NoneOpens
<1>2. CASE MarkQueue(a) \/ RecordWaiting(a)
  <2>1. /\ att[a].pc \in {"mark", "record"}
        /\ ShowDownloadingUnlessRemoved(att[a].queue)
        /\ \/ Goto(a, "match", att[a].out, att[a].ext)
           \/ Goto(a, "finish", att[a].out, att[a].ext)
    BY <1>2 DEF MarkQueue, RecordWaiting
  <2>2. att'[a].pc # att[a].pc
    BY <2>1, GotoWrites
  <2> QED
    BY <2>1, <2>2, ShowOpens
<1>3. ASSUME NEW r \in TaskIds, MatchApplies(a, r) PROVE NoneOpens
  <2>1. Transition(r, "started_waiting", att[a].ext, None, now)
    BY <1>3 DEF MatchApplies, Transition
  <2> QED
    BY <2>1, TransitionOpensNone
<1>4. CASE Finish(a)
  BY <1>4, TransitionOpensNone DEF Finish
<1> QED
  BY <1>1, <1>2, <1>3, <1>4
     DEF Handoff, CheckFindsNothing, CheckFinds, CheckRaises, Enqueue, EnqueueAmbiguous,
         EnqueueRaises, ValidateLost, ValidateHeld, MarkSkips, MarkFails, MatchRefused, NoDb, rows

\* Every step that opens a row is the end of a wait or a waiting record.
LEMMA StepOpens ==
    ASSUME Base, RowStatus, [Next]_vars
    PROVE  NoneOpens \/ OpensWaits \/ \E a \in Attempts : OpensOwn(a)
<1> USE DEF Base
<1>1. CASE UNCHANGED queue
  BY <1>1 DEF NoneOpens
<1>2. ASSUME NEW q, NEW r, NEW st, NEW sib, Project(q, r, st, sib), queue[q].active
      PROVE  NoneOpens
  <2>1. \A p \in Queues : p # q => queue'[p] = queue[p]
    BY <1>2 DEF Project, TypeOK
  <2> QED
    BY <1>2, <2>1 DEF NoneOpens
<1>3. ASSUME NEW a \in Attempts, NEW q \in Queues, NEW c \in Cands, NewReservation(a, q, c)
      PROVE  NoneOpens
  BY <1>2, <1>3 DEF NewReservation, Reservable, Retryable
<1>4. ASSUME NEW r \in Attempts, ReserveExpires(r) PROVE NoneOpens
  BY <1>2, <1>4 DEF ReserveExpires, Reservable, Retryable
<1>5. ASSUME NEW q \in Queues, MarkQueueVerified(q) \/ CancelQueueItem(q) PROVE NoneOpens
  <2>1. \A p \in Queues : p # q => queue'[p] = queue[p]
    BY <1>5 DEF MarkQueueVerified, CancelQueueItem, TypeOK
  <2>2. ~queue'[q].active
    BY <1>5 DEF MarkQueueVerified, CancelQueueItem, TypeOK, QueueRow
  <2> QED
    BY <2>1, <2>2 DEF NoneOpens
<1>6. CASE RetireRemovedSeries
  BY <1>6 DEF RetireRemovedSeries, RetiredQueue, NoneOpens, TypeOK, QueueRow
<1>7. ASSUME NEW w \in Workers, WorkerStarts(w) PROVE NoneOpens
  <2>1. \A p \in Queues : queue'[p].active = queue[p].active
    BY <1>7 DEF WorkerStarts, TypeOK, QueueRow
  <2> QED
    BY <2>1 DEF NoneOpens
<1>8. CASE Others
  BY <1>8, <1>1, <1>5, <1>6, <1>7, SweepOpens
     DEF Others, ClaimQueueItem, WorkerReleases, WorkerCrashes, XferEnds, AltEnds,
         RecordImport, CleanupStaleTask, CleanupExpiredClaims, CleanupInactiveTasks, Tick, rows
<1> QED
  BY <1>1, <1>3, <1>4, <1>8, HandoffOpens
     DEF Next, Others, ReserveCreates, PersistSlotWait, ReserveReuses, Crash, NoDb, vars, rows

\* A queue row that was closed is opened by nothing but the expiry of a wait that its
\* closing left behind, or the waiting record of an attempt under way; and not by that
\* when the series was removed.
THEOREM LateWriters == Spec => OnlyLateWritersReopen
<1>1. TInv /\ [Next]_vars
        => [\A q \in Queues :
              (~queue[q].active /\ queue'[q].active)
                 => \/ \E r \in Attempts : /\ task[r].queue = q
                                           /\ task[r].status = "waiting_for_slot"
                                           /\ task'[r].status = "reservation_expired"
                    \/ ~removed /\ \E a \in Attempts : /\ att[a].queue = q
                                                        /\ att[a].pc \in {"mark", "record"}
                                                        /\ att'[a].pc # att[a].pc]_vars
  BY StepOpens DEF TInv, IInv, Transfers, NoneOpens, OpensWaits, OpensOwn
<1> QED
  BY <1>1, TransferInvariance, PTL DEF Spec, OnlyLateWritersReopen

=============================================================================
