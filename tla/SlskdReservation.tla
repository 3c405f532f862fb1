--------------------------- MODULE SlskdReservation ---------------------------
(***************************************************************************)
(* The SLSKD candidate reservation protocol of InkDrop: how a handoff      *)
(* worker binds an accepted Soulseek candidate to one durable download     *)
(* task, holds the queue row while it enqueues the transfer, and moves the *)
(* task on when the transfer starts, fails or never appears; and the       *)
(* queue_claims table it shares with the source workers.                   *)
(*                                                                         *)
(* Every database function of the protocol runs in one BEGIN IMMEDIATE     *)
(* transaction and is one action.  What interleaves is everything between  *)
(* two transactions: calls to slskd, the clock, other workers, the user,   *)
(* the importer, the maintenance sweeps and crashes.                       *)
(*                                                                         *)
(* An attempt is one pass of the handoff loop over one candidate.  It runs *)
(* once and its claim owner id is fresh (a uuid), so the attempt itself    *)
(* serves as the owner id, as the id of the reservation and of the task it *)
(* creates, and as the id of the transfer that it enqueues.  A second task *)
(* row, EpisodeOf of the attempt, exists when its waiting record finds the *)
(* reserved row ended.                                                     *)
(***************************************************************************)
EXTENDS Integers, FiniteSets

CONSTANTS
    Attempts,     \* handoff attempts (also reservation, task and transfer ids)
    Episodes,     \* further task rows, inserted by waiting records
    EpisodeOf,    \* the further row of an attempt
    Workers,      \* source workers that claim queue rows for other providers
    Queues,       \* rows of queue_items
    Issues,       \* issues (and their wanted_items rows)
    Units,        \* exact units: series identity, unit type and number
    Cands,        \* accepted candidates (peer, file)
    IssueOf,      \* the issue of a queue row
    UnitOf,       \* the exact unit of an issue
    None,
    Lease,        \* lease of a handoff claim (120s)
    WorkerLease,  \* lease of a source worker's claim (900s)
    Ttl,          \* time to the reservation deadline (900s)
    MaxTime       \* bound on the clock

ASSUME ConstAssumption ==
    /\ IssueOf \in [Queues -> Issues]
    /\ UnitOf \in [Issues -> Units]
    /\ None \notin Attempts \cup Episodes \cup Workers \cup Queues \cup Cands
    /\ Attempts \cap Workers = {} /\ Attempts \cap Episodes = {}
    /\ EpisodeOf \in [Attempts -> Episodes]
    /\ \A a, b \in Attempts : EpisodeOf[a] = EpisodeOf[b] => a = b
    /\ Lease \in Nat \ {0} /\ WorkerLease \in Nat \ {0}
    /\ Ttl \in Nat \ {0} /\ MaxTime \in Nat
    /\ Lease < Ttl

VARIABLES
    now,     \* time.time()
    queue,   \* queue_items: state, active, and the retired task whose sibling it mirrors
    wanted,  \* wanted_items.status of an issue
    removed, \* the user removed the series
    proof,   \* an import result of the issue is authoritative
    task,    \* the SLSKD rows of download_tasks
    alt,     \* the download task that another provider started for a queue row
    claims,  \* queue_claims, by queue row
    xfer,    \* slskd: the physical transfer enqueued by an attempt
    att,     \* local state of a handoff attempt
    wk       \* local state of a source worker

rows == <<queue, wanted, task>>
vars == <<now, rows, removed, proof, alt, claims, xfer, att, wk>>

--------------------------------------------------------------------------------
(* Vocabulary.  Statuses that every guard treats alike are one value:      *)
(* "started_waiting" stands for every downloading status, "transfer_failed"*)
(* for every failure the provider reported, "import_ready" for a finished  *)
(* transfer handed to the importer.                                        *)

\* download_task_is_activeish
ActiveStatus == {"waiting_for_slot", "enqueue_response_ambiguous",
                 "started_waiting", "import_ready"}
\* SLSKD_RESERVATION_TERMINAL_STATUSES
TerminalStatus == {"transfer_failed", "reservation_failed", "reservation_expired",
                   "slot_request_expired", "transfer_stale_unknown"}
\* The statuses the two queue cleanups select.
CleanedStatus == {"started_waiting", "import_ready"}
TaskStatus == ActiveStatus \cup TerminalStatus \cup
              {"none", "queue_verified", "queue_inactive",
               "cancelled_by_user", "superseded_duplicate_owner"}
QueueState == {"queued", "downloading", "import_ready", "importing",
               "verified", "cancelled", "stale_source_absent"}
WantedStatus == {"wanted", "downloading", "in_progress", "satisfied", "inactive"}
XferState == {"none", "running", "done", "failed"}
AltState == {"none", "downloading", "verified", "ended"}
Holding == {"reserved", "enqueue", "validate", "mark", "match", "record", "finish"}
Pc == Holding \cup {"idle", "done"}

NoTask == [status |-> "none", queue |-> None, cand |-> None, ext |-> None,
           deadline |-> 0, bound |-> FALSE]
NoClaim == [owner |-> None, exp |-> 0, rsv |-> None]
Idle == [pc |-> "idle", queue |-> None, rsv |-> None, until |-> 0,
         out |-> "none", ext |-> None]
Done == [Idle EXCEPT !.pc = "done"]
IdleWorker == [queue |-> None, until |-> 0, dead |-> FALSE]

TaskIds == Attempts \cup Episodes
Active(r) == task[r].status \in ActiveStatus
\* slskd_verified_completion_task
Verified(r) == task[r].status = "queue_verified"
Unit(q) == UnitOf[IssueOf[q]]
Terminal(st) == st \in TerminalStatus

\* The rows that reserve, validate, claim and the inventory pass still work on.
Retryable(q) == queue[q].active /\ queue[q].state # "verified"
\* The rows that a transition leaves alone.
Fenced(q) == ~Retryable(q) \/ queue[q].state = "importing"

Init ==
    /\ now = 0
    /\ queue = [q \in Queues |-> [state |-> "queued", active |-> TRUE, mirror |-> None]]
    /\ wanted = [i \in Issues |-> "wanted"]
    /\ removed = FALSE
    /\ proof = [i \in Issues |-> FALSE]
    /\ task = [r \in TaskIds |-> NoTask]
    /\ alt = [q \in Queues |-> "none"]
    /\ claims = [q \in Queues |-> NoClaim]
    /\ xfer = [x \in Attempts |-> "none"]
    /\ att = [a \in Attempts |-> Idle]
    /\ wk = [w \in Workers |-> IdleWorker]

--------------------------------------------------------------------------------
(* queue_claims *)

\* The upsert of _claim_queue_item_con succeeds: no row, an expired row, an own row.
CanClaim(q, o) == claims[q].owner \in {None, o} \/ claims[q].exp <= now
\* _claim_queue_item_con
Claim(q, o, r, lease) ==
    claims' = [claims EXCEPT ![q] = [owner |-> o, exp |-> now + lease, rsv |-> r]]
\* release_queue_claim: scoped to the owner.
ReleaseClaim(q, o) ==
    claims' = [claims EXCEPT ![q] = IF @.owner = o THEN NoClaim ELSE @]
\* Slip: the claim is deleted by queue row alone.
AfterAnyRelease(q, r) == NoClaim
\* _release_reservation_queue_claim: an expired claim, or the reservation's own.
AfterReservationRelease(q, r) ==
    IF claims[q].exp <= now \/ claims[q].rsv = r THEN NoClaim ELSE claims[q]
\* _release_slskd_reservation_claims: by owner when there is one, else by reservation.
AfterClaimsRelease(q, r, o) ==
    IF IF o # None THEN claims[q].owner = o ELSE claims[q].rsv = r
    THEN NoClaim ELSE claims[q]

--------------------------------------------------------------------------------
(* _project_slskd_reservation_queue: the queue row and its wanted item     *)
(* follow the task r that took status st, or else the authoritative        *)
(* sibling of a task that ended.  sib is that sibling's state, "none" when *)
(* there is none or the caller does not look for one.                      *)

ProjectedQueue(q, r, st, sib) ==
    IF Terminal(st) /\ sib # "none"
    THEN [state |-> sib, active |-> sib # "verified", mirror |-> r]
    ELSE [state |-> IF st = "started_waiting" THEN "downloading" ELSE "queued",
          active |-> TRUE,
          mirror |-> IF Terminal(st) THEN None ELSE queue[q].mirror]
\* Slip: the wanted item is given the state of the queue row.
ProjectedWantedAsQueue(st, sib) ==
    IF st = "started_waiting" THEN "downloading" ELSE "queued"
ProjectedWanted(st, sib) ==
    IF Terminal(st) /\ sib = "verified" THEN "satisfied"
    ELSE IF st = "started_waiting" \/ (Terminal(st) /\ sib # "none") THEN "downloading"
    ELSE "wanted"
Project(q, r, st, sib) ==
    /\ queue' = [queue EXCEPT ![q] = ProjectedQueue(q, r, st, sib)]
    /\ wanted' = [wanted EXCEPT ![IssueOf[q]] = ProjectedWanted(st, sib)]

\* The other tasks of the same queue row or issue, of any provider.
SiblingTasks(q, r) ==
    {s \in TaskIds \ {r} : task[s].queue \in Queues /\ IssueOf[task[s].queue] = IssueOf[q]}
SiblingRows(q) == {p \in Queues : IssueOf[p] = IssueOf[q]}
VerifiedSibling(q, r) ==
    (\E s \in SiblingTasks(q, r) : Verified(s)) \/ (\E p \in SiblingRows(q) : alt[p] = "verified")
\* The states of the active siblings, as a queue row shows them.
ActiveSiblingStates(q, r) ==
    {IF task[s].status = "import_ready" THEN "import_ready" ELSE "downloading" :
        s \in {s \in SiblingTasks(q, r) : Active(s)}}
    \cup {"downloading" : p \in {p \in SiblingRows(q) : alt[p] = "downloading"}}
\* authoritative_sibling: a verified one first, else any active one.
SiblingChoices(q, r) ==
    IF VerifiedSibling(q, r) THEN {"verified"}
    ELSE IF ActiveSiblingStates(q, r) = {} THEN {"none"}
    ELSE ActiveSiblingStates(q, r)

--------------------------------------------------------------------------------
(* transition_slskd_candidate_task: the task of reservation r is asked to  *)
(* take status want with transfer x, by claim owner o (None: a reconciler),*)
(* as of time at.  A waiting record may have overwritten the row, which    *)
(* then is no longer found under its reservation id.                       *)

\* Slip: only an import on record protects the row.
PreservedByImport(q) == proof[IssueOf[q]]
\* A terminal transition leaves this row alone.
Preserved(q) == Fenced(q) \/ proof[IssueOf[q]]
\* A downloading status without a transfer identity is only an ambiguous answer.
Effective(r, want, x) ==
    IF want = "started_waiting" /\ x = None /\ task[r].ext = None
    THEN "enqueue_response_ambiguous" ELSE want
\* The owner must hold an unexpired claim; a reconciler yields to a live claim of r.
ClaimPermits(q, r, o, at) ==
    IF o # None THEN claims[q].owner = o /\ claims[q].exp > now
    ELSE ~(claims[q].rsv = r /\ claims[q].exp > at)

ProjectUnlessPreserved(q, r, st) ==
    IF Terminal(st)
    THEN IF Preserved(q) THEN UNCHANGED <<queue, wanted>>
         ELSE \E sib \in SiblingChoices(q, r) : Project(q, r, st, sib)
    ELSE Project(q, r, st, "none")

\* The queue row has closed: only the caller's own claim is given back.
TransitionFenced(r, want, o) ==
    LET q == task[r].queue IN
    /\ task[r].bound /\ ~Terminal(want) /\ Fenced(q)
    /\ claims' = [claims EXCEPT ![q] = IF o # None THEN AfterClaimsRelease(q, r, o) ELSE @]
    /\ UNCHANGED rows

\* The task ended this way before: the queue row is projected again.
TransitionReconciled(r, want, o) ==
    LET q == task[r].queue IN
    /\ task[r].bound /\ Terminal(want) /\ task[r].status = want
    /\ ProjectUnlessPreserved(q, r, want)
    /\ claims' = [claims EXCEPT ![q] = AfterClaimsRelease(q, r, o)]
    /\ UNCHANGED task

\* No such reservation, it ended otherwise, or the claim does not permit the transition.
TransitionRefused(r, want, o, at) ==
    LET q == task[r].queue IN
    /\ task[r].bound => Terminal(want) \/ ~Fenced(q)
    /\ \/ ~task[r].bound
       \/ ~Active(r) /\ ~(Terminal(want) /\ task[r].status = want)
       \/ Active(r) /\ ~ClaimPermits(q, r, o, at)
    /\ UNCHANGED <<rows, claims>>

TransitionApplied(r, want, x, o, at) ==
    LET q == task[r].queue
        st == Effective(r, want, x) IN
    /\ task[r].bound /\ (Terminal(want) \/ ~Fenced(q))
    /\ Active(r) /\ ClaimPermits(q, r, o, at)
    /\ task' = [task EXCEPT ![r].status = st,
                            ![r].ext = IF Terminal(st) \/ x = None THEN @ ELSE x]
    /\ ProjectUnlessPreserved(q, r, st)
    /\ claims' = [claims EXCEPT ![q] = AfterClaimsRelease(q, r, o)]

Transition(r, want, x, o, at) ==
    \/ TransitionFenced(r, want, o)
    \/ TransitionReconciled(r, want, o)
    \/ TransitionRefused(r, want, o, at)
    \/ TransitionApplied(r, want, x, o, at)

--------------------------------------------------------------------------------
(* reserve_slskd_candidate.  A refusal changes nothing and the attempt     *)
(* passes on, so only the three outcomes that write are actions.           *)

\* Slips: another row's task, or a task that has its transfer, is overlooked.
DecidingByCandidate(q, c) ==
    {r \in TaskIds : (Active(r) \/ Verified(r)) /\ task[r].queue \in Queues /\ task[r].cand = c}
DecidingByRow(q, c) ==
    {r \in TaskIds : (Active(r) \/ Verified(r)) /\ task[r].queue = q}
DecidingWaits(q, c) ==
    {r \in TaskIds : task[r].queue = q /\ task[r].status = "waiting_for_slot"}
\* The rows of slskd_candidate_owner_rows that stop the loop: the first decides.
Deciding(q, c) ==
    {r \in TaskIds : /\ Active(r) \/ Verified(r)
                     /\ task[r].queue \in Queues
                     /\ Unit(task[r].queue) = Unit(q) \/ task[r].cand = c}
Reservable(q) == Retryable(q) /\ queue[q].state # "importing"

\* Nobody owns the unit or the candidate: the task and its projection.
NewReservation(a, q, c) ==
    /\ att[a].pc = "idle" /\ now + Ttl <= MaxTime
    /\ Reservable(q) /\ Deciding(q, c) = {}
    /\ task' = [task EXCEPT ![a] = [status |-> "waiting_for_slot", queue |-> q, cand |-> c,
                                    ext |-> None, deadline |-> now + Ttl, bound |-> TRUE]]
    /\ Project(q, a, "waiting_for_slot", "none")
    /\ UNCHANGED <<now, removed, proof, alt, xfer, wk>>
\* With a claim: authorize_enqueue.  When another owner holds the claim the whole
\* transaction rolls back.
ReserveCreates(a, q, c) ==
    /\ NewReservation(a, q, c)
    /\ CanClaim(q, a) /\ Claim(q, a, a, Lease)
    /\ att' = [att EXCEPT ![a] = [pc |-> "reserved", queue |-> q, rsv |-> a,
                                  until |-> now + Lease, out |-> "none", ext |-> None]]
\* Without one: admission control had no slot, the wait is only recorded.
PersistSlotWait(a, q, c) ==
    /\ NewReservation(a, q, c)
    /\ att' = [att EXCEPT ![a] = Done]
    /\ UNCHANGED claims

\* A new attempt at the same candidate takes over the claim of the live reservation
\* and only repeats its status (reuse_existing).
ReserveReuses(a, r) ==
    LET q == task[r].queue IN
    /\ att[a].pc = "idle"
    /\ Active(r) /\ task[r].bound /\ task[r].deadline > now /\ now + Lease <= MaxTime
    /\ Reservable(q) /\ CanClaim(q, a)
    /\ Claim(q, a, r, Lease)
    /\ att' = [att EXCEPT ![a] = [pc |-> "finish", queue |-> q, rsv |-> r,
                                  until |-> now + Lease,
                                  out |-> IF task[r].status = "import_ready"
                                          THEN "reservation_failed" ELSE task[r].status,
                                  ext |-> task[r].ext]]
    /\ UNCHANGED <<now, rows, removed, proof, alt, xfer, wk>>

\* The same candidate's reservation is past its deadline, whatever it is doing.
ReserveExpires(r) ==
    LET q == task[r].queue IN
    /\ Active(r) /\ task[r].bound /\ task[r].deadline <= now
    /\ Reservable(q)
    /\ task' = [task EXCEPT ![r].status = "slot_request_expired"]
    /\ Project(q, r, "slot_request_expired", "none")
    /\ claims' = [claims EXCEPT ![q] = AfterReservationRelease(q, r)]
    /\ UNCHANGED <<now, removed, proof, alt, xfer, att, wk>>

--------------------------------------------------------------------------------
(* The handoff attempt after an authorized reservation.  slskd answers     *)
(* late, not at all, or after having acted.                                *)

Goto(a, pc, out, x) == att' = [att EXCEPT ![a].pc = pc, ![a].out = out, ![a].ext = x]
Candidate(a) == task[att[a].rsv].cand
\* Slip: any transfer of the peer will do.
TransfersOfPeer(c) == {x \in Attempts : xfer[x] # "none"}
\* slskd_existing_download: the transfers that carry the candidate's peer and file.
TransfersOf(c) == {x \in Attempts : xfer[x] # "none" /\ task[x].cand = c}
\* slskd_delete_download_transfer; the request may fail.
MayDelete(x) == xfer' \in {xfer, [xfer EXCEPT ![x] = "none"]}
NoDb == UNCHANGED <<now, rows, removed, proof, alt, claims, wk>>

\* Look for a transfer of the candidate before enqueueing one.
CheckFindsNothing(a) ==
    /\ att[a].pc = "reserved"
    /\ TransfersOf(Candidate(a)) = {}
    /\ Goto(a, "enqueue", "none", None)
    /\ NoDb /\ UNCHANGED xfer
CheckFinds(a, x) ==
    /\ att[a].pc = "reserved"
    /\ x \in TransfersOf(Candidate(a))
    /\ \/ xfer[x] = "failed" /\ MayDelete(x) /\ Goto(a, "finish", "transfer_failed", x)
       \/ xfer[x] # "failed" /\ UNCHANGED xfer /\ Goto(a, "mark", "started_waiting", x)
    /\ NoDb
\* The inventory call raises before anything was enqueued.
CheckRaises(a) ==
    /\ att[a].pc = "reserved"
    /\ Goto(a, "finish", "reservation_failed", None)
    /\ NoDb /\ UNCHANGED xfer

\* slskd_enqueue_candidate and auto_grab_transfer_from_enqueue.
Enqueue(a) ==
    /\ att[a].pc = "enqueue"
    /\ \E s \in {"running", "failed"} :
        /\ xfer' = [xfer EXCEPT ![a] = s]
        /\ Goto(a, "validate", IF s = "failed" THEN "transfer_failed" ELSE "started_waiting", a)
    /\ NoDb
\* The answer names no transfer, or none that is certainly this one.
EnqueueAmbiguous(a) ==
    /\ att[a].pc = "enqueue"
    /\ \E s \in {"none", "running"} : xfer' = [xfer EXCEPT ![a] = s]
    /\ Goto(a, "validate", "enqueue_response_ambiguous", None)
    /\ NoDb
\* The call raises; slskd may have accepted the request all the same.
EnqueueRaises(a) ==
    /\ att[a].pc = "enqueue"
    /\ \E s \in {"none", "running"} : xfer' = [xfer EXCEPT ![a] = s]
    /\ Goto(a, "finish", "transfer_failed", None)
    /\ NoDb

\* validate_slskd_candidate_claim
ClaimValid(a) ==
    LET r == att[a].rsv
        q == att[a].queue IN
    /\ Retryable(q)
    /\ claims[q].owner = a /\ claims[q].exp > now /\ claims[q].rsv = r
    /\ task[r].bound /\ Active(r)
\* The claim was lost during the enqueue: the raced transfer is cancelled.
ValidateLost(a) ==
    /\ att[a].pc = "validate" /\ ~ClaimValid(a)
    /\ IF att[a].ext = None THEN UNCHANGED xfer ELSE MayDelete(att[a].ext)
    /\ Goto(a, "finish", "reservation_failed", None)
    /\ NoDb
\* The claim holds: a started transfer gets its waiting record.
ValidateHeld(a) ==
    /\ att[a].pc = "validate" /\ ClaimValid(a)
    /\ IF att[a].out = "transfer_failed" THEN MayDelete(att[a].ext) ELSE UNCHANGED xfer
    /\ Goto(a, IF att[a].out = "started_waiting" THEN "mark" ELSE "finish",
            att[a].out, att[a].ext)
    /\ NoDb

--------------------------------------------------------------------------------
(* mark_manual_source_waiting_local: the waiting record of a started       *)
(* transfer, written in three transactions (update_autopilot_queue_from_   *)
(* waiting_record, record_slskd_queue_attempt), none of which looks at the *)
(* attempt's claim.                                                        *)

\* retire_removed_series_work
RetiredQueue ==
    [q \in Queues |-> IF queue[q].active \/ queue[q].state \in {"queued", "downloading", "importing"}
                      THEN [queue[q] EXCEPT !.state = "stale_source_absent", !.active = FALSE]
                      ELSE queue[q]]
RetiredWanted ==
    [i \in Issues |-> IF wanted[i] \in {"wanted", "in_progress"} THEN "inactive" ELSE wanted[i]]
\* The row shows a download, whatever it showed before; only an import that is on
\* record protects the wanted item (project_wanted_status).
ShowDownloading(q) ==
    /\ queue' = [queue EXCEPT ![q].state = "downloading", ![q].active = TRUE]
    /\ wanted' = [wanted EXCEPT ![IssueOf[q]] =
                      IF @ = "satisfied" /\ proof[IssueOf[q]] THEN @ ELSE "in_progress"]
ShowDownloadingUnlessRemoved(q) ==
    IF removed THEN queue' = RetiredQueue /\ wanted' = RetiredWanted
    ELSE ShowDownloading(q)

\* patch_queue_item_state
MarkQueue(a) ==
    /\ att[a].pc = "mark"
    /\ ShowDownloadingUnlessRemoved(att[a].queue)
    /\ Goto(a, "match", att[a].out, att[a].ext)
    /\ UNCHANGED <<now, removed, proof, task, alt, claims, xfer, wk>>
\* The exported queue file has no such row, or shows it verified.
MarkSkips(a) ==
    /\ att[a].pc = "mark"
    /\ Goto(a, "finish", att[a].out, att[a].ext)
    /\ NoDb /\ UNCHANGED xfer
\* The record is not kept: the transfer is an orphan and deleted; or saving it raises.
MarkFails(a) ==
    /\ att[a].pc = "mark"
    /\ \/ MayDelete(att[a].ext) /\ Goto(a, "finish", "transfer_failed", att[a].ext)
       \/ UNCHANGED xfer /\ Goto(a, "finish", "reservation_failed", att[a].ext)
    /\ NoDb

\* transition_matching_slskd_candidate_task: the candidate's active tasks on the row.
Matching(a) ==
    {r \in TaskIds : Active(r) /\ task[r].queue = att[a].queue /\ task[r].cand = Candidate(a)}
MatchApplies(a, r) ==
    /\ att[a].pc = "match"
    /\ r \in Matching(a)
    /\ TransitionApplied(r, "started_waiting", att[a].ext, None, now)
    /\ Goto(a, "finish", att[a].out, att[a].ext)
    /\ UNCHANGED <<now, removed, proof, alt, xfer, wk>>
\* No task, or one that refuses: usually because the attempt's own claim is live.
MatchRefused(a) ==
    /\ att[a].pc = "match"
    /\ \/ Matching(a) = {}
       \/ \E r \in Matching(a) :
             \/ task[r].bound /\ Fenced(att[a].queue)
             \/ TransitionRefused(r, "started_waiting", None, now)
    /\ Goto(a, "record", att[a].out, att[a].ext)
    /\ NoDb /\ UNCHANGED xfer

\* record_queue_source_attempt, record_source_attempt, record_download_task_for_attempt.
\* The rows of the candidate for the issue, and the one whose id carries no episode.
SameWork(a) ==
    {r \in TaskIds : /\ task[r].queue \in Queues
                     /\ IssueOf[task[r].queue] = IssueOf[att[a].queue]
                     /\ task[r].cand = Candidate(a)}
FirstRows(a) ==
    {r \in SameWork(a) \cap Attempts :
        \A s \in SameWork(a) \cap Attempts : task[r].deadline <= task[s].deadline}
\* Slip: an ended row is taken up again.
OverwrittenEnded(a) == {r \in SameWork(a) : task[r].ext \in {None, att[a].ext}}
\* The active row that the record overwrites: the first one, else one that may be
\* this transfer's.  An ended row is never overwritten by an active record.
Overwritten(a) ==
    LET active == {r \in SameWork(a) : Active(r)} IN
    {r \in active : r \in FirstRows(a) \/ task[r].ext \in {None, att[a].ext}}
\* The row as recorded: its reservation id is gone.
Recorded(a, r, st) ==
    [task EXCEPT ![r] = [status |-> st, queue |-> att[a].queue, cand |-> Candidate(a),
                         ext |-> att[a].ext, deadline |-> @.deadline, bound |-> FALSE]]
RecordWaiting(a) ==
    LET q == att[a].queue IN
    /\ att[a].pc = "record"
    /\ IF removed THEN UNCHANGED task
       ELSE IF ~queue[q].active
       THEN \E r \in FirstRows(a) :
               task' = Recorded(a, r, IF queue[q].state = "verified" THEN "queue_verified"
                                      ELSE "queue_inactive")
       ELSE IF Overwritten(a) # {}
       THEN \E r \in Overwritten(a) : task' = Recorded(a, r, "started_waiting")
       ELSE task' = Recorded(a, EpisodeOf[a], "started_waiting")
    /\ ShowDownloadingUnlessRemoved(q)
    /\ Goto(a, "finish", att[a].out, att[a].ext)
    /\ UNCHANGED <<now, removed, proof, alt, claims, xfer, wk>>

\* The attempt reports its outcome and is over.
Finish(a) ==
    /\ att[a].pc = "finish"
    /\ Transition(att[a].rsv, att[a].out, att[a].ext, a, now)
    /\ att' = [att EXCEPT ![a] = Done]
    /\ UNCHANGED <<now, removed, proof, alt, xfer, wk>>

\* The process dies; its claim and its task stay behind.
Crash(a) ==
    /\ att[a].pc \in Holding
    /\ att' = [att EXCEPT ![a] = Done]
    /\ NoDb /\ UNCHANGED xfer

--------------------------------------------------------------------------------
(* Source workers *)

ClaimQueueItem(w, q) ==
    /\ ~wk[w].dead /\ wk[w].queue = None
    /\ now + WorkerLease <= MaxTime
    /\ Retryable(q) /\ wanted[IssueOf[q]] # "satisfied"
    /\ CanClaim(q, w)
    /\ Claim(q, w, None, WorkerLease)
    /\ wk' = [wk EXCEPT ![w] = [queue |-> q, until |-> now + WorkerLease, dead |-> FALSE]]
    /\ UNCHANGED <<now, rows, removed, proof, alt, xfer, att>>
\* Another provider's download starts for the claimed row.
WorkerStarts(w) ==
    LET q == wk[w].queue IN
    /\ q # None /\ Retryable(q) /\ alt[q] = "none"
    /\ alt' = [alt EXCEPT ![q] = "downloading"]
    /\ queue' = [queue EXCEPT ![q].state = "downloading"]
    /\ wanted' = [wanted EXCEPT ![IssueOf[q]] = "downloading"]
    /\ UNCHANGED <<now, removed, proof, task, claims, xfer, att, wk>>
WorkerReleases(w) ==
    /\ wk[w].queue # None
    /\ ReleaseClaim(wk[w].queue, w)
    /\ wk' = [wk EXCEPT ![w] = IdleWorker]
    /\ UNCHANGED <<now, rows, removed, proof, alt, xfer, att>>
WorkerCrashes(w) ==
    /\ wk[w].queue # None
    /\ wk' = [wk EXCEPT ![w] = [IdleWorker EXCEPT !.dead = TRUE]]
    /\ UNCHANGED <<now, rows, removed, proof, alt, claims, xfer, att>>

--------------------------------------------------------------------------------
(* slskd, the other provider, the importer, the user *)

XferEnds(x) ==
    /\ xfer[x] = "running"
    /\ xfer' \in {[xfer EXCEPT ![x] = s] : s \in {"done", "failed"}}
    /\ UNCHANGED <<now, rows, removed, proof, alt, claims, att, wk>>
AltEnds(q) ==
    /\ alt[q] = "downloading"
    /\ alt' = [alt EXCEPT ![q] = "ended"]
    /\ UNCHANGED <<now, rows, removed, proof, claims, xfer, att, wk>>
RecordImport(i) ==
    /\ ~proof[i]
    /\ proof' = [proof EXCEPT ![i] = TRUE]
    /\ UNCHANGED <<now, rows, removed, alt, claims, xfer, att, wk>>

\* cleanup_active_download_tasks_for_queue and cleanup_inactive_active_download_tasks:
\* the rows of S that look like running work are closed; waits and ambiguous
\* handoffs are not selected.
CleanedTasks(S) ==
    [r \in TaskIds |->
        IF task[r].status \in CleanedStatus /\ task[r].queue \in S
        THEN [task[r] EXCEPT !.status = IF queue'[task[r].queue].state = "verified"
                                        THEN "queue_verified" ELSE "queue_inactive"]
        ELSE task[r]]
CleanedAlt(S) ==
    [q \in Queues |-> IF alt[q] = "downloading" /\ q \in S
                      THEN IF queue'[q].state = "verified" THEN "verified" ELSE "ended"
                      ELSE alt[q]]

MarkQueueVerified(q) ==
    /\ proof[IssueOf[q]] /\ queue[q].state # "verified"
    /\ queue' = [queue EXCEPT ![q].state = "verified", ![q].active = FALSE]
    /\ wanted' = [wanted EXCEPT ![IssueOf[q]] = "satisfied"]
    /\ task' = CleanedTasks({q})
    /\ alt' = CleanedAlt({q})
    /\ UNCHANGED <<now, removed, proof, claims, xfer, att, wk>>

CancelQueueItem(q) ==
    /\ queue[q].active \/ queue[q].state \notin {"verified", "cancelled", "stale_source_absent"}
    /\ queue' = [queue EXCEPT ![q].state = "cancelled", ![q].active = FALSE]
    /\ task' = [r \in TaskIds |-> IF Active(r) /\ task[r].queue = q
                                  THEN [task[r] EXCEPT !.status = "cancelled_by_user"]
                                  ELSE task[r]]
    /\ alt' = [alt EXCEPT ![q] = IF @ = "downloading" THEN "ended" ELSE @]
    /\ UNCHANGED <<now, wanted, removed, proof, claims, xfer, att, wk>>

\* The user removes the series, or the sync finds work of a removed one.
RetireRemovedSeries ==
    /\ removed' = TRUE
    /\ queue' = RetiredQueue /\ wanted' = RetiredWanted
    /\ queue' # queue
    /\ UNCHANGED <<now, proof, task, alt, claims, xfer, att, wk>>

--------------------------------------------------------------------------------
(* Maintenance sweeps of the state sync; each commits on its own. *)

\* Slip: only the source workers' claims are swept.
CleanupWorkerClaims ==
    /\ \E q \in Queues : claims[q].owner \in Workers /\ claims[q].exp <= now
    /\ claims' = [q \in Queues |-> IF claims[q].owner \in Workers /\ claims[q].exp <= now
                                   THEN NoClaim ELSE claims[q]]
    /\ UNCHANGED <<now, rows, removed, proof, alt, xfer, att, wk>>

CleanupExpiredClaims ==
    /\ \E q \in Queues : claims[q].owner # None /\ claims[q].exp <= now
    /\ claims' = [q \in Queues |-> IF claims[q].exp <= now THEN NoClaim ELSE claims[q]]
    /\ UNCHANGED <<now, rows, removed, proof, alt, xfer, att, wk>>

CleanupInactiveTasks ==
    LET S == {q \in Queues : ~queue[q].active} IN
    /\ UNCHANGED queue
    /\ task' = CleanedTasks(S) /\ alt' = CleanedAlt(S)
    /\ <<task', alt'>> # <<task, alt>>
    /\ UNCHANGED <<now, wanted, removed, proof, claims, xfer, att, wk>>

\* cleanup_stale_active_slskd_download_tasks: a download of an active row that shows
\* no life.  The queue row is left as it is.
CleanupStaleTask(r) ==
    /\ task[r].status = "started_waiting" /\ queue[task[r].queue].active
    /\ task' = [task EXCEPT ![r].status = "transfer_stale_unknown"]
    /\ UNCHANGED <<now, queue, wanted, removed, proof, alt, claims, xfer, att, wk>>

\* Slip: waits of closed queue rows are not swept.
OverdueOnOpenRows ==
    {r \in TaskIds : /\ task[r].status = "waiting_for_slot" /\ task[r].deadline <= now
                     /\ queue[task[r].queue].active}
\* reconcile_slskd_candidate_reservations: every wait past its deadline, at once.
Overdue == {r \in TaskIds : task[r].status = "waiting_for_slot" /\ task[r].deadline <= now}
ReconcileReservations ==
    LET hit == {q \in Queues : \E r \in Overdue : task[r].queue = q}
        R(q) == CHOOSE r \in Overdue : task[r].queue = q IN
    /\ Overdue # {}
    /\ task' = [r \in TaskIds |-> IF r \in Overdue
                                  THEN [task[r] EXCEPT !.status = "reservation_expired"]
                                  ELSE task[r]]
    /\ queue' = [q \in Queues |-> IF q \in hit
                                  THEN ProjectedQueue(q, R(q), "reservation_expired", "none")
                                  ELSE queue[q]]
    /\ wanted' = [i \in Issues |-> IF \E q \in hit : IssueOf[q] = i
                                   THEN ProjectedWanted("reservation_expired", "none")
                                   ELSE wanted[i]]
    /\ claims' = [q \in Queues |-> IF q \in hit THEN AfterReservationRelease(q, R(q))
                                   ELSE claims[q]]
    /\ UNCHANGED <<now, removed, proof, alt, xfer, att, wk>>

Tick ==
    /\ now < MaxTime
    /\ now' = now + 1
    /\ UNCHANGED <<rows, removed, proof, alt, claims, xfer, att, wk>>

--------------------------------------------------------------------------------
Handoff(a) ==
    \/ CheckFindsNothing(a)
    \/ \E x \in Attempts : CheckFinds(a, x)
    \/ CheckRaises(a)
    \/ Enqueue(a) \/ EnqueueAmbiguous(a) \/ EnqueueRaises(a)
    \/ ValidateLost(a) \/ ValidateHeld(a)
    \/ MarkQueue(a) \/ MarkSkips(a) \/ MarkFails(a)
    \/ (\E r \in TaskIds : MatchApplies(a, r)) \/ MatchRefused(a)
    \/ RecordWaiting(a)
    \/ Finish(a)

Next ==
    \/ \E a \in Attempts, q \in Queues, c \in Cands :
          ReserveCreates(a, q, c) \/ PersistSlotWait(a, q, c)
    \/ \E a, r \in Attempts : ReserveReuses(a, r)
    \/ \E r \in Attempts : ReserveExpires(r)
    \/ \E a \in Attempts : Handoff(a)
    \/ \E a \in Attempts : Crash(a)
    \/ \E w \in Workers, q \in Queues : ClaimQueueItem(w, q)
    \/ \E w \in Workers : WorkerStarts(w) \/ WorkerReleases(w) \/ WorkerCrashes(w)
    \/ \E x \in Attempts : XferEnds(x)
    \/ \E q \in Queues : AltEnds(q) \/ MarkQueueVerified(q) \/ CancelQueueItem(q)
    \/ \E i \in Issues : RecordImport(i)
    \/ \E r \in TaskIds : CleanupStaleTask(r)
    \/ RetireRemovedSeries
    \/ CleanupExpiredClaims
    \/ CleanupInactiveTasks
    \/ ReconcileReservations
    \/ Tick

Spec == Init /\ [][Next]_vars

\* Time passes and the state sync keeps running its sweeps.  Nothing else is
\* promised: attempts and workers may crash, slskd may never answer.
FairSpec ==
    /\ Spec
    /\ WF_vars(Tick) /\ WF_vars(ReconcileReservations) /\ WF_vars(CleanupExpiredClaims)

--------------------------------------------------------------------------------
(* Properties *)

QueueRow == [state : QueueState, active : BOOLEAN, mirror : Attempts \cup {None}]
TaskRow == [status : TaskStatus, queue : Queues \cup {None}, cand : Cands \cup {None},
            ext : Attempts \cup {None}, deadline : Nat, bound : BOOLEAN]
ClaimRow == [owner : Attempts \cup Workers \cup {None}, exp : Nat, rsv : Attempts \cup {None}]
AttemptState == [pc : Pc, queue : Queues \cup {None}, rsv : Attempts \cup {None},
                 until : Nat, out : TaskStatus, ext : Attempts \cup {None}]
WorkerState == [queue : Queues \cup {None}, until : Nat, dead : BOOLEAN]

\* Every row keeps a known shape.
TypeOK ==
    /\ now \in 0..MaxTime
    /\ queue \in [Queues -> QueueRow]
    /\ wanted \in [Issues -> WantedStatus]
    /\ removed \in BOOLEAN
    /\ proof \in [Issues -> BOOLEAN]
    /\ task \in [TaskIds -> TaskRow]
    /\ alt \in [Queues -> AltState]
    /\ claims \in [Queues -> ClaimRow]
    /\ xfer \in [Attempts -> XferState]
    /\ att \in [Attempts -> AttemptState]
    /\ wk \in [Workers -> WorkerState]

\* At most one of the rows that reservations created is active for an exact unit,
\* although the queue rows of a unit are reserved by different workers and are kept
\* apart only by the owner-row scan of reserve_slskd_candidate; overwriting a row in
\* place does not change that.
OneReservedPerUnit ==
    \A r, s \in Attempts :
        (Active(r) /\ Active(s) /\ Unit(task[r].queue) = Unit(task[s].queue)) => r = s

\* Two active reservations never follow the same physical transfer, also when a retry
\* adopts the transfer that an earlier attempt left behind (slskd_existing_download).
NoSharedTransfer ==
    \A r, s \in Attempts :
        (Active(r) /\ Active(s) /\ task[r].ext # None /\ task[r].ext = task[s].ext) => r = s

\* Whoever was granted a claim keeps it for the whole lease: no release, expiry or
\* takeover by another party removes a live queue_claims row, unless the reservation
\* that the claim was taken for has itself ended (_release_reservation_queue_claim).
NotRobbed ==
    /\ \A a \in Attempts :
        (att[a].pc \in Holding /\ att[a].until > now /\ Active(att[a].rsv))
            => claims[att[a].queue].owner = a
    /\ \A w \in Workers :
        (wk[w].queue # None /\ wk[w].until > now) => claims[wk[w].queue].owner = w

\* A task that counts as downloading follows a transfer, and one of its own candidate,
\* although transfers are found again by peer and file, adopted from earlier attempts
\* and recorded by late ones.
StartedFollowsCandidate ==
    \A r \in TaskIds :
        task[r].status = "started_waiting"
            => task[r].ext # None /\ task[task[r].ext].cand = task[r].cand

\* A task that has ended is never active again: late reports, retries, waiting records
\* and sweeps do not revive it ("never manufacture a successor").
EndedStaysEnded ==
    [][\A r \in TaskIds :
         task[r].status \notin ActiveStatus \cup {"none"}
            => task'[r].status \notin ActiveStatus \cup {"none"}]_vars

\* A queue row that was closed (verified, cancelled, removed) is reopened by nothing
\* but the expiry of a wait that its closing left behind, or the waiting record of an
\* attempt that was under way; not even by that when the series was removed.
OnlyLateWritersReopen ==
    [][\A q \in Queues :
         (~queue[q].active /\ queue'[q].active)
            => \/ \E r \in Attempts : /\ task[r].queue = q
                                      /\ task[r].status = "waiting_for_slot"
                                      /\ task'[r].status = "reservation_expired"
               \/ ~removed /\ \E a \in Attempts : /\ att[a].queue = q
                                                   /\ att[a].pc \in {"mark", "record"}
                                                   /\ att'[a].pc # att[a].pc]_vars

\* A verified queue row is never reopened ("late terminal event reactivated verified
\* queue").  The expiry sweep breaks this; see README, findings.
VerifiedNeverReopened ==
    [][\A q \in Queues : (queue[q].state = "verified" /\ ~queue[q].active)
                            => queue'[q].state = "verified" \/ ~queue'[q].active]_vars

\* Every wait for a transfer slot ends, whatever happened to its attempt.
WaitsEnd ==
    \A r \in Attempts :
        (task[r].status = "waiting_for_slot") ~> (task[r].status # "waiting_for_slot")

\* Every claim is given back or taken over: a crashed holder blocks a queue row only
\* until its lease has run out.
ClaimsEnd ==
    \A q \in Queues, o \in Attempts \cup Workers :
        (claims[q].owner = o) ~> (claims[q].owner # o)

\* The active reserved rows of a unit.
Owners(u) == {r \in Attempts : Active(r) /\ Unit(task[r].queue) = u}
Ownership == INSTANCE UnitOwnership
    WITH Owned <- Units, Tasks <- Attempts, owners <- [u \in Units |-> Owners(u)]
\* The protocol implements exclusive ownership of units.
OwnershipSpec == Ownership!Spec
================================================================================
