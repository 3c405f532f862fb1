-------------------------- MODULE TransferReconciler --------------------------
(***************************************************************************)
(* The SLSKD transfer-identity reconciler at work beside the reservation   *)
(* protocol.  A pass (reconcile_slskd_transfer_identity_tasks) asks slskd  *)
(* for its transfers, then selects tasks, then judges them one transaction *)
(* at a time by that list: it binds a handoff of unknown outcome to its    *)
(* transfer or retires it, and hands a finished transfer to the importer   *)
(* (recover_completed_slskd_candidate_task).  An import that finds nothing *)
(* makes the task fail, the sweep of expired import claims frees the row,  *)
(* and the next pass finds the same finished transfer again.               *)
(***************************************************************************)
EXTENDS SlskdReservation

CONSTANT MaxRecoveries  \* SLSKD_COMPLETED_RECOVERY_MAX_ATTEMPTS (3)

ASSUME RecoveryAssumption == MaxRecoveries \in Nat \ {0}

VARIABLES
    pass,    \* the reconciler's pass: where it is, its time, what it has read
    ledger   \* queue_items.raw_json, completed_transfer_recovery: recoveries by transfer

rvars == <<vars, pass, ledger>>

PassPc == {"idle", "mirror", "select", "judge"}
IdlePass == [pc |-> "idle", at |-> 0, mirrored |-> {}, listed |-> {}, done |-> {},
             whole |-> TRUE, unbound |-> {}, owned |-> {}, spare |-> {}]

RInit == Init /\ pass = IdlePass /\ ledger = [q \in Queues |-> [x \in Attempts |-> 0]]

--------------------------------------------------------------------------------
(* Reading.  What the pass has read does not change while it judges. *)

\* The rows whose queue row mirrors a sibling of an ended task.
BeginPass ==
    /\ pass.pc = "idle"
    /\ pass' = [IdlePass EXCEPT !.pc = "mirror", !.at = now,
                   !.mirrored = {queue[q].mirror : q \in Queues} \ {None}]
    /\ UNCHANGED <<vars, ledger>>

\* reconcile_slskd_sibling_queue_projections: the ended task is reported once more, so
\* that its row is given back when the sibling has ended too.
ProjectMirrored(r) ==
    /\ pass.pc = "mirror" /\ r \in pass.mirrored
    /\ pass' = [pass EXCEPT !.mirrored = @ \ {r}]
    /\ IF Terminal(task[r].status)
       THEN Transition(r, task[r].status, task[r].ext, None, pass.at)
       ELSE UNCHANGED <<rows, claims>>
    /\ UNCHANGED <<now, removed, proof, alt, xfer, att, wk, ledger>>

\* slskd_download_rows.  A row without id or locator is of no use and makes the list
\* incomplete.
ListTransfers ==
    LET held == {x \in Attempts : xfer[x] # "none"} IN
    /\ pass.pc = "mirror" /\ pass.mirrored = {}
    /\ \E S \in SUBSET held :
          pass' = [pass EXCEPT !.pc = "select", !.listed = S, !.whole = (S = held),
                               !.done = {x \in S : xfer[x] = "done"}]
    /\ UNCHANGED <<vars, ledger>>

\* Slip: the queue row of an owner is not looked at.
SelectAnyOwner ==
    {<<r, task[r].ext>> : r \in {r \in TaskIds : task[r].ext # None}}
\* The unresolved handoffs, and the owners of a transfer whose queue row is open.
SelectOwners ==
    {<<r, task[r].ext>> : r \in {r \in TaskIds : task[r].ext # None /\ Retryable(task[r].queue)}}
SelectTasks ==
    /\ pass.pc = "select"
    /\ pass' = [pass EXCEPT !.pc = "judge", !.owned = SelectOwners,
                   !.unbound = {r \in TaskIds : /\ task[r].status \in {"started_waiting",
                                                       "enqueue_response_ambiguous"}
                                                /\ task[r].ext = None}]
    /\ UNCHANGED <<vars, ledger>>

--------------------------------------------------------------------------------
(* Finished transfers *)

Followers(x) == {r \in TaskIds : <<r, x>> \in pass.owned}
Judged(x, S) == pass' = [pass EXCEPT !.owned = {p \in @ : p[2] # x}, !.spare = S]

\* Slip: the other tasks of the issue are not looked at.
FencedByImport(r) == proof[IssueOf[task[r].queue]]
\* recover_completed_slskd_candidate_task: an import or another task of the unit's
\* issue has the say.
RecoveryFenced(r) ==
    proof[IssueOf[task[r].queue]] \/ SiblingChoices(task[r].queue, r) # {"none"}
\* Slip: recovery without a bound.
NeverExhausted(q, x) == FALSE
\* slskd_completed_recovery_exhausted, by attempts.
Exhausted(q, x) == ledger[q][x] >= MaxRecoveries

\* The transfer goes to the importer.  Neither the task's status nor the state of the
\* queue row is looked at; the row's active flag is left alone.
Recover(r, x) ==
    LET q == task[r].queue IN
    /\ task' = [task EXCEPT ![r].status = "import_ready"]
    /\ queue' = [queue EXCEPT ![q].state = "importing"]
    /\ wanted' = [wanted EXCEPT ![IssueOf[q]] = "in_progress"]
    /\ ledger' = [ledger EXCEPT ![q][x] = @ + 1]

\* One owner, or one of several of the same queue row, is recovered; the others are
\* spare.  Which one is canonical depends on what is left out here.
RecoverOwner(r, x) ==
    /\ pass.pc = "judge" /\ pass.spare = {}
    /\ r \in Followers(x) /\ x \in pass.done
    /\ \A s \in Followers(x) : task[s].queue = task[r].queue
    /\ task[r].ext = x /\ ~RecoveryFenced(r)
    /\ \/ task[r].status = "import_ready" /\ UNCHANGED <<rows, ledger>>
       \/ /\ task[r].status # "import_ready" /\ ~Exhausted(task[r].queue, x)
          /\ Recover(r, x)
    /\ Judged(x, Followers(x) \ {r})
    /\ UNCHANGED <<now, removed, proof, alt, claims, xfer, att, wk>>
\* The transfer is still running, unlisted or claimed by two queue rows; or recovery is
\* refused.  A transfer recovered before may also be too old for another time, and a
\* recorded row may fail to prove its unit.
PassOwners(x) ==
    /\ pass.pc = "judge" /\ pass.spare = {} /\ Followers(x) # {}
    /\ \/ x \notin pass.done
       \/ \E r, s \in Followers(x) : task[s].queue # task[r].queue
       \/ \E r \in Followers(x) :
             \/ task[r].ext # x \/ RecoveryFenced(r) \/ ~task[r].bound
             \/ task[r].status # "import_ready" /\ ledger[task[r].queue][x] > 0
    /\ Judged(x, {})
    /\ UNCHANGED <<vars, ledger>>

\* retire_duplicate_slskd_owner_task
RetireDuplicate(s) ==
    /\ s \in pass.spare
    /\ pass' = [pass EXCEPT !.spare = @ \ {s}]
    /\ task' = [task EXCEPT ![s].status = "superseded_duplicate_owner"]
    /\ UNCHANGED <<now, queue, wanted, removed, proof, alt, claims, xfer, att, wk, ledger>>

--------------------------------------------------------------------------------
(* Handoffs of unknown outcome *)

\* The listed transfers of the task's peer, file and size.
Matches(r) == {x \in pass.listed : task[x].cand = task[r].cand}
\* Slip: a match that the list lost counts as a missing transfer.
MissingInAnyList(r) == Matches(r) = {} /\ task[r].deadline <= pass.at
\* The list is complete, and whoever was to enqueue the transfer has run out of time.
Missing(r) == Matches(r) = {} /\ pass.whole /\ task[r].deadline <= pass.at

JudgeUnbound(r) ==
    /\ pass.pc = "judge" /\ pass.owned = {} /\ pass.spare = {} /\ r \in pass.unbound
    /\ pass' = [pass EXCEPT !.unbound = @ \ {r}]
    /\ \/ /\ Cardinality(Matches(r)) = 1
          /\ \E x \in Matches(r) : Transition(r, "started_waiting", x, None, pass.at)
       \/ /\ Cardinality(Matches(r)) > 1
          /\ Transition(r, "enqueue_response_ambiguous", None, None, pass.at)
       \/ /\ Missing(r)
          /\ Transition(r, "reservation_failed", None, None, pass.at)
       \/ /\ Matches(r) = {} /\ ~Missing(r)
          /\ UNCHANGED <<rows, claims>>
    /\ UNCHANGED <<now, removed, proof, alt, xfer, att, wk, ledger>>

\* The pass is through, slskd does not answer, or the process dies.
EndPass ==
    /\ pass.pc # "idle"
    /\ pass' = IdlePass
    /\ UNCHANGED <<vars, ledger>>

--------------------------------------------------------------------------------
(* The importer's side *)

\* record_queue_source_attempt of a resolver that finds no staged file: the task fails,
\* the row is searched again unless it has closed, or shows another download under way.
NothingStaged(r) ==
    LET q == task[r].queue IN
    /\ task[r].status = "import_ready" /\ Retryable(q) /\ ~proof[IssueOf[q]] /\ ~removed
    /\ \E b \in {task[r].bound, FALSE} :
          task' = [task EXCEPT ![r].status = "transfer_failed", ![r].bound = b]
    /\ queue' = [queue EXCEPT ![q].state =
                    IF \E s \in TaskIds \ {r} : Active(s) /\ task[s].queue = q
                    THEN "downloading" ELSE "queued"]
    /\ wanted' = [wanted EXCEPT ![IssueOf[q]] = "in_progress"]
    /\ UNCHANGED <<now, removed, proof, alt, claims, xfer, att, wk, pass, ledger>>

\* cleanup_expired_import_claims: rows in import without a task that made progress
\* within the lease, which any task may fail to make.
Stuck == {q \in Queues : queue[q].active /\ queue[q].state \in {"importing", "import_ready"}}
ReleaseImport(q) ==
    /\ q \in Stuck
    /\ queue' = [queue EXCEPT ![q].state = "queued"]
    /\ wanted' = [wanted EXCEPT ![IssueOf[q]] =
                     IF @ = "satisfied" /\ proof[IssueOf[q]] THEN @ ELSE "wanted"]
    /\ UNCHANGED <<now, removed, proof, task, alt, claims, xfer, att, wk, pass, ledger>>

--------------------------------------------------------------------------------
Pass ==
    \/ BeginPass
    \/ \E r \in TaskIds : ProjectMirrored(r)
    \/ ListTransfers
    \/ SelectTasks
    \/ \E r \in TaskIds, x \in Attempts : RecoverOwner(r, x)
    \/ \E x \in Attempts : PassOwners(x)
    \/ \E r \in TaskIds : RetireDuplicate(r)
    \/ \E r \in TaskIds : JudgeUnbound(r)
    \/ EndPass

RNext ==
    \/ Next /\ UNCHANGED <<pass, ledger>>
    \/ Pass
    \/ \E r \in TaskIds : NothingStaged(r)
    \/ \E q \in Queues : ReleaseImport(q)

RSpec == RInit /\ [][RNext]_rvars

\* As FairSpec: the clock and the sweeps of the state sync.  No pass is assumed to begin
\* or to go on, and no row to be released by the importer.
RFairSpec ==
    /\ RSpec
    /\ WF_rvars(Tick /\ UNCHANGED <<pass, ledger>>)
    /\ WF_rvars(ReconcileReservations /\ UNCHANGED <<pass, ledger>>)
    /\ WF_rvars(CleanupExpiredClaims /\ UNCHANGED <<pass, ledger>>)

--------------------------------------------------------------------------------
(* Properties *)

PassState == [pc : PassPc, at : Nat, mirrored : SUBSET TaskIds, listed : SUBSET Attempts,
              done : SUBSET Attempts, whole : BOOLEAN, unbound : SUBSET TaskIds,
              owned : SUBSET (TaskIds \X Attempts), spare : SUBSET TaskIds]

\* The rows keep their shape, and no transfer is recovered more often than allowed.
RTypeOK ==
    /\ TypeOK
    /\ pass \in PassState
    /\ ledger \in [Queues -> [Attempts -> 0..MaxRecoveries]]

\* A task of unknown outcome is retired as missing only when its attempt's transfer does
\* not run, although the list is older than the task rows it judges and an answer to an
\* enqueue may be lost.
RetiredOnlyWhenGone ==
    [][\A r \in Attempts :
         (pass.pc = "judge" /\ Active(r) /\ task'[r].status = "reservation_failed"
             /\ r \in pass.unbound \ pass'.unbound)
            => xfer[r] \notin {"running", "done"}]_rvars

\* An ended task becomes active again in one way only: its finished transfer is handed
\* to the importer while no other task of the row is active or verified and nothing was
\* imported since the pass selected it.  Late reports, retries and the sweeps revive
\* nothing, whatever the reconciler does meanwhile.
OnlyRecoveryRevives ==
    [][\A r \in TaskIds :
         (task[r].status \notin ActiveStatus \cup {"none"} /\ task'[r].status \in ActiveStatus)
            => /\ task'[r].status = "import_ready"
               /\ task[r].ext \in Attempts /\ xfer[task[r].ext] \in {"done", "none"}
               /\ \A s \in TaskIds \ {r} : task[s].queue = task[r].queue => ~Active(s) /\ ~Verified(s)
               /\ ~proof[IssueOf[task[r].queue]]]_rvars

\* A task that the user cancelled stays cancelled: "Sibling download_tasks are closed too
\* so client reconciliation does not relabel or resurrect them" (cancel_queue_item).  A
\* pass that selected the task before breaks this; see README, findings.
CancelledStaysCancelled ==
    [][\A r \in TaskIds :
         task[r].status = "cancelled_by_user" => task'[r].status \notin ActiveStatus]_rvars
================================================================================
