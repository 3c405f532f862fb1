---------------------------- MODULE CompanionJobs ----------------------------
(***************************************************************************)
(* Manga companion jobs: InkDrop pairs a ComicVine series with its         *)
(* MangaDex counterpart by a durable job that adds the missing series and  *)
(* links the two.  A job is leased: whoever claims it writes a fresh token *)
(* and an expiry, a heartbeat thread extends it, and the job is completed  *)
(* in the transaction that activates the link.                             *)
(*                                                                         *)
(* A run is one call of run_manga_companion_add_bounded in some process of *)
(* InkDrop.  It holds one token at a time, so the run itself serves as the *)
(* token; when it has returned the same name may stand for a later call.   *)
(* Times are kept as what is left of them: a timestamp at or before now is *)
(* a timer at 0.  A timer is the lease of a running job, and the wait of a *)
(* job that is to be retried; no query reads the other one.                *)
(***************************************************************************)
EXTENDS Integers, FiniteSets

CONSTANTS
    Jobs,   \* the rows of manga_companion_jobs, each with its own pair of series
    Age,    \* the order in which the rows are created
    Runs,   \* calls of run_manga_companion_add_bounded
    Procs,  \* processes of InkDrop
    ProcOf, \* the process of a run
    Slots,  \* MANGA_COMPANION_WORK_SLOTS (2 in each process)
    None,
    Lease,  \* lease_seconds (900)
    Retry   \* retry_seconds (300)

ASSUME ConstAssumption ==
    /\ ProcOf \in [Runs -> Procs]
    /\ Age \in [Jobs -> Nat]
    /\ None \notin Runs \cup Jobs
    /\ Slots \in Nat \ {0}
    /\ Lease \in Nat \ {0} /\ Retry \in Nat \ {0}

VARIABLES
    job,    \* manga_companion_jobs: status, token and timer
    link,   \* manga_companion_links.status of the pair
    series, \* the counterpart series: absent, or whether it is monitored
    run     \* local state of a run

vars == <<job, link, series, run>>

--------------------------------------------------------------------------------
NoJob == [status |-> "none", token |-> None, timer |-> 0]
Scheduled == [NoJob EXCEPT !.status = "scheduled"]
Completed == [NoJob EXCEPT !.status = "completed"]
Waiting == [status |-> "retry", token |-> None, timer |-> Retry]
Running(r) == [status |-> "running", token |-> r, timer |-> Lease]

\* The steps of a run, in the order of the code.
InSlot == {"renew2", "stub", "link", "renew3", "add", "activate"}
Working == {"renew0", "preflight", "renew1", "slot"} \cup InSlot
Pc == {"idle", "finish", "park"} \cup Working

\* job: the job it works on; beat: its heartbeat thread runs; known: it has
\* prepared the counterpart series (counterpart_series_id is set).
Idle == [pc |-> "idle", job |-> None, beat |-> FALSE, known |-> FALSE]

Init ==
    /\ job = [j \in Jobs |-> NoJob]
    /\ link = [j \in Jobs |-> "none"]
    /\ series = [j \in Jobs |-> "absent"]
    /\ run = [r \in Runs |-> Idle]

\* The row still names the token of the run.
Owns(r, j) == job[j].status = "running" /\ job[j].token = r
\* What renew and activate require.
Leased(r, j) == Owns(r, j) /\ job[j].timer > 0
\* What a claim selects: due for a (re)try, or running with an expired lease.
Due(j) == job[j].status \in {"scheduled", "retry", "running"} /\ job[j].timer = 0

Goto(r, pc) == run' = [run EXCEPT ![r].pc = pc]
\* An exception in a run leaves the slot and stops the heartbeat.
Fail(r) == run' = [run EXCEPT ![r].pc = "finish", ![r].beat = FALSE]

--------------------------------------------------------------------------------
(* The rows.                                                                *)

\* Slip: a running row is rescheduled as well.
ScheduleAnyway(j) ==
    /\ link[j] # "linked"
    /\ job[j].status # "completed"
    /\ \A k \in Jobs : Age[k] < Age[j] => job[k].status # "none"
    /\ job' = [job EXCEPT ![j] = Scheduled]
    /\ UNCHANGED <<link, series, run>>

\* schedule_manga_companion_job: nothing when the pair is linked; a completed or
\* running row stays as it is, any other is due at once.  created_at grows.
Schedule(j) ==
    /\ link[j] # "linked"
    /\ job[j].status \notin {"completed", "running"}
    /\ \A k \in Jobs : Age[k] < Age[j] => job[k].status # "none"
    /\ job' = [job EXCEPT ![j] = Scheduled]
    /\ UNCHANGED <<link, series, run>>

\* Slip: a running row is claimed whether or not its lease has expired.
ClaimRunning(r, j, pc) ==
    /\ run[r].pc = "idle"
    /\ Due(j) \/ job[j].status = "running"
    /\ job' = [job EXCEPT ![j] = Running(r)]
    /\ run' = [run EXCEPT ![r] = [Idle EXCEPT !.pc = pc, !.job = j]]
    /\ UNCHANGED <<link, series>>

\* Slip: only rows that wait for a retry are selected.
ClaimWaiting(r, j, pc) ==
    /\ run[r].pc = "idle"
    /\ Due(j) /\ job[j].status # "running"
    /\ job' = [job EXCEPT ![j] = Running(r)]
    /\ run' = [run EXCEPT ![r] = [Idle EXCEPT !.pc = pc, !.job = j]]
    /\ UNCHANGED <<link, series>>

\* Slip: a row that failed is not selected again.
ClaimFresh(r, j, pc) ==
    /\ run[r].pc = "idle"
    /\ Due(j) /\ job[j].status # "retry"
    /\ job' = [job EXCEPT ![j] = Running(r)]
    /\ run' = [run EXCEPT ![r] = [Idle EXCEPT !.pc = pc, !.job = j]]
    /\ UNCHANGED <<link, series>>

\* claim_manga_companion_jobs: a fresh token for a due row.  A run that was
\* handed the row starts at renew0; one that scheduled it itself, at renew1.
Claim(r, j, pc) ==
    /\ run[r].pc = "idle"
    /\ Due(j)
    /\ job' = [job EXCEPT ![j] = Running(r)]
    /\ run' = [run EXCEPT ![r] = [Idle EXCEPT !.pc = pc, !.job = j]]
    /\ UNCHANGED <<link, series>>

\* launch_pending (of one job, when a series is added) and the synchronous path
\* of reconcile_existing_manga_companions claim the job that they scheduled.
Launch(r, j) == Claim(r, j, "renew0") \/ Claim(r, j, "renew1")

\* process_pending and the start of the web process claim the oldest due row.
ProcessPending(r, j) ==
    /\ \A k \in Jobs : Age[k] < Age[j] => ~Due(k)
    /\ Claim(r, j, "renew0")

--------------------------------------------------------------------------------
(* The steps of a run.                                                      *)

AfterRenew == [renew0 |-> "preflight", renew1 |-> "slot", renew2 |-> "stub", renew3 |-> "add"]

\* renew_manga_companion_job_lease at one of four points; the heartbeat thread
\* starts after the second.
Renew(r) ==
    LET j == run[r].job IN
    /\ run[r].pc \in DOMAIN AfterRenew
    /\ IF Leased(r, j)
       THEN /\ job' = [job EXCEPT ![j].timer = Lease]
            /\ run' = [run EXCEPT ![r].pc = AfterRenew[@],
                                  ![r].beat = @ \/ run[r].pc = "renew1"]
       ELSE Fail(r) /\ UNCHANGED job
    /\ UNCHANGED <<link, series>>

\* preflight_manga_companion_candidate: a call to the other provider.
Preflight(r) ==
    /\ run[r].pc = "preflight"
    /\ Goto(r, "renew1")
    /\ UNCHANGED <<job, link, series>>

TakeSlot(r) ==
    /\ run[r].pc = "slot"
    /\ Cardinality({s \in Runs : ProcOf[s] = ProcOf[r] /\ run[s].pc \in InSlot}) < Slots
    /\ Goto(r, "renew2")
    /\ UNCHANGED <<job, link, series>>

\* _ensure_manga_companion_series_stub: upsert_series writes monitored = 0, also
\* over a series that is there already.
Stub(r) ==
    /\ run[r].pc = "stub"
    /\ series' = [series EXCEPT ![run[r].job] = "unmonitored"]
    /\ run' = [run EXCEPT ![r].pc = "link", ![r].known = TRUE]
    /\ UNCHANGED <<job, link>>

\* upsert_manga_companion_link(status="preparing") asks neither for the lease nor
\* for the status that the link has.
PersistLink(r) ==
    /\ run[r].pc = "link"
    /\ link' = [link EXCEPT ![run[r].job] = "preparing"]
    /\ Goto(r, "renew3")
    /\ UNCHANGED <<job, series>>

\* _add_mangadex_series_native or _add_comic_series_native: the catalog is written
\* monitored, then the wanted items; the call may raise after the catalog.
NativeAdd(r) ==
    /\ run[r].pc = "add"
    /\ series' = [series EXCEPT ![run[r].job] = "monitored"]
    /\ Goto(r, "activate") \/ Fail(r)
    /\ UNCHANGED <<job, link>>

\* Slip: the link is activated without looking at the lease.
ActivateAnyway(r) ==
    LET j == run[r].job IN
    /\ run[r].pc = "activate"
    /\ IF link[j] = "preparing"
       THEN /\ link' = [link EXCEPT ![j] = "linked"]
            /\ job' = [job EXCEPT ![j] = IF Owns(r, j) THEN Completed ELSE @]
            /\ run' = [run EXCEPT ![r] = Idle]
       ELSE Fail(r) /\ UNCHANGED <<job, link>>
    /\ UNCHANGED series

\* activate_manga_companion_link_and_finish_job.
Activate(r) ==
    LET j == run[r].job IN
    /\ run[r].pc = "activate"
    /\ IF Leased(r, j) /\ link[j] = "preparing"
       THEN /\ link' = [link EXCEPT ![j] = "linked"]
            /\ job' = [job EXCEPT ![j] = Completed]
            /\ run' = [run EXCEPT ![r] = Idle]
       ELSE Fail(r) /\ UNCHANGED <<job, link>>
    /\ UNCHANGED series

\* Any call above may raise: a provider that does not answer, a database that
\* stays busy, a title that does not match, a link that is refused.
Raise(r) ==
    /\ run[r].pc \in Working \ {"slot"}
    /\ Fail(r)
    /\ UNCHANGED <<job, link, series>>

\* Slip: the token is not asked for.
FinishAnyway(r) ==
    LET j == run[r].job IN
    /\ run[r].pc = "finish"
    /\ job' = [job EXCEPT ![j] = Waiting]
    /\ run' = [run EXCEPT ![r] = IF run[r].known THEN [@ EXCEPT !.pc = "park"] ELSE Idle]
    /\ UNCHANGED <<link, series>>

\* finish_manga_companion_job(ok=False): asks for the token, not for the expiry.
Finish(r) ==
    LET j == run[r].job IN
    /\ run[r].pc = "finish"
    /\ IF Owns(r, j)
       THEN /\ job' = [job EXCEPT ![j] = Waiting]
            /\ run' = [run EXCEPT ![r] = IF run[r].known THEN [@ EXCEPT !.pc = "park"] ELSE Idle]
       ELSE run' = [run EXCEPT ![r] = Idle] /\ UNCHANGED job
    /\ UNCHANGED <<link, series>>

\* park_failed_manga_companion_setup, a transaction of its own, by series id.
Park(r) ==
    LET j == run[r].job IN
    /\ run[r].pc = "park"
    /\ series' = [series EXCEPT ![j] = "unmonitored"]
    /\ link' = [link EXCEPT ![j] = IF @ = "none" THEN @ ELSE "preparing"]
    /\ run' = [run EXCEPT ![r] = Idle]
    /\ UNCHANGED job

\* Slip: a renewal adds to the expiry instead of counting from now.
HeartbeatAdds(r) ==
    /\ run[r].beat /\ Leased(r, run[r].job)
    /\ job' = [job EXCEPT ![run[r].job].timer = @ + Lease]
    /\ UNCHANGED <<link, series, run>>

\* _manga_companion_lease_heartbeat: one more beat, every 30 seconds; the thread
\* ends when the lease is lost, or when its database call raises.
HeartbeatRenews(r) ==
    /\ run[r].beat /\ Leased(r, run[r].job)
    /\ job' = [job EXCEPT ![run[r].job].timer = Lease]
    /\ UNCHANGED <<link, series, run>>
HeartbeatEnds(r) ==
    /\ run[r].beat
    /\ run' = [run EXCEPT ![r].beat = FALSE]
    /\ UNCHANGED <<job, link, series>>

--------------------------------------------------------------------------------
(* Faults and time.                                                         *)

\* The exception of finish or park is caught by nobody: the thread ends.
RunDies(r) ==
    /\ run[r].pc \in {"finish", "park"}
    /\ run' = [run EXCEPT ![r] = Idle]
    /\ UNCHANGED <<job, link, series>>

\* A process goes down with its runs and their heartbeats.
Crash(p) ==
    /\ \E r \in Runs : ProcOf[r] = p /\ run[r] # Idle
    /\ run' = [r \in Runs |-> IF ProcOf[r] = p THEN Idle ELSE run[r]]
    /\ UNCHANGED <<job, link, series>>

Tick ==
    /\ \E j \in Jobs : job[j].timer > 0
    /\ job' = [j \in Jobs |-> IF job[j].timer > 0 THEN [job[j] EXCEPT !.timer = @ - 1] ELSE job[j]]
    /\ UNCHANGED <<link, series, run>>

RunStep(r) ==
    \/ Renew(r) \/ Preflight(r) \/ TakeSlot(r) \/ Stub(r) \/ PersistLink(r)
    \/ NativeAdd(r) \/ Activate(r) \/ Raise(r) \/ Finish(r) \/ Park(r)

Next ==
    \/ \E j \in Jobs : Schedule(j)
    \/ \E r \in Runs, j \in Jobs : Launch(r, j) \/ ProcessPending(r, j)
    \/ \E r \in Runs : RunStep(r) \/ HeartbeatRenews(r) \/ HeartbeatEnds(r) \/ RunDies(r)
    \/ \E p \in Procs : Crash(p)
    \/ Tick

Spec == Init /\ [][Next]_vars

(* Fairness.  The thread of a run makes progress: its calls return or raise.  *)
(* Time passes.  The maintenance pass of the autopilot comes round for ever   *)
(* and claims the oldest due row; a run is free now and then, not always.     *)
FairSpec ==
    /\ Spec
    /\ \A r \in Runs : WF_vars(RunStep(r))
    /\ \A j \in Jobs : SF_vars(\E r \in Runs : ProcessPending(r, j))
    /\ WF_vars(Tick)

--------------------------------------------------------------------------------
(* Properties.                                                              *)

TypeOK ==
    /\ job \in [Jobs -> [status : {"none", "scheduled", "running", "retry", "completed"},
                         token : Runs \cup {None}, timer : 0..(Lease + Retry)]]
    /\ link \in [Jobs -> {"none", "preparing", "linked"}]
    /\ series \in [Jobs -> {"absent", "unmonitored", "monitored"}]
    /\ run \in [Runs -> [pc : Pc, job : Jobs \cup {None}, beat : BOOLEAN, known : BOOLEAN]]

\* A pair is linked only when its job is completed.  The two rows are written by
\* seven functions; schedule_manga_companion_job answers "completed" from the link
\* alone, and a job that is open beside a linked pair would be claimed and run again.
LinkedMeansCompleted ==
    \A j \in Jobs : link[j] = "linked" => job[j].status = "completed"

\* While its lease runs a job leaves its holder only by the holder's own finish or
\* activation: no claim, no schedule and no other run, however late, takes it away.
OnlyHolderEnds ==
    [][\A j \in Jobs, r \in Runs :
         (Leased(r, j) /\ ~Owns(r, j)')
            => run[r].pc \in {"finish", "activate"} /\ run[r].job = j /\ run'[r] # run[r]]_vars

\* manga_companion_jobs is a table of leased work.
Leasing == INSTANCE LeasedWork WITH
    Work <- Jobs, Holders <- Runs, Nobody <- None,
    posted <- {j \in Jobs : job[j].status # "none"},
    holder <- [j \in Jobs |-> job[j].token],
    lapsed <- {j \in Jobs : job[j].status = "running" /\ job[j].timer = 0},
    done <- {j \in Jobs : job[j].status = "completed"}
ImplementsLeasedWork == Leasing!Spec

\* A job whose holder is gone: the run returned, died or went down with its process.
Orphaned(j) ==
    /\ job[j].status = "running"
    /\ \A r \in Runs : job[j].token = r => run[r].job # j
Oldest(j) == \A k \in Jobs : Age[k] < Age[j] => job[k].status = "completed"

\* A job orphaned by a crash or by a failed finish is taken up again.  Only for the
\* oldest open job: process_pending orders by creation and takes one.
OrphanTakenUp == \A j \in Jobs : (Orphaned(j) /\ Oldest(j)) ~> ~Orphaned(j)

\* A job that was scheduled, or waits for a retry, is claimed some time.
DueJobClaimed ==
    \A j \in Jobs : (job[j].status \in {"scheduled", "retry"} /\ Oldest(j))
                       ~> job[j].status = "running"
================================================================================
