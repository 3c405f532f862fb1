--------------------------- MODULE SchedulerRestore ---------------------------
(***************************************************************************)
(* The container scheduler and the restore of a backup.  Both write the    *)
(* state databases: the scheduler through the jobs that it runs, a restore *)
(* by replacing the databases under everybody.  Two lock files keep them   *)
(* apart.  A scheduler takes the jobs lock only while it holds the restore *)
(* lock, and keeps it as long as a job runs; a restore keeps the restore   *)
(* lock throughout and goes on only if it finds the jobs lock free.        *)
(*                                                                         *)
(* A restore copies the databases one after the other, each in one SQLite  *)
(* transaction; a copy that fails puts back those that were copied before. *)
(* The web process and jobs started by hand write meanwhile; no lock keeps *)
(* them away.                                                              *)
(*                                                                         *)
(* The model is the live install, with an archive that holds every         *)
(* database.  A restore runs once; a scheduler may be stopped or killed,   *)
(* and takes its jobs with it (it is the container's init process).        *)
(***************************************************************************)
EXTENDS Integers, Sequences, FiniteSets

CONSTANTS
    Scheds,   \* scheduler processes (one is meant to run)
    Jobs,     \* scheduled jobs
    Critical, \* the jobs that go first
    MaxConc,  \* INKDROP_SCHEDULER_MAX_CONCURRENCY (3)
    Restores, \* calls of restore_backup_archive with apply
    Probes,   \* previews, that only report
    Copies,   \* the databases that a restore replaces, in order
    MaxAcks,  \* bound on the commits of other writers to a database
    None, Gone

ASSUME ConstAssumption ==
    /\ Critical \subseteq Jobs /\ IsFiniteSet(Jobs)
    /\ MaxConc \in Nat \ {0} /\ MaxAcks \in Nat
    /\ Scheds \cap Restores = {} /\ (Scheds \cup Restores) \cap Probes = {}
    /\ None \notin Scheds \cup Restores \cup Probes
    /\ Gone \notin Restores \cup {None}

ASSUME CopiesAssumption ==
    /\ Len(Copies) \in Nat \ {0}
    /\ \A i, j \in 1..Len(Copies) : Copies[i] = Copies[j] => i = j

VARIABLES
    rlock,  \* who holds inkdrop-restore.lock
    jlock,  \* who holds inkdrop-scheduler-jobs.lock
    fresh,  \* the status file shows a heartbeat that counts as live
    byhand, \* a job that somebody started by hand holds a lock of its own
    sched,  \* local state of a scheduler
    rest,   \* local state of a restore
    db,     \* the databases
    acks    \* the commits of other writers that were acknowledged

locks == <<rlock, jlock>>
signs == <<fresh, byhand>>
data == <<db, acks>>
vars == <<rlock, jlock, fresh, byhand, sched, rest, db, acks>>

--------------------------------------------------------------------------------
Dbs == {Copies[i] : i \in 1..Len(Copies)}

\* pc; keep: the handle of the jobs lock; active: the jobs that count as active;
\* running: those whose thread has not ended; due: the place of a due job among
\* those that are due, oldest first, else 0; go: new jobs may start in this tick.
SchedPc == {"down", "tick", "jobs", "leave", "start", "status"}
Down == [pc |-> "down", keep |-> FALSE, active |-> {}, running |-> {}, due |-> [j \in Jobs |-> 0], go |-> FALSE]

\* pc; pass: first or second gate; at: the database it is at; raw: those SQLite
\* cannot read; kept: the snapshots; done: those whose copy has committed; out:
\* what the failure reports of each.
Held == {"beat", "probe", "drop", "stage", "idle", "snap", "copy", "undo", "config"}
Swapping == {"idle", "snap", "copy", "undo", "config"}
Ended == {"done", "refused", "failed", "crashed"}
Outcome == {"none", "ok", "error", "unchanged", "removed"}
Untouched == [base |-> None, gen |-> 0]
New == [pc |-> "new", pass |-> 1, at |-> 1, raw |-> {}, kept |-> [d \in Dbs |-> Untouched],
        done |-> {}, out |-> [d \in Dbs |-> "none"]]

\* A database: whose content it is (None: what was there; Gone: a new file), the
\* commits since, an open write transaction, and whether SQLite can read it.
Init ==
    /\ rlock = None /\ jlock = None
    /\ fresh = FALSE /\ byhand = FALSE
    /\ sched = [s \in Scheds |-> Down]
    /\ rest = [r \in Restores |-> New]
    /\ \E bad \in SUBSET Dbs :
         db = [d \in Dbs |-> [base |-> None, gen |-> 0, busy |-> FALSE, readable |-> d \notin bad]]
    /\ acks = [d \in Dbs |-> 0]

--------------------------------------------------------------------------------
(* The scheduler.                                                           *)

SchedGoes(s, pc) == sched' = [sched EXCEPT ![s].pc = pc]
DueJobs(s) == {j \in Jobs : sched[s].due[j] > 0}

\* main starts.
Start(s) ==
    /\ sched[s].pc = "down"
    /\ sched' = [sched EXCEPT ![s] = [Down EXCEPT !.pc = "tick"]]
    /\ UNCHANGED <<locks, signs, rest, data>>

\* next_run_at passes; the loop looks at the clock once per tick.
BecomesDue(s, j) ==
    /\ sched[s].pc = "tick"
    /\ j \notin sched[s].active \cup DueJobs(s)
    /\ sched' = [sched EXCEPT ![s].due[j] = 1 + Cardinality(DueJobs(s))]
    /\ UNCHANGED <<locks, signs, rest, data>>

\* The thread of a job puts its result in the queue; the loop drains the queue.
JobEnds(s, j) ==
    /\ j \in sched[s].running
    /\ sched' = [sched EXCEPT ![s].running = @ \ {j}]
    /\ UNCHANGED <<locks, signs, rest, data>>

Drain(s) ==
    /\ sched[s].pc = "tick" /\ sched[s].active # sched[s].running
    /\ sched' = [sched EXCEPT ![s].active = sched[s].running]
    /\ UNCHANGED <<locks, signs, rest, data>>

\* due[:available]: critical jobs before others, then the longest due.
Before(s, i, j) ==
    \/ i \in Critical /\ j \notin Critical
    \/ (i \in Critical <=> j \in Critical) /\ sched[s].due[i] < sched[s].due[j]
ToStart(s) ==
    {j \in DueJobs(s) :
        Cardinality(sched[s].active) + Cardinality({i \in DueJobs(s) : Before(s, i, j)}) < MaxConc}
Wait(s, batch) ==
    LET left == DueJobs(s) \ batch IN
    [j \in Jobs |-> IF j \in left
                    THEN Cardinality({i \in left : sched[s].due[i] <= sched[s].due[j]}) ELSE 0]

\* claim_jobs_lock tries the restore lock, without waiting, when a job is to start.
TakeRestoreLock(s) ==
    /\ sched[s].pc = "tick" /\ sched[s].active = sched[s].running
    /\ ToStart(s) # {} /\ rlock = None
    /\ rlock' = s
    /\ SchedGoes(s, "jobs")
    /\ UNCHANGED <<jlock, signs, rest, data>>

\* Nothing to start, the restore lock is held, or the lock directory is unusable.
StartsNothing(s) ==
    /\ sched[s].pc = "tick" /\ sched[s].active = sched[s].running
    /\ SchedGoes(s, "status")
    /\ UNCHANGED <<locks, signs, rest, data>>

\* Under the restore lock: a handle already held will do, else the jobs lock is tried.
TakeJobsLock(s) ==
    /\ sched[s].pc = "jobs" /\ (sched[s].keep \/ jlock = None)
    /\ jlock' = s
    /\ sched' = [sched EXCEPT ![s].pc = "leave", ![s].keep = TRUE, ![s].go = TRUE]
    /\ UNCHANGED <<rlock, signs, rest, data>>

JobsLockFails(s) ==
    /\ sched[s].pc = "jobs" /\ ~sched[s].keep
    /\ SchedGoes(s, "leave")
    /\ UNCHANGED <<locks, signs, rest, data>>

ReleaseRestoreLock(s) ==
    /\ sched[s].pc = "leave"
    /\ rlock' = None
    /\ SchedGoes(s, IF sched[s].go THEN "start" ELSE "status")
    /\ UNCHANGED <<jlock, signs, rest, data>>

StartJobs(s) ==
    LET batch == ToStart(s) IN
    /\ sched[s].pc = "start"
    /\ sched' = [sched EXCEPT ![s] = [pc |-> "status", keep |-> @.keep, active |-> @.active \cup batch,
           running |-> @.running \cup batch, due |-> Wait(s, batch), go |-> FALSE]]
    /\ UNCHANGED <<locks, signs, rest, data>>

\* Slip: the jobs lock is closed at the end of every tick.
SlipEndTick(s) ==
    /\ sched[s].pc = "status"
    /\ jlock' = IF jlock = s THEN None ELSE jlock
    /\ sched' = [sched EXCEPT ![s].pc = "tick", ![s].keep = FALSE]
    /\ UNCHANGED <<rlock, signs, rest, data>>

\* The jobs lock is closed when no job is active; a heartbeat is written if one is due.
EndTick(s) ==
    /\ sched[s].pc = "status"
    /\ IF sched[s].keep /\ sched[s].active = {}
       THEN jlock' = None /\ sched' = [sched EXCEPT ![s].pc = "tick", ![s].keep = FALSE]
       ELSE SchedGoes(s, "tick") /\ UNCHANGED jlock
    /\ fresh' \in {fresh, TRUE}
    /\ UNCHANGED <<rlock, byhand, rest, data>>

\* SIGTERM is seen at the top of the loop and leaves a heartbeat; a kill leaves none.
\* Either way the process ends, its locks are free and its jobs are gone.
Stop(s) ==
    /\ sched[s].pc # "down"
    /\ rlock' = IF rlock = s THEN None ELSE rlock
    /\ jlock' = IF jlock = s THEN None ELSE jlock
    /\ sched' = [sched EXCEPT ![s] = Down]
    /\ fresh' \in IF sched[s].pc = "tick" THEN {fresh, TRUE} ELSE {fresh}
    /\ UNCHANGED <<byhand, rest, data>>

--------------------------------------------------------------------------------
(* What the gate of a restore looks at, and the other writers.              *)

\* Heartbeats age past the window, that of a live but slow scheduler too.
GoesStale ==
    /\ fresh
    /\ fresh' = FALSE
    /\ UNCHANGED <<locks, byhand, sched, rest, data>>

ByHand ==
    /\ byhand' = ~byhand
    /\ UNCHANGED <<locks, fresh, sched, rest, data>>

\* _probe_one_lock of a preview takes the jobs lock and drops it at once.
Peek(p) ==
    /\ jlock = None
    /\ jlock' = p
    /\ UNCHANGED <<rlock, signs, sched, rest, data>>
Unpeek(p) ==
    /\ jlock = p
    /\ jlock' = None
    /\ UNCHANGED <<rlock, signs, sched, rest, data>>

BeginWrite(d) ==
    /\ db[d].readable /\ ~db[d].busy /\ acks[d] < MaxAcks
    /\ db' = [db EXCEPT ![d].busy = TRUE]
    /\ UNCHANGED <<locks, signs, sched, rest, acks>>
CommitWrite(d) ==
    /\ db[d].busy
    /\ db' = [db EXCEPT ![d].busy = FALSE, ![d].gen = @ + 1]
    /\ acks' = [acks EXCEPT ![d] = @ + 1]
    /\ UNCHANGED <<locks, signs, sched, rest>>

--------------------------------------------------------------------------------
(* A restore.                                                               *)

Target(r) == Copies[rest[r].at]
RestGoes(r, pc) == rest' = [rest EXCEPT ![r].pc = pc]

\* Slip: the lock is closed only by a restore that returns.
SlipEnds(r, pc) == rlock' = (IF pc = "done" THEN None ELSE rlock) /\ RestGoes(r, pc)

\* It returns or raises: the restore lock is closed.
Ends(r, pc) == rlock' = None /\ RestGoes(r, pc)

\* Slip: one database too many.
SlipNextOr(row, pc) ==
    IF row.at <= Len(Copies) THEN [row EXCEPT !.at = @ + 1] ELSE [row EXCEPT !.at = 1, !.pc = pc]

\* On to the next database, or to the step after the last one.
NextOr(row, pc) ==
    IF row.at < Len(Copies) THEN [row EXCEPT !.at = @ + 1] ELSE [row EXCEPT !.at = 1, !.pc = pc]

\* Slip: the lock is not looked at.
SlipHoldRestoreLock(r) ==
    /\ rest[r].pc = "new"
    /\ rlock' = r /\ RestGoes(r, "beat")
    /\ UNCHANGED <<jlock, signs, sched, data>>

\* hold_restore_lock
HoldRestoreLock(r) ==
    /\ rest[r].pc = "new"
    /\ IF rlock = None
       THEN rlock' = r /\ RestGoes(r, "beat")
       ELSE UNCHANGED rlock /\ RestGoes(r, "refused")
    /\ UNCHANGED <<jlock, signs, sched, data>>

\* probe_restore_quiescence: the heartbeat first, then every lock file but its own.
CheckHeartbeat(r) ==
    /\ rest[r].pc = "beat"
    /\ IF fresh THEN Ends(r, "refused") ELSE RestGoes(r, "probe") /\ UNCHANGED rlock
    /\ UNCHANGED <<jlock, signs, sched, data>>
ProbeLocks(r) ==
    /\ rest[r].pc = "probe"
    /\ IF jlock = None /\ ~byhand
       THEN jlock' = r /\ RestGoes(r, "drop") /\ UNCHANGED rlock
       ELSE Ends(r, "refused") /\ UNCHANGED jlock
    /\ UNCHANGED <<signs, sched, data>>
DropProbe(r) ==
    /\ rest[r].pc = "drop"
    /\ jlock' = None
    /\ RestGoes(r, IF rest[r].pass = 1 THEN "stage" ELSE "idle")
    /\ UNCHANGED <<rlock, signs, sched, data>>

\* The members are staged and validated, which takes minutes or fails; then the
\* gate is run again.
Stage(r) ==
    /\ rest[r].pc = "stage"
    /\ \/ rest' = [rest EXCEPT ![r].pc = "beat", ![r].pass = 2] /\ UNCHANGED rlock
       \/ Ends(r, "failed")
    /\ UNCHANGED <<jlock, signs, sched, data>>

\* _require_databases_idle: BEGIN IMMEDIATE and ROLLBACK on each target.
CheckIdle(r) ==
    LET d == Target(r)
        seen == [rest[r] EXCEPT !.raw = IF db[d].readable THEN @ ELSE @ \cup {d}]
    IN /\ rest[r].pc = "idle"
       /\ IF db[d].busy THEN Ends(r, "refused")
          ELSE rest' = [rest EXCEPT ![r] = NextOr(seen, "snap")] /\ UNCHANGED rlock
       /\ UNCHANGED <<jlock, signs, sched, data>>

\* _snapshot_existing_file: the committed content, whoever writes meanwhile.
Snapshot(r) ==
    LET d == Target(r)
        taken == [rest[r] EXCEPT !.kept[d] = [base |-> db[d].base, gen |-> db[d].gen]]
    IN /\ rest[r].pc = "snap"
       /\ \/ rest' = [rest EXCEPT ![r] = NextOr(taken, "copy")] /\ UNCHANGED rlock
          \/ Ends(r, "failed")
       /\ UNCHANGED <<jlock, signs, sched, data>>

\* The live file of an unreadable database is removed before its copy.
Unlink(r) ==
    LET d == Target(r) IN
    /\ rest[r].pc = "copy" /\ d \in rest[r].raw /\ ~db[d].readable
    /\ db' = [db EXCEPT ![d] = [base |-> Gone, gen |-> 0, busy |-> FALSE, readable |-> TRUE]]
    /\ UNCHANGED <<locks, signs, sched, rest, acks>>

\* The file cannot be removed, or only it and not its journals: the restore undoes the
\* databases before this one, which it has not counted as attempted.
UnlinkFails(r) ==
    LET d == Target(r) IN
    /\ rest[r].pc = "copy" /\ d \in rest[r].raw /\ ~db[d].readable
    /\ db' \in {db, [db EXCEPT ![d] = [base |-> Gone, gen |-> 0, busy |-> FALSE, readable |-> TRUE]]}
    /\ \/ rest[r].at = 1 /\ Ends(r, "failed")
       \/ rest[r].at > 1 /\ rest' = [rest EXCEPT ![r].pc = "undo", ![r].at = @ - 1] /\ UNCHANGED rlock
    /\ UNCHANGED <<jlock, signs, sched, acks>>

\* Puts a content into a database, in one transaction of its own.
Put(d, base, gen) ==
    /\ ~db[d].busy
    /\ db' = [db EXCEPT ![d].base = base, ![d].gen = gen]

\* Slip: a copy counts once it has returned, not once it has committed.
SlipCopyDb(r) ==
    LET d == Target(r)
        returned == [rest[r] EXCEPT !.done = @ \cup {d}]
    IN /\ rest[r].pc = "copy" /\ db[d].readable
       /\ Put(d, r, 0)
       /\ rest' \in {[rest EXCEPT ![r] = row] :
              row \in {NextOr(returned, "config"), [rest[r] EXCEPT !.pc = "undo"]}}
       /\ UNCHANGED <<locks, signs, sched, acks>>

\* _copy_database_into with on_commit: once committed, the check of the journal
\* mode can still fail.
CopyDb(r) ==
    LET d == Target(r)
        committed == [rest[r] EXCEPT !.done = @ \cup {d}]
    IN /\ rest[r].pc = "copy" /\ db[d].readable
       /\ Put(d, r, 0)
       /\ rest' \in {[rest EXCEPT ![r] = row] :
              row \in {NextOr(committed, "config"), [committed EXCEPT !.pc = "undo"]}}
       /\ UNCHANGED <<locks, signs, sched, acks>>

\* The target stayed locked, or the staged file is corrupt past its header.
CopyGivesUp(r) ==
    /\ rest[r].pc = "copy" /\ db[Target(r)].readable
    /\ RestGoes(r, "undo")
    /\ UNCHANGED <<locks, signs, sched, data>>

\* The databases that were attempted, in their order; at is the last of them.
Undoing(r) == Copies[1 + Cardinality({d \in Dbs : rest[r].out[d] # "none"})]
Reports(r, d, what) ==
    IF d = Target(r)
    THEN rest' = [rest EXCEPT ![r].out[d] = what, ![r].pc = "failed"] /\ rlock' = None
    ELSE rest' = [rest EXCEPT ![r].out[d] = what] /\ UNCHANGED rlock

\* Slip: a file that was removed is reported like a copy that did not commit.
SlipUndoNothing(r) ==
    LET d == Undoing(r) IN
    /\ rest[r].pc = "undo" /\ (d \in rest[r].raw \/ d \notin rest[r].done)
    /\ Reports(r, d, "unchanged")
    /\ UNCHANGED <<jlock, signs, sched, data>>

UndoNothing(r) ==
    LET d == Undoing(r) IN
    /\ rest[r].pc = "undo" /\ (d \in rest[r].raw \/ d \notin rest[r].done)
    /\ Reports(r, d, IF d \in rest[r].raw THEN "removed" ELSE "unchanged")
    /\ UNCHANGED <<jlock, signs, sched, data>>

\* Slip: whatever was attempted is put back.
SlipUndoCopy(r) ==
    LET d == Undoing(r) IN
    /\ rest[r].pc = "undo" /\ d \notin rest[r].raw
    /\ \/ Put(d, rest[r].kept[d].base, rest[r].kept[d].gen) /\ Reports(r, d, "ok")
       \/ Reports(r, d, "error") /\ UNCHANGED db
    /\ UNCHANGED <<jlock, signs, sched, acks>>

\* A copy that fails may have committed all the same.
UndoCopy(r) ==
    LET d == Undoing(r) IN
    /\ rest[r].pc = "undo" /\ d \notin rest[r].raw /\ d \in rest[r].done
    /\ \/ /\ Put(d, rest[r].kept[d].base, rest[r].kept[d].gen)
          /\ Reports(r, d, "ok") \/ Reports(r, d, "error")
       \/ Reports(r, d, "error") /\ UNCHANGED db
    /\ UNCHANGED <<jlock, signs, sched, acks>>

\* The two config files are replaced.  A failure raises as it is: the databases
\* that were copied stay as they are.
ReplaceConfig(r) ==
    /\ rest[r].pc = "config"
    /\ Ends(r, "done") \/ Ends(r, "failed")
    /\ UNCHANGED <<jlock, signs, sched, data>>

\* The process dies: its locks are free, its transaction is rolled back.
Crash(r) ==
    /\ rest[r].pc \in Held
    /\ Ends(r, "crashed")
    /\ jlock' = IF jlock = r THEN None ELSE jlock
    /\ UNCHANGED <<signs, sched, data>>

--------------------------------------------------------------------------------
SchedStep(s) ==
    \/ Start(s) \/ Drain(s) \/ TakeRestoreLock(s) \/ StartsNothing(s) \/ TakeJobsLock(s)
    \/ JobsLockFails(s) \/ ReleaseRestoreLock(s) \/ StartJobs(s) \/ EndTick(s) \/ Stop(s)
    \/ \E j \in Jobs : BecomesDue(s, j) \/ JobEnds(s, j)

Gate(r) == HoldRestoreLock(r) \/ CheckHeartbeat(r) \/ ProbeLocks(r) \/ DropProbe(r)
Swap(r) ==
    \/ Stage(r) \/ CheckIdle(r) \/ Snapshot(r) \/ Unlink(r) \/ UnlinkFails(r) \/ CopyDb(r) \/ CopyGivesUp(r)
    \/ UndoNothing(r) \/ UndoCopy(r) \/ ReplaceConfig(r)
RestStep(r) == Gate(r) \/ Swap(r)

Outside ==
    \/ GoesStale \/ ByHand
    \/ \E p \in Probes : Peek(p) \/ Unpeek(p)
    \/ \E d \in Dbs : BeginWrite(d) \/ CommitWrite(d)

Next ==
    \/ \E s \in Scheds : SchedStep(s)
    \/ \E r \in Restores : RestStep(r) \/ Crash(r)
    \/ Outside

Spec == Init /\ [][Next]_vars

\* A running scheduler goes round its loop, jobs end (run_job stops them at their
\* timeout), a restore goes on once it has the lock, and a lock that is free again
\* and again is had at last.
Loops(s) == StartsNothing(s) \/ JobsLockFails(s) \/ ReleaseRestoreLock(s) \/ StartJobs(s) \/ EndTick(s) \/ Drain(s)
Fairness ==
    /\ \A s \in Scheds :
        /\ WF_vars(Loops(s)) /\ \A j \in Jobs : WF_vars(JobEnds(s, j))
        /\ SF_vars(TakeRestoreLock(s)) /\ SF_vars(TakeJobsLock(s))
    /\ \A r \in Restores : WF_vars(RestStep(r) /\ rest[r].pc # "new")
    /\ \A p \in Probes : WF_vars(Unpeek(p))
FairSpec == Spec /\ Fairness

--------------------------------------------------------------------------------
(* Properties.                                                              *)

SchedRows == [pc : SchedPc, keep : BOOLEAN, active : SUBSET Jobs, running : SUBSET Jobs,
              due : [Jobs -> Nat], go : BOOLEAN]
Contents == Restores \cup {None, Gone}
Snapshots == [Dbs -> [base : Contents, gen : Nat]]
RestRows == [pc : {"new"} \cup Held \cup Ended, pass : {1, 2}, at : 1..Len(Copies), raw : SUBSET Dbs,
             kept : Snapshots, done : SUBSET Dbs, out : [Dbs -> Outcome]]
TypeOK ==
    /\ rlock \in Scheds \cup Restores \cup {None}
    /\ jlock \in Scheds \cup Restores \cup Probes \cup {None}
    /\ fresh \in BOOLEAN /\ byhand \in BOOLEAN
    /\ sched \in [Scheds -> SchedRows] /\ \A s \in Scheds : sched[s].running \subseteq sched[s].active
    /\ rest \in [Restores -> RestRows]
    /\ db \in [Dbs -> [base : Contents, gen : Nat, busy : BOOLEAN, readable : BOOLEAN]]
    /\ acks \in [Dbs -> Nat]

\* What the two locks are for (claim_jobs_lock, _holding_restore_lock): from the
\* second gate to the end of the restore no scheduler has a job running and no other
\* restore is at the databases, however old the heartbeat looks and whoever dies.
Working == {s \in Scheds : sched[s].running # {}}
SwappingRestores == {r \in Restores : rest[r].pc \in Swapping}
Abstract == INSTANCE WorkOrSwap WITH
    Schedulers <- Scheds, Swappers <- Restores, working <- Working, swapping <- SwappingRestores
ImplementsWorkOrSwap == Abstract!Spec

\* "putting the snapshot back would erase what other writers committed since": as
\* long as no restore's copy has committed into a database and none has removed its
\* file, it has every commit of the other writers, failed restores notwithstanding.
UncopiedKeepsWrites ==
    \A d \in Dbs :
        (\A r \in Restores : d \notin rest[r].done \cup rest[r].raw)
            => db[d].base = None /\ db[d].gen = acks[d]

\* "a caller can tell a database it changed from one it did not": while the failure
\* is being undone and when it is reported, a database said to be unchanged or put
\* back does not have the content of the archive.
ReportIsTrue ==
    \A r \in Restores, d \in Dbs :
        rest[r].out[d] \in {"ok", "unchanged"} => db[d].base # r

\* A restore that returns leaves one archive behind: every database has its content
\* at that moment, whatever other restores and other writers did.
DoneIsWhole ==
    [][\A r \in Restores :
        rest[r].pc # "done" /\ rest'[r].pc = "done" => \A d \in Dbs : db[d].base = r]_vars

\* A critical job that is due gets started, or its scheduler is gone: neither a
\* restore that comes and dies nor a lock left behind holds jobs back for ever.
CriticalJobStarts ==
    \A s \in Scheds, j \in Critical :
        j \in DueJobs(s) ~> (j \in sched[s].active \/ sched[s].pc = "down")

================================================================================
