--------------------------- MODULE NotificationScan ---------------------------
(***************************************************************************)
(* The scan that turns download tasks into "grabbed" and "download failed" *)
(* notifications.  It reads the rows of download_tasks past a durable      *)
(* cursor, in the order of updated_at; takes a short lease on a flag of    *)
(* each row; hands the event to the delivery pipeline; sets the flag when  *)
(* the outcome is recorded; and moves the cursor past what is settled.     *)
(*                                                                         *)
(* Two runs of the job may overlap (claim_watch_flag says so), a run may   *)
(* die at any step, and the tables are written meanwhile by everybody: a   *)
(* writer takes its timestamp first and commits when it gets the lock.     *)
(*                                                                         *)
(* Timestamps are all different.  A lease runs out at any moment.  The     *)
(* rows are those that report: a failed task has retry_eligible = 0.       *)
(***************************************************************************)
EXTENDS Integers, FiniteSets

CONSTANTS
    Tasks,     \* rows of download_tasks
    Scanners,  \* runs of the notification-dispatch job
    Batch,     \* DOWNLOAD_TASK_SCAN_LIMIT (500)
    MaxStamp,  \* bound on the timestamps that are taken
    MaxFaults  \* bound on runs that die and events that are not recorded

ASSUME ConstAssumption ==
    IsFiniteSet(Tasks) /\ Batch \in Nat \ {0} /\ MaxStamp \in Nat /\ MaxFaults \in Nat

VARIABLES
    clock,    \* the last timestamp taken
    pen,      \* the timestamp a writer holds for a row that it has not committed, else 0
    row,      \* the committed rows
    cursor,   \* scan:download_tasks:watermark
    watch,    \* notification_watch_state of each task: its two flags
    recorded, \* events that have a row in notification_deliveries
    scan,     \* local state of a run
    faults

vars == <<clock, pen, row, cursor, watch, recorded, scan, faults>>
tables == <<clock, pen, row>>

--------------------------------------------------------------------------------
Flags == {"grabbed", "failed"}
Events == Tasks \X Flags
TaskStates == {"none", "downloading", "failed", "other"}
FlagOf(state) == IF state = "downloading" THEN "grabbed" ELSE "failed"
\* What the query selects.
Reports(t) == row[t].state \in {"downloading", "failed"}

\* late: a row with a later timestamp was committed before it.
NoRow == [state |-> "none", ts |-> 0, late |-> FALSE]

\* pc; start and value: the cursor as it was read and as far as it may advance;
\* blocked: it may advance no further; todo: what is left of the rows that were read.
Idle == [pc |-> "idle", start |-> 0, value |-> 0, blocked |-> FALSE, todo |-> {}]
Pc == {"idle", "select", "row", "notify", "finish", "release"}

Init ==
    /\ clock = 0 /\ cursor = 0 /\ faults = 0
    /\ pen = [t \in Tasks |-> 0]
    /\ row = [t \in Tasks |-> NoRow]
    /\ watch = [t \in Tasks |-> [f \in Flags |-> "free"]]
    /\ recorded = {}
    /\ scan = [s \in Scanners |-> Idle]

--------------------------------------------------------------------------------
(* The writers of download_tasks.                                           *)

\* observed_at = time.time(), or an older observation of the caller's.
Stamp(t) ==
    /\ pen[t] = 0 /\ clock < MaxStamp
    /\ clock' = clock + 1
    /\ pen' = [pen EXCEPT ![t] = clock + 1]
    /\ UNCHANGED <<row, cursor, watch, recorded, scan, faults>>

Late(t) == \E u \in Tasks : row[u].ts > pen[t]
\* begin immediate ... commit: another writer may have been first.
Commit(t) ==
    /\ pen[t] # 0
    /\ \E st \in TaskStates \ {"none"} :
         row' = [row EXCEPT ![t] = [state |-> st, ts |-> pen[t], late |-> Late(t)]]
    /\ pen' = [pen EXCEPT ![t] = 0]
    /\ UNCHANGED <<clock, cursor, watch, recorded, scan, faults>>

--------------------------------------------------------------------------------
(* A run of scan_grabbed_and_download_failed.                               *)

\* The row that a run is at: the one that was updated first.
At(s) == CHOOSE x \in scan[s].todo : \A y \in scan[s].todo : x.ts <= y.ts
Goto(s, pc) == scan' = [scan EXCEPT ![s] = [scan[s] EXCEPT !.pc = pc]]
Rest(s) == scan[s].todo \ {At(s)}

\* cursor.settle(row), cursor.block(): on to the next row.
Onward(s, value, blocked) ==
    scan' = [scan EXCEPT ![s] = [scan[s] EXCEPT !.pc = "row", !.todo = Rest(s),
                                                !.value = value, !.blocked = blocked]]
Settle(s) ==
    IF scan[s].blocked THEN Onward(s, scan[s].value, TRUE) ELSE Onward(s, At(s).ts, FALSE)
\* Slip: a row is left behind like any other.
SlipBlock(s) == Settle(s)
Block(s) == Onward(s, scan[s].value, TRUE)

ReadCursor(s) ==
    /\ scan[s].pc = "idle"
    /\ scan' = [scan EXCEPT ![s] = [Idle EXCEPT !.pc = "select", !.start = cursor, !.value = cursor]]
    /\ UNCHANGED <<tables, cursor, watch, recorded, faults>>

\* The first Batch rows past the cursor, with the states that they have now.
Past(s) == {t \in Tasks : Reports(t) /\ row[t].ts > scan[s].start}
First(s) == {t \in Past(s) : Cardinality({u \in Past(s) : row[u].ts < row[t].ts}) < Batch}
Seen(t) == [id |-> t, state |-> row[t].state, ts |-> row[t].ts]
Select(s) ==
    /\ scan[s].pc = "select"
    /\ scan' = [scan EXCEPT ![s] = [scan[s] EXCEPT !.pc = "row", !.todo = {Seen(t) : t \in First(s)}]]
    /\ UNCHANGED <<tables, cursor, watch, recorded, faults>>

Here(s) == [id |-> At(s).id, flag |-> FlagOf(At(s).state)]
FlagHere(s) == watch[Here(s).id][Here(s).flag]
Put(t, f, to) == watch' = [watch EXCEPT ![t] = [watch[t] EXCEPT ![f] = to]]
SetFlag(s, to) == Put(Here(s).id, Here(s).flag, to)
AtRow(s) == scan[s].pc = "row" /\ scan[s].todo # {}
\* Slip: every failure is reported.
SlipMayReport(s) == scan[s].todo # {}
\* Only a task that was announced as grabbed reports a failure.
MayReport(s) == Here(s).flag = "grabbed" \/ watch[Here(s).id]["grabbed"] = "done"

\* claim_watch_flag: done, busy or claimed.
PassRow(s) ==
    /\ AtRow(s)
    /\ ~MayReport(s) \/ FlagHere(s) = "done"
    /\ Settle(s)
    /\ UNCHANGED <<tables, cursor, watch, recorded, faults>>
FindBusy(s) ==
    /\ AtRow(s) /\ MayReport(s) /\ FlagHere(s) = "leased"
    /\ Block(s)
    /\ UNCHANGED <<tables, cursor, watch, recorded, faults>>
ClaimFlag(s) ==
    /\ AtRow(s) /\ MayReport(s) /\ FlagHere(s) = "free"
    /\ SetFlag(s, "leased")
    /\ Goto(s, "notify")
    /\ UNCHANGED <<tables, cursor, recorded, faults>>

\* notify_result: settled means recorded.  If it is not settled the row of the
\* delivery may have been written all the same, before the call that raised.
NotifySettles(s) ==
    /\ scan[s].pc = "notify"
    /\ recorded' = recorded \cup {<<Here(s).id, Here(s).flag>>}
    /\ Goto(s, "finish")
    /\ UNCHANGED <<tables, cursor, watch, faults>>
NotifyFails(s) ==
    /\ scan[s].pc = "notify" /\ faults < MaxFaults
    /\ faults' = faults + 1
    /\ recorded' \in {recorded, recorded \cup {<<Here(s).id, Here(s).flag>>}}
    /\ Goto(s, "release")
    /\ UNCHANGED <<tables, cursor, watch>>

\* finish_watch_flag and release_watch_flag do not ask whose lease it is.
FinishFlag(s) ==
    /\ scan[s].pc = "finish"
    /\ SetFlag(s, "done")
    /\ Settle(s)
    /\ UNCHANGED <<tables, cursor, recorded, faults>>
\* Slip: the lease is kept, and the flag with it.
SlipReleaseFlag(s) ==
    /\ scan[s].pc = "release"
    /\ SetFlag(s, "done")
    /\ Block(s)
    /\ UNCHANGED <<tables, cursor, recorded, faults>>
ReleaseFlag(s) ==
    /\ scan[s].pc = "release"
    /\ SetFlag(s, IF FlagHere(s) = "done" THEN "done" ELSE "free")
    /\ Block(s)
    /\ UNCHANGED <<tables, cursor, recorded, faults>>

\* Slip: one timestamp less, to read the rows that share it again.
SlipWriteCursor(s) ==
    /\ scan[s].pc = "row" /\ scan[s].todo = {}
    /\ cursor' = scan[s].value - 1
    /\ scan' = [scan EXCEPT ![s] = Idle]
    /\ UNCHANGED <<tables, watch, recorded, faults>>

\* The cursor is written if it advanced, over whatever another run has written.
WriteCursor(s) ==
    /\ scan[s].pc = "row" /\ scan[s].todo = {}
    /\ cursor' = IF scan[s].value # scan[s].start THEN scan[s].value ELSE cursor
    /\ scan' = [scan EXCEPT ![s] = Idle]
    /\ UNCHANGED <<tables, watch, recorded, faults>>

--------------------------------------------------------------------------------
\* A call to the store raises, or the job is killed at its timeout.
Dies(s) ==
    /\ scan[s].pc # "idle" /\ faults < MaxFaults
    /\ faults' = faults + 1
    /\ scan' = [scan EXCEPT ![s] = Idle]
    /\ UNCHANGED <<tables, cursor, watch, recorded>>

\* WATCH_CLAIM_LEASE_SECONDS have passed since the claim.
LeaseEnds(t, f) ==
    /\ watch[t][f] = "leased"
    /\ Put(t, f, "free")
    /\ UNCHANGED <<tables, cursor, recorded, scan, faults>>

ScanStep(s) ==
    \/ ReadCursor(s) \/ Select(s) \/ PassRow(s) \/ FindBusy(s) \/ ClaimFlag(s)
    \/ NotifySettles(s) \/ NotifyFails(s) \/ FinishFlag(s) \/ ReleaseFlag(s) \/ WriteCursor(s)

Next ==
    \/ \E t \in Tasks : Stamp(t) \/ Commit(t)
    \/ \E s \in Scanners : ScanStep(s) \/ Dies(s)
    \/ \E t \in Tasks, f \in Flags : LeaseEnds(t, f)

Spec == Init /\ [][Next]_vars

\* The job comes round every three minutes, and leases run out.
FairSpec ==
    /\ Spec
    /\ \A s \in Scanners : WF_vars(ScanStep(s))
    /\ \A t \in Tasks, f \in Flags : WF_vars(LeaseEnds(t, f))

--------------------------------------------------------------------------------
(* Properties.                                                              *)

TypeOK ==
    /\ clock \in Nat /\ cursor \in Nat /\ faults \in Nat
    /\ pen \in [Tasks -> Nat]
    /\ row \in [Tasks -> [state : TaskStates, ts : Nat, late : BOOLEAN]]
    /\ watch \in [Tasks -> [Flags -> {"free", "leased", "done"}]]
    /\ recorded \subseteq Events
    /\ scan \in [Scanners ->
         [pc : Pc, start : Nat, value : Nat, blocked : BOOLEAN,
          todo : SUBSET [id : Tasks, state : {"downloading", "failed"}, ts : Nat]]]

\* "A scan cursor is only allowed to pass a row whose outcome is settled": a grab the
\* cursor has passed is recorded, although runs overlap, die, lose their leases and
\* write the cursor over each other, unless the row was committed late.
Grabs(t) == row[t].state = "downloading" /\ ~row[t].late
PassedIsRecorded ==
    \A t \in Tasks : (Grabs(t) /\ row[t].ts <= cursor) => <<t, "grabbed">> \in recorded

\* A failure is only reported of a task whose grab was: what the user gets is never
\* "failed" without "grabbed" before it, whatever order the runs take the rows in.
FailedAfterGrabbed ==
    \A t \in Tasks : <<t, "failed">> \in recorded => <<t, "grabbed">> \in recorded

\* A grab is reported some time, if the task goes on downloading.
GrabReported ==
    \A t \in Tasks : Grabs(t) ~> (<<t, "grabbed">> \in recorded \/ ~Grabs(t))
================================================================================
