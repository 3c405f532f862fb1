# InkDrop: TLA+ models

This directory specifies and verifies the parts of InkDrop in which several
writers share durable state: who may download what (the SLSKD candidate
reservations, the queue claims and the reconciler that repairs them), the leased
companion jobs, the notification scan and its outbox, the quarantine journal, and
the locks between the container scheduler and a restore. The models are TLA+,
checked with TLC on small instances. Every safety property and every refinement
that a passing run checks is also proved with TLAPS for every instance; liveness is
model-checked only.

## The system

InkDrop keeps its state in SQLite databases, written by many processes and
threads: the web application (a thread per request), the container scheduler's
jobs, the SLSKD probe, the source workers, the importer, and the *state sync* that
runs the maintenance sweeps. There is no lock around a workflow. A workflow is a
sequence of short transactions (`BEGIN IMMEDIATE`, or one autocommitted statement)
with calls to slskd, to other services or to the file system between them, so
everything that matters happens between two transactions.

| Component | State | Operations | What is hard | What makes it correct | Module |
|---|---|---|---|---|---|
| Queue claims | `queue_claims` | claim, release by owner or reservation, sweep | leases shorter than the work; takeover after expiry | a live claim is given up by its holder only; every claim ends | `SlskdReservation` |
| SLSKD reservation and handoff | SLSKD rows of `download_tasks`, `queue_items`, `wanted_items` | reserve, slot wait, inventory check, enqueue, validate, waiting record, transition, expire | slskd answers late, ambiguously or not at all; user, importer, sweeps and crashes in between | one reserved task per unit; a task follows a transfer of its candidate; ended tasks stay ended; waits end | `SlskdReservation`, `UnitOwnership` |
| Transfer-identity reconciler | the same rows, a recovery ledger | inventory, bind, recover, retire | a snapshot older than the rows it judges | no running transfer is retired; recovery is bounded and has no rival | `TransferReconciler` |
| Import authority | `import_results`, rows in `importing` | import, verify, expire | an import racing a new download | a verified unit is not fetched or imported again | the two above, partly |
| Source workers | claims, alternative downloads | claim, start, release | crashes, leases | as for claims | `SlskdReservation`, partly |
| Manga companion jobs | job and link rows with lease tokens | schedule, claim, renew, activate, finish, park | a heartbeat against the end of a lease | a job is ended by its holder only; it is taken up again | `CompanionJobs`, `LeasedWork` |
| Notifications | task rows, cursor, watch flags, deliveries | scan, reserve, send, retry, claim | overlapping runs, late commits, lost leases | the cursor passes nothing unrecorded; one live row per event; limits hold | `NotificationScan`, `NotificationOutbox` |
| Duplicate quarantine | journal, files, rows | plan, move, seal, recover | a crash between journal and move; half-copied files | no file is lost; what is sealed stays away; what is rolled back is home | `ManagedQuarantine` |
| Container scheduler, restore | locks, heartbeat, databases | tick, start jobs, quiesce, swap, undo | restore against running jobs and writers | no job runs during a swap; a failed restore tells the truth | `SchedulerRestore`, `WorkOrSwap` |
| Process lifecycle, scan runs, deferred sync | run files, queue file | | | | not modelled |
| Web, front end, providers, downloaders, archives, matching, auth | | | I/O, heuristics, single writers | | not modelled |

`PROJECT.json` lists the components with their sources and, under `hazards`, the
places in this code where a test would hardly reach what can go wrong, with the
properties that cover them.

## Modules

A definition named `Slip...`, or marked `Slip:` in its comment, is no part of the
model: it is the form a plausible mistake would give to the definition below it.

### UnitOwnership, SlskdReservation

`UnitOwnership` is the promise: at most one task owns a unit; a task becomes owner
only while there is none. `SlskdReservation` is the protocol, with one action for
each transaction, each call to slskd and each interference.

State: the clock; `queue` (state, active, and the retired task whose sibling the
row mirrors), `wanted`, `removed`, `proof` (an authoritative import result of the
issue), `task` (SLSKD rows of `download_tasks`: status, queue row, candidate,
transfer, deadline, and whether the row is still found under its reservation
id), `alt` (another provider's download of a row), `claims`, `xfer` (what slskd
really has), and the local state of handoff attempts and source workers.

An *attempt* is one pass of the handoff loop over one candidate
(`_run_auto_grab_with_ephemeral_candidates`). Its claim owner is a fresh uuid
and its reservation a fresh id, so the attempt names its owner, reservation,
task and transfer. Its steps are

1. `ReserveCreates`, `ReserveReuses`, `ReserveExpires`, `PersistSlotWait`:
   `reserve_slskd_candidate`; refusals change nothing;
2. `CheckFindsNothing`, `CheckFinds`, `CheckRaises`: `slskd_existing_download`;
3. `Enqueue`, `EnqueueAmbiguous`, `EnqueueRaises`: the call may take effect
   although its answer is lost;
4. `ValidateLost`, `ValidateHeld`: `validate_slskd_candidate_claim`;
5. `MarkQueue`, `MarkSkips`, `MarkFails`, `MatchApplies`, `MatchRefused`,
   `RecordWaiting`: the waiting record, three transactions;
6. `Finish`: `transition_slskd_candidate_task` with its four outcomes (fenced,
   reconciled, refused, applied), including the projection of the queue row, the
   search for an authoritative sibling and the release of the claim.

`Crash` ends an attempt at any point after its reservation. Interference:
`ClaimQueueItem`, `WorkerStarts`, `WorkerReleases`, `WorkerCrashes` (source
workers); `XferEnds`, `AltEnds`; `RecordImport`, `MarkQueueVerified` (importer);
`CancelQueueItem`, `RetireRemovedSeries` (user); `CleanupExpiredClaims`,
`CleanupInactiveTasks`, `CleanupStaleTask`, `ReconcileReservations` (state sync).

Abstractions. Statuses that every guard treats alike are one value
(`started_waiting` for every downloading status, `transfer_failed` for every
failure reported by the provider, `import_ready` for a finished transfer).
Titles, scores, messages, retry times and histories are left out: no guard of the
modelled functions but the deadline and the leases reads them. Times are small
integers that keep the order `Lease < Ttl` of the code (120s, 900s). A failed
`patch_queue_item_state` falls back to the exported queue file and the next state
sync, which writes the same values; both are `MarkQueue`. Each exception after an
enqueue that loses the answer is `EnqueueRaises`. The waiting record names its
transfer, so the branch that retires a recorded task without a trackable handoff
(`queue_retry_event_supersedes_download_task`) is never taken. The part of the sweep that
repairs queue rows written by releases without reservations is left out.
External, and modelled from its use: slskd, the other providers, the importer's
decision that a file is proof, process death and the clock.

### TransferReconciler

Extends `SlskdReservation` by one pass at a time of
`reconcile_slskd_transfer_identity_tasks` (`pass`: where it is, the time it began,
and all it has read) and the recovery ledger of the queue rows (`ledger`).

`BeginPass` and `ProjectMirrored` are `reconcile_slskd_sibling_queue_projections`;
`ListTransfers` is the inventory, of which rows without id or locator are lost, and
`whole` says whether any was; `SelectTasks` reads the owners of open rows and the
handoffs of unknown outcome. From then on the pass judges by what it has read, one
transaction at a time, while everything else goes on: `RecoverOwner`
(`recover_completed_slskd_candidate_task`), `PassOwners`, `RetireDuplicate`
(`retire_duplicate_slskd_owner_task`), `JudgeUnbound`. `EndPass` is its end, an
inventory that cannot be had, or the death of the process. `NothingStaged` is
`record_queue_source_attempt` of a resolver that finds no staged file;
`ReleaseImport` is `cleanup_expired_import_claims`, where any task may have failed
to make progress within the lease.

Abstractions. The status that `ProjectMirrored` reports is read in the step that
reports it; an ended task changes in no other way than by this pass. Which owner is
canonical is left open, as are the age bound of recovery (once a transfer has been
recovered before) and the proof of the unit by a recorded row. Legacy rows
without a locator digest are left out; the modelled protocol writes none. The ledger
is written by recovery alone: the round trip of the queue file, which can bring an
older row back (`sync_queue`), is a hazard without a property.

### LeasedWork, CompanionJobs

`LeasedWork` is an abstract table of work: posted, held by one holder, given back,
done; taken from a holder only when the lease has lapsed. `CompanionJobs` models
`manga_companion_jobs` (status, token, timer), `manga_companion_links`, the
counterpart series, and the runs of `run_manga_companion_add_bounded`: schedule,
claim, four renewals, preflight, work slot, stub, link, add, activation, finish,
park, the heartbeat thread, and the crash of a process with all its runs.

Abstractions. Each job has its own pair of series; merges, conflicts between pairs,
folder convergence and the refresh of linked companions are left out. The
read-then-upsert of the schedule is one step, since whatever comes between leads to
the same row. Times are what is left of them, so the clock needs no bound; a run
holds one token at a time and its name may be used again after it has returned.

### WorkOrSwap, SchedulerRestore

`WorkOrSwap` is the promise of the two lock files: nobody works while somebody
swaps, and one swaps at a time. `SchedulerRestore` models the scheduler's loop
(becomes due, restore lock, jobs lock, release, start jobs, end of tick), the
restore (`new`, then twice heartbeat, probe of the jobs lock and drop, with the
staging between; then idle check, snapshot, copies, config files), its undo, the
previews (`Peek`, `Unpeek`), jobs started by hand, and other writers' commits. A
scheduler that is stopped or killed takes its jobs and locks with it: it is the
container's init process. The heartbeat may look stale at any time.

Abstractions. Jobs become due at the top of the loop; `due` orders them by place.
Every database exists and the archive holds all of them; one that cannot be read
is removed (`Gone`; the removal may fail, `UnlinkFails`) and is not put back; an undo
may report an error although its copy has committed; a restore runs once. The config files are
one step, whose failure leaves the databases restored, as the code does. `MaxAcks`
bounds the commits of other writers.

### NotificationScan

The grabbed/failed scan of `download_tasks`: a writer takes its timestamp (`Stamp`)
and commits later (`Commit`); a run reads the cursor, selects a batch, claims a
flag of each row for a short lease, hands the event on, sets or releases the flag,
and writes the cursor (`_Cursor`: settle until the first block). Runs overlap, die
and lose their leases at any moment.

Abstractions. Timestamps are all different, so the compound cursor is its
timestamp. Rows are those that report. Reading a watch row and claiming its flag
are one step. `prune_watch_state` and the wording of messages are left out.

### NotificationOutbox

`notification_deliveries` of one channel: `ReserveSends` and `ReserveDefers` (the
atomic reservation: deduplicate, quiet hours, hourly limit), `StartPass`, `Claim`,
`PutOff` (`claim_next_due_delivery`), `Continue`, `Disable`, `Requiet`, `Finish`,
`FinishUnsent`, `Dies`, `Prune`, and the settings and the clock.

Abstractions. Times are what is left of them; `by` stands for the `next_attempt_at`
that identifies a lease. The settings are read with the reservation. The
deduplication window is at least an hour. Rows that record that nothing was sent
are left out. The fields `sends` and `slip` are history: the outcomes of a row, and
whether it was written without asking for its lease (`stale`) or finished by a
sender that outlasted it (`late`).

### ManagedQuarantine

The journal of `managed_library_duplicate_file_quarantine` for one duplicate group:
a request first recovers the operations it finds unfinished (`Begin`, `Skip`,
`Inspect`, `Conclude`, `EndRecovery`), by where their files are, then plans its own
(`Audit`, `Plan`), moves file by file, and finalizes (`Settle`: the rows; `Seal`: the
journal). The quarantine is on another file system than the library, as the container
mounts them, so a move is `Open`, `Fill`, `Unlink`, and a crash may leave a part of a
file. `CopyFails`, `WriteFails` and `Crash` may come at any step. A journal that cannot be
read is passed over (`PassOver`), and a look at a path may fail in every place where the
code looks quietly (`dark`: the paths that then count as missing,
`path_exists_quietly`). Nothing keeps requests apart.

Three history variables, which no step reads, note what the code promises nothing
after: `overlapped` (a request began beside a live one), `unread` (unfinished operations
that were passed over) and `misseen` (files a copy of which was taken for missing). The
properties name them instead of excluding the behaviour. An operation is `Sound` when
its journal was never passed over and its files never misseen.

Abstractions. The choice of the file to keep and the hash proof are verdicts, and so is
the look at the file to keep. The order of moves is open. Users put nothing into and
take nothing out of the quarantine. Recovery looks up where the files of an operation
are in one step. Two duplicates with one file name share a destination, so recovery may
find a conflict where there is none: `Inspect` may block instead of giving back, and
`Refuse` finds a destination taken.

## Runs

| Run | Instance | Shows |
|---|---|---|
| `reservation_one` | 2 attempts, 1 worker, 1 row, `MaxTime` 3 | `TypeOK`, `NoSharedTransfer`, `NotRobbed`, `EndedStaysEnded`, `OnlyLateWritersReopen` |
| `reservation_two` | 2 attempts, 2 rows of one unit, 2 candidates; no import or removal | `OneReservedPerUnit`, `StartedFollowsCandidate`, refinement of `UnitOwnership` |
| `reconciler` | 2 attempts, 1 row, `MaxTime` 2, 2 recoveries | `RTypeOK`, `RetiredOnlyWhenGone`, `OnlyRecoveryRevives` |
| `reconciler_live` | 1 attempt, 1 worker, 1 row, `MaxTime` 2, 1 recovery, fair sweeps | `WaitsEnd`, `ClaimsEnd` |
| `companion` | 2 jobs, 2 runs in one process, 1 slot | `TypeOK`, `LinkedMeansCompleted`, `OnlyHolderEnds`, refinement of `LeasedWork`, `OrphanTakenUp`, `DueJobClaimed` |
| `restore_swap` | 2 restores, a preview, 2 databases, 2 commits each | `UncopiedKeepsWrites`, `ReportIsTrue`, `DoneIsWhole` |
| `restore_live` | 1 scheduler, 2 jobs, 2 restores, 1 database | `TypeOK`, refinement of `WorkOrSwap`, `CriticalJobStarts` |
| `notif_scan` | 2 tasks, 2 overlapping runs, batches of 1, 3 timestamps, 1 fault | `TypeOK`, `PassedIsRecorded`, `FailedAfterGrabbed`, `GrabReported` |
| `notif_outbox` | 2 rows, an ordinary and an urgent event, 2 senders, 1 send an hour, 2 attempts, 2 nights, 1 fault | `TypeOK`, `OneRowPerEvent`, `HourlyCeiling`, `SendsCounted`, `EverySettles` |
| `quarantine` | 2 files, 4 requests, 2 of them once requests overlap, 3 faults, 1 change by others | `TypeOK`, `Journaled`, `NothingLost`, `SettledStaysAway`, `OldWorkFirst`, `RolledBackIsHome` |
| `verified_reopened` | 1 attempt | finding 1 |
| `cancelled_resurrected` | 1 attempt | finding 2 |

Deadlock is not checked where the system may come to rest: an instance ends when
its attempts, restores or requests are used up and the clock has reached its bound,
or when there is nothing to do. `notif_scan` cannot stop, and there it is checked.

**Bounds.** Reservations: leases 1 (handoff) and 2 (worker, reservation); an action
that grants a lease or a deadline needs it to fit under `MaxTime`, so whatever is
granted can also run out. Two attempts are enough for the pairwise properties: a
robbery, a shared transfer or a second owner takes one holder and one intruder, and
the theorems hold without the bounds. With `MaxTime` 3 a reservation is made
and expires, and a claim follows; 2 is enough for the reconciler, which needs a
deadline to pass between its steps. Two recoveries let the ledger refuse one
after it allowed another; for the waits one is enough. `reconciler`
has no worker and the two-row run no importer: those are explored in
`reconciler_live` and `reservation_one`. Restores: two, since the
second restarts from what the first left behind; previews and other writers do not
concern the scheduler's liveness. Scan: with a batch of one, every cursor position
between two rows occurs. Outbox: two nights are needed for a deferred row to be
deferred again, one fault for a lease to run out on a dead sender. Quarantine: three
faults cut short an operation, its recovery, and the recovery of that. Requests may
overlap from the beginning; the constraint `Few` then lets two of the four go on, since
of the properties only `TypeOK` and `Journaled` still say something there, and both are
proved without it.

Symmetry permutes attempts together with their episode rows, candidates, queue
rows together with their issues, restores, files and requests; it is
never used for liveness.

**Fairness.**
- `RFairSpec` (and `FairSpec` of `SlskdReservation`): the clock, the reservation
  sweep and the claim sweep, which run with every state sync. No attempt, worker,
  pass, importer or remote service is assumed to go on.
- `CompanionJobs`: weak for the steps of a run (a thread runs until it returns or
  its process dies) and for time; strong for `ProcessPending`, which the background
  job calls again and again and which finds a free run now and then. Liveness is
  claimed for the oldest open job only: the claim orders by creation and takes one.
- `SchedulerRestore`: weak for the scheduler's loop, the ends of jobs, the steps of a
  restore that has begun, and `Unpeek`; strong for taking the two locks, which are
  tried every second. `restore_live` has one scheduler and no previews: TLC shows
  that with two schedulers one can hold the jobs lock for ever, and that a preview
  at every attempt would defer every tick.
- `NotificationScan`: weak for the steps of a run and for the end of a lease, since
  the dispatch job is scheduled again and again.
- `NotificationOutbox`: weak for the clock and the steps of a pass.

## Findings

1. **A verified queue row is reopened** (`verified_reopened`). Verification does not
   close a `waiting_for_slot` task of the row; when its deadline passes, the sweep
   projects the row without looking at its state: active again, `queued`, wanted.
2. **A cancelled task is resurrected** (`cancelled_resurrected`). A pass that selected
   the task before the cancel recovers it: the task is ready for import, its row
   `importing` and not active, its wanted item in progress, and the sweep of import
   claims, which looks at active rows only, never frees it. Calling
   `cancel_queue_item` and then `recover_completed_slskd_candidate_task` on a fresh
   database leaves that state.

Weaknesses that the models show and no run is kept for; the passing properties are
the strongest ones found that survive them.

- The waiting record of an attempt under way activates a row that was cancelled
  meanwhile (`patch_queue_item_state` refuses only `verified`). Hence
  `OnlyLateWritersReopen` exempts late writers.
- A waiting record whose reservation has ended inserts a second active row, beside
  the task that has reserved the unit meanwhile. Hence `OneReservedPerUnit` speaks of
  the rows that reservations create.
- A claim may survive the start of its download until its lease ends: the waiting
  record loses the reservation id under which the final transition looks for it.
- Reservation looks for rivals by exact unit, recovery by queue row, wanted item and
  issue. With two queue rows of one unit, recovery revives a task of one while the
  other is reserved (`OneReservedPerUnit` fails in `TransferReconciler`); the
  reconciler's runs have one row. With two rows of different units and one candidate
  `OneReservedPerUnit` holds, but `NoSharedTransfer` fails: recovery revives a task of
  one row whose transfer a task of the other has adopted since the pass selected its
  tasks.
- `upsert_manga_companion_link` writes `preparing` without asking for the lease: a run
  that was suspended for longer than its lease leaves a completed job with a pair
  that is never linked again, although `inkdrop_web.py:41515` says that `preparing`
  is the state while the job runs.
- Writers of `download_tasks` take `updated_at` before they wait for the write lock,
  so rows commit in another order than their timestamps, and a row that commits
  behind the scan cursor is never selected. Hence `PassedIsRecorded` exempts rows that
  were committed late.
- `Disable` and `Requiet` update a delivery without asking for its lease, so a row
  that was sent may be queued and sent again; a finish after the lease counts in
  the hour in which it comes. Without the exemption of `stale` and `late` rows
  `OneRowPerEvent`, `HourlyCeiling` and, over two nights, `SendsCounted` fail.
- A row can go round between the importer and the search for ever. When the row mirrors
  an ended task (a reported failure whose sibling was active) and the sibling's finished
  transfer has been recovered to `import_ready`, every pass reports the ended task again
  (`transition_slskd_candidate_task`, state.py 14185) and projects the sibling's state
  (13342), which puts the row in import; with no progress within the import lease,
  `ReleaseImport` queues it again. The ledger bounds recoveries, and this loop takes
  none, although the comment at state.py:13877 says of the loop it bounds that "with no
  bound that is an infinite loop". With two attempts, two candidates and `MaxTime` 3
  `TransferReconciler` has this behaviour; with one attempt the mirrored task has no
  live sibling.
- No lock keeps two quarantine requests of a group apart (the web server gives each
  a thread). A recovery takes a running operation for an interrupted one and moves its
  files back, and a truncated copy may become the only one. Hence the properties of
  `ManagedQuarantine` end with `overlapped`, all but `Journaled`.
- Recovery takes a path whose stat fails for missing. After a crash in the middle of a
  copy, with another file of the operation still at home, a failing stat of the whole
  original makes it move the truncated copy over it. Hence `misseen` is exempt.
- A request passes over a journal that cannot be read, and plans its own moves beside
  the unfinished operation; when the journal can be read again, that operation is judged
  by files that another one has moved, and may be settled, or called rolled back, with a
  truncated file. Hence `Sound` asks that the journal was never passed over, and
  `OldWorkFirst` speaks of the journals the request has read. `NothingLost` needs no such
  exemption: the whole file is then in the folder of the other operation.
- When an unreadable database is removed for its replacement and the removal fails half
  way (the file, not its `-wal`), the restore fails with the file gone, and its report does
  not name that database: it was not yet in `attempted` (`UnlinkFails`).
- A failure while the config files are replaced leaves the databases restored and
  says nothing of it.

## Proofs

Every theorem is proved for every instance, from the named assumptions on the
constants that the module declares (`ConstAssumption`; `CopiesAssumption` of
`SchedulerRestore`, `RecoveryAssumption` of `TransferReconciler`): ids are distinct
from each other and from `None`, durations and bounds are positive, the handoff lease
is shorter than the reservation. No theorem has a further hypothesis.

**`SlskdReservation_proofs`**: `TypeCorrect`, `ExclusiveReservation`, `ClaimsNotRobbed`
(`[]TypeOK`, `[]OneReservedPerUnit`, `[]NotRobbed`), `NoRevival` (`EndedStaysEnded`),
`Refinement` (`OwnershipSpec`). `IInv` adds to the invariants what each needs to be
inductive. `HoldsRow`: an attempt's reservation exists and belongs to a queue row
(else a transition could write the status of a row that was never created).
`RowsPlaced`: exactly the existing rows have a queue row, so the owner scan of
`reserve_slskd_candidate` sees every active row. `Fresh`: the ids of an attempt are
unused until it writes them, so neither a reservation nor an episode replaces an
old row. `ClaimsHeld`: a live claim carries the lease and the reservation it was
granted for; a release "by expiry or reservation" then cannot hit it unless that
reservation ends in the same step. Instead of one proof per invariant and action,
three lemmas say once what any step does to a task row (`StepRows`: kept, created by
a reservation, or inserted as an episode), to an attempt (`StepAtts`) and to a claim
(`StepClaims`); the rest follows from these. `Base` is the part of `IInv` that still
holds when the reconciler writes the rows too.

**`SlskdTransfers_proofs`**: `StartedFollows` (`StartedFollowsCandidate`),
`TransfersNotShared` (`NoSharedTransfer`), `LateWriters` (`OnlyLateWritersReopen`).
Several attempts may pass one transfer on: one enqueues it, a retry finds it again by peer and file and adopts
it, a third reuses the reservation and reports for it. `TInv` therefore says whose
candidate a transfer has at each place it may be: on a row (`FollowsCandidate`), in the
hands of an attempt (`CarriesCandidate`), at slskd (`TransferPlaced`). `MarksTransfer`
and `RowStatus` say that nobody reports a start without a transfer to show,
`OwnReservation` that an attempt works for another's reservation at its end only.
With that, a shared transfer would have two reservations of one candidate, which
`OneReservedPerCandidate` forbids (`reserve_slskd_candidate` looks for the candidate as
well as for the unit). The step of each action is one of a few kinds (`Work`), which the
lemmas name once. `LateWriters` goes through every action that writes
`queue_items.active`.

**`TransferReconciler_proofs`**: `RTypeCorrect` (`RTypeOK`), `MissingMeansGone`
(`RetiredOnlyWhenGone`), `RecoveryOnly` (`OnlyRecoveryRevives`), and `RStartedFollows`, which
carries `StartedFollowsCandidate` over to the whole system. A pass lists the transfers
first and reads the tasks later, so a list may miss a transfer that runs when its
task is judged. Such a transfer was enqueued after the list. The claim of its attempt
ends before the deadline of its task (`ClaimBeforeDeadline`), and
`transition_slskd_candidate_task` refuses the report of an attempt whose claim has
ended. So if the deadline had passed before the list, no report of an unknown outcome
came or can come (`LateTransfer`), and `Missing`, which asks for such a deadline and a
whole list, does not retire the task. `UnknownAtEnd` and `PassReads` tie what the pass
remembers to the attempts. `Beside` and `ReadsOn` say once what a step of the pass or of
the importer leaves alone. The invariant is built on `Base` and not on `IInv`: recovery
breaks `OneReservedPerUnit` when two queue rows have one unit (see the weaknesses).

What the protocol promises without the reconciler carries over in part.
`RStepRows` says that a step of the whole system is one of the protocol, keeps the task
table, or revives one ended task, by a recovery that is not fenced. `SecondOwner`
(`SecondOwnerIsRecovered`) draws the conclusion for the ownership of units, for any
number of queue rows of a unit: a step gives a unit that has an owner a second one only
by handing the finished transfer of an ended task to the importer, and then the owner is
on another queue row. Every other step takes free units (`TakenWasFree`). The recovery
looks for siblings by queue row, wanted item and issue (`Unfenced`), which is why the
owner is on another row, and why nothing stronger holds: TLC finds `OneReservedPerUnit`
violated by such a recovery as soon as two rows have one unit.

`RLateWriters` (`OnlyLateWritersReopen`): recoveries, failed imports and the sweep of
import claims write the state of a queue row, never its `active` flag, and the reports
of a pass are projected on open rows only. `RecoveriesCounted`: the ledger never
shrinks, and each revival adds one to an entry that was below `MaxRecoveries`. It is
about the ledger in the database only; the round trip of the queue file, which may
write an old `raw_json` back, is not modelled (see the hazards).

**`CompanionJobs_proofs`**: `TypeCorrect`, `LinkedIsCompleted`, `HolderEnds`,
`LeasedWorkRefined`. A pair is linked only by the activation of a job its run holds,
and a completed job is left by nobody. `RunMoves` and `RowMoves` say what a step
does to a run and to a job; `JobWriters` names the steps that take a job from its
holder, which gives `OnlyHolderEnds` and the steps of `LeasedWork`.

**`SchedulerRestore_proofs`**: `TypeCorrect`, `WorkOrSwapRefined`, `UncopiedKept`,
`ReportTrue`, `Whole`. `LockInv` relates the places of schedulers and restores to the
holders of the two locks: a scheduler with running jobs holds the jobs lock, a
restore past its second gate holds the restore lock, and found the jobs lock free
when nobody else could take it. `DataInv` relates the databases to the restore that
is at work: what its snapshot holds, what it has copied, and what it reports.

**`NotificationScan_proofs`**: `TypeCorrect`, `CursorIsSafe`, `GrabComesFirst`. `Stamps`
keeps timestamps of tasks and writers apart and below the clock; `FlagsInv` says that
a flag is set only when its event is recorded; `Reached` and `Covered` say that what
lies between the start of a run and its `value` is recorded or late, and `AtWork`
that a row still to be looked at lies past it. The cursor takes such a value, so it
passes nothing unrecorded, although runs write it over each other.

**`NotificationOutbox_proofs`**: `TypeCorrect`, `OneRow`, `Ceiling`, `BoundedSends`. Each
sender's attempt is tied to the row it holds, or the row shows that the lease is
lost; the reserved rows of an hour are counted by `Cardinality` lemmas
(`FewerSends`, `OneMore`).

**`ManagedQuarantine_proofs`**: `TypeCorrect` and `WriteAhead` (`Journaled`) hold whatever
overlaps, fails or cannot be read; the second rests on `BooksHold`, an invariant of the
journals and of what each request believes it has planned, opened and moved. `NeverLost`
(`NothingLost`), `SettledForGood` (`SettledStaysAway`), `RecoveryFirst` (`OldWorkFirst`) and
`RollbackIsHonest` (`RolledBackIsHome`) follow from `IInv`, which is `Books` and, as long as no
requests have overlapped, `Quiet`. `Quiet` has two halves, on disk and of the one live
request. On disk: wherever a copy was cut short, the file is whole at the place from
which it was copied, in the library or in the folder of an operation that was not
passed over, unless it was misseen; what a settled operation moved is whole in its
folder. Of the live request: which operation it works on and, for each of its steps,
which of the files are whole where. Several operations may be unfinished at once, since
journals are passed over, so the invariant speaks of every operation and relates two of
them by the file they both list. `NothingLost` alone is not inductive: that a source may
be removed follows from what the request has read and copied before, and a crash leaves
that behind on disk for the next request.

**Only model-checked.** Liveness under fairness (`WaitsEnd`, `ClaimsEnd`,
`OrphanTakenUp`, `DueJobClaimed`, `CriticalJobStarts`, `GrabReported`,
`EverySettles`), which needs `ENABLED`, is beyond the prover. The two runs that expect a violation
state what the code breaks.

## Not modelled

- Process lifecycle, scan runs and the deferred sync through the queue file: the
  round trip of `series-autopilot-queue.json` makes a second writer of every queue
  row, with its own precedence rules; it is listed among the hazards.
- SLSKD search, staging and root health, candidate matching and identity: heuristics
  over text and files, with one writer.
- Download clients other than slskd, archives and metadata files: they appear as the
  external steps `WorkerStarts`, `AltEnds`, `RecordImport`.
- Authentication, the web application and the front end: their handlers that matter
  here (cancel, remove, quarantine, restore) are actions of the modules above.
- Merges of series, the state of issues, calendars and reports.

Most of the repository's lines are of this kind, so the mapped share of the
implementation is small; the modelled part is the one with concurrent writers.

## Plan

1. Proofs: what becomes of `NoSharedTransfer` beside the reconciler, said as
   `SecondOwnerIsRecovered` says it of ownership; facts
   about the sweeps on which the other liveness runs rest, as far as they can be stated
   without `ENABLED`.
2. Import authority in full, and the queue file's round trip beside the ledger.
3. Work budgets and cooldowns of the source workers.
