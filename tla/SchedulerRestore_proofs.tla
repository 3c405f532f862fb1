------------------------ MODULE SchedulerRestore_proofs ------------------------
(***************************************************************************)
(* Proofs about SchedulerRestore, for any number of schedulers, jobs,      *)
(* restores, previews and databases: the locks keep jobs and restores      *)
(* apart, and what a restore does to the databases and says about it.      *)
(***************************************************************************)
EXTENDS SchedulerRestore, FiniteSetTheorems, TLAPS

\* Who holds which lock, and why nobody else can.
SchedLocks ==
    \A s \in Scheds :
        /\ rlock = s <=> sched[s].pc \in {"jobs", "leave"}
        /\ jlock = s <=> sched[s].keep = TRUE
        /\ sched[s].active # {} => sched[s].keep = TRUE
        /\ sched[s].go = TRUE => sched[s].keep = TRUE /\ sched[s].pc \in {"leave", "start"}
        /\ sched[s].pc = "down" => sched[s].keep = FALSE
        /\ sched[s].pc = "start" => sched[s].go = TRUE
PastGate(r) ==
    \/ rest[r].pc \in {"drop", "stage"} \cup Swapping
    \/ rest[r].pc \in {"beat", "probe"} /\ rest[r].pass = 2
RestLocks ==
    \A r \in Restores :
        /\ rlock = r <=> rest[r].pc \in Held
        /\ jlock = r <=> rest[r].pc = "drop"
        /\ rest[r].pc = "new" => rest[r].pass = 1
        /\ PastGate(r) => \A s \in Scheds : sched[s].keep = FALSE

LockInv == TypeOK /\ SchedLocks /\ RestLocks

\* The first state satisfies the invariant of the locks.
LEMMA InitLocks == Init => LockInv
<1> SUFFICES ASSUME Init PROVE LockInv
  OBVIOUS
<1> USE ConstAssumption, CopiesAssumption DEF Init
<1>1. Down \in SchedRows
  BY DEF Down, SchedRows, SchedPc
<1>2. New \in RestRows
  BY DEF New, Untouched, RestRows, Snapshots, Contents, Outcome, Held, Ended
<1>3. TypeOK
  <2>1. PICK bad \in SUBSET Dbs :
          db = [d \in Dbs |-> [base |-> None, gen |-> 0, busy |-> FALSE, readable |-> d \notin bad]]
    OBVIOUS
  <2>2. db \in [Dbs -> [base : Contents, gen : Nat, busy : BOOLEAN, readable : BOOLEAN]]
    BY <2>1 DEF Contents
  <2>3. sched \in [Scheds -> SchedRows] /\ \A s \in Scheds : sched[s].running \subseteq sched[s].active
    BY <1>1 DEF Down
  <2>4. rest \in [Restores -> RestRows]
    BY <1>2
  <2> QED
    <3>1. acks \in [Dbs -> Nat]
      OBVIOUS
    <3> QED
      BY <2>2, <2>3, <2>4, <3>1 DEF TypeOK
<1>4. SchedLocks
  BY DEF SchedLocks, Down
<1>5. RestLocks
  BY DEF RestLocks, PastGate, New, Held, Swapping
<1> QED
  BY <1>3, <1>4, <1>5 DEF LockInv

--------------------------------------------------------------------------------
(* Types.                                                                   *)

\* One scheduler changes its row.
LEMMA SchedMoves ==
  ASSUME TypeOK, NEW s \in Scheds, NEW x \in SchedRows, x.running \subseteq x.active,
         sched' = [sched EXCEPT ![s] = x]
  PROVE  sched' \in [Scheds -> SchedRows] /\ \A q \in Scheds : sched'[q].running \subseteq sched'[q].active
  BY DEF TypeOK

\* Jobs can be counted.
LEMMA JobsCount ==
  ASSUME NEW S \in SUBSET Jobs
  PROVE  Cardinality(S) \in Nat
  BY ConstAssumption, FS_Subset, FS_CardinalityType

\* The steps of a scheduler keep the types.
LEMMA SchedStepTypes ==
  ASSUME TypeOK, NEW s \in Scheds, SchedStep(s)
  PROVE  TypeOK'
<1> DEFINE row == sched[s]
<1>0. /\ row \in SchedRows /\ row.running \subseteq row.active
      /\ row = [pc |-> row.pc, keep |-> row.keep, active |-> row.active, running |-> row.running,
                due |-> row.due, go |-> row.go]
  BY DEF TypeOK, SchedRows
<1>1. ASSUME NEW x \in SchedRows, x.running \subseteq x.active, sched' = [sched EXCEPT ![s] = x],
             rlock' \in {rlock, s, None}, jlock' \in {jlock, s, None}, fresh' \in {fresh, TRUE},
             UNCHANGED <<byhand, rest, data>>
      PROVE  TypeOK'
  BY <1>1, SchedMoves DEF TypeOK, data
<1>2. Down \in SchedRows /\ Down.running \subseteq Down.active /\ [Down EXCEPT !.pc = "tick"] \in SchedRows
      /\ [Down EXCEPT !.pc = "tick"].running \subseteq [Down EXCEPT !.pc = "tick"].active
  BY DEF Down, SchedRows, SchedPc
<1>3. ASSUME NEW pc \in SchedPc, SchedGoes(s, pc)
      PROVE  \E x \in SchedRows : x.running \subseteq x.active /\ sched' = [sched EXCEPT ![s] = x]
  <2>1. [row EXCEPT !.pc = pc] \in SchedRows
    BY <1>0, <1>3 DEF SchedRows
  <2>2. sched' = [sched EXCEPT ![s] = [row EXCEPT !.pc = pc]]
    BY <1>0, <1>3 DEF SchedGoes, TypeOK, SchedRows
  <2> QED
    BY <2>1, <2>2, <1>0 DEF SchedRows
<1>4. CASE Start(s)
  BY <1>4, <1>2, <1>1 DEF Start, locks, signs
<1>5. CASE Stop(s)
  BY <1>5, <1>2, <1>1 DEF Stop
<1>6. CASE TakeRestoreLock(s) \/ StartsNothing(s) \/ JobsLockFails(s) \/ ReleaseRestoreLock(s)
  BY <1>6, <1>3, <1>1 DEF TakeRestoreLock, StartsNothing, JobsLockFails, ReleaseRestoreLock, locks, signs, SchedPc
<1>7. CASE Drain(s)
  <2>1. [row EXCEPT !.active = row.running] \in SchedRows
    BY <1>0 DEF SchedRows
  <2>2. sched' = [sched EXCEPT ![s] = [row EXCEPT !.active = row.running]]
    BY <1>0, <1>7 DEF Drain, TypeOK, SchedRows
  <2> QED
    BY <2>1, <2>2, <1>0, <1>1, <1>7 DEF Drain, SchedRows, locks, signs
<1>8. ASSUME NEW j \in Jobs, JobEnds(s, j) PROVE TypeOK'
  <2>1. [row EXCEPT !.running = @ \ {j}] \in SchedRows
    BY <1>0 DEF SchedRows
  <2>2. sched' = [sched EXCEPT ![s] = [row EXCEPT !.running = @ \ {j}]]
    BY <1>0, <1>8 DEF JobEnds, TypeOK, SchedRows
  <2> QED
    BY <2>1, <2>2, <1>0, <1>1, <1>8 DEF JobEnds, SchedRows, locks, signs
<1>9. ASSUME NEW j \in Jobs, BecomesDue(s, j) PROVE TypeOK'
  <2> DEFINE due == [row.due EXCEPT ![j] = 1 + Cardinality(DueJobs(s))]
             x == [row EXCEPT !.due = due]
  <2>1. due \in [Jobs -> Nat]
    BY <1>0, JobsCount DEF SchedRows, DueJobs
  <2>2. sched' = [sched EXCEPT ![s] = x]
    BY <1>0, <1>9 DEF BecomesDue, TypeOK, SchedRows
  <2>3. x \in SchedRows /\ x.running \subseteq x.active
    BY <2>1, <1>0 DEF SchedRows
  <2> QED
    BY <2>2, <2>3, <1>1, <1>9 DEF BecomesDue, locks, signs
<1>10. CASE TakeJobsLock(s)
  <2> DEFINE x == [row EXCEPT !.pc = "leave", !.keep = TRUE, !.go = TRUE]
  <2>1. x \in SchedRows /\ x.running \subseteq x.active
    BY <1>0 DEF SchedRows, SchedPc
  <2>2. sched' = [sched EXCEPT ![s] = x]
    BY <1>0, <1>10 DEF TakeJobsLock, TypeOK, SchedRows
  <2> QED
    BY <2>1, <2>2, <1>1, <1>10 DEF TakeJobsLock, signs
<1>11. CASE StartJobs(s)
  <2> DEFINE batch == ToStart(s)
             wait == Wait(s, batch)
             x == [pc |-> "status", keep |-> row.keep, active |-> row.active \cup batch,
                   running |-> row.running \cup batch, due |-> wait, go |-> FALSE]
  <2>1. batch \subseteq Jobs
    BY DEF ToStart, DueJobs
  <2>2. wait \in [Jobs -> Nat]
    BY JobsCount DEF Wait, DueJobs
  <2>3. x \in SchedRows /\ x.running \subseteq x.active
    BY <2>1, <2>2, <1>0 DEF SchedRows, SchedPc
  <2>4. sched' = [sched EXCEPT ![s] = x]
    BY <1>11, Zenon DEF StartJobs
  <2> QED
    BY <2>3, <2>4, <1>1, <1>11 DEF StartJobs, locks, signs
<1>12. CASE EndTick(s)
  <2> DEFINE x == [row EXCEPT !.pc = "tick", !.keep = FALSE]
  <2>1. x \in SchedRows /\ x.running \subseteq x.active
    BY <1>0 DEF SchedRows, SchedPc
  <2>2. CASE row.keep /\ row.active = {}
    <3>1. sched' = [sched EXCEPT ![s] = x]
      BY <1>0, <1>12, <2>2 DEF EndTick, TypeOK, SchedRows
    <3> QED
      BY <2>1, <3>1, <2>2, <1>1, <1>12 DEF EndTick
  <2>3. CASE ~(row.keep /\ row.active = {})
    BY <2>3, <1>3, <1>1, <1>12 DEF EndTick, SchedPc
  <2> QED
    BY <2>2, <2>3
<1> QED
  BY <1>4, <1>5, <1>6, <1>7, <1>8, <1>9, <1>10, <1>11, <1>12 DEF SchedStep

\* One restore changes its row.
LEMMA RestMoves ==
  ASSUME TypeOK, NEW r \in Restores, NEW x \in RestRows, rest' = [rest EXCEPT ![r] = x],
         rlock' \in {rlock, r, None}, jlock' \in {jlock, r, None},
         db' \in [Dbs -> [base : Contents, gen : Nat, busy : BOOLEAN, readable : BOOLEAN]],
         UNCHANGED <<signs, sched, acks>>
  PROVE  TypeOK'
  BY DEF TypeOK, signs

\* The record of a restore, and the database it is at.
LEMMA RowOf ==
  ASSUME TypeOK, NEW r \in Restores
  PROVE  /\ rest[r] \in RestRows
         /\ rest[r] = [pc |-> rest[r].pc, pass |-> rest[r].pass, at |-> rest[r].at, raw |-> rest[r].raw,
                       kept |-> rest[r].kept, done |-> rest[r].done, out |-> rest[r].out]
         /\ Target(r) \in Dbs
  BY CopiesAssumption DEF TypeOK, RestRows, Target, Dbs

\* A restore that goes on has a well-formed record,
LEMMA GoesRow ==
  ASSUME TypeOK, NEW r \in Restores, NEW pc \in {"new"} \cup Held \cup Ended, RestGoes(r, pc)
  PROVE  \E x \in RestRows : rest' = [rest EXCEPT ![r] = x]
<1>1. [rest[r] EXCEPT !.pc = pc] \in RestRows
  <2>1. PICK x \in RestRows : x = rest[r]
    BY RowOf
  <2>2. [x EXCEPT !.pc = pc] \in RestRows
    BY DEF RestRows
  <2> QED
    BY <2>1, <2>2
<1>2. rest' = [rest EXCEPT ![r] = [rest[r] EXCEPT !.pc = pc]]
  BY RowOf DEF RestGoes, TypeOK, RestRows
<1> QED
  BY <1>1, <1>2

\* also when it goes on to the next database.
LEMMA NextRow ==
  ASSUME NEW row \in RestRows, NEW pc \in Held
  PROVE  NextOr(row, pc) \in RestRows
<1>1. row.at \in 1..Len(Copies) /\ Len(Copies) \in Nat \ {0}
      /\ row = [pc |-> row.pc, pass |-> row.pass, at |-> row.at, raw |-> row.raw,
                kept |-> row.kept, done |-> row.done, out |-> row.out]
  BY CopiesAssumption DEF RestRows
<1>2. CASE row.at < Len(Copies)
  BY <1>1, <1>2 DEF NextOr, RestRows
<1>3. CASE ~(row.at < Len(Copies))
  <2>1. 1 \in 1..Len(Copies) /\ pc \in {"new"} \cup Held \cup Ended
    BY <1>1
  <2>2. NextOr(row, pc) = [row EXCEPT !.at = 1, !.pc = pc]
    BY <1>3 DEF NextOr
  <2>3. NextOr(row, pc) = [pc |-> pc, pass |-> row.pass, at |-> 1, raw |-> row.raw,
                           kept |-> row.kept, done |-> row.done, out |-> row.out]
    BY <1>1, <2>2, Zenon
  <2> QED
    BY <2>1, <2>3, <1>1 DEF RestRows
<1> QED
  BY <1>2, <1>3

\* A database that is written stays well-formed.
LEMMA PutTypes ==
  ASSUME TypeOK, NEW d \in Dbs, NEW base \in Contents, NEW gen \in Nat, Put(d, base, gen)
  PROVE  db' \in [Dbs -> [base : Contents, gen : Nat, busy : BOOLEAN, readable : BOOLEAN]]
  BY DEF TypeOK, Put

\* A restore that reports lets go of the restore lock at most.
LEMMA ReportTypes ==
  ASSUME TypeOK, NEW r \in Restores, NEW d, NEW what \in Outcome, Reports(r, d, what)
  PROVE  (\E x \in RestRows : rest' = [rest EXCEPT ![r] = x]) /\ rlock' \in {rlock, None}
<1> DEFINE out == [rest[r].out EXCEPT ![d] = what]
           x == [rest[r] EXCEPT !.out = out]
           y == [rest[r] EXCEPT !.out = out, !.pc = "failed"]
<1>1. out \in [Dbs -> Outcome]
  BY RowOf DEF RestRows
<1>2. x \in RestRows /\ y \in RestRows
  <2>1. PICK row \in RestRows : row = rest[r]
    BY RowOf
  <2>2. PICK o \in [Dbs -> Outcome] : o = out
    BY <1>1
  <2>3. [row EXCEPT !.out = o] \in RestRows /\ [row EXCEPT !.out = o, !.pc = "failed"] \in RestRows
    BY DEF RestRows, Ended
  <2> QED
    BY <2>1, <2>2, <2>3
<1>3. rest' = [rest EXCEPT ![r] = x] \/ rest' = [rest EXCEPT ![r] = y]
  BY RowOf DEF Reports, TypeOK, RestRows
<1> QED
  BY <1>2, <1>3 DEF Reports

\* The steps of a restore keep the types,
LEMMA RestStepTypes ==
  ASSUME TypeOK, NEW r \in Restores, RestStep(r) \/ Crash(r)
  PROVE  TypeOK'
<1> DEFINE d == Target(r)
           row == rest[r]
<1>0. /\ row \in RestRows /\ d \in Dbs
      /\ row = [pc |-> row.pc, pass |-> row.pass, at |-> row.at, raw |-> row.raw,
                kept |-> row.kept, done |-> row.done, out |-> row.out]
      /\ db \in [Dbs -> [base : Contents, gen : Nat, busy : BOOLEAN, readable : BOOLEAN]]
      /\ db[d] = [base |-> db[d].base, gen |-> db[d].gen, busy |-> db[d].busy, readable |-> db[d].readable]
  BY RowOf DEF TypeOK
<1>1. ASSUME NEW pc \in {"new"} \cup Held \cup Ended, RestGoes(r, pc), rlock' \in {rlock, r, None},
             jlock' \in {jlock, r, None}, UNCHANGED <<signs, sched, data>>
      PROVE  TypeOK'
  BY <1>0, <1>1, GoesRow, RestMoves DEF data
<1>2. ASSUME NEW x \in RestRows, rest' = [rest EXCEPT ![r] = x], UNCHANGED <<locks, signs, sched, data>>
      PROVE  TypeOK'
  BY <1>0, <1>2, RestMoves DEF data, locks
<1>3. CASE HoldRestoreLock(r) \/ CheckHeartbeat(r) \/ ProbeLocks(r) \/ DropProbe(r) \/ ReplaceConfig(r) \/ Crash(r) \/ CopyGivesUp(r)
  BY <1>3, <1>1 DEF HoldRestoreLock, CheckHeartbeat, ProbeLocks, DropProbe, ReplaceConfig, Crash, CopyGivesUp,
     Ends, Held, Ended, locks
<1>4. CASE Stage(r)
  <2>1. CASE Ends(r, "failed")
    BY <2>1, <1>4, <1>1 DEF Stage, Ends, Ended
  <2>2. CASE rest' = [rest EXCEPT ![r].pc = "beat", ![r].pass = 2] /\ UNCHANGED rlock
    <3>1. [row EXCEPT !.pc = "beat", !.pass = 2] \in RestRows
      BY <1>0 DEF RestRows, Held
    <3>2. rest' = [rest EXCEPT ![r] = [row EXCEPT !.pc = "beat", !.pass = 2]]
      BY <1>0, <2>2 DEF TypeOK, RestRows
    <3> QED
      BY <3>1, <3>2, <2>2, <1>2, <1>4 DEF Stage, locks
  <2> QED
    BY <2>1, <2>2, <1>4 DEF Stage
<1>5. CASE CheckIdle(r)
  <2> DEFINE seen == [row EXCEPT !.raw = IF db[d].readable THEN @ ELSE @ \cup {d}]
  <2>1. seen \in RestRows
    BY <1>0 DEF RestRows
  <2>2. NextOr(seen, "snap") \in RestRows
    BY <2>1, NextRow DEF Held
  <2>3. Ends(r, "refused") \/ (rest' = [rest EXCEPT ![r] = NextOr(seen, "snap")] /\ UNCHANGED rlock)
    BY <1>5, Zenon DEF CheckIdle
  <2> HIDE DEF seen
  <2> QED
    BY <2>2, <2>3, <1>5, <1>1, <1>2 DEF CheckIdle, Ends, Ended, locks
<1>6. CASE Snapshot(r)
  <2> DEFINE kept == [row.kept EXCEPT ![d] = [base |-> db[d].base, gen |-> db[d].gen]]
             taken == [row EXCEPT !.kept = kept]
  <2>1. kept \in Snapshots
    BY <1>0 DEF RestRows, Snapshots
  <2>2. taken \in RestRows
    BY <2>1, <1>0 DEF RestRows
  <2>3. NextOr(taken, "copy") \in RestRows
    BY <2>2, NextRow DEF Held
  <2>4. taken = [rest[r] EXCEPT !.kept[d] = [base |-> db[d].base, gen |-> db[d].gen]]
    BY <1>0
  <2>5. Ends(r, "failed") \/ (rest' = [rest EXCEPT ![r] = NextOr(taken, "copy")] /\ UNCHANGED rlock)
    BY <1>6, <2>4, Zenon DEF Snapshot
  <2> HIDE DEF taken
  <2> QED
    BY <2>3, <2>5, <1>6, <1>1, <1>2 DEF Snapshot, Ends, Ended, locks
<1>7. CASE Unlink(r)
  <2>1. rest' = [rest EXCEPT ![r] = row]
    BY <1>7 DEF Unlink, TypeOK
  <2>2. db' \in [Dbs -> [base : Contents, gen : Nat, busy : BOOLEAN, readable : BOOLEAN]]
    BY <1>7, <1>0 DEF Unlink, Contents
  <2> QED
    BY <2>1, <2>2, <1>0, <1>7, RestMoves DEF Unlink, locks
<1>11. CASE UnlinkFails(r)
  <2>1. db' \in [Dbs -> [base : Contents, gen : Nat, busy : BOOLEAN, readable : BOOLEAN]]
    <3>1. [base |-> Gone, gen |-> 0, busy |-> FALSE, readable |-> TRUE]
          \in [base : Contents, gen : Nat, busy : BOOLEAN, readable : BOOLEAN]
      BY DEF Contents
    <3> QED
      BY <3>1, <1>11, <1>0 DEF UnlinkFails
  <2>2. CASE Ends(r, "failed")
    <3>1. PICK x \in RestRows : rest' = [rest EXCEPT ![r] = x]
      BY <2>2, GoesRow DEF Ends, Ended
    <3> QED
      BY <2>1, <2>2, <3>1, <1>11, RestMoves DEF UnlinkFails, Ends
  <2>3. CASE rest[r].at > 1 /\ rest' = [rest EXCEPT ![r].pc = "undo", ![r].at = @ - 1] /\ UNCHANGED rlock
    <3>1. [row EXCEPT !.pc = "undo", !.at = @ - 1] \in RestRows
      <4>1. row.at - 1 \in 1..Len(Copies)
        BY <1>0, <2>3, CopiesAssumption DEF RestRows
      <4>2. PICK x \in RestRows : x = row
        BY <1>0
      <4>3. [x EXCEPT !.pc = "undo", !.at = x.at - 1] \in RestRows
        BY <4>1, <4>2 DEF RestRows, Held
      <4> QED
        BY <4>2, <4>3
    <3>2. rest' = [rest EXCEPT ![r] = [row EXCEPT !.pc = "undo", !.at = @ - 1]]
      BY <1>0, <2>3 DEF TypeOK, RestRows
    <3> QED
      BY <2>1, <2>3, <3>1, <3>2, <1>11, RestMoves DEF UnlinkFails
  <2> QED
    BY <2>2, <2>3, <1>11 DEF UnlinkFails
<1>8. CASE CopyDb(r)
  <2> DEFINE committed == [row EXCEPT !.done = @ \cup {d}]
  <2>1. committed \in RestRows /\ [committed EXCEPT !.pc = "undo"] \in RestRows
    BY <1>0 DEF RestRows, Held
  <2>2. NextOr(committed, "config") \in RestRows
    BY <2>1, NextRow DEF Held
  <2>3. rest' = [rest EXCEPT ![r] = NextOr(committed, "config")]
        \/ rest' = [rest EXCEPT ![r] = [committed EXCEPT !.pc = "undo"]]
    BY <1>8 DEF CopyDb
  <2>4. PICK x \in RestRows : rest' = [rest EXCEPT ![r] = x]
    <3> HIDE DEF committed
    <3> QED
      BY <2>1, <2>2, <2>3
  <2>5. db' \in [Dbs -> [base : Contents, gen : Nat, busy : BOOLEAN, readable : BOOLEAN]]
    BY <1>8, <1>0, PutTypes DEF CopyDb, Contents
  <2> QED
    BY <2>4, <2>5, <1>8, RestMoves DEF CopyDb, locks
<1>9. CASE UndoNothing(r)
  BY <1>0, <1>9, ReportTypes, RestMoves DEF UndoNothing, Outcome, data
<1>10. CASE UndoCopy(r)
  <2> DEFINE u == Undoing(r)
  <2>1. u \in Dbs /\ row.kept[u].base \in Contents /\ row.kept[u].gen \in Nat
    BY <1>0, <1>10 DEF UndoCopy, RestRows, Snapshots
  <2>2. db' \in [Dbs -> [base : Contents, gen : Nat, busy : BOOLEAN, readable : BOOLEAN]]
    BY <2>1, <1>0, <1>10, PutTypes DEF UndoCopy
  <2>3. Reports(r, u, "ok") \/ Reports(r, u, "error")
    BY <1>10 DEF UndoCopy
  <2> HIDE DEF u
  <2> QED
    BY <2>2, <2>3, <1>10, ReportTypes, RestMoves DEF UndoCopy, Outcome
<1> QED
  BY <1>3, <1>4, <1>5, <1>6, <1>7, <1>8, <1>9, <1>10, <1>11 DEF RestStep, Gate, Swap

\* and so do those of everyone else.
LEMMA OutsideTypes ==
  ASSUME TypeOK, Outside
  PROVE  TypeOK'
<1>1. CASE GoesStale
  BY <1>1 DEF GoesStale, TypeOK, locks, data
<1>2. CASE ByHand
  BY <1>2 DEF ByHand, TypeOK, locks, data
<1>3. CASE \E p \in Probes : Peek(p) \/ Unpeek(p)
  BY <1>3 DEF Peek, Unpeek, TypeOK, signs, data
<1>4. ASSUME NEW d \in Dbs, BeginWrite(d) \/ CommitWrite(d) PROVE TypeOK'
  <2>1. CASE BeginWrite(d)
    BY <1>4, <2>1 DEF BeginWrite, TypeOK, locks, signs
  <2>2. CASE CommitWrite(d)
    BY <2>2 DEF CommitWrite, TypeOK, locks, signs
  <2> QED
    BY <1>4, <2>1, <2>2
<1> QED
  BY <1>1, <1>2, <1>3, <1>4 DEF Outside

--------------------------------------------------------------------------------
(* The locks.                                                               *)

\* The steps of a scheduler keep the invariant of the locks,
LEMMA SchedStepLocks ==
  ASSUME LockInv, NEW s \in Scheds, SchedStep(s)
  PROVE  SchedLocks' /\ RestLocks'
<1> USE ConstAssumption
<1>0. /\ sched \in [Scheds -> SchedRows] /\ \A q \in Scheds : sched[q].running \subseteq sched[q].active
      /\ UNCHANGED rest
  BY DEF LockInv, TypeOK, SchedStep, Start, Drain, TakeRestoreLock, StartsNothing, TakeJobsLock,
     JobsLockFails, ReleaseRestoreLock, StartJobs, EndTick, Stop, BecomesDue, JobEnds
<1>1. CASE Start(s)
  <2>1. sched'[s] = [pc |-> "tick", keep |-> FALSE, active |-> {}, running |-> {},
                     due |-> [j \in Jobs |-> 0], go |-> FALSE]
    BY <1>0, <1>1, Zenon DEF Start, Down
  <2>2. \A q \in Scheds \ {s} : sched'[q] = sched[q]
    BY <1>0, <1>1, Zenon DEF Start
  <2> QED
    BY <1>0, <1>1, <2>1, <2>2 DEF Start, LockInv, SchedLocks, RestLocks, PastGate, locks
<1>2. CASE Drain(s)
  BY <1>0, <1>2 DEF Drain, LockInv, SchedLocks, RestLocks, PastGate, SchedRows, locks
<1>3. CASE TakeRestoreLock(s)
  BY <1>0, <1>3 DEF TakeRestoreLock, SchedGoes, LockInv, TypeOK, SchedLocks, RestLocks, PastGate, SchedRows
<1>4. CASE StartsNothing(s)
  BY <1>0, <1>4 DEF StartsNothing, SchedGoes, LockInv, SchedLocks, RestLocks, PastGate, SchedRows, locks
<1>5. CASE TakeJobsLock(s)
  BY <1>0, <1>5 DEF TakeJobsLock, LockInv, TypeOK, SchedLocks, RestLocks, PastGate, SchedRows, Held, Swapping
<1>6. CASE JobsLockFails(s)
  BY <1>0, <1>6 DEF JobsLockFails, SchedGoes, LockInv, SchedLocks, RestLocks, PastGate, SchedRows, locks
<1>7. CASE ReleaseRestoreLock(s)
  BY <1>0, <1>7 DEF ReleaseRestoreLock, SchedGoes, LockInv, SchedLocks, RestLocks, PastGate, SchedRows
<1>8. CASE StartJobs(s)
  BY <1>0, <1>8 DEF StartJobs, LockInv, SchedLocks, RestLocks, PastGate, SchedRows, locks
<1>9. CASE EndTick(s)
  <2>1. CASE sched[s].keep /\ sched[s].active = {}
    <3>1. /\ jlock' = None /\ rlock' = rlock /\ sched[s].pc = "status"
          /\ sched' = [sched EXCEPT ![s].pc = "tick", ![s].keep = FALSE]
      BY <1>9, <2>1 DEF EndTick
    <3>2. /\ sched'[s].pc = "tick" /\ sched'[s].keep = FALSE /\ sched'[s].active = {}
          /\ sched'[s].go = sched[s].go /\ \A q \in Scheds \ {s} : sched'[q] = sched[q]
      BY <1>0, <2>1, <3>1 DEF SchedRows
    <3>3. jlock = s /\ sched[s].go # TRUE
      BY <2>1, <3>1 DEF LockInv, SchedLocks
    <3>4. SchedLocks'
      BY <3>1, <3>2, <3>3 DEF LockInv, SchedLocks
    <3>5. RestLocks'
      BY <1>0, <3>1, <3>2, <3>3 DEF LockInv, RestLocks, PastGate
    <3> QED
      BY <3>4, <3>5
  <2>2. CASE ~(sched[s].keep /\ sched[s].active = {})
    <3>1. SchedGoes(s, "tick") /\ UNCHANGED <<rlock, jlock>> /\ sched[s].pc = "status"
      BY <1>9, <2>2, Zenon DEF EndTick
    <3>2. /\ sched'[s].pc = "tick" /\ sched'[s].keep = sched[s].keep /\ sched'[s].active = sched[s].active
          /\ sched'[s].go = sched[s].go /\ \A q \in Scheds \ {s} : sched'[q] = sched[q]
      BY <1>0, <3>1 DEF SchedGoes, SchedRows
    <3> QED
      BY <1>0, <3>1, <3>2 DEF LockInv, SchedLocks, RestLocks, PastGate
  <2> QED
    BY <2>1, <2>2
<1>10. CASE Stop(s)
  BY <1>0, <1>10 DEF Stop, Down, LockInv, SchedLocks, RestLocks, PastGate, SchedRows
<1>11. ASSUME NEW j \in Jobs, BecomesDue(s, j) \/ JobEnds(s, j) PROVE SchedLocks' /\ RestLocks'
  <2>1. CASE BecomesDue(s, j)
    BY <1>0, <2>1 DEF BecomesDue, LockInv, SchedLocks, RestLocks, PastGate, SchedRows, locks
  <2>2. CASE JobEnds(s, j)
    BY <1>0, <2>2 DEF JobEnds, LockInv, SchedLocks, RestLocks, PastGate, SchedRows, locks
  <2> QED
    BY <1>11, <2>1, <2>2
<1> QED
  BY <1>1, <1>2, <1>3, <1>4, <1>5, <1>6, <1>7, <1>8, <1>9, <1>10, <1>11 DEF SchedStep

\* What each step of a restore does to its place and to the locks.
LEMMA RestPlaces ==
  ASSUME TypeOK, NEW r \in Restores, RestStep(r) \/ Crash(r)
  PROVE  /\ sched' = sched /\ \A q \in Restores \ {r} : rest'[q] = rest[q]
         /\ \/ rest[r].pc = "new" /\ rlock = None /\ rlock' = r /\ jlock' = jlock
               /\ rest'[r].pc = "beat" /\ rest'[r].pass = rest[r].pass
            \/ rest[r].pc = "new" /\ UNCHANGED <<rlock, jlock>> /\ rest'[r].pc = "refused"
            \/ rest[r].pc \in {"beat", "stage"} /\ UNCHANGED <<rlock, jlock>>
               /\ rest'[r].pc \in {"beat", "probe"} /\ (rest[r].pc = "beat" => rest'[r].pass = rest[r].pass)
            \/ rest[r].pc = "probe" /\ jlock = None /\ jlock' = r /\ rlock' = rlock /\ rest'[r].pc = "drop"
            \/ rest[r].pc = "drop" /\ jlock' = None /\ rlock' = rlock
               /\ rest'[r].pc \in {"stage", "idle"}
            \/ rest[r].pc \in Swapping /\ UNCHANGED <<rlock, jlock>> /\ rest'[r].pc \in Swapping
            \/ rest[r].pc \in Held /\ rlock' = None /\ rest'[r].pc \in Ended
               /\ \/ rest[r].pc # "drop" /\ jlock' = jlock
                  \/ jlock' = IF jlock = r THEN None ELSE jlock
<1> DEFINE row == rest[r]
           d == Target(r)
<1>0. /\ row \in RestRows /\ rest \in [Restores -> RestRows]
      /\ row = [pc |-> row.pc, pass |-> row.pass, at |-> row.at, raw |-> row.raw,
                kept |-> row.kept, done |-> row.done, out |-> row.out]
  BY RowOf DEF TypeOK
<1>1. sched' = sched /\ \A q \in Restores \ {r} : rest'[q] = rest[q]
  BY <1>0 DEF RestStep, Crash, Gate, Swap, HoldRestoreLock, CheckHeartbeat, ProbeLocks, DropProbe, Stage,
     CheckIdle, Snapshot, Unlink, UnlinkFails, CopyDb, CopyGivesUp, UndoNothing, UndoCopy, ReplaceConfig, Ends, RestGoes, Reports
<1>2. CASE Gate(r) \/ Crash(r) \/ CopyGivesUp(r) \/ ReplaceConfig(r)
  <2>1. CASE HoldRestoreLock(r)
    BY <1>0, <1>1, <2>1 DEF HoldRestoreLock, RestGoes, RestRows
  <2>2. CASE CheckHeartbeat(r)
    BY <1>0, <1>1, <2>2 DEF CheckHeartbeat, Ends, RestGoes, RestRows, Held, Ended
  <2>3. CASE ProbeLocks(r)
    BY <1>0, <1>1, <2>3 DEF ProbeLocks, Ends, RestGoes, RestRows, Held, Ended
  <2>4. CASE DropProbe(r)
    BY <1>0, <1>1, <2>4 DEF DropProbe, RestGoes, RestRows
  <2>5. CASE Crash(r)
    BY <1>0, <1>1, <2>5 DEF Crash, Ends, RestGoes, RestRows, Held, Ended
  <2>6. CASE CopyGivesUp(r)
    BY <1>0, <1>1, <2>6 DEF CopyGivesUp, RestGoes, RestRows, Swapping, locks
  <2>7. CASE ReplaceConfig(r)
    BY <1>0, <1>1, <2>7 DEF ReplaceConfig, Ends, RestGoes, RestRows, Held, Ended
  <2> QED
    BY <1>2, <2>1, <2>2, <2>3, <2>4, <2>5, <2>6, <2>7 DEF Gate
<1>3. CASE Stage(r)
  BY <1>0, <1>1, <1>3 DEF Stage, Ends, RestGoes, Held, Ended, RestRows
<1>4. ASSUME NEW x \in RestRows, x.pc = row.pc, row.pc \in Swapping, NEW pc \in Swapping, rest' = [rest EXCEPT ![r] = NextOr(x, pc)]
      PROVE  rest'[r].pc \in Swapping
  <2>1. rest'[r] = NextOr(x, pc)
    BY <1>0, <1>4
  <2>2. NextOr(x, pc).pc \in {x.pc, pc}
    BY <1>4 DEF NextOr, RestRows
  <2> QED
    BY <2>1, <2>2, <1>4
<1>5. CASE CheckIdle(r)
  <2> DEFINE x == [row EXCEPT !.raw = IF db[d].readable THEN @ ELSE @ \cup {d}]
  <2>1. x \in RestRows /\ x.pc = row.pc
    BY <1>0, RowOf DEF RestRows
  <2>2. Ends(r, "refused") \/ (rest' = [rest EXCEPT ![r] = NextOr(x, "snap")] /\ UNCHANGED rlock)
    BY <1>5, Zenon DEF CheckIdle
  <2> HIDE DEF x
  <2>3. (rlock' = None /\ rest'[r].pc \in Ended) \/ (rest'[r].pc \in Swapping /\ UNCHANGED rlock)
    <3>1. CASE Ends(r, "refused")
      BY <1>0, <3>1 DEF Ends, RestGoes, Ended, RestRows
    <3>2. CASE rest' = [rest EXCEPT ![r] = NextOr(x, "snap")] /\ UNCHANGED rlock
      <4>1. row.pc \in Swapping /\ "snap" \in Swapping
        BY <1>5 DEF CheckIdle, Swapping
      <4> QED
        BY <1>4, <2>1, <3>2, <4>1
    <3> QED
      BY <2>2, <3>1, <3>2
  <2> QED
    BY <2>3, <1>1, <1>5 DEF CheckIdle, Held, Swapping
<1>6. CASE Snapshot(r)
  <2> DEFINE x == [row EXCEPT !.kept[d] = [base |-> db[d].base, gen |-> db[d].gen]]
  <2>1. x \in RestRows /\ x.pc = row.pc
    <3>1. [row.kept EXCEPT ![d] = [base |-> db[d].base, gen |-> db[d].gen]] \in Snapshots
      BY <1>0, RowOf DEF RestRows, Snapshots, TypeOK
    <3> QED
      BY <1>0, <3>1 DEF RestRows
  <2>2. Ends(r, "failed") \/ (rest' = [rest EXCEPT ![r] = NextOr(x, "copy")] /\ UNCHANGED rlock)
    BY <1>6, Zenon DEF Snapshot
  <2> HIDE DEF x
  <2>3. (rlock' = None /\ rest'[r].pc \in Ended) \/ (rest'[r].pc \in Swapping /\ UNCHANGED rlock)
    BY <2>1, <2>2, <1>0, <1>4, <1>6 DEF Snapshot, Ends, RestGoes, Ended, Swapping, RestRows
  <2> QED
    BY <2>3, <1>1, <1>6 DEF Snapshot, Held, Swapping
<1>7. CASE Unlink(r)
  BY <1>0, <1>1, <1>7 DEF Unlink, locks, Swapping
<1>12. CASE UnlinkFails(r)
  BY <1>0, <1>1, <1>12 DEF UnlinkFails, Ends, RestGoes, RestRows, Swapping, Held, Ended
<1>8. CASE CopyDb(r)
  <2> DEFINE x == [row EXCEPT !.done = @ \cup {d}]
  <2>1. x \in RestRows /\ x.pc = row.pc
    <3>1. row \in RestRows /\ d \in Dbs
      BY <1>0, RowOf
    <3> HIDE DEF row, d
    <3> QED
      BY <3>1 DEF RestRows
  <2>2. rest' = [rest EXCEPT ![r] = NextOr(x, "config")] \/ rest' = [rest EXCEPT ![r] = [x EXCEPT !.pc = "undo"]]
    BY <1>8 DEF CopyDb
  <2> HIDE DEF x
  <2>3. rest'[r].pc \in Swapping
    BY <2>1, <2>2, <1>0, <1>4, <1>8 DEF CopyDb, Swapping, RestRows
  <2> QED
    BY <2>3, <1>1, <1>8 DEF CopyDb, Swapping, locks
<1>9. ASSUME NEW u, NEW what, row.pc = "undo", Reports(r, u, what), jlock' = jlock
      PROVE  \/ row.pc \in Swapping /\ UNCHANGED <<rlock, jlock>> /\ rest'[r].pc \in Swapping
             \/ row.pc \in Held \ {"drop"} /\ rlock' = None /\ jlock' = jlock /\ rest'[r].pc \in Ended
  BY <1>0, <1>9 DEF Reports, Swapping, Held, Ended, RestRows
<1>10. CASE UndoNothing(r)
  BY <1>1, <1>9, <1>10 DEF UndoNothing
<1>11. CASE UndoCopy(r)
  BY <1>1, <1>9, <1>11 DEF UndoCopy
<1> QED
  BY <1>2, <1>3, <1>5, <1>6, <1>7, <1>8, <1>10, <1>11, <1>12 DEF RestStep, Swap

\* those of a restore do,
LEMMA RestStepLocks ==
  ASSUME LockInv, NEW r \in Restores, RestStep(r) \/ Crash(r)
  PROVE  SchedLocks' /\ RestLocks'
<1> USE ConstAssumption
<1>1. SchedLocks'
  BY RestPlaces DEF LockInv, SchedLocks, RestLocks, Held, Swapping, Ended
<1>2. RestLocks'
  <2>1. /\ rlock' = r <=> rest'[r].pc \in Held
        /\ jlock' = r <=> rest'[r].pc = "drop"
        /\ rest'[r].pc # "new"
    BY RestPlaces DEF LockInv, RestLocks, Held, Swapping, Ended
  <2>2. ASSUME PastGate(r)' PROVE \A s \in Scheds : sched'[s].keep = FALSE
    <3>1. CASE PastGate(r)
      BY <3>1, RestPlaces DEF LockInv, RestLocks
    <3>2. CASE ~PastGate(r)
      <4>1. rest[r].pc = "probe" /\ jlock = None /\ sched' = sched
        BY <2>2, <3>2, RestPlaces DEF PastGate, Held, Swapping, Ended, LockInv, RestLocks
      <4> QED
        BY <4>1 DEF LockInv, TypeOK, SchedLocks, SchedRows
    <3> QED
      BY <3>1, <3>2
  <2>3. ASSUME NEW q \in Restores \ {r}
        PROVE  /\ rlock' = q <=> rest'[q].pc \in Held
               /\ jlock' = q <=> rest'[q].pc = "drop"
               /\ rest'[q].pc = "new" => rest'[q].pass = 1
               /\ PastGate(q)' => \A s \in Scheds : sched'[s].keep = FALSE
    BY RestPlaces DEF LockInv, RestLocks, PastGate, Held, Swapping, Ended
  <2> QED
    BY <2>1, <2>2, <2>3 DEF RestLocks
<1> QED
  BY <1>1, <1>2

\* and everyone else leaves the locks alone.
LEMMA OutsideLocks ==
  ASSUME LockInv, Outside
  PROVE  SchedLocks' /\ RestLocks'
<1> USE ConstAssumption
<1>1. UNCHANGED <<rlock, sched, rest>> /\ (jlock' = jlock \/ {jlock, jlock'} \subseteq Probes \cup {None})
  BY DEF Outside, GoesStale, ByHand, Peek, Unpeek, BeginWrite, CommitWrite, locks, signs, data
<1> QED
  BY <1>1 DEF LockInv, SchedLocks, RestLocks, PastGate

\* Every step keeps the invariant of the locks.
LEMMA LocksKept == LockInv /\ [Next]_vars => LockInv'
<1>1. ASSUME LockInv, NEW s \in Scheds, SchedStep(s) PROVE LockInv'
  BY <1>1, SchedStepTypes, SchedStepLocks DEF LockInv
<1>2. ASSUME LockInv, NEW r \in Restores, RestStep(r) \/ Crash(r) PROVE LockInv'
  BY <1>2, RestStepTypes, RestStepLocks DEF LockInv
<1>3. ASSUME LockInv, Outside PROVE LockInv'
  BY <1>3, OutsideTypes, OutsideLocks DEF LockInv
<1>4. ASSUME LockInv, UNCHANGED vars PROVE LockInv'
  BY <1>4 DEF LockInv, TypeOK, SchedLocks, RestLocks, PastGate, vars
<1> QED
  BY <1>1, <1>2, <1>3, <1>4 DEF Next

\* The types, whatever happens.
THEOREM TypeCorrect == Spec => []TypeOK
<1>1. LockInv => TypeOK
  BY DEF LockInv
<1> QED
  BY <1>1, InitLocks, LocksKept, PTL DEF Spec

--------------------------------------------------------------------------------
(* Work or swap.                                                            *)

\* While a scheduler keeps the job lock no other one works and no restore swaps.
LEMMA KeepWorks ==
  ASSUME LockInv, NEW s \in Scheds, sched[s].keep = TRUE
  PROVE  Working \subseteq {s} /\ SwappingRestores = {}
<1>1. \A q \in Scheds : sched[q].running # {} => sched[q].keep = TRUE
  BY DEF LockInv, TypeOK, SchedLocks
<1>2. \A q \in Scheds : sched[q].keep = TRUE => q = s
  BY DEF LockInv, SchedLocks
<1>3. \A r \in Restores : ~PastGate(r)
  BY DEF LockInv, RestLocks
<1> QED
  BY <1>1, <1>2, <1>3 DEF Working, SwappingRestores, PastGate

\* A scheduler starts a job only while it keeps the job lock.
LEMMA SchedRuns ==
  ASSUME LockInv, NEW s \in Scheds, SchedStep(s)
  PROVE  /\ rest' = rest /\ \A q \in Scheds \ {s} : sched'[q] = sched[q]
         /\ sched[s].running # {} \/ sched'[s].running = {} \/ sched[s].keep = TRUE
<1>0. sched \in [Scheds -> SchedRows] /\ SchedLocks
  BY DEF LockInv, TypeOK
<1>1. CASE StartJobs(s)
  BY <1>0, <1>1 DEF StartJobs, SchedLocks, SchedRows
<1>2. CASE Start(s) \/ Stop(s)
  <2>1. sched' = [sched EXCEPT ![s] = [Down EXCEPT !.pc = "tick"]] \/ sched' = [sched EXCEPT ![s] = Down]
    BY <1>2 DEF Start, Stop
  <2>2. Down.running = {} /\ [Down EXCEPT !.pc = "tick"].running = {}
    BY DEF Down
  <2>3. sched'[s].running = {} /\ \A q \in Scheds \ {s} : sched'[q] = sched[q]
    BY <1>0, <2>1, <2>2
  <2> QED
    BY <1>2, <2>3 DEF Start, Stop
<1>3. CASE Drain(s) \/ TakeJobsLock(s)
  <2>1. CASE Drain(s)
    BY <1>0, <2>1 DEF Drain, SchedRows
  <2>2. CASE TakeJobsLock(s)
    BY <1>0, <2>2 DEF TakeJobsLock, SchedRows
  <2> QED
    BY <1>3, <2>1, <2>2
<1>6. ASSUME NEW pc \in SchedPc, SchedGoes(s, pc)
      PROVE  sched'[s].running = sched[s].running /\ \A q \in Scheds \ {s} : sched'[q] = sched[q]
  BY <1>0, <1>6 DEF SchedGoes, SchedRows
<1>7. SchedPc = {"down", "tick", "jobs", "leave", "start", "status"}
  BY DEF SchedPc
<1>8. CASE TakeRestoreLock(s) \/ StartsNothing(s)
  <2>1. SchedGoes(s, "jobs") \/ SchedGoes(s, "status")
    BY <1>8 DEF TakeRestoreLock, StartsNothing
  <2>2. rest' = rest
    BY <1>8 DEF TakeRestoreLock, StartsNothing
  <2>3. PICK pc \in SchedPc : SchedGoes(s, pc)
    BY <1>7, <2>1
  <2> QED
    BY <1>6, <2>2, <2>3
<1>4. CASE JobsLockFails(s) \/ ReleaseRestoreLock(s)
  <2>1. rest' = rest /\ \E pc \in SchedPc : SchedGoes(s, pc)
    BY <1>4, <1>7 DEF JobsLockFails, ReleaseRestoreLock
  <2> QED
    BY <1>6, <2>1
<1>9. CASE EndTick(s)
  BY <1>0, <1>9 DEF EndTick, SchedGoes, SchedRows
<1>5. ASSUME NEW j \in Jobs, BecomesDue(s, j) \/ JobEnds(s, j)
      PROVE  rest' = rest /\ (\A q \in Scheds \ {s} : sched'[q] = sched[q])
             /\ (sched[s].running # {} \/ sched'[s].running = {})
  BY <1>0, <1>5 DEF BecomesDue, JobEnds, SchedRows
<1> QED
  BY <1>1, <1>2, <1>3, <1>4, <1>5, <1>8, <1>9 DEF SchedStep

\* Every step is a step of work or of swapping, or neither.
LEMMA StepRefines == LockInv /\ [Next]_vars => [Abstract!Next]_Abstract!vars
<1> SUFFICES ASSUME LockInv, [Next]_vars PROVE [Abstract!Next]_Abstract!vars
  OBVIOUS
<1> USE DEF Abstract!Next, Abstract!vars
<1>1. ASSUME NEW s \in Scheds, SchedStep(s) PROVE [Abstract!Next]_Abstract!vars
  <2>1. SwappingRestores' = SwappingRestores
    BY <1>1, SchedRuns DEF SwappingRestores
  <2>2. CASE sched'[s].running = {}
    <3>1. Working' = Working \ {s}
      BY <1>1, <2>2, SchedRuns DEF Working
    <3> QED
      BY <2>1, <3>1 DEF Abstract!Rest
  <2>3. CASE sched'[s].running # {} /\ sched[s].running # {}
    <3>1. Working' = Working
      BY <1>1, <2>3, SchedRuns DEF Working
    <3> QED
      BY <2>1, <3>1
  <2>4. CASE sched'[s].running # {} /\ sched[s].running = {}
    <3>1. Working \subseteq {s} /\ SwappingRestores = {}
      BY <1>1, <2>4, SchedRuns, KeepWorks
    <3>2. Working' = {s}
      BY <1>1, <2>4, <3>1, SchedRuns DEF Working
    <3> QED
      BY <2>1, <3>1, <3>2 DEF Abstract!Work
  <2> QED
    BY <2>2, <2>3, <2>4
<1>2. ASSUME NEW r \in Restores, RestStep(r) \/ Crash(r) PROVE [Abstract!Next]_Abstract!vars
  <2>0. TypeOK /\ Working' = Working
    BY <1>2, RestPlaces DEF LockInv, Working
  <2>1. CASE rest'[r].pc \notin Swapping
    <3>1. SwappingRestores' = SwappingRestores \ {r}
      BY <1>2, <2>0, <2>1, RestPlaces DEF SwappingRestores
    <3> QED
      BY <2>0, <3>1 DEF Abstract!Leave
  <2>2. CASE rest[r].pc \in Swapping /\ rest'[r].pc \in Swapping
    <3>1. SwappingRestores' = SwappingRestores
      BY <1>2, <2>0, <2>2, RestPlaces DEF SwappingRestores
    <3> QED
      BY <2>0, <3>1
  <2>3. CASE rest[r].pc \notin Swapping /\ rest'[r].pc \in Swapping
    <3>1. rest[r].pc = "drop"
      BY <1>2, <2>0, <2>3, RestPlaces DEF Swapping, Ended
    <3>2. Working = {}
      BY <3>1 DEF LockInv, TypeOK, SchedLocks, RestLocks, PastGate, Working
    <3>3. SwappingRestores = {}
      BY <3>1 DEF LockInv, RestLocks, SwappingRestores, Held, Swapping
    <3>4. SwappingRestores' = {r}
      BY <1>2, <2>0, <2>3, <3>3, RestPlaces DEF SwappingRestores
    <3> QED
      BY <2>0, <3>2, <3>3, <3>4 DEF Abstract!Swap
  <2> QED
    BY <2>1, <2>2, <2>3
<1>3. CASE Outside \/ UNCHANGED vars
  <2>1. UNCHANGED <<sched, rest>>
    BY <1>3 DEF Outside, GoesStale, ByHand, Peek, Unpeek, BeginWrite, CommitWrite, vars
  <2> QED
    BY <2>1 DEF Working, SwappingRestores
<1> QED
  BY <1>1, <1>2, <1>3 DEF Next

\* Jobs and restores exclude each other by the two locks alone: the heartbeat, the
\* previews and jobs started by hand are arbitrary.
THEOREM WorkOrSwapRefined == Spec => ImplementsWorkOrSwap
<1>1. Init => Abstract!Init
  BY DEF Init, Down, New, Abstract!Init, Working, SwappingRestores, Swapping
<1> QED
  BY <1>1, InitLocks, LocksKept, StepRefines, PTL DEF Spec, ImplementsWorkOrSwap, Abstract!Spec

--------------------------------------------------------------------------------
(* The databases.  The steps of a restore by what they do to them.          *)

Early == {"new", "beat", "probe", "drop", "stage", "idle", "snap"}
Late == {"undo", "failed", "crashed"}

\* Neither a database nor the record of one changes.
Quiet(r) ==
    LET row == rest[r] new == rest'[r] IN
    /\ db' = db /\ new.done = row.done /\ new.kept = row.kept /\ new.out = row.out
    /\ row.raw \subseteq new.raw
    /\ new.pc \notin {"copy", "config"} /\ (new.pc = "done" => row.pc = "config")
    /\ new.pc \in Early => row.pc \in Early
    /\ new.pc \in Early \ {"snap"} => row.pc \in Early \ {"snap"}
    /\ row.pc \in Late => new.pc \in Late
    /\ new.pc \in Held => row.pc \in Held \cup {"new"}
Kept(r) ==
    LET row == rest[r] new == rest'[r] d == Target(r) IN
    /\ row.pc = "snap" /\ db' = db /\ new.done = row.done /\ new.out = row.out /\ new.raw = row.raw
    /\ new.kept = [row.kept EXCEPT ![d] = [base |-> db[d].base, gen |-> db[d].gen]]
    /\ new.pc = "snap" \/ (new.pc = "copy" /\ new.at = 1)
Removed(r) ==
    LET d == Target(r) IN
    /\ rest[r].pc = "copy" /\ d \in rest[r].raw
    /\ \/ rest'[r] = rest[r]
       \/ /\ rest'[r].pc \in {"undo", "failed"} /\ rest'[r].done = rest[r].done /\ rest'[r].kept = rest[r].kept
          /\ rest'[r].out = rest[r].out /\ rest'[r].raw = rest[r].raw
    /\ db' = [db EXCEPT ![d] = [base |-> Gone, gen |-> 0, busy |-> FALSE, readable |-> TRUE]]
Copied(r) ==
    LET row == rest[r] new == rest'[r] d == Target(r) IN
    /\ row.pc = "copy" /\ db' = [db EXCEPT ![d].base = r, ![d].gen = 0]
    /\ new.done = row.done \cup {d} /\ new.kept = row.kept /\ new.out = row.out /\ new.raw = row.raw
    /\ \/ new.pc = "copy" /\ new.at = row.at + 1
       \/ new.pc = "config" /\ row.at = Len(Copies)
       \/ new.pc = "undo"
ReportedAs(r, u, w) ==
    LET row == rest[r] new == rest'[r] IN
    /\ row.pc = "undo" /\ new.pc \in {"undo", "failed"}
    /\ new.done = row.done /\ new.kept = row.kept /\ new.raw = row.raw
    /\ new.out = [row.out EXCEPT ![u] = w]
    /\ \/ db' = db /\ w \in {"removed", "error"}
       \/ db' = db /\ w = "unchanged" /\ u \notin row.done
       \/ /\ w \in {"ok", "error"} /\ u \in row.done \ row.raw
          /\ db' = [db EXCEPT ![u].base = row.kept[u].base, ![u].gen = row.kept[u].gen]
Reported(r) == \E u : \E w \in Outcome : ReportedAs(r, u, w)

\* What a step of a restore does to the databases, one way of five.
LEMMA Effects ==
  ASSUME TypeOK, NEW r \in Restores, RestStep(r) \/ Crash(r)
  PROVE  /\ acks' = acks
         /\ Quiet(r) \/ Kept(r) \/ Removed(r) \/ Copied(r) \/ Reported(r)
<1> DEFINE row == rest[r]
           d == Target(r)
<1>0. /\ row \in RestRows /\ rest \in [Restores -> RestRows] /\ d \in Dbs
      /\ row = [pc |-> row.pc, pass |-> row.pass, at |-> row.at, raw |-> row.raw,
                kept |-> row.kept, done |-> row.done, out |-> row.out]
  BY RowOf DEF TypeOK
<1>a. acks' = acks
  BY DEF RestStep, Gate, Swap, Crash, HoldRestoreLock, CheckHeartbeat, ProbeLocks, DropProbe, Stage, CheckIdle,
     Snapshot, Unlink, UnlinkFails, CopyDb, CopyGivesUp, UndoNothing, UndoCopy, ReplaceConfig, data
<1> SUFFICES Quiet(r) \/ Kept(r) \/ Removed(r) \/ Copied(r) \/ Reported(r)
  BY <1>a
<1>1. ASSUME NEW pc, RestGoes(r, pc), db' = db,
             \/ row.pc \in Early \ {"snap"} /\ pc \in {"beat", "probe", "drop", "stage", "idle"}
             \/ row.pc \in Held \cup {"new"} /\ pc \in {"undo", "refused", "failed", "crashed"}
             \/ row.pc = "config" /\ pc = "done",
             (row.pc \in Late => pc \in Late)
      PROVE  Quiet(r)
  BY <1>0, <1>1 DEF RestGoes, Quiet, Early, Late, Held, RestRows
<1>2. CASE Gate(r) \/ CopyGivesUp(r) \/ ReplaceConfig(r) \/ Crash(r)
  <2>1. db' = db
    BY <1>2 DEF Gate, HoldRestoreLock, CheckHeartbeat, ProbeLocks, DropProbe, CopyGivesUp, ReplaceConfig, Crash, data
  <2>2. CASE HoldRestoreLock(r)
    BY <2>1, <2>2, <1>1 DEF HoldRestoreLock, Early, Held, Late
  <2>3. CASE CheckHeartbeat(r) \/ ProbeLocks(r) \/ DropProbe(r)
    BY <2>1, <2>3, <1>1 DEF CheckHeartbeat, ProbeLocks, DropProbe, Ends, Early, Held, Late
  <2>4. CASE CopyGivesUp(r) \/ ReplaceConfig(r)
    BY <2>1, <2>4, <1>1 DEF CopyGivesUp, ReplaceConfig, Ends, Early, Held, Late
  <2>5. CASE Crash(r)
    BY <2>1, <2>5, <1>1 DEF Crash, Ends, Early, Held, Late
  <2> QED
    BY <1>2, <2>2, <2>3, <2>4, <2>5 DEF Gate
<1>3. CASE Stage(r)
  <2>1. CASE Ends(r, "failed")
    BY <2>1, <1>3, <1>1 DEF Stage, Ends, Held, Late, data
  <2>2. CASE rest' = [rest EXCEPT ![r].pc = "beat", ![r].pass = 2]
    BY <2>2, <1>3, <1>0 DEF Stage, Quiet, Early, Held, Late, RestRows, data
  <2> QED
    BY <2>1, <2>2, <1>3 DEF Stage
<1>4. ASSUME NEW x \in RestRows, NEW pc, rest' = [rest EXCEPT ![r] = NextOr(x, pc)]
      PROVE  /\ rest'[r].done = x.done /\ rest'[r].kept = x.kept /\ rest'[r].out = x.out /\ rest'[r].raw = x.raw
             /\ \/ rest'[r].pc = x.pc /\ x.at < Len(Copies) /\ rest'[r].at = x.at + 1
                \/ rest'[r].pc = pc /\ x.at = Len(Copies) /\ rest'[r].at = 1
  <2>1. rest'[r] = NextOr(x, pc)
    BY <1>0, <1>4
  <2>2. x.at \in 1..Len(Copies) /\ Len(Copies) \in Nat
    BY CopiesAssumption DEF RestRows
  <2>3. x = [pc |-> x.pc, pass |-> x.pass, at |-> x.at, raw |-> x.raw,
             kept |-> x.kept, done |-> x.done, out |-> x.out]
    BY DEF RestRows
  <2>4. CASE x.at < Len(Copies)
    BY <2>1, <2>2, <2>3, <2>4 DEF NextOr
  <2>5. CASE ~(x.at < Len(Copies))
    BY <2>1, <2>2, <2>3, <2>5 DEF NextOr
  <2> QED
    BY <2>4, <2>5
<1>5. CASE CheckIdle(r)
  <2> DEFINE x == [row EXCEPT !.raw = IF db[d].readable THEN @ ELSE @ \cup {d}]
  <2>1. /\ x \in RestRows /\ x.pc = row.pc /\ x.done = row.done /\ x.kept = row.kept
        /\ x.out = row.out /\ row.raw \subseteq x.raw
    BY <1>0 DEF RestRows
  <2>2. Ends(r, "refused") \/ rest' = [rest EXCEPT ![r] = NextOr(x, "snap")]
    BY <1>5, Zenon DEF CheckIdle
  <2>3. row.pc = "idle" /\ db' = db
    BY <1>5 DEF CheckIdle, data
  <2> HIDE DEF x
  <2>4. CASE Ends(r, "refused")
    BY <2>3, <2>4, <1>1 DEF Ends, Held, Late
  <2>5. CASE rest' = [rest EXCEPT ![r] = NextOr(x, "snap")]
    <3>1. /\ rest'[r].done = row.done /\ rest'[r].kept = row.kept /\ rest'[r].out = row.out
          /\ row.raw \subseteq rest'[r].raw /\ rest'[r].pc \in {"idle", "snap"}
      BY <2>1, <2>3, <2>5, <1>4
    <3> QED
      BY <3>1, <2>3 DEF Quiet, Early, Late, Held
  <2> QED
    BY <2>2, <2>4, <2>5
<1>6. CASE Snapshot(r)
  <2> DEFINE k == [row.kept EXCEPT ![d] = [base |-> db[d].base, gen |-> db[d].gen]]
             x == [row EXCEPT !.kept[d] = [base |-> db[d].base, gen |-> db[d].gen]]
  <2>1. k \in Snapshots
    BY <1>0 DEF RestRows, Snapshots, TypeOK
  <2>2. /\ x \in RestRows /\ x.pc = row.pc /\ x.done = row.done /\ x.kept = k
        /\ x.out = row.out /\ row.raw = x.raw
    BY <1>0, <2>1 DEF RestRows
  <2>3. Ends(r, "failed") \/ rest' = [rest EXCEPT ![r] = NextOr(x, "copy")]
    BY <1>6, Zenon DEF Snapshot
  <2>4. row.pc = "snap" /\ db' = db
    BY <1>6 DEF Snapshot, data
  <2> HIDE DEF x
  <2>5. CASE Ends(r, "failed")
    BY <2>4, <2>5, <1>1 DEF Ends, Held, Late
  <2>6. CASE rest' = [rest EXCEPT ![r] = NextOr(x, "copy")]
    BY <2>2, <2>4, <2>6, <1>4 DEF Kept
  <2> QED
    BY <2>3, <2>5, <2>6
<1>7. CASE Unlink(r)
  BY <1>7 DEF Unlink, Removed
<1>12. CASE UnlinkFails(r)
  <2>1. /\ row.pc = "copy" /\ d \in row.raw /\ rest'[r].pc \in {"undo", "failed"}
        /\ rest'[r].done = row.done /\ rest'[r].kept = row.kept
        /\ rest'[r].out = row.out /\ rest'[r].raw = row.raw
    BY <1>0, <1>12 DEF UnlinkFails, Ends, RestGoes, RestRows
  <2>2. CASE db' = db
    BY <2>1, <2>2 DEF Quiet, Early, Late, Held
  <2>3. CASE db' = [db EXCEPT ![d] = [base |-> Gone, gen |-> 0, busy |-> FALSE, readable |-> TRUE]]
    BY <2>1, <2>3 DEF Removed
  <2> QED
    BY <2>2, <2>3, <1>12 DEF UnlinkFails
<1>8. CASE CopyDb(r)
  <2> DEFINE x == [row EXCEPT !.done = @ \cup {d}]
  <2>1. /\ x \in RestRows /\ x.pc = row.pc /\ x.done = row.done \cup {d} /\ x.kept = row.kept
        /\ x.out = row.out /\ row.raw = x.raw /\ x.at = row.at
    BY <1>0 DEF RestRows
  <2>2. rest' = [rest EXCEPT ![r] = NextOr(x, "config")] \/ rest' = [rest EXCEPT ![r] = [x EXCEPT !.pc = "undo"]]
    BY <1>8 DEF CopyDb
  <2>3. row.pc = "copy" /\ db' = [db EXCEPT ![d].base = r, ![d].gen = 0]
    BY <1>8 DEF CopyDb, Put
  <2> HIDE DEF x
  <2>4. CASE rest' = [rest EXCEPT ![r] = NextOr(x, "config")]
    BY <2>1, <2>3, <2>4, <1>4 DEF Copied
  <2>5. CASE rest' = [rest EXCEPT ![r] = [x EXCEPT !.pc = "undo"]]
    BY <2>1, <2>3, <2>5, <1>0 DEF Copied, RestRows
  <2> QED
    BY <2>2, <2>4, <2>5
<1>9. ASSUME NEW u, NEW w, Reports(r, u, w), row.pc = "undo"
      PROVE  /\ rest'[r].pc \in {"undo", "failed"} /\ rest'[r].done = row.done /\ rest'[r].kept = row.kept
             /\ rest'[r].raw = row.raw /\ rest'[r].out = [row.out EXCEPT ![u] = w]
  BY <1>0, <1>9 DEF Reports, RestRows
<1>10. CASE UndoNothing(r)
  <2>1. PICK u : u = Undoing(r)
    OBVIOUS
  <2>2. PICK w \in Outcome : /\ Reports(r, u, w) /\ row.pc = "undo"
                             /\ w = "removed" \/ (w = "unchanged" /\ u \notin row.done)
    BY <1>10, <2>1 DEF UndoNothing, Outcome
  <2>3. db' = db
    BY <1>10 DEF UndoNothing, data
  <2> QED
    <3>1. ReportedAs(r, u, w)
      <4>1. /\ rest'[r].pc \in {"undo", "failed"} /\ rest'[r].done = row.done
            /\ rest'[r].kept = row.kept /\ rest'[r].raw = row.raw
            /\ rest'[r].out = [row.out EXCEPT ![u] = w]
        BY <1>9, <2>2
      <4>2. row.pc = "undo" /\ (w = "removed" \/ (w = "unchanged" /\ u \notin row.done))
        BY <2>2
      <4> HIDE DEF row
      <4> QED
        BY <2>3, <4>1, <4>2 DEF ReportedAs, row
    <3> QED
      BY <3>1 DEF Reported
<1>11. CASE UndoCopy(r)
  <2>1. PICK u : u = Undoing(r)
    OBVIOUS
  <2>2. /\ row.pc = "undo" /\ u \in row.done \ row.raw
        /\ \/ Put(u, row.kept[u].base, row.kept[u].gen) /\ (Reports(r, u, "ok") \/ Reports(r, u, "error"))
           \/ Reports(r, u, "error") /\ db' = db
    BY <1>11, <2>1 DEF UndoCopy
  <2> QED
    <3>1. ASSUME NEW w \in {"ok", "error"}, Put(u, row.kept[u].base, row.kept[u].gen), Reports(r, u, w)
          PROVE  Reported(r)
      <4>1. ReportedAs(r, u, w)
        BY <2>2, <3>1, <1>9 DEF ReportedAs, Put
      <4> QED
        BY <4>1 DEF Reported, Outcome
    <3>2. CASE Reports(r, u, "error") /\ db' = db
      <4>1. ReportedAs(r, u, "error")
        BY <2>2, <3>2, <1>9 DEF ReportedAs
      <4> QED
        BY <4>1 DEF Reported, Outcome
    <3> QED
      BY <2>2, <3>1, <3>2
<1> QED
  BY <1>2, <1>3, <1>5, <1>6, <1>7, <1>8, <1>10, <1>11, <1>12 DEF RestStep, Swap

\* Records begin when their phase does.
Phases ==
    \A r \in Restores, d \in Dbs :
        /\ rest[r].pc \notin Late => rest[r].out[d] = "none"
        /\ rest[r].pc \in Early => d \notin rest[r].done
        /\ rest[r].pc \in Early \ {"snap"} => rest[r].kept[d].base = None
\* Content of a restore is there only after its copy committed, in the database or in
\* the snapshot that another restore took; a restore never keeps its own.
Origins ==
    \A r \in Restores, d \in Dbs :
        /\ db[d].base = r => d \in rest[r].done
        /\ \A q \in Restores : rest[q].kept[d].base = r => q # r /\ d \in rest[r].done
\* A snapshot that may yet be put back holds nothing that was reported as undone.
NothingReturns ==
    \A r, q \in Restores, d \in Dbs :
        rest[q].pc \in Held /\ rest[q].kept[d].base = r => rest[r].out[d] \notin {"ok", "unchanged"}
\* The databases before the one that is being copied have the archive's content.
CopiedSoFar ==
    \A r \in Restores :
        /\ rest[r].pc = "copy" => \A i \in 1..Len(Copies) : i < rest[r].at => db[Copies[i]].base = r
        /\ rest[r].pc = "config" => \A d \in Dbs : db[d].base = r

DataInv == Phases /\ Origins /\ NothingReturns /\ CopiedSoFar /\ ReportIsTrue /\ UncopiedKeepsWrites

\* The first state satisfies the invariant of the data.
LEMMA InitData == Init => DataInv
<1> SUFFICES ASSUME Init PROVE DataInv
  OBVIOUS
<1>1. /\ \A d \in Dbs : db[d].base = None /\ db[d].gen = 0 /\ acks[d] = 0
      /\ \A r \in Restores : rest[r].pc = "new" /\ rest[r].done = {}
      /\ \A r \in Restores, d \in Dbs : rest[r].kept[d].base = None /\ rest[r].out[d] = "none"
      /\ None \notin Restores
  BY ConstAssumption DEF Init, New, Untouched
<1> QED
  BY <1>1 DEF DataInv, Phases, Origins, NothingReturns, CopiedSoFar, ReportIsTrue, UncopiedKeepsWrites, Early, Late, Held

\* While a restore is at the databases, or comes or goes, no other one holds the lock.
LEMMA Alone ==
  ASSUME LockInv, NEW r \in Restores, NEW q \in Restores \ {r}, rest[r].pc \in Held
  PROVE  rest[q].pc \notin Held
  BY DEF LockInv, RestLocks

\* A step that leaves the databases alone keeps it,
LEMMA QuietData ==
  ASSUME LockInv, DataInv, NEW r \in Restores, Quiet(r), acks' = acks,
         \A q \in Restores \ {r} : rest'[q] = rest[q]
  PROVE  DataInv'
<1> USE DEF Quiet
<1>1. Phases'
  BY DEF DataInv, Phases
<1>2. Origins'
  BY DEF DataInv, Origins
<1>3. NothingReturns'
  <2> SUFFICES ASSUME NEW p \in Restores, NEW q \in Restores, NEW d \in Dbs,
                      rest'[q].pc \in Held, rest'[q].kept[d].base = p
               PROVE  rest'[p].out[d] \notin {"ok", "unchanged"}
    BY DEF NothingReturns
  <2>1. rest[q].kept[d].base = p /\ rest'[p].out[d] = rest[p].out[d] /\ rest[q].pc \in Held \cup {"new"}
    OBVIOUS
  <2>2. rest[q].pc \in Held
    BY <2>1, ConstAssumption DEF DataInv, Phases, Early
  <2> QED
    BY <2>1, <2>2 DEF DataInv, NothingReturns
<1>4. CopiedSoFar'
  BY DEF DataInv, CopiedSoFar
<1>5. ReportIsTrue'
  BY DEF DataInv, ReportIsTrue
<1>6. UncopiedKeepsWrites'
  <2> SUFFICES ASSUME NEW d \in Dbs, \A q \in Restores : d \notin rest'[q].done \cup rest'[q].raw
               PROVE  db'[d].base = None /\ db'[d].gen = acks'[d]
    BY DEF UncopiedKeepsWrites
  <2>1. \A q \in Restores : d \notin rest[q].done \cup rest[q].raw
    OBVIOUS
  <2> QED
    BY <2>1 DEF DataInv, UncopiedKeepsWrites
<1> QED
  BY <1>1, <1>2, <1>3, <1>4, <1>5, <1>6 DEF DataInv

\* as does keeping the old database,
LEMMA KeptData ==
  ASSUME LockInv, DataInv, NEW r \in Restores, Kept(r), acks' = acks,
         \A q \in Restores \ {r} : rest'[q] = rest[q]
  PROVE  DataInv'
<1> USE DEF Kept
<1>0. /\ Target(r) \in Dbs /\ rest[r].kept \in Snapshots
      /\ \A d \in Dbs : rest'[r].kept[d].base = IF d = Target(r) THEN db[d].base ELSE rest[r].kept[d].base
  <2>1. Target(r) \in Dbs /\ rest[r].kept \in Snapshots
    BY RowOf DEF LockInv, RestRows
  <2>2. rest'[r].kept = [rest[r].kept EXCEPT ![Target(r)] = [base |-> db[Target(r)].base, gen |-> db[Target(r)].gen]]
    OBVIOUS
  <2> QED
    BY <2>1, <2>2 DEF Snapshots
<1>1. Phases'
  BY DEF DataInv, Phases, Early, Late
<1>2. Origins'
  <2>1. \A p \in Restores, d \in Dbs : rest'[p].done = rest[p].done /\ db'[d] = db[d]
    OBVIOUS
  <2>2. ASSUME NEW p \in Restores, NEW d \in Dbs, db[d].base = p PROVE p # r /\ d \in rest[p].done
    BY <2>2 DEF DataInv, Origins, Phases, Early
  <2>3. ASSUME NEW p \in Restores, NEW q \in Restores, NEW d \in Dbs, rest'[q].kept[d].base = p
        PROVE  q # p /\ d \in rest[p].done
    <3>1. CASE q = r /\ d = Target(r)
      BY <1>0, <2>2, <2>3, <3>1
    <3>2. CASE ~(q = r /\ d = Target(r))
      <4>1. rest[q].kept[d].base = p
        BY <1>0, <2>3, <3>2
      <4> QED
        BY <4>1 DEF DataInv, Origins
    <3> QED
      BY <3>1, <3>2
  <2> QED
    BY <2>1, <2>2, <2>3 DEF Origins
<1>3. NothingReturns'
  <2> SUFFICES ASSUME NEW p \in Restores, NEW q \in Restores, NEW d \in Dbs,
                      rest'[q].pc \in Held, rest'[q].kept[d].base = p
               PROVE  rest[p].out[d] \notin {"ok", "unchanged"}
    BY DEF NothingReturns
  <2>1. CASE q = r /\ d = Target(r)
    BY <1>0, <2>1 DEF DataInv, ReportIsTrue
  <2>2. CASE ~(q = r /\ d = Target(r))
    <3>1. rest[q].kept[d].base = p /\ rest[q].pc \in Held
      BY <1>0, <2>2 DEF Held
    <3> QED
      BY <3>1 DEF DataInv, NothingReturns
  <2> QED
    BY <2>1, <2>2
<1>4. CopiedSoFar'
  <2>1. \A i \in 1..Len(Copies) : ~(i < 1)
    BY CopiesAssumption
  <2> QED
    BY <2>1 DEF DataInv, CopiedSoFar
<1>5. ReportIsTrue'
  BY DEF DataInv, ReportIsTrue
<1>6. UncopiedKeepsWrites'
  BY DEF DataInv, UncopiedKeepsWrites
<1> QED
  BY <1>1, <1>2, <1>3, <1>4, <1>5, <1>6 DEF DataInv

\* removing it once it is kept,
LEMMA RemovedData ==
  ASSUME LockInv, DataInv, NEW r \in Restores, Removed(r), acks' = acks,
         \A q \in Restores \ {r} : rest'[q] = rest[q]
  PROVE  DataInv'
<1> USE DEF Removed
<1>0. /\ Target(r) \in Dbs /\ Gone \notin Restores
      /\ \A q \in Restores : /\ rest'[q].done = rest[q].done /\ rest'[q].kept = rest[q].kept
                             /\ rest'[q].out = rest[q].out /\ rest'[q].raw = rest[q].raw
                             /\ rest'[q] = rest[q] \/ (q = r /\ rest'[q].pc \in {"undo", "failed"})
      /\ \A d \in Dbs \ {Target(r)} : db'[d] = db[d]
      /\ db'[Target(r)].base = Gone
  BY RowOf, ConstAssumption DEF LockInv, TypeOK
<1>1. Phases' /\ NothingReturns'
  <2>1. Phases'
    BY <1>0 DEF DataInv, Phases, Early, Late
  <2>2. NothingReturns'
    BY <1>0 DEF DataInv, NothingReturns, Held
  <2> QED
    BY <2>1, <2>2
<1>2. Origins'
  BY <1>0 DEF DataInv, Origins
<1>4. CopiedSoFar'
  <2>1. ASSUME NEW i \in 1..Len(Copies), i < rest[r].at PROVE db'[Copies[i]] = db[Copies[i]]
    <3>1. rest[r].at \in 1..Len(Copies)
      BY RowOf DEF LockInv, RestRows
    <3>2. Copies[i] # Target(r) /\ Copies[i] \in Dbs
      BY <2>1, <3>1, CopiesAssumption DEF Target, Dbs
    <3> QED
      BY <1>0, <3>2
  <2>2. \A q \in Restores \ {r} : rest[q].pc \notin {"copy", "config"}
    BY Alone DEF Held
  <2> QED
    BY <1>0, <2>1, <2>2 DEF DataInv, CopiedSoFar
<1>5. ReportIsTrue'
  BY <1>0 DEF DataInv, ReportIsTrue
<1>6. UncopiedKeepsWrites'
  BY <1>0 DEF DataInv, UncopiedKeepsWrites
<1> QED
  BY <1>1, <1>2, <1>4, <1>5, <1>6 DEF DataInv

\* putting the new one in its place,
LEMMA CopiedData ==
  ASSUME LockInv, DataInv, NEW r \in Restores, Copied(r), acks' = acks,
         \A q \in Restores \ {r} : rest'[q] = rest[q]
  PROVE  DataInv'
<1> USE DEF Copied
<1>0. /\ Target(r) \in Dbs /\ \A d \in Dbs \ {Target(r)} : db'[d] = db[d]
      /\ db'[Target(r)].base = r /\ r # None
      /\ rest[r].at \in 1..Len(Copies) /\ Len(Copies) \in Nat
  BY RowOf, ConstAssumption, CopiesAssumption DEF LockInv, TypeOK, RestRows
<1>1. Phases'
  BY DEF DataInv, Phases, Early, Late
<1>2. Origins'
  <2>1. ASSUME NEW p \in Restores, NEW d \in Dbs, db'[d].base = p PROVE d \in rest'[p].done
    <3>1. CASE p = r /\ d = Target(r)
      BY <3>1
    <3>2. CASE ~(p = r /\ d = Target(r))
      <4>1. db[d].base = p
        BY <1>0, <2>1, <3>2
      <4> QED
        BY <4>1 DEF DataInv, Origins
    <3> QED
      BY <3>1, <3>2
  <2>2. \A p \in Restores : rest'[p].kept = rest[p].kept /\ rest[p].done \subseteq rest'[p].done
    OBVIOUS
  <2>3. ASSUME NEW p \in Restores, NEW q \in Restores, NEW d \in Dbs, rest'[q].kept[d].base = p
        PROVE  q # p /\ d \in rest'[p].done
    <3>1. q # p /\ d \in rest[p].done
      BY <2>2, <2>3 DEF DataInv, Origins
    <3> QED
      BY <2>2, <3>1
  <2> QED
    BY <2>1, <2>3 DEF Origins
<1>3. NothingReturns'
  BY <1>0 DEF DataInv, NothingReturns, Held
<1>4. CopiedSoFar'
  <2>1. \A q \in Restores \ {r} : rest'[q].pc \notin {"copy", "config"}
    BY Alone DEF Held
  <2>2. \A d \in Dbs : db[d].base = r => db'[d].base = r
    BY <1>0
  <2>3. \A i \in 1..Len(Copies) : i < rest[r].at + 1 => db'[Copies[i]].base = r
    <3> SUFFICES ASSUME NEW i \in 1..Len(Copies), i < rest[r].at + 1 PROVE db'[Copies[i]].base = r
      OBVIOUS
    <3>1. CASE i < rest[r].at
      BY <3>1, <2>2 DEF DataInv, CopiedSoFar, Dbs
    <3>2. CASE i = rest[r].at
      BY <3>2, <1>0 DEF Target
    <3> QED
      BY <3>1, <3>2, <1>0
  <2>4. ASSUME rest'[r].pc = "config", NEW d \in Dbs PROVE db'[d].base = r
    <3>1. PICK i \in 1..Len(Copies) : d = Copies[i]
      BY DEF Dbs
    <3>2. i < rest[r].at + 1
      BY <2>4, <1>0
    <3> QED
      BY <2>3, <3>1, <3>2
  <2>5. ASSUME rest'[r].pc = "copy", NEW i \in 1..Len(Copies), i < rest'[r].at PROVE db'[Copies[i]].base = r
    BY <2>3, <2>5
  <2> QED
    BY <2>1, <2>4, <2>5 DEF CopiedSoFar
<1>5. ReportIsTrue'
  <2> SUFFICES ASSUME NEW p \in Restores, NEW d \in Dbs, rest'[p].out[d] \in {"ok", "unchanged"}
               PROVE  db'[d].base # p
    BY DEF ReportIsTrue
  <2>1. rest[p].out[d] \in {"ok", "unchanged"}
    <3>1. CASE p = r
      BY <3>1
    <3>2. CASE p # r
      BY <3>2
    <3> QED
      BY <3>1, <3>2
  <2>2. p # r
    BY <2>1 DEF DataInv, Phases, Late
  <2>3. db[d].base # p
    BY <2>1 DEF DataInv, ReportIsTrue
  <2>4. CASE d = Target(r)
    BY <1>0, <2>2, <2>4
  <2>5. CASE d # Target(r)
    BY <1>0, <2>3, <2>5
  <2> QED
    BY <2>4, <2>5
<1>6. UncopiedKeepsWrites'
  <2> SUFFICES ASSUME NEW d \in Dbs, \A p \in Restores : d \notin rest'[p].done \cup rest'[p].raw
               PROVE  db'[d].base = None /\ db'[d].gen = acks'[d]
    BY DEF UncopiedKeepsWrites
  <2>1. \A p \in Restores : rest[p].done \subseteq rest'[p].done /\ rest'[p].raw = rest[p].raw
    <3> TAKE p \in Restores
    <3>1. CASE p = r
      BY <3>1
    <3>2. CASE p # r
      BY <3>2
    <3> QED
      BY <3>1, <3>2
  <2>2. d # Target(r) /\ \A p \in Restores : d \notin rest[p].done \cup rest[p].raw
    <3>1. d \notin rest'[r].done
      OBVIOUS
    <3> QED
      BY <2>1, <3>1
  <2>3. db[d].base = None /\ db[d].gen = acks[d]
    BY <2>2 DEF DataInv, UncopiedKeepsWrites
  <2> QED
    BY <1>0, <2>2, <2>3
<1> QED
  BY <1>1, <1>2, <1>3, <1>4, <1>5, <1>6 DEF DataInv

\* and reporting how the restore went.
LEMMA ReportedData ==
  ASSUME LockInv, DataInv, NEW r \in Restores, NEW u, NEW w \in Outcome, ReportedAs(r, u, w), acks' = acks,
         \A q \in Restores \ {r} : rest'[q] = rest[q]
  PROVE  DataInv'
<1> USE DEF ReportedAs
<1> DEFINE put == /\ u \in rest[r].done \ rest[r].raw
                  /\ db' = [db EXCEPT ![u].base = rest[r].kept[u].base, ![u].gen = rest[r].kept[u].gen]
<1>0. /\ rest[r].done \subseteq Dbs /\ rest[r].pc \in Held
      /\ \A d \in Dbs : rest'[r].out[d] = IF d = u THEN w ELSE rest[r].out[d]
      /\ \A d \in Dbs : d # u \/ ~put => db'[d] = db[d]
      /\ put => db'[u].base = rest[r].kept[u].base /\ u \in Dbs
      /\ (w = "ok" => put) /\ (~put => db' = db)
      /\ \A p \in Restores : rest'[p].done = rest[p].done /\ rest'[p].kept = rest[p].kept
  <2>1. rest[r].done \subseteq Dbs /\ rest[r].out \in [Dbs -> Outcome]
    BY RowOf DEF LockInv, RestRows
  <2>2. db \in [Dbs -> [base : Contents, gen : Nat, busy : BOOLEAN, readable : BOOLEAN]]
    BY DEF LockInv, TypeOK
  <2>3. \A d \in Dbs : rest'[r].out[d] = IF d = u THEN w ELSE rest[r].out[d]
    BY <2>1
  <2>4. \A d \in Dbs : d # u \/ ~put => db'[d] = db[d]
    BY <2>2
  <2>5. put => db'[u].base = rest[r].kept[u].base /\ u \in Dbs
    BY <2>1, <2>2
  <2> QED
    BY <2>1, <2>3, <2>4, <2>5 DEF Held
<1> HIDE DEF put
<1>1. Phases'
  BY <1>0 DEF DataInv, Phases, Early, Late
<1>2. Origins'
  <2>1. ASSUME NEW p \in Restores, NEW d \in Dbs, db'[d].base = p PROVE d \in rest'[p].done
    <3>1. CASE d = u /\ put
      <4>1. rest[r].kept[d].base = p
        BY <1>0, <2>1, <3>1
      <4> QED
        BY <1>0, <4>1 DEF DataInv, Origins
    <3>2. CASE ~(d = u /\ put)
      BY <1>0, <2>1, <3>2 DEF DataInv, Origins
    <3> QED
      BY <3>1, <3>2
  <2> QED
    BY <1>0, <2>1 DEF DataInv, Origins
<1>3. NothingReturns'
  <2> SUFFICES ASSUME NEW p \in Restores, NEW q \in Restores, NEW d \in Dbs,
                      rest'[q].pc \in Held, rest'[q].kept[d].base = p
               PROVE  rest'[p].out[d] \notin {"ok", "unchanged"}
    BY DEF NothingReturns
  <2>1. q = r
    BY <1>0, Alone
  <2>2. p # r /\ rest[r].kept[d].base = p
    BY <1>0, <2>1 DEF DataInv, Origins
  <2> QED
    BY <1>0, <2>2 DEF DataInv, NothingReturns
<1>4. CopiedSoFar'
  <2>1. \A q \in Restores : rest'[q].pc \notin {"copy", "config"}
    BY <1>0, Alone DEF Held
  <2> QED
    BY <2>1 DEF CopiedSoFar
<1>5. ReportIsTrue'
  <2> SUFFICES ASSUME NEW p \in Restores, NEW d \in Dbs, rest'[p].out[d] \in {"ok", "unchanged"}
               PROVE  db'[d].base # p
    BY DEF ReportIsTrue
  <2>1. CASE d = u /\ put
    <3>1. db'[d].base = rest[r].kept[d].base
      BY <1>0, <2>1
    <3>2. rest[r].kept[d].base # r
      BY DEF DataInv, Origins
    <3>3. p # r => rest[r].kept[d].base # p
      BY <1>0 DEF DataInv, NothingReturns
    <3> QED
      BY <3>1, <3>2, <3>3
  <2>2. CASE d = u /\ ~put /\ p = r
    <3>1. w = "unchanged" /\ d \notin rest[r].done
      BY <1>0, <2>2
    <3> QED
      BY <1>0, <2>2, <3>1 DEF DataInv, Origins
  <2>3. CASE (d # u \/ ~put) /\ (d # u \/ p # r)
    <3>1. db'[d] = db[d]
      BY <1>0, <2>3
    <3>2. rest'[p].out[d] = rest[p].out[d]
      <4>1. CASE p = r
        BY <1>0, <2>3, <4>1
      <4>2. CASE p # r
        BY <4>2
      <4> QED
        BY <4>1, <4>2
    <3> QED
      BY <3>1, <3>2 DEF DataInv, ReportIsTrue
  <2> QED
    BY <2>1, <2>2, <2>3
<1>6. UncopiedKeepsWrites'
  <2> SUFFICES ASSUME NEW d \in Dbs, \A q \in Restores : d \notin rest'[q].done \cup rest'[q].raw
               PROVE  db'[d].base = None /\ db'[d].gen = acks'[d]
    BY DEF UncopiedKeepsWrites
  <2>1. \A q \in Restores : d \notin rest[q].done \cup rest[q].raw
    OBVIOUS
  <2>2. db'[d] = db[d]
    BY <1>0, <2>1
  <2> QED
    BY <2>1, <2>2 DEF DataInv, UncopiedKeepsWrites
<1> QED
  BY <1>1, <1>2, <1>3, <1>4, <1>5, <1>6 DEF DataInv

\* The steps of everyone else keep it, too.
LEMMA OutsideData ==
  ASSUME LockInv, DataInv, Outside \/ UNCHANGED vars
  PROVE  DataInv'
<1>1. rest' = rest
  BY DEF Outside, GoesStale, ByHand, Peek, Unpeek, BeginWrite, CommitWrite, vars
<1>2. /\ \A d \in Dbs : db'[d].base = db[d].base
      /\ \A d \in Dbs : db[d].gen = acks[d] => db'[d].gen = acks'[d]
  <2>1. CASE \E e \in Dbs : BeginWrite(e)
    BY <2>1 DEF BeginWrite, LockInv, TypeOK
  <2>2. ASSUME NEW e \in Dbs, CommitWrite(e)
        PROVE  /\ \A d \in Dbs : db'[d].base = db[d].base
               /\ \A d \in Dbs : db[d].gen = acks[d] => db'[d].gen = acks'[d]
    BY <2>2 DEF CommitWrite, LockInv, TypeOK
  <2>3. CASE UNCHANGED data
    BY <2>3 DEF data
  <2> QED
    BY <2>1, <2>2, <2>3 DEF Outside, GoesStale, ByHand, Peek, Unpeek, vars, data
<1>3. Phases' /\ Origins' /\ NothingReturns'
  BY <1>1, <1>2 DEF DataInv, Phases, Origins, NothingReturns
<1>4. CopiedSoFar' /\ ReportIsTrue'
  BY <1>1, <1>2 DEF DataInv, CopiedSoFar, ReportIsTrue, Dbs
<1>5. UncopiedKeepsWrites'
  BY <1>1, <1>2 DEF DataInv, UncopiedKeepsWrites
<1> QED
  BY <1>3, <1>4, <1>5 DEF DataInv

\* Every step keeps the invariant of the data.
LEMMA DataKept == LockInv /\ DataInv /\ [Next]_vars => DataInv'
<1>1. ASSUME LockInv, DataInv, NEW s \in Scheds, SchedStep(s) PROVE DataInv'
  <2>1. UNCHANGED <<rest, db, acks>>
    BY <1>1 DEF SchedStep, Start, Drain, TakeRestoreLock, StartsNothing, TakeJobsLock, JobsLockFails,
       ReleaseRestoreLock, StartJobs, EndTick, Stop, BecomesDue, JobEnds, data
  <2> QED
    BY <1>1, <2>1 DEF DataInv, Phases, Origins, NothingReturns, CopiedSoFar, ReportIsTrue, UncopiedKeepsWrites
<1>2. ASSUME LockInv, DataInv, NEW r \in Restores, RestStep(r) \/ Crash(r) PROVE DataInv'
  <2>1. TypeOK
    BY <1>2 DEF LockInv
  <2>2. \A q \in Restores \ {r} : rest'[q] = rest[q]
    BY <1>2, <2>1, RestPlaces
  <2>3. acks' = acks
    BY <1>2, <2>1, Effects
  <2>4. Quiet(r) \/ Kept(r) \/ Removed(r) \/ Copied(r) \/ Reported(r)
    BY <1>2, <2>1, Effects
  <2>5. CASE Reported(r)
    <3>1. PICK u : \E w \in Outcome : ReportedAs(r, u, w)
      BY <2>5 DEF Reported
    <3>2. PICK w \in Outcome : ReportedAs(r, u, w)
      BY <3>1
    <3> QED
      BY <1>2, <2>2, <2>3, <3>2, ReportedData
  <2> QED
    BY <1>2, <2>2, <2>3, <2>4, <2>5, QuietData, KeptData, RemovedData, CopiedData
<1>3. ASSUME LockInv, DataInv, Outside \/ UNCHANGED vars PROVE DataInv'
  BY <1>3, OutsideData
<1> QED
  BY <1>1, <1>2, <1>3 DEF Next

\* A database that no restore has copied into or removed has every commit of the
\* other writers, whatever failed and was undone around it.
THEOREM UncopiedKept == Spec => []UncopiedKeepsWrites
<1>1. DataInv => UncopiedKeepsWrites
  BY DEF DataInv
<1> QED
  BY <1>1, InitLocks, LocksKept, InitData, DataKept, PTL DEF Spec

\* What a failed restore reports as unchanged or put back is so, then and later.
THEOREM ReportTrue == Spec => []ReportIsTrue
<1>1. DataInv => ReportIsTrue
  BY DEF DataInv
<1> QED
  BY <1>1, InitLocks, LocksKept, InitData, DataKept, PTL DEF Spec

\* A restore that returns leaves the content of its archive in every database.
THEOREM Whole == Spec => DoneIsWhole
<1>1. LockInv /\ DataInv /\ [Next]_vars
      => [\A r \in Restores :
            rest[r].pc # "done" /\ rest'[r].pc = "done" => \A d \in Dbs : db[d].base = r]_vars
  <2> SUFFICES ASSUME LockInv, DataInv, [Next]_vars, NEW p \in Restores,
                      rest[p].pc # "done", rest'[p].pc = "done"
               PROVE  \A d \in Dbs : db[d].base = p
    OBVIOUS
  <2>1. rest' # rest
    OBVIOUS
  <2>2. PICK r \in Restores : RestStep(r) \/ Crash(r)
    BY <2>1 DEF Next, Outside, GoesStale, ByHand, Peek, Unpeek, BeginWrite, CommitWrite, vars,
       SchedStep, Start, Drain, TakeRestoreLock, StartsNothing, TakeJobsLock, JobsLockFails,
       ReleaseRestoreLock, StartJobs, EndTick, Stop, BecomesDue, JobEnds
  <2>3. p = r
    BY <2>2, RestPlaces DEF LockInv
  <2>4. Quiet(r) \/ Kept(r) \/ Removed(r) \/ Copied(r) \/ Reported(r)
    BY <2>2, Effects DEF LockInv
  <2>5. Quiet(r)
    BY <2>3, <2>4 DEF Kept, Removed, Copied, Reported, ReportedAs
  <2> QED
    BY <2>3, <2>5 DEF Quiet, DataInv, CopiedSoFar
<1> QED
  BY <1>1, InitLocks, LocksKept, InitData, DataKept, PTL DEF Spec, DoneIsWhole
================================================================================
