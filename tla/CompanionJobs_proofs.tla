------------------------- MODULE CompanionJobs_proofs -------------------------
(***************************************************************************)
(* Proofs about CompanionJobs, for any number of jobs, runs, processes and *)
(* slots and any lease: types, the agreement of link and job, who may take *)
(* a job from its holder, and the refinement of LeasedWork.                *)
(***************************************************************************)
EXTENDS CompanionJobs, TLAPS

\* The shape of the rows and of the runs that the steps rely on: exactly the
\* running rows name a token and only running and waiting rows have a timer; a run
\* that is not idle has a job.
RowShape ==
    \A j \in Jobs :
        /\ job[j].token # None <=> job[j].status = "running"
        /\ job[j].timer > 0 => job[j].status \in {"running", "retry"}
RunShape ==
    \A r \in Runs : (run[r].pc = "idle" /\ run[r].beat = FALSE) \/ run[r].job \in Jobs

IInv == TypeOK /\ RowShape /\ RunShape /\ LinkedMeansCompleted

\* The empty tables satisfy the invariant.
LEMMA InitInv == Init => IInv
  BY ConstAssumption
  DEF Init, IInv, TypeOK, RowShape, RunShape, LinkedMeansCompleted, NoJob, Idle, Pc

\* What the run does to itself keeps the runs in shape.
LEMMA RunMoves ==
  ASSUME TypeOK, RunShape, NEW r \in Runs, NEW x,
         x \in [pc : Pc, job : Jobs \cup {None}, beat : BOOLEAN, known : BOOLEAN],
         (x.pc = "idle" /\ x.beat = FALSE) \/ x.job \in Jobs,
         run' = [run EXCEPT ![r] = x]
  PROVE  run' \in [Runs -> [pc : Pc, job : Jobs \cup {None}, beat : BOOLEAN, known : BOOLEAN]]
         /\ RunShape'
  BY DEF TypeOK, RunShape

\* One row of manga_companion_jobs changes and its link is not left behind.
LEMMA RowMoves ==
  ASSUME TypeOK, RowShape, LinkedMeansCompleted, NEW j \in Jobs, NEW y,
         y \in [status : {"none", "scheduled", "running", "retry", "completed"},
                token : Runs \cup {None}, timer : 0..(Lease + Retry)],
         y.token # None <=> y.status = "running",
         y.timer > 0 => y.status \in {"running", "retry"},
         link[j] = "linked" => y.status = "completed",
         job' = [job EXCEPT ![j] = y], UNCHANGED link
  PROVE  /\ job' \in [Jobs -> [status : {"none", "scheduled", "running", "retry", "completed"},
                               token : Runs \cup {None}, timer : 0..(Lease + Retry)]]
         /\ RowShape' /\ LinkedMeansCompleted'
  BY DEF TypeOK, RowShape, LinkedMeansCompleted

\* A step that leaves the job and the link alone.
LEMMA RowsKept ==
  ASSUME RowShape, LinkedMeansCompleted, UNCHANGED <<job, link>>
  PROVE  RowShape' /\ LinkedMeansCompleted'
  BY DEF RowShape, LinkedMeansCompleted

\* A run that fails gives nothing away.
LEMMA FailInv ==
  ASSUME IInv, NEW r \in Runs, run[r].pc # "idle", Fail(r), UNCHANGED <<job, link, series>>
  PROVE  IInv'
<1> DEFINE x == [run[r] EXCEPT !.pc = "finish", !.beat = FALSE]
<1>1. run' = [run EXCEPT ![r] = x]
  BY DEF IInv, TypeOK, Fail
<1>2. x \in [pc : Pc, job : Jobs \cup {None}, beat : BOOLEAN, known : BOOLEAN]
  <2>1. run[r] \in [pc : Pc, job : Jobs \cup {None}, beat : BOOLEAN, known : BOOLEAN]
    BY DEF IInv, TypeOK
  <2>2. "finish" \in Pc /\ FALSE \in BOOLEAN
    BY DEF Pc
  <2> QED
    BY <2>1, <2>2
<1>3. x.job \in Jobs
  BY DEF IInv, TypeOK, RunShape
<1> HIDE DEF x
<1> QED
  BY <1>1, <1>2, <1>3, RunMoves, RowsKept DEF IInv, TypeOK

\* Every transaction, expiry and crash keeps the invariant.
LEMMA StepInv == IInv /\ [Next]_vars => IInv'
<1> SUFFICES ASSUME IInv, [Next]_vars PROVE IInv'
  OBVIOUS
<1> USE ConstAssumption
<1>1. ASSUME NEW j \in Jobs, Schedule(j) PROVE IInv'
  BY <1>1 DEF Schedule, Scheduled, NoJob, IInv, TypeOK, RowShape, RunShape, LinkedMeansCompleted
<1>2. ASSUME NEW r \in Runs, NEW j \in Jobs, NEW pc \in {"renew0", "renew1"}, Claim(r, j, pc) PROVE IInv'
  <2> DEFINE x == [Idle EXCEPT !.pc = pc, !.job = j]
  <2>1. /\ x \in [pc : Pc, job : Jobs \cup {None}, beat : BOOLEAN, known : BOOLEAN]
        /\ (x.pc = "idle" /\ x.beat = FALSE) \/ x.job \in Jobs
        /\ run' = [run EXCEPT ![r] = x]
    BY <1>2 DEF Claim, Idle, Pc, Working
  <2>2. /\ Running(r) \in [status : {"none", "scheduled", "running", "retry", "completed"},
                token : Runs \cup {None}, timer : 0..(Lease + Retry)]
        /\ Running(r).token # None /\ Running(r).status = "running"
        /\ job' = [job EXCEPT ![j] = Running(r)]
        /\ UNCHANGED <<link, series>>
    BY <1>2 DEF Claim, Running
  <2>3. link[j] # "linked"
    BY <1>2 DEF Claim, Due, IInv, LinkedMeansCompleted
  <2> HIDE DEF x
  <2> QED
    BY <2>1, <2>2, <2>3, RunMoves, RowMoves DEF IInv, TypeOK
<1>3. ASSUME NEW r \in Runs, Renew(r) PROVE IInv'
  <2>0. run[r].pc # "idle" /\ run[r].job \in Jobs
    BY <1>3 DEF Renew, AfterRenew, IInv, RunShape
  <2>1. CASE Leased(r, run[r].job)
    <3> DEFINE j == run[r].job
               x == [run[r] EXCEPT !.pc = AfterRenew[run[r].pc], !.beat = @ \/ run[r].pc = "renew1"]
               y == [job[j] EXCEPT !.timer = Lease]
    <3>1. /\ x \in [pc : Pc, job : Jobs \cup {None}, beat : BOOLEAN, known : BOOLEAN]
          /\ x.job \in Jobs
      <4>1. AfterRenew[run[r].pc] \in Pc
        BY <1>3 DEF Renew, AfterRenew, Pc, Working, InSlot
      <4>2. (run[r].beat \/ run[r].pc = "renew1") \in BOOLEAN
        OBVIOUS
      <4>3. run[r] \in [pc : Pc, job : Jobs \cup {None}, beat : BOOLEAN, known : BOOLEAN]
        BY DEF IInv, TypeOK
      <4>4. PICK pc \in Pc, b \in BOOLEAN :
               pc = AfterRenew[run[r].pc] /\ b = (run[r].beat \/ run[r].pc = "renew1")
        BY <4>1, <4>2
      <4> QED
        BY <2>0, <4>3, <4>4
    <3>2. run' = [run EXCEPT ![r] = x]
      BY <1>3, <2>1 DEF Renew, IInv, TypeOK
    <3>3. /\ y \in [status : {"none", "scheduled", "running", "retry", "completed"},
                token : Runs \cup {None}, timer : 0..(Lease + Retry)]
          /\ y.token # None /\ y.status = "running"
      BY <2>0, <2>1 DEF Leased, Owns, IInv, TypeOK, RowShape
    <3>4. job' = [job EXCEPT ![j] = y] /\ UNCHANGED <<link, series>>
      BY <1>3, <2>0, <2>1 DEF Renew, IInv, TypeOK
    <3>5. link[j] # "linked"
      BY <2>0, <2>1 DEF Leased, Owns, IInv, LinkedMeansCompleted
    <3> HIDE DEF x, y
    <3> QED
      BY <2>0, <3>1, <3>2, <3>3, <3>4, <3>5, RunMoves, RowMoves DEF IInv, TypeOK
  <2>2. CASE ~Leased(r, run[r].job)
    BY <1>3, <2>0, <2>2, FailInv DEF Renew
  <2> QED BY <2>1, <2>2
<1>4. ASSUME NEW r \in Runs, Preflight(r) PROVE IInv'
  BY <1>4 DEF Preflight, Goto, IInv, TypeOK, RowShape, RunShape, LinkedMeansCompleted, Pc, Working
<1>5. ASSUME NEW r \in Runs, TakeSlot(r) PROVE IInv'
  BY <1>5 DEF TakeSlot, Goto, IInv, TypeOK, RowShape, RunShape, LinkedMeansCompleted, Pc, Working, InSlot
<1>6. ASSUME NEW r \in Runs, Stub(r) PROVE IInv'
  <2> DEFINE x == [run[r] EXCEPT !.pc = "link", !.known = TRUE]
  <2>1. /\ x \in [pc : Pc, job : Jobs \cup {None}, beat : BOOLEAN, known : BOOLEAN]
        /\ x.job \in Jobs
    <3>1. run[r] \in [pc : Pc, job : Jobs \cup {None}, beat : BOOLEAN, known : BOOLEAN]
      BY DEF IInv, TypeOK
    <3>2. run[r].job \in Jobs
      BY <1>6 DEF Stub, IInv, RunShape
    <3>3. "link" \in Pc /\ TRUE \in BOOLEAN
      BY DEF Pc, Working, InSlot
    <3> QED
      BY <3>1, <3>2, <3>3
  <2>2. run' = [run EXCEPT ![r] = x] /\ UNCHANGED <<job, link>>
    BY <1>6 DEF Stub, IInv, TypeOK
  <2>3. series' \in [Jobs -> {"absent", "unmonitored", "monitored"}]
    BY <1>6 DEF Stub, IInv, TypeOK
  <2> HIDE DEF x
  <2> QED
    BY <2>1, <2>2, <2>3, RunMoves, RowsKept DEF IInv, TypeOK
<1>7. ASSUME NEW r \in Runs, PersistLink(r) PROVE IInv'
  BY <1>7 DEF PersistLink, Goto, IInv, TypeOK, RowShape, RunShape, LinkedMeansCompleted, Pc, Working, InSlot
<1>8. ASSUME NEW r \in Runs, NativeAdd(r) PROVE IInv'
  <2> DEFINE x == [run[r] EXCEPT !.pc = "activate"]
             z == [run[r] EXCEPT !.pc = "finish", !.beat = FALSE]
  <2>1. /\ x \in [pc : Pc, job : Jobs \cup {None}, beat : BOOLEAN, known : BOOLEAN]
        /\ z \in [pc : Pc, job : Jobs \cup {None}, beat : BOOLEAN, known : BOOLEAN]
        /\ x.job \in Jobs /\ z.job \in Jobs
    BY <1>8 DEF NativeAdd, IInv, TypeOK, RunShape, Pc, Working, InSlot
  <2>2. /\ run' = [run EXCEPT ![r] = x] \/ run' = [run EXCEPT ![r] = z]
        /\ UNCHANGED <<job, link>>
    BY <1>8 DEF NativeAdd, Goto, Fail, IInv, TypeOK
  <2>3. series' \in [Jobs -> {"absent", "unmonitored", "monitored"}]
    BY <1>8 DEF NativeAdd, IInv, TypeOK
  <2> HIDE DEF x, z
  <2> QED
    BY <2>1, <2>2, <2>3, RunMoves, RowsKept DEF IInv, TypeOK
<1>9. ASSUME NEW r \in Runs, Activate(r) PROVE IInv'
  <2>1. CASE Leased(r, run[r].job) /\ link[run[r].job] = "preparing"
    <3>1. run' = [run EXCEPT ![r] = Idle] /\ UNCHANGED series
      BY <1>9, <2>1 DEF Activate
    <3>2. /\ Idle \in [pc : Pc, job : Jobs \cup {None}, beat : BOOLEAN, known : BOOLEAN]
          /\ Idle.pc = "idle" /\ Idle.beat = FALSE
      BY DEF Idle, Pc
    <3>3. run[r].job \in Jobs
      BY <1>9 DEF Activate, IInv, RunShape
    <3>4. /\ Completed \in [status : {"none", "scheduled", "running", "retry", "completed"},
                token : Runs \cup {None}, timer : 0..(Lease + Retry)]
          /\ Completed.token = None /\ Completed.timer = 0 /\ Completed.status = "completed"
      BY DEF Completed, NoJob
    <3>5. /\ job' = [job EXCEPT ![run[r].job] = Completed]
          /\ link' = [link EXCEPT ![run[r].job] = "linked"]
      BY <1>9, <2>1 DEF Activate
    <3>6. /\ job' \in [Jobs -> [status : {"none", "scheduled", "running", "retry", "completed"},
                token : Runs \cup {None}, timer : 0..(Lease + Retry)]]
          /\ RowShape' /\ LinkedMeansCompleted'
          /\ link' \in [Jobs -> {"none", "preparing", "linked"}]
      BY <3>3, <3>4, <3>5 DEF IInv, TypeOK, RowShape, LinkedMeansCompleted
    <3> QED
      BY <3>1, <3>2, <3>6, RunMoves DEF IInv, TypeOK
  <2>2. CASE ~(Leased(r, run[r].job) /\ link[run[r].job] = "preparing")
    BY <1>9, <2>2, FailInv DEF Activate
  <2> QED BY <2>1, <2>2
<1>10. ASSUME NEW r \in Runs, Raise(r) PROVE IInv'
  BY <1>10, FailInv DEF Raise, Working, InSlot
<1>11. ASSUME NEW r \in Runs, Finish(r) PROVE IInv'
  <2> DEFINE j == run[r].job
             z == [run[r] EXCEPT !.pc = "park"]
             x == IF Owns(r, j) /\ run[r].known THEN z ELSE Idle
  <2>1. /\ Idle \in [pc : Pc, job : Jobs \cup {None}, beat : BOOLEAN, known : BOOLEAN]
        /\ z \in [pc : Pc, job : Jobs \cup {None}, beat : BOOLEAN, known : BOOLEAN]
        /\ Idle.pc = "idle" /\ Idle.beat = FALSE /\ z.job \in Jobs /\ j \in Jobs
    BY <1>11 DEF Finish, Idle, IInv, TypeOK, RunShape, Pc
  <2>2. run' = [run EXCEPT ![r] = x] /\ UNCHANGED <<link, series>>
    BY <1>11 DEF Finish, IInv, TypeOK
  <2>3. run' \in [Runs -> [pc : Pc, job : Jobs \cup {None}, beat : BOOLEAN, known : BOOLEAN]] /\ RunShape'
    <3>1. x \in [pc : Pc, job : Jobs \cup {None}, beat : BOOLEAN, known : BOOLEAN] /\ ((x.pc = "idle" /\ x.beat = FALSE) \/ x.job \in Jobs)
      BY <2>1
    <3> HIDE DEF x
    <3> QED BY <2>2, <3>1, RunMoves DEF IInv
  <2>4. CASE Owns(r, j)
    <3>1. /\ Waiting \in [status : {"none", "scheduled", "running", "retry", "completed"},
                token : Runs \cup {None}, timer : 0..(Lease + Retry)]
          /\ Waiting.token = None /\ Waiting.status = "retry"
      BY DEF Waiting
    <3>2. job' = [job EXCEPT ![j] = Waiting] /\ link[j] # "linked"
      BY <1>11, <2>1, <2>4 DEF Finish, Owns, IInv, LinkedMeansCompleted
    <3> HIDE DEF x, j
    <3> QED
      BY <2>1, <2>2, <2>3, <3>1, <3>2, RowMoves DEF IInv, TypeOK
  <2>5. CASE ~Owns(r, j)
    BY <1>11, <2>2, <2>3, <2>5, RowsKept DEF Finish, IInv, TypeOK
  <2> QED BY <2>4, <2>5
<1>12. ASSUME NEW r \in Runs, Park(r) PROVE IInv'
  BY <1>12 DEF Park, Idle, IInv, TypeOK, RowShape, RunShape, LinkedMeansCompleted, Pc
<1>13. ASSUME NEW r \in Runs, HeartbeatRenews(r) PROVE IInv'
  <2> DEFINE j == run[r].job
             y == [job[j] EXCEPT !.timer = Lease]
  <2>0. run[r].job \in Jobs
    BY <1>13 DEF HeartbeatRenews, IInv, TypeOK, RunShape
  <2>1. /\ y \in [status : {"none", "scheduled", "running", "retry", "completed"},
                token : Runs \cup {None}, timer : 0..(Lease + Retry)]
        /\ y.token # None /\ y.status = "running" /\ link[j] # "linked"
    BY <1>13, <2>0 DEF HeartbeatRenews, Leased, Owns, IInv, TypeOK, RowShape, LinkedMeansCompleted
  <2>2. job' = [job EXCEPT ![j] = y] /\ UNCHANGED <<link, series, run>>
    BY <1>13, <2>0 DEF HeartbeatRenews, IInv, TypeOK
  <2> HIDE DEF y
  <2> QED
    BY <2>0, <2>1, <2>2, RowMoves DEF IInv, TypeOK, RunShape
<1>14. ASSUME NEW r \in Runs, HeartbeatEnds(r) PROVE IInv'
  <2> DEFINE x == [run[r] EXCEPT !.beat = FALSE]
  <2>1. x \in [pc : Pc, job : Jobs \cup {None}, beat : BOOLEAN, known : BOOLEAN]
        /\ ((x.pc = "idle" /\ x.beat = FALSE) \/ x.job \in Jobs)
    <3>1. run[r] \in [pc : Pc, job : Jobs \cup {None}, beat : BOOLEAN, known : BOOLEAN]
      BY DEF IInv, TypeOK
    <3>2. (run[r].pc = "idle" /\ run[r].beat = FALSE) \/ run[r].job \in Jobs
      BY DEF IInv, RunShape
    <3>3. FALSE \in BOOLEAN
      OBVIOUS
    <3> QED
      BY <3>1, <3>2, <3>3
  <2>2. run' = [run EXCEPT ![r] = x] /\ UNCHANGED <<job, link, series>>
    BY <1>14 DEF HeartbeatEnds, IInv, TypeOK
  <2> HIDE DEF x
  <2> QED
    BY <2>1, <2>2, RunMoves, RowsKept DEF IInv, TypeOK
<1>15. ASSUME NEW r \in Runs, RunDies(r) PROVE IInv'
  BY <1>15 DEF RunDies, Idle, IInv, TypeOK, RowShape, RunShape, LinkedMeansCompleted, Pc
<1>16. ASSUME NEW p \in Procs, Crash(p) PROVE IInv'
  BY <1>16 DEF Crash, Idle, IInv, TypeOK, RowShape, RunShape, LinkedMeansCompleted, Pc
<1>17. CASE Tick
  BY <1>17 DEF Tick, IInv, TypeOK, RowShape, RunShape, LinkedMeansCompleted
<1>18. CASE UNCHANGED vars
  BY <1>18 DEF vars, IInv, TypeOK, RowShape, RunShape, LinkedMeansCompleted
<1> QED
  BY <1>1, <1>2, <1>3, <1>4, <1>5, <1>6, <1>7, <1>8, <1>9, <1>10, <1>11, <1>12, <1>13,
     <1>14, <1>15, <1>16, <1>17, <1>18 DEF Next, RunStep, Launch, ProcessPending

\* Only rows in progress carry a token, a run between its transactions names its job,
\* and a linked pair is a completed job.
THEOREM Invariance == Spec => []IInv
  BY InitInv, StepInv, PTL DEF Spec

\* Every row, link and run has its type in every state of every instance.
THEOREM TypeCorrect == Spec => []TypeOK
  BY Invariance, PTL DEF IInv

\* A linked pair has a completed job: activation writes both rows, and no other
\* transaction of the seven reopens the job or links the pair.
THEOREM LinkedIsCompleted == Spec => []LinkedMeansCompleted
  BY Invariance, PTL DEF IInv

--------------------------------------------------------------------------------
(* Who takes a job from its holder *)

\* The steps that write manga_companion_jobs.
LEMMA JobWriters ==
  ASSUME [Next]_vars
  PROVE  \/ UNCHANGED job \/ Tick
         \/ \E k \in Jobs : Schedule(k)
         \/ \E s \in Runs, k \in Jobs, pc \in {"renew0", "renew1"} : Claim(s, k, pc)
         \/ \E s \in Runs : Renew(s) \/ HeartbeatRenews(s) \/ Activate(s) \/ Finish(s)
  BY DEF Next, vars, RunStep, Launch, ProcessPending, Preflight, TakeSlot, Stub, PersistLink,
         NativeAdd, Raise, Park, HeartbeatEnds, RunDies, Crash

\* A live lease is lost at the completion or the activation of its holder only.
LEMMA HolderStep ==
  ASSUME IInv, [Next]_vars, NEW j \in Jobs, NEW r \in Runs, Leased(r, j), ~Owns(r, j)'
  PROVE  run[r].pc \in {"finish", "activate"} /\ run[r].job = j /\ run'[r] # run[r]
<1>1. job' # job
  BY DEF Leased, Owns
<1>2. ASSUME NEW k \in Jobs, Schedule(k) PROVE FALSE
  BY <1>2 DEF Schedule, Leased, Owns, IInv, TypeOK
<1>3. ASSUME NEW s \in Runs, NEW k \in Jobs, NEW pc \in {"renew0", "renew1"}, Claim(s, k, pc) PROVE FALSE
  BY <1>3 DEF Claim, Due, Leased, Owns, IInv, TypeOK
<1>4. ASSUME NEW s \in Runs, Renew(s) PROVE FALSE
  BY <1>1, <1>4 DEF Renew, Leased, Owns, IInv, TypeOK
<1>5. ASSUME NEW s \in Runs, HeartbeatRenews(s) PROVE FALSE
  BY <1>5 DEF HeartbeatRenews, Leased, Owns, IInv, TypeOK
<1>6. CASE Tick
  BY <1>6 DEF Tick, Leased, Owns, IInv, TypeOK
<1>7. ASSUME NEW s \in Runs, Activate(s)
      PROVE  s = r /\ run[s].pc = "activate" /\ run[s].job = j /\ run'[s].pc = "idle"
  BY <1>1, <1>7 DEF Activate, Idle, Leased, Owns, IInv, TypeOK
<1>8. ASSUME NEW s \in Runs, Finish(s)
      PROVE  s = r /\ run[s].pc = "finish" /\ run[s].job = j /\ run'[s].pc # "finish"
  BY <1>1, <1>8 DEF Finish, Idle, Leased, Owns, IInv, TypeOK
<1>10. CASE \E s \in Runs : Activate(s) \/ Finish(s)
  BY <1>7, <1>8, <1>10
<1> QED
  BY <1>1, <1>2, <1>3, <1>4, <1>5, <1>6, <1>10, JobWriters

\* While its lease runs, a job leaves its holder only by the holder's own finish or
\* activation, however many runs, processes and crashes there are.
THEOREM HolderEnds == Spec => OnlyHolderEnds
<1>1. IInv /\ [Next]_vars =>
        [\A j \in Jobs, r \in Runs :
           (Leased(r, j) /\ ~Owns(r, j)')
              => run[r].pc \in {"finish", "activate"} /\ run[r].job = j /\ run'[r] # run[r]]_vars
  BY HolderStep
<1> QED
  BY <1>1, Invariance, PTL DEF Spec, OnlyHolderEnds

--------------------------------------------------------------------------------
(* manga_companion_jobs is a table of leased work *)

\* The table of jobs is a table of leased work from the start,
LEMMA LeasingInit == Init => Leasing!Init
  BY DEF Init, NoJob, Leasing!Init

\* while it is left alone,
LEMMA LeasingKept == UNCHANGED job => UNCHANGED Leasing!vars
  BY DEF Leasing!vars

\* and in every step.
LEMMA LeasingStep == IInv /\ [Next]_vars => [Leasing!Next]_(Leasing!vars)
<1> SUFFICES ASSUME IInv, [Next]_vars PROVE Leasing!Next \/ UNCHANGED Leasing!vars
  OBVIOUS
<1> USE ConstAssumption
<1>1. ASSUME NEW j \in Jobs, Schedule(j) PROVE Leasing!Post(j)
  BY <1>1 DEF Schedule, Scheduled, NoJob, Leasing!Post, IInv, TypeOK, RowShape
<1>2. ASSUME NEW r \in Runs, NEW j \in Jobs, NEW pc \in {"renew0", "renew1"}, Claim(r, j, pc)
      PROVE  Leasing!Take(j, r)
  <2>1. job' = [job EXCEPT ![j] = Running(r)] /\ Running(r).token = r
        /\ Running(r).status = "running" /\ Running(r).timer = Lease
    BY <1>2 DEF Claim, Running
  <2>2. Due(j) BY <1>2 DEF Claim
  <2>3. j \in {k \in Jobs : job[k].status # "none"} \ {k \in Jobs : job[k].status = "completed"}
    BY <2>2 DEF Due
  <2>4. job[j].token # None => j \in {k \in Jobs : job[k].status = "running" /\ job[k].timer = 0}
    BY <2>2 DEF Due, IInv, RowShape
  <2>5. [k \in Jobs |-> job'[k].token] = [[k \in Jobs |-> job[k].token] EXCEPT ![j] = r]
    BY <2>1 DEF IInv, TypeOK
  <2>6. {k \in Jobs : job'[k].status = "running" /\ job'[k].timer = 0}
          = {k \in Jobs : job[k].status = "running" /\ job[k].timer = 0} \ {j}
    BY <2>1 DEF IInv, TypeOK
  <2>7. /\ {k \in Jobs : job'[k].status # "none"} = {k \in Jobs : job[k].status # "none"}
        /\ {k \in Jobs : job'[k].status = "completed"} = {k \in Jobs : job[k].status = "completed"}
    BY <2>1, <2>2 DEF Due, IInv, TypeOK
  <2> QED
    BY <2>3, <2>4, <2>5, <2>6, <2>7 DEF Leasing!Take, Leasing!Held
<1>3. ASSUME NEW r \in Runs, Renew(r) PROVE UNCHANGED Leasing!vars
  <2>1. CASE Leased(r, run[r].job)
    <3>1. job' = [job EXCEPT ![run[r].job].timer = Lease]
      BY <1>3, <2>1 DEF Renew
    <3> QED
      BY <2>1, <3>1 DEF Leased, Owns, Leasing!vars, IInv, TypeOK
  <2>2. CASE ~Leased(r, run[r].job)
    BY <1>3, <2>2, LeasingKept DEF Renew
  <2> QED BY <2>1, <2>2
<1>4. ASSUME NEW r \in Runs, HeartbeatRenews(r) PROVE UNCHANGED Leasing!vars
  BY <1>4 DEF HeartbeatRenews, Leased, Owns, Leasing!vars, IInv, TypeOK
<1>5. ASSUME NEW r \in Runs, Activate(r)
      PROVE  (\E j \in Jobs : Leasing!Complete(j)) \/ UNCHANGED Leasing!vars
  <2>1. CASE Leased(r, run[r].job) /\ link[run[r].job] = "preparing"
    <3>1. PICK j \in Jobs : j = run[r].job
      BY <1>5 DEF Activate, IInv, RunShape
    <3>2. /\ job' = [job EXCEPT ![j] = Completed] /\ job[j].status = "running"
          /\ job[j].token # None /\ job[j].timer > 0
          /\ Completed.token = None /\ Completed.status = "completed"
      BY <1>5, <2>1, <3>1 DEF Activate, Leased, Owns, Completed, NoJob, IInv, RowShape
    <3>3. [k \in Jobs |-> job'[k].token] = [[k \in Jobs |-> job[k].token] EXCEPT ![j] = None]
      BY <3>2 DEF IInv, TypeOK
    <3>4. /\ {k \in Jobs : job'[k].status = "completed"}
               = {k \in Jobs : job[k].status = "completed"} \cup {j}
          /\ {k \in Jobs : job'[k].status # "none"} = {k \in Jobs : job[k].status # "none"}
          /\ {k \in Jobs : job'[k].status = "running" /\ job'[k].timer = 0}
               = {k \in Jobs : job[k].status = "running" /\ job[k].timer = 0}
          /\ j \notin {k \in Jobs : job[k].status = "running" /\ job[k].timer = 0}
      BY <3>2 DEF IInv, TypeOK
    <3>5. Leasing!Complete(j)
      BY <3>2, <3>3, <3>4 DEF Leasing!Complete, Leasing!Held
    <3> QED BY <3>5
  <2>2. CASE ~(Leased(r, run[r].job) /\ link[run[r].job] = "preparing")
    BY <1>5, <2>2, LeasingKept DEF Activate
  <2> QED BY <2>1, <2>2
<1>6. ASSUME NEW r \in Runs, Finish(r)
      PROVE  (\E j \in Jobs : Leasing!GiveBack(j)) \/ UNCHANGED Leasing!vars
  <2>1. CASE Owns(r, run[r].job)
    <3>1. PICK j \in Jobs : j = run[r].job
      BY <1>6 DEF Finish, IInv, RunShape
    <3>2. /\ job' = [job EXCEPT ![j] = Waiting] /\ job[j].status = "running"
          /\ job[j].token # None
          /\ Waiting.token = None /\ Waiting.status = "retry"
      BY <1>6, <2>1, <3>1 DEF Finish, Owns, Waiting, IInv, RowShape
    <3>3. [k \in Jobs |-> job'[k].token] = [[k \in Jobs |-> job[k].token] EXCEPT ![j] = None]
      BY <3>2 DEF IInv, TypeOK
    <3>4. /\ {k \in Jobs : job'[k].status = "completed"} = {k \in Jobs : job[k].status = "completed"}
          /\ {k \in Jobs : job'[k].status # "none"} = {k \in Jobs : job[k].status # "none"}
          /\ {k \in Jobs : job'[k].status = "running" /\ job'[k].timer = 0}
               = {k \in Jobs : job[k].status = "running" /\ job[k].timer = 0} \ {j}
      BY <3>2 DEF IInv, TypeOK
    <3>5. Leasing!GiveBack(j)
      BY <3>2, <3>3, <3>4 DEF Leasing!GiveBack, Leasing!Held
    <3> QED BY <3>5
  <2>2. CASE ~Owns(r, run[r].job)
    BY <1>6, <2>2, LeasingKept DEF Finish
  <2> QED BY <2>1, <2>2
<1>7. CASE Tick
  <2> PICK S \in SUBSET Jobs : S = {j \in Jobs : job[j].status = "running" /\ job[j].timer = 1}
    OBVIOUS
  <2>0. \A k \in Jobs : /\ job'[k].status = job[k].status /\ job'[k].token = job[k].token
                        /\ job'[k].timer = 0 <=> job[k].timer \in {0, 1}
    BY <1>7 DEF Tick, IInv, TypeOK
  <2>1. Leasing!Lapse(S)
    <3>1. \A k \in S : job[k].token # None
      BY DEF IInv, RowShape
    <3>2. {k \in Jobs : job'[k].status = "running" /\ job'[k].timer = 0}
            = {k \in Jobs : job[k].status = "running" /\ job[k].timer = 0} \cup S
      BY <2>0
    <3>3. /\ [k \in Jobs |-> job'[k].token] = [k \in Jobs |-> job[k].token]
          /\ {k \in Jobs : job'[k].status = "completed"} = {k \in Jobs : job[k].status = "completed"}
          /\ {k \in Jobs : job'[k].status # "none"} = {k \in Jobs : job[k].status # "none"}
      BY <2>0
    <3> QED BY <3>1, <3>2, <3>3 DEF Leasing!Lapse, Leasing!Held
  <2> QED BY <2>1 DEF Leasing!Next
<1> QED
  BY <1>1, <1>2, <1>3, <1>4, <1>5, <1>6, <1>7, JobWriters, LeasingKept DEF Leasing!Next

\* A posted job is held by at most one run, changes hands only when given back or
\* lapsed, is completed only under a running lease and is never held again.
THEOREM LeasedWorkRefined == Spec => ImplementsLeasedWork
<1>1. Spec => Leasing!Init
  BY LeasingInit DEF Spec
<1> QED
  BY LeasingInit, LeasingStep, Invariance, PTL DEF Spec, ImplementsLeasedWork, Leasing!Spec
================================================================================
