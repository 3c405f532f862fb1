----------------------- MODULE NotificationScan_proofs -----------------------
(***************************************************************************)
(* Proofs about NotificationScan, for any number of tasks, runs and        *)
(* timestamps and any batch: the cursor passes no grab that is not         *)
(* recorded, and no failure is reported without its grab.                  *)
(***************************************************************************)
EXTENDS NotificationScan, FiniteSetTheorems, WellFoundedInduction, TLAPS

Item == [id : Tasks, state : {"downloading", "failed"}, ts : Nat]
RowType == [state : TaskStates, ts : Nat, late : BOOLEAN]
ScanType == [pc : Pc, start : Nat, value : Nat, blocked : BOOLEAN, todo : SUBSET Item]

Announced(t) == <<t, "grabbed">> \in recorded

\* A timestamp belongs to one row, or to one writer who holds it for a newer version of
\* his row.
Stamps ==
    /\ \A t \in Tasks : pen[t] <= clock /\ row[t].ts <= clock
    /\ \A t, u \in Tasks : (t # u /\ row[t].ts = row[u].ts) => row[t].ts = 0
    /\ \A t, u \in Tasks : (t # u /\ pen[t] = pen[u]) => pen[t] = 0
    /\ \A t, u \in Tasks : pen[t] # 0 => pen[t] # row[u].ts
    /\ \A t \in Tasks : pen[t] # 0 => row[t].ts < pen[t]

\* A timestamp that has been committed: what the cursor and the runs know are such.
Reached(n) == n = 0 \/ \E t \in Tasks : n <= row[t].ts

FlagsInv == \A t \in Tasks, f \in Flags : watch[t][f] = "done" => <<t, f>> \in recorded

\* What a run knows.  Up to its value everything is recorded; while it is not blocked,
\* what comes no later than a row that is left to do is recorded or left to do itself.
Covered(s) ==
    scan[s].blocked = FALSE =>
        \A t \in Tasks, i \in scan[s].todo :
            (Grabs(t) /\ row[t].ts <= i.ts) => (Announced(t) \/ Seen(t) \in scan[s].todo)
Reads(s) ==
    /\ Reached(scan[s].value)
    /\ \A t \in Tasks : (Grabs(t) /\ row[t].ts <= scan[s].value) => Announced(t)
    /\ \A i \in scan[s].todo : Reached(i.ts) /\ i.ts # 0
    /\ \A i, j \in scan[s].todo : i.ts = j.ts => i = j
    /\ scan[s].pc \in {"idle", "select"} => scan[s].todo = {}
    /\ scan[s].pc = "select" => scan[s].value = scan[s].start
    /\ Covered(s)
\* What it knows of the row that it is at.
AtWork(s) ==
    /\ scan[s].pc \in {"notify", "finish", "release"} => scan[s].todo # {}
    /\ scan[s].pc \in {"notify", "finish"} /\ Here(s).flag = "failed" => Announced(Here(s).id)
    /\ scan[s].pc = "finish" => <<Here(s).id, Here(s).flag>> \in recorded

ScansInv == \A s \in Scanners : Reads(s) /\ AtWork(s)
CursorInv == Reached(cursor) /\ PassedIsRecorded
IInv == TypeOK /\ Stamps /\ FlagsInv /\ ScansInv /\ CursorInv /\ FailedAfterGrabbed

\* The type invariant, by parts.
LEMMA Types ==
  TypeOK <=> /\ clock \in Nat /\ cursor \in Nat /\ faults \in Nat
             /\ pen \in [Tasks -> Nat] /\ row \in [Tasks -> RowType]
             /\ watch \in [Tasks -> [Flags -> {"free", "leased", "done"}]]
             /\ recorded \subseteq Events
             /\ scan \in [Scanners -> ScanType]
  BY DEF TypeOK, RowType, ScanType, Item

LT == {p \in Nat \X Nat : p[1] < p[2]}
\* A set of rows has a first one by time of update.
LEMMA LTWellFounded == IsWellFoundedOn(LT, Nat)
  BY NatLessThanWellFounded, Zenon DEF OpToRel, LT

\* A run that has rows left is at one of them, and no other was updated before it.
LEMMA AtFirst ==
  ASSUME NEW s \in Scanners, scan[s].todo \in SUBSET Item, scan[s].todo # {}
  PROVE  At(s) \in scan[s].todo /\ \A y \in scan[s].todo : At(s).ts <= y.ts
<1> DEFINE todo == scan[s].todo
           T == {x.ts : x \in todo}
<1>1. T \subseteq Nat /\ T # {}
  BY DEF Item
<1>2. PICK m \in T : \A n \in T : <<n, m>> \notin LT
  BY <1>1, LTWellFounded, WFMin
<1>3. \A n \in T : ~(n < m)
  BY <1>1, <1>2 DEF LT
<1>4. \E x \in todo : \A y \in todo : x.ts <= y.ts
  <2>1. PICK x \in todo : m = x.ts
    BY <1>2
  <2>2. ASSUME NEW y \in todo PROVE x.ts <= y.ts
    <3>1. y.ts \in T /\ y.ts \in Nat /\ m \in Nat
      BY <1>1, <1>2
    <3>2. ~(y.ts < m)
      BY <1>3, <3>1
    <3> QED
      BY <2>1, <3>1, <3>2
  <2> QED
    BY <2>2
<1> QED
  BY <1>4 DEF At

\* The row a run is at has a flag, and "grabbed" is the flag of a download.
LEMMA HereType ==
  ASSUME NEW s \in Scanners, scan[s].todo \in SUBSET Item, scan[s].todo # {}
  PROVE  /\ Here(s).id = At(s).id /\ Here(s).id \in Tasks
         /\ Here(s).flag = FlagOf(At(s).state) /\ Here(s).flag \in Flags
         /\ (At(s).state = "downloading" <=> Here(s).flag = "grabbed")
  BY AtFirst DEF Here, Item, FlagOf, Flags

\* The first state satisfies the invariant.
LEMMA InitInv == Init => IInv
<1> SUFFICES ASSUME Init PROVE IInv
  OBVIOUS
<1>1. TypeOK
  BY DEF Init, TypeOK, NoRow, Idle, TaskStates, Pc
<1>2. Stamps /\ FlagsInv
  BY DEF Init, Stamps, FlagsInv, NoRow
<1>3. ScansInv
  BY DEF Init, ScansInv, Reads, AtWork, Covered, Reached, Grabs, NoRow, Idle
<1>4. CursorInv /\ FailedAfterGrabbed
  BY DEF Init, CursorInv, Reached, PassedIsRecorded, Grabs, NoRow, FailedAfterGrabbed
<1> QED
  BY <1>1, <1>2, <1>3, <1>4 DEF IInv

--------------------------------------------------------------------------------
\* What a run knows stays true while the rows stay and only more events are recorded.
LEMMA StillReads ==
  ASSUME NEW s \in Scanners, Reads(s), scan'[s] = scan[s], row' = row, recorded \subseteq recorded'
  PROVE  Reads(s)'
  BY DEF Reads, Covered, Reached, Grabs, Announced, Seen

\* What a run is about to note stays recorded.
LEMMA StillAtWork ==
  ASSUME NEW s \in Scanners, AtWork(s), scan'[s] = scan[s], recorded \subseteq recorded'
  PROVE  AtWork(s)'
  BY DEF AtWork, Here, At, Announced

\* One run moves from scan[s] to z.
LEMMA RunMoves ==
  ASSUME IInv, NEW s \in Scanners, NEW z, scan' = [scan EXCEPT ![s] = z],
         row' = row, recorded \subseteq recorded', Reads(s)', AtWork(s)'
  PROVE  ScansInv'
<1>1. ASSUME NEW r \in Scanners, r # s PROVE Reads(r)' /\ AtWork(r)'
  <2>1. scan'[r] = scan[r] /\ Reads(r) /\ AtWork(r)
    BY <1>1, Types DEF IInv, ScansInv
  <2> QED
    BY <2>1, StillReads, StillAtWork
<1> QED
  BY <1>1 DEF ScansInv

\* On to the next row: what is left was left before, and At(s) is no longer.
LEMMA OnwardMoves ==
  ASSUME IInv, NEW s \in Scanners, scan[s].todo # {}, NEW v \in Nat, NEW b \in BOOLEAN,
         scan' = [scan EXCEPT ![s] = [scan[s] EXCEPT !.pc = "row", !.todo = Rest(s),
                                                     !.value = v, !.blocked = b]],
         row' = row, recorded' = recorded,
         \/ v = scan[s].value /\ b = TRUE
         \/ /\ v = At(s).ts /\ b = FALSE /\ scan[s].blocked = FALSE
            /\ At(s).state = "downloading" => Announced(At(s).id)
  PROVE  ScansInv' /\ scan' \in [Scanners -> ScanType]
<1> DEFINE z == [scan[s] EXCEPT !.pc = "row", !.todo = Rest(s), !.value = v, !.blocked = b]
<1>1. scan[s] \in ScanType /\ Reads(s)
  BY Types DEF IInv, ScansInv
<1>2. At(s) \in scan[s].todo /\ \A y \in scan[s].todo : At(s).ts <= y.ts
  BY <1>1, AtFirst DEF ScanType
<1>3. Rest(s) \in SUBSET Item
  BY <1>1 DEF ScanType, Rest
<1>4. z.pc = "row" /\ z.todo = Rest(s) /\ z.value = v /\ z.blocked = b
  BY <1>1, Zenon DEF ScanType
<1>5. z \in ScanType
  <2>1. "row" \in Pc
    BY DEF Pc
  <2> QED
    BY <1>1, <1>3, <2>1, Zenon DEF ScanType
<1> HIDE DEF z
<1>6. scan'[s] = z /\ scan' = [scan EXCEPT ![s] = z]
  BY Types DEF IInv, z
<1>7. AtWork(s)'
  BY <1>4, <1>6 DEF AtWork
<1>8. \A i \in scan[s].todo : i.ts \in Nat
  BY <1>1 DEF ScanType, Item
<1>9. \A t \in Tasks : row[t].ts \in Nat
  BY Types DEF IInv, RowType
<1>10. \A i \in Rest(s) : i \in scan[s].todo /\ i # At(s)
  BY DEF Rest
<1>11. CASE v = scan[s].value /\ b = TRUE
  <2>1. Covered(s)'
    BY <1>4, <1>6, <1>11 DEF Covered
  <2>2. Reads(s)'
    BY <1>1, <1>4, <1>6, <1>10, <1>11, <2>1 DEF Reads, Reached, Grabs, Announced
  <2> QED
    BY <1>5, <1>6, <1>7, <2>2, RunMoves, Types DEF IInv
<1>12. CASE /\ v = At(s).ts /\ b = FALSE /\ scan[s].blocked = FALSE
            /\ At(s).state = "downloading" => Announced(At(s).id)
  <2>1. ASSUME NEW t \in Tasks, Grabs(t), Seen(t) = At(s) PROVE Announced(t)
    BY <1>12, <2>1 DEF Grabs, Seen
  <2>2. ASSUME NEW t \in Tasks, Grabs(t), row[t].ts <= v PROVE Announced(t)
    <3>1. Announced(t) \/ Seen(t) \in scan[s].todo
      BY <1>1, <1>2, <1>12, <2>2 DEF Reads, Covered
    <3>2. ASSUME Seen(t) \in scan[s].todo PROVE Announced(t)
      <4>1. Seen(t).ts = row[t].ts
        BY DEF Seen
      <4>2. At(s).ts = Seen(t).ts
        BY <1>2, <1>8, <1>9, <1>12, <2>2, <3>2, <4>1
      <4>3. At(s) = Seen(t)
        BY <1>1, <1>2, <3>2, <4>2 DEF Reads
      <4> QED
        BY <2>1, <2>2, <4>3
    <3> QED
      BY <3>1, <3>2
  <2>3. ASSUME NEW t \in Tasks, NEW i \in Rest(s), Grabs(t), row[t].ts <= i.ts
        PROVE  Announced(t) \/ Seen(t) \in Rest(s)
    <3>1. Announced(t) \/ Seen(t) \in scan[s].todo
      BY <1>1, <1>10, <1>12, <2>3 DEF Reads, Covered
    <3> QED
      BY <2>1, <2>3, <3>1 DEF Rest
  <2>4. Reads(s)'
    <3>1. Reached(v) /\ \A i \in Rest(s) : Reached(i.ts) /\ i.ts # 0
      BY <1>1, <1>2, <1>10, <1>12 DEF Reads
    <3>2. \A i, j \in Rest(s) : i.ts = j.ts => i = j
      BY <1>1, <1>10 DEF Reads
    <3> QED
      BY <1>4, <1>6, <2>2, <2>3, <3>1, <3>2
         DEF Reads, Covered, Reached, Grabs, Announced, Seen
  <2> QED
    BY <1>5, <1>6, <1>7, <2>4, RunMoves, Types DEF IInv
<1> QED
  BY <1>11, <1>12

\* The rows of the other tables that a step of a run leaves alone.
LEMMA TablesKept ==
  ASSUME IInv, UNCHANGED <<tables, cursor, watch, recorded, faults>>, ScansInv',
         scan' \in [Scanners -> ScanType]
  PROVE  IInv'
<1>1. TypeOK'
  BY Types DEF IInv, tables, TypeOK, RowType, ScanType, Item
<1>2. Stamps' /\ FlagsInv' /\ CursorInv' /\ FailedAfterGrabbed'
  BY DEF IInv, tables, Stamps, FlagsInv, CursorInv, Reached, PassedIsRecorded, Grabs,
         FailedAfterGrabbed
<1> QED
  BY <1>1, <1>2 DEF IInv

\* Reading the cursor keeps the invariant.
LEMMA ReadCursorInv ==
  ASSUME IInv, NEW s \in Scanners, ReadCursor(s)
  PROVE  IInv'
<1> DEFINE z == [Idle EXCEPT !.pc = "select", !.start = cursor, !.value = cursor]
<1>1. /\ z \in ScanType /\ z.pc = "select" /\ z.start = cursor /\ z.value = cursor
      /\ z.todo = {}
  BY Types DEF IInv, Idle, ScanType, Pc
<1> HIDE DEF z
<1>2. scan' = [scan EXCEPT ![s] = z] /\ scan'[s] = z
  BY Types DEF IInv, ReadCursor, z
<1>3. Reached(cursor) /\ PassedIsRecorded
  BY DEF IInv, CursorInv
<1>4. row' = row /\ recorded' = recorded
  BY DEF ReadCursor, tables
<1>5. Reads(s)'
  BY <1>1, <1>2, <1>3, <1>4
     DEF Reads, Covered, Reached, PassedIsRecorded, Grabs, Announced
<1>6. AtWork(s)'
  BY <1>1, <1>2 DEF AtWork
<1>7. ScansInv' /\ scan' \in [Scanners -> ScanType]
  BY <1>1, <1>2, <1>4, <1>5, <1>6, RunMoves, Types DEF IInv
<1> QED
  BY <1>7, TablesKept DEF ReadCursor

\* Nothing that is due lies before the rows that a run selects.
LEMMA SelectInv ==
  ASSUME IInv, NEW s \in Scanners, Select(s)
  PROVE  IInv'
<1> DEFINE todo == {Seen(t) : t \in First(s)}
           z == [scan[s] EXCEPT !.pc = "row", !.todo = todo]
<1>1. scan[s] \in ScanType /\ Reads(s) /\ scan[s].pc = "select"
  BY Types DEF IInv, ScansInv, Select
<1>2. \A t \in First(s) : t \in Past(s)
  BY DEF First
<1>3. \A t \in Past(s) : t \in Tasks /\ Reports(t) /\ row[t].ts > scan[s].start
  BY DEF Past
<1>4. \A t \in Tasks : row[t].ts \in Nat /\ Seen(t).ts = row[t].ts /\ Seen(t).id = t
  BY Types DEF IInv, RowType, Seen
<1>5. scan[s].start \in Nat /\ scan[s].value = scan[s].start
  BY <1>1 DEF ScanType, Reads
<1>6. todo \in SUBSET Item
  BY <1>2, <1>3, <1>4 DEF Item, Seen, Reports
<1>7. z \in ScanType /\ z.pc = "row" /\ z.todo = todo /\ z.value = scan[s].value
  BY <1>1, <1>6 DEF ScanType, Pc
<1>8. scan' = [scan EXCEPT ![s] = z] /\ scan'[s] = z
  BY Types DEF IInv, Select
<1>9. row' = row /\ recorded' = recorded
  BY DEF Select, tables
\* A row that comes no later than one of the batch is in the batch.
<1>10. ASSUME NEW t \in Past(s), NEW u \in First(s), row[t].ts <= row[u].ts
       PROVE  t \in First(s)
  <2> DEFINE T == {v \in Past(s) : row[v].ts < row[t].ts}
             U == {v \in Past(s) : row[v].ts < row[u].ts}
  <2>1. T \subseteq U
    BY <1>2, <1>3, <1>4, <1>10
  <2>2. IsFiniteSet(U)
    BY <1>3, ConstAssumption, FS_Subset
  <2>3. Cardinality(T) <= Cardinality(U) /\ Cardinality(T) \in Nat /\ Cardinality(U) \in Nat
    BY <2>1, <2>2, FS_Subset, FS_CardinalityType
  <2>4. Cardinality(U) < Batch
    BY DEF First
  <2>5. Cardinality(T) < Batch
    BY <2>3, <2>4, ConstAssumption
  <2> QED
    BY <2>5 DEF First
<1>11. ASSUME NEW t \in Tasks, NEW i \in todo, Grabs(t), row[t].ts <= i.ts
       PROVE  Announced(t) \/ Seen(t) \in todo
  <2>1. PICK u \in First(s) : i = Seen(u)
    OBVIOUS
  <2>2. row[t].ts <= row[u].ts
    BY <1>2, <1>3, <1>4, <1>11, <2>1
  <2>3. CASE row[t].ts <= scan[s].value
    BY <1>1, <1>11, <2>3 DEF Reads
  <2>4. CASE row[t].ts > scan[s].value
    <3>1. t \in Past(s)
      BY <1>5, <1>11, <2>4 DEF Past, Reports, Grabs
    <3> QED
      BY <1>10, <2>2, <3>1
  <2> QED
    BY <2>3, <2>4, <1>4, <1>5
<1>12. \A i \in todo : Reached(i.ts) /\ i.ts # 0
  BY <1>2, <1>3, <1>4, <1>5 DEF Reached
<1>13. \A i, j \in todo : i.ts = j.ts => i = j
  <2>1. \A t, u \in First(s) : row[t].ts = row[u].ts => t = u
    BY <1>2, <1>3, <1>4, <1>5 DEF IInv, Stamps
  <2> QED
    BY <1>2, <1>3, <1>4, <2>1
<1> HIDE DEF z, todo
<1>14. Covered(s)'
  BY <1>7, <1>8, <1>9, <1>11 DEF Covered, Grabs, Announced, Seen
<1>15. Reads(s)'
  BY <1>1, <1>7, <1>8, <1>9, <1>12, <1>13, <1>14 DEF Reads, Reached, Grabs, Announced
<1>16. AtWork(s)'
  BY <1>7, <1>8 DEF AtWork
<1>17. ScansInv' /\ scan' \in [Scanners -> ScanType]
  BY <1>7, <1>8, <1>9, <1>15, <1>16, RunMoves, Types DEF IInv
<1> QED
  BY <1>17, TablesKept DEF Select

\* What the invariant says of a run that has rows left.
LEMMA HereFacts ==
  ASSUME IInv, NEW s \in Scanners, scan[s].todo # {}
  PROVE  /\ scan[s] \in ScanType /\ Reads(s) /\ AtWork(s)
         /\ At(s) \in scan[s].todo /\ At(s).ts \in Nat
         /\ Here(s).id = At(s).id /\ Here(s).id \in Tasks /\ Here(s).flag \in Flags
         /\ (At(s).state = "downloading" <=> Here(s).flag = "grabbed")
<1>1. scan[s] \in ScanType /\ Reads(s) /\ AtWork(s)
  BY Types DEF IInv, ScansInv
<1>2. scan[s].todo \in SUBSET Item
  BY <1>1 DEF ScanType
<1>3. At(s) \in scan[s].todo
  BY <1>2, AtFirst
<1>4. At(s).ts \in Nat
  BY <1>2, <1>3 DEF Item
<1> QED
  BY <1>1, <1>2, <1>3, <1>4, HereType

\* Settle and Block move on.
LEMMA SettleMoves ==
  ASSUME IInv, NEW s \in Scanners, scan[s].todo # {}, Settle(s), row' = row, recorded' = recorded,
         Here(s).flag = "grabbed" => Announced(Here(s).id)
  PROVE  ScansInv' /\ scan' \in [Scanners -> ScanType]
<1>1. /\ scan[s].value \in Nat /\ At(s).ts \in Nat /\ scan[s].blocked \in BOOLEAN
      /\ (At(s).state = "downloading" => Announced(At(s).id))
  BY HereFacts, Types DEF ScanType, IInv
<1>2. CASE scan[s].blocked = TRUE
  BY <1>1, <1>2, OnwardMoves DEF Settle, Onward
<1>3. CASE scan[s].blocked = FALSE
  BY <1>1, <1>3, OnwardMoves DEF Settle, Onward
<1> QED
  BY <1>1, <1>2, <1>3

\* A blocked run goes on and advances its cursor no more.
LEMMA BlockMoves ==
  ASSUME IInv, NEW s \in Scanners, scan[s].todo # {}, Block(s), row' = row, recorded' = recorded
  PROVE  ScansInv' /\ scan' \in [Scanners -> ScanType]
<1>1. scan[s].value \in Nat
  BY HereFacts DEF ScanType
<1> QED
  BY <1>1, OnwardMoves DEF Block, Onward

\* A step that sets a flag.
LEMMA FlagMoves ==
  ASSUME IInv, NEW t \in Tasks, NEW f \in Flags, NEW to \in {"free", "leased", "done"},
         Put(t, f, to), to = "done" => <<t, f>> \in recorded,
         UNCHANGED <<tables, cursor, recorded, faults>>,
         ScansInv', scan' \in [Scanners -> ScanType]
  PROVE  IInv'
<1> DEFINE w == [watch[t] EXCEPT ![f] = to]
<1>1. watch[t] \in [Flags -> {"free", "leased", "done"}]
  BY Types DEF IInv
<1>2. w \in [Flags -> {"free", "leased", "done"}] /\ watch' = [watch EXCEPT ![t] = w]
  BY <1>1 DEF Put
<1>3. \A g \in Flags : w[g] = "done" => <<t, g>> \in recorded
  BY <1>1 DEF IInv, FlagsInv
<1> HIDE DEF w
<1>4. watch' \in [Tasks -> [Flags -> {"free", "leased", "done"}]]
  BY <1>2, Types DEF IInv
<1>5. FlagsInv'
  BY <1>2, <1>3, Types DEF IInv, FlagsInv
<1>6. TypeOK'
  BY <1>4, Types DEF IInv, tables, TypeOK, RowType, ScanType, Item
<1>7. Stamps' /\ CursorInv' /\ FailedAfterGrabbed'
  BY DEF IInv, tables, Stamps, CursorInv, Reached, PassedIsRecorded, Grabs, FailedAfterGrabbed
<1> QED
  BY <1>5, <1>6, <1>7 DEF IInv

\* A row with nothing to announce is passed,
LEMMA PassRowInv ==
  ASSUME IInv, NEW s \in Scanners, PassRow(s)
  PROVE  IInv'
<1>1. scan[s].todo # {}
  BY DEF PassRow, AtRow
<1>2. Here(s).flag = "grabbed" => Announced(Here(s).id)
  BY <1>1, HereFacts DEF PassRow, MayReport, FlagHere, IInv, FlagsInv, Announced
<1>3. ScansInv' /\ scan' \in [Scanners -> ScanType]
  BY <1>1, <1>2, SettleMoves DEF PassRow, tables
<1> QED
  BY <1>3, TablesKept DEF PassRow

\* one that another run announces is left to it,
LEMMA FindBusyInv ==
  ASSUME IInv, NEW s \in Scanners, FindBusy(s)
  PROVE  IInv'
<1>1. ScansInv' /\ scan' \in [Scanners -> ScanType]
  BY BlockMoves DEF FindBusy, AtRow, tables
<1> QED
  BY <1>1, TablesKept DEF FindBusy

\* From one step at the row to the next.
LEMMA GotoMoves ==
  ASSUME IInv, NEW s \in Scanners, scan[s].todo # {}, NEW pc \in {"notify", "finish", "release"},
         Goto(s, pc), row' = row, recorded \subseteq recorded',
         (pc \in {"notify", "finish"} /\ Here(s).flag = "failed")
             => <<Here(s).id, "grabbed">> \in recorded',
         pc = "finish" => <<Here(s).id, Here(s).flag>> \in recorded'
  PROVE  ScansInv' /\ scan' \in [Scanners -> ScanType]
<1> DEFINE z == [scan[s] EXCEPT !.pc = pc]
<1>1. scan[s] \in ScanType /\ Reads(s)
  BY Types DEF IInv, ScansInv
<1>2. /\ z \in ScanType /\ z.pc = pc /\ z.todo = scan[s].todo /\ z.value = scan[s].value
      /\ z.blocked = scan[s].blocked
  BY <1>1 DEF ScanType, Pc
<1>3. scan' = [scan EXCEPT ![s] = z] /\ scan'[s] = z
  BY Types DEF IInv, Goto
<1> HIDE DEF z
<1>4. At(s)' = At(s)
  BY <1>2, <1>3 DEF At
<1>5. Here(s)' = Here(s)
  BY <1>4 DEF Here
<1>6. Reads(s)'
  BY <1>1, <1>2, <1>3 DEF Reads, Covered, Reached, Grabs, Announced, Seen
<1>7. AtWork(s)'
  BY <1>2, <1>3, <1>5 DEF AtWork, Announced
<1> QED
  BY <1>2, <1>3, <1>6, <1>7, RunMoves, Types DEF IInv

\* one with a free flag is taken.
LEMMA ClaimFlagInv ==
  ASSUME IInv, NEW s \in Scanners, ClaimFlag(s)
  PROVE  IInv'
<1>1. scan[s].todo # {} /\ row' = row /\ recorded' = recorded
  BY DEF ClaimFlag, AtRow, tables
<1>2. Here(s).id \in Tasks /\ Here(s).flag \in Flags
  BY <1>1, HereFacts
<1>3. Here(s).flag = "failed" => Announced(Here(s).id)
  BY <1>2 DEF ClaimFlag, MayReport, IInv, FlagsInv, Announced, Flags
<1>4. ScansInv' /\ scan' \in [Scanners -> ScanType]
  <2>1. Here(s).flag = "failed" => <<Here(s).id, "grabbed">> \in recorded'
    BY <1>1, <1>3 DEF Announced
  <2> QED
    BY <1>1, <2>1, GotoMoves DEF ClaimFlag
<1> QED
  BY <1>2, <1>4, FlagMoves DEF ClaimFlag, SetFlag

\* A step that records an event, or does not.
LEMMA RecordMoves ==
  ASSUME IInv, NEW s \in Scanners, scan[s].pc = "notify", NEW e, e = <<Here(s).id, Here(s).flag>>,
         recorded' \in {recorded, recorded \cup {e}}, faults' \in Nat,
         UNCHANGED <<tables, cursor, watch>>, ScansInv', scan' \in [Scanners -> ScanType]
  PROVE  IInv'
<1>1. AtWork(s) /\ scan[s].todo # {}
  BY DEF IInv, ScansInv, AtWork
<1>2. Here(s).id \in Tasks /\ Here(s).flag \in Flags
  BY <1>1, HereFacts
<1>3. TypeOK'
  <2>1. e \in Events
    BY <1>2 DEF Events
  <2> QED
    BY <2>1, Types DEF IInv, tables, TypeOK, RowType, ScanType, Item
<1>4. Stamps' /\ FlagsInv' /\ CursorInv'
  BY DEF IInv, tables, Stamps, FlagsInv, CursorInv, Reached, PassedIsRecorded, Grabs
<1>5. FailedAfterGrabbed'
  <2>1. \A t \in Tasks : e = <<t, "failed">> => <<t, "grabbed">> \in recorded
    BY <1>1 DEF AtWork, Announced
  <2> QED
    BY <2>1 DEF IInv, FailedAfterGrabbed
<1> QED
  BY <1>3, <1>4, <1>5 DEF IInv

\* An announcement that settles records its event,
LEMMA NotifySettlesInv ==
  ASSUME IInv, NEW s \in Scanners, NotifySettles(s)
  PROVE  IInv'
<1>1. scan[s].pc = "notify" /\ scan[s].todo # {} /\ AtWork(s)
  BY DEF NotifySettles, IInv, ScansInv, AtWork
<1>2. /\ row' = row /\ recorded \subseteq recorded' /\ <<Here(s).id, Here(s).flag>> \in recorded'
      /\ Here(s).flag = "failed" => <<Here(s).id, "grabbed">> \in recorded'
  BY <1>1 DEF NotifySettles, tables, AtWork, Announced
<1>3. ScansInv' /\ scan' \in [Scanners -> ScanType]
  BY <1>1, <1>2, GotoMoves DEF NotifySettles
<1>4. faults' \in Nat
  BY Types DEF IInv, NotifySettles
<1> QED
  BY <1>1, <1>3, <1>4, RecordMoves DEF NotifySettles

\* one that fails may have.
LEMMA NotifyFailsInv ==
  ASSUME IInv, NEW s \in Scanners, NotifyFails(s)
  PROVE  IInv'
<1>1. scan[s].pc = "notify" /\ scan[s].todo # {}
  BY DEF NotifyFails, IInv, ScansInv, AtWork
<1>2. row' = row /\ recorded \subseteq recorded'
  BY DEF NotifyFails, tables
<1>3. ScansInv' /\ scan' \in [Scanners -> ScanType]
  BY <1>1, <1>2, GotoMoves DEF NotifyFails
<1>4. faults' \in Nat
  BY Types DEF IInv, NotifyFails
<1> QED
  BY <1>1, <1>3, <1>4, RecordMoves DEF NotifyFails

\* A flag is done when its event is recorded.
LEMMA FinishFlagInv ==
  ASSUME IInv, NEW s \in Scanners, FinishFlag(s)
  PROVE  IInv'
<1>1. scan[s].todo # {} /\ <<Here(s).id, Here(s).flag>> \in recorded
  BY DEF FinishFlag, IInv, ScansInv, AtWork
<1>2. Here(s).id \in Tasks /\ Here(s).flag \in Flags
  BY <1>1, HereFacts
<1>3. ScansInv' /\ scan' \in [Scanners -> ScanType]
  BY <1>1, SettleMoves DEF FinishFlag, tables, Announced
<1> QED
  BY <1>1, <1>2, <1>3, FlagMoves DEF FinishFlag, SetFlag

\* A flag that is given back blocks the cursor.
LEMMA ReleaseFlagInv ==
  ASSUME IInv, NEW s \in Scanners, ReleaseFlag(s)
  PROVE  IInv'
<1>1. scan[s].todo # {}
  BY DEF ReleaseFlag, IInv, ScansInv, AtWork
<1>2. Here(s).id \in Tasks /\ Here(s).flag \in Flags
  BY <1>1, HereFacts
<1>3. ScansInv' /\ scan' \in [Scanners -> ScanType]
  BY <1>1, BlockMoves DEF ReleaseFlag, tables
<1> DEFINE to == IF FlagHere(s) = "done" THEN "done" ELSE "free"
<1>4. to \in {"free", "leased", "done"} /\ (to = "done" => <<Here(s).id, Here(s).flag>> \in recorded)
  BY <1>2 DEF FlagHere, IInv, FlagsInv
<1>5. Put(Here(s).id, Here(s).flag, to)
  BY DEF ReleaseFlag, SetFlag
<1> HIDE DEF to
<1> QED
  BY <1>2, <1>3, <1>4, <1>5, FlagMoves DEF ReleaseFlag

\* A run that has ended is well-formed.
LEMMA IdleFacts ==
  /\ Idle \in ScanType /\ Idle.pc = "idle" /\ Idle.value = 0 /\ Idle.todo = {}
  BY DEF Idle, ScanType, Pc

\* A run ends: it knows nothing.
LEMMA EndMoves ==
  ASSUME IInv, NEW s \in Scanners, scan' = [scan EXCEPT ![s] = Idle],
         UNCHANGED <<tables, watch, recorded>>
  PROVE  ScansInv' /\ scan' \in [Scanners -> ScanType]
<1>1. scan'[s] = Idle
  BY Types DEF IInv
<1>2. \A t \in Tasks : (Grabs(t) /\ row[t].ts <= 0) => Announced(t)
  <2>1. \A t \in Tasks : row[t].ts \in Nat
    BY Types DEF IInv, RowType
  <2>2. cursor \in Nat
    BY Types DEF IInv
  <2> QED
    BY <2>1, <2>2 DEF IInv, CursorInv, PassedIsRecorded, Announced
<1>3. Reads(s)'
  BY <1>1, <1>2, IdleFacts DEF Reads, Covered, Reached, Grabs, Announced, tables
<1>4. AtWork(s)'
  BY <1>1, IdleFacts DEF AtWork
<1> QED
  BY <1>3, <1>4, IdleFacts, RunMoves, Types DEF IInv, tables

\* The cursor is written past recorded rows only.
LEMMA WriteCursorInv ==
  ASSUME IInv, NEW s \in Scanners, WriteCursor(s)
  PROVE  IInv'
<1>1. Reads(s) /\ scan[s].value \in Nat
  BY Types DEF IInv, ScansInv, ScanType
<1>2. cursor' \in {cursor, scan[s].value}
  BY DEF WriteCursor
<1>3. ScansInv' /\ scan' \in [Scanners -> ScanType]
  BY EndMoves DEF WriteCursor
<1>4. TypeOK'
  BY <1>1, <1>2, <1>3, Types DEF IInv, WriteCursor, tables, TypeOK, RowType, ScanType, Item
<1>5. CursorInv'
  <2>1. CASE cursor' = cursor
    BY <2>1 DEF IInv, CursorInv, WriteCursor, tables, Reached, PassedIsRecorded, Grabs
  <2>2. CASE cursor' = scan[s].value
    BY <1>1, <2>2
       DEF Reads, CursorInv, WriteCursor, tables, Reached, PassedIsRecorded, Grabs, Announced
  <2> QED
    BY <1>2, <2>1, <2>2
<1>6. Stamps' /\ FlagsInv' /\ FailedAfterGrabbed'
  BY DEF IInv, WriteCursor, tables, Stamps, FlagsInv, FailedAfterGrabbed
<1> QED
  BY <1>3, <1>4, <1>5, <1>6 DEF IInv

\* A run that dies leaves flags behind, and no cursor.
LEMMA DiesInv ==
  ASSUME IInv, NEW s \in Scanners, Dies(s)
  PROVE  IInv'
<1>1. ScansInv' /\ scan' \in [Scanners -> ScanType]
  BY EndMoves DEF Dies
<1>2. TypeOK'
  BY <1>1, Types DEF IInv, Dies, tables, TypeOK, RowType, ScanType, Item
<1>3. Stamps' /\ FlagsInv' /\ CursorInv' /\ FailedAfterGrabbed'
  BY DEF IInv, Dies, tables, Stamps, FlagsInv, CursorInv, Reached, PassedIsRecorded, Grabs,
         FailedAfterGrabbed
<1> QED
  BY <1>1, <1>2, <1>3 DEF IInv

\* Nothing of what the runs know changes.
LEMMA RunsKept ==
  ASSUME IInv, scan' = scan, row' = row, recorded' = recorded
  PROVE  ScansInv'
  BY StillReads, StillAtWork DEF IInv, ScansInv

\* A leased flag becomes free again.
LEMMA LeaseEndsInv ==
  ASSUME IInv, NEW t \in Tasks, NEW f \in Flags, LeaseEnds(t, f)
  PROVE  IInv'
<1>1. ScansInv' /\ scan' \in [Scanners -> ScanType]
  BY RunsKept, Types DEF IInv, LeaseEnds, tables
<1> QED
  BY <1>1, FlagMoves DEF LeaseEnds

\* A row that is stamped has not been committed.
LEMMA StampInv ==
  ASSUME IInv, NEW t \in Tasks, Stamp(t)
  PROVE  IInv'
<1>1. ScansInv'
  BY RunsKept DEF Stamp
<1>2. TypeOK'
  BY Types DEF IInv, Stamp, TypeOK, RowType, ScanType, Item
<1>3. Stamps'
  <2>1. /\ clock \in Nat /\ clock' = clock + 1 /\ row' = row /\ pen'[t] = clock + 1
        /\ \A u \in Tasks : u # t => pen'[u] = pen[u]
        /\ \A u \in Tasks : pen[u] \in Nat /\ row[u].ts \in Nat
    BY Types DEF IInv, Stamp, RowType
  <2>2. Stamps
    BY DEF IInv
  <2>3. \A u \in Tasks : pen'[u] <= clock' /\ row'[u].ts <= clock'
    BY <2>1, <2>2 DEF Stamps
  <2>4. \A u, v \in Tasks : (u # v /\ pen'[u] = pen'[v]) => pen'[u] = 0
    BY <2>1, <2>2 DEF Stamps
  <2>5. \A u, v \in Tasks : pen'[u] # 0 => pen'[u] # row'[v].ts
    BY <2>1, <2>2 DEF Stamps
  <2>6. \A u \in Tasks : pen'[u] # 0 => row'[u].ts < pen'[u]
    BY <2>1, <2>2 DEF Stamps
  <2> QED
    BY <2>1, <2>2, <2>3, <2>4, <2>5, <2>6 DEF Stamps
<1>4. FlagsInv' /\ CursorInv' /\ FailedAfterGrabbed'
  BY DEF IInv, Stamp, FlagsInv, CursorInv, Reached, PassedIsRecorded, Grabs, FailedAfterGrabbed
<1> QED
  BY <1>1, <1>2, <1>3, <1>4 DEF IInv

\* A row that is not late is newer than whatever the cursor and the runs have seen.
LEMMA CommitInv ==
  ASSUME IInv, NEW t \in Tasks, Commit(t)
  PROVE  IInv'
<1> DEFINE n == pen[t]
<1>1. PICK x \in RowType : row' = [row EXCEPT ![t] = x] /\ x.ts = n /\ (x.late = FALSE => ~Late(t))
  <2>1. n \in Nat
    BY Types DEF IInv
  <2>2. PICK st \in TaskStates : row' = [row EXCEPT ![t] = [state |-> st, ts |-> n, late |-> Late(t)]]
    BY DEF Commit
  <2>3. CASE Late(t)
    <3>1. [state |-> st, ts |-> n, late |-> Late(t)] = [state |-> st, ts |-> n, late |-> TRUE]
      BY <2>3 DEF Late
    <3> DEFINE x == [state |-> st, ts |-> n, late |-> TRUE]
    <3>2. x \in RowType /\ x.ts = n /\ x.late = TRUE /\ row' = [row EXCEPT ![t] = x]
      BY <2>1, <2>2, <3>1 DEF RowType
    <3> QED
      BY <3>2
  <2>4. CASE ~Late(t)
    <3>1. [state |-> st, ts |-> n, late |-> Late(t)] = [state |-> st, ts |-> n, late |-> FALSE]
      BY <2>4 DEF Late
    <3> DEFINE x == [state |-> st, ts |-> n, late |-> FALSE]
    <3>2. x \in RowType /\ x.ts = n /\ row' = [row EXCEPT ![t] = x]
      BY <2>1, <2>2, <3>1 DEF RowType
    <3> QED
      BY <3>2, <2>4
  <2> QED
    BY <2>3, <2>4
<1>2. /\ row'[t] = x /\ \A u \in Tasks : u # t => row'[u] = row[u]
      /\ pen'[t] = 0 /\ \A u \in Tasks : u # t => pen'[u] = pen[u]
      /\ n # 0 /\ n \in Nat /\ \A u \in Tasks : row[u].ts \in Nat /\ pen[u] \in Nat
  BY <1>1, Types DEF IInv, Commit, RowType
<1>3. UNCHANGED <<clock, cursor, watch, recorded, scan, faults>>
  BY DEF Commit
<1>4. Stamps /\ CursorInv /\ ScansInv
  BY DEF IInv
<1>5. TypeOK'
  BY <1>1, <1>3, Types DEF IInv, Commit, TypeOK, RowType, ScanType, Item
<1>6. Stamps'
  <2>1. n <= clock /\ row[t].ts < n /\ clock \in Nat
    BY <1>2, <1>4, Types DEF IInv, Stamps
  <2>2. \A u \in Tasks : pen'[u] <= clock' /\ row'[u].ts <= clock'
    BY <1>1, <1>2, <1>3, <1>4, <2>1 DEF Stamps
  <2>3. \A u, v \in Tasks : (u # v /\ row'[u].ts = row'[v].ts) => row'[u].ts = 0
    BY <1>1, <1>2, <1>4 DEF Stamps
  <2>4. \A u, v \in Tasks : (u # v /\ pen'[u] = pen'[v]) => pen'[u] = 0
    BY <1>2, <1>4 DEF Stamps
  <2>5. \A u, v \in Tasks : pen'[u] # 0 => pen'[u] # row'[v].ts
    BY <1>1, <1>2, <1>4 DEF Stamps
  <2>6. \A u \in Tasks : pen'[u] # 0 => row'[u].ts < pen'[u]
    BY <1>2, <1>4 DEF Stamps
  <2> QED
    BY <2>2, <2>3, <2>4, <2>5, <2>6 DEF Stamps
\* Timestamps that have been seen stay seen, and are older than a row that is not late.
<1>7. ASSUME NEW m \in Nat, Reached(m)
      PROVE  Reached(m)' /\ (x.late = FALSE => m < n)
  <2>1. row[t].ts < n
    BY <1>2, <1>4 DEF Stamps
  <2>2. CASE m = 0
    BY <2>2, <1>2 DEF Reached
  <2>3. CASE m # 0
    <3>1. PICK u \in Tasks : m <= row[u].ts
      BY <1>7, <2>3 DEF Reached
    <3>2. m <= row'[u].ts
      BY <1>1, <1>2, <2>1, <3>1
    <3>3. x.late = FALSE => row[u].ts < n
      BY <1>1, <1>2, <1>4 DEF Late, Stamps
    <3> QED
      BY <1>2, <3>1, <3>2, <3>3 DEF Reached
  <2> QED
    BY <2>2, <2>3
<1>8. ASSUME NEW u \in Tasks, Grabs(u)'
      PROVE  (u # t /\ Grabs(u) /\ row'[u] = row[u]) \/ (u = t /\ x.late = FALSE)
  BY <1>1, <1>2, <1>8 DEF Grabs, RowType
<1>9. CursorInv'
  <2>1. Reached(cursor)' /\ (x.late = FALSE => cursor < n)
    BY <1>3, <1>4, <1>7, Types DEF IInv, CursorInv, Reached
  <2>2. PassedIsRecorded'
    <3>1. ASSUME NEW u \in Tasks, Grabs(u)', row'[u].ts <= cursor
          PROVE  <<u, "grabbed">> \in recorded
      <4>1. CASE u = t /\ x.late = FALSE
        BY <1>1, <1>2, <2>1, <3>1, <4>1, Types DEF IInv
      <4>2. CASE Grabs(u) /\ row'[u] = row[u]
        BY <1>4, <3>1, <4>2 DEF CursorInv, PassedIsRecorded
      <4> QED
        BY <1>8, <3>1, <4>1, <4>2
    <3> QED
      BY <1>3, <3>1 DEF PassedIsRecorded
  <2> QED
    BY <2>1, <2>2 DEF CursorInv
<1>10. ASSUME NEW s \in Scanners PROVE Reads(s)' /\ AtWork(s)'
  <2>1. Reads(s) /\ AtWork(s) /\ scan'[s] = scan[s]
    BY <1>3, <1>4 DEF ScansInv
  <2>2. scan[s].value \in Nat /\ \A i \in scan[s].todo : i.ts \in Nat
    BY Types DEF IInv, ScanType, Item
  <2>3. Reached(scan[s].value)' /\ (x.late = FALSE => scan[s].value < n)
    BY <1>3, <1>7, <2>1, <2>2 DEF Reads, Reached
  <2>4. \A i \in scan[s].todo : Reached(i.ts)' /\ (x.late = FALSE => i.ts < n)
    BY <1>3, <1>7, <2>1, <2>2 DEF Reads, Reached
  <2>5. Covered(s)'
    <3>1. ASSUME scan[s].blocked = FALSE, NEW u \in Tasks, NEW i \in scan[s].todo,
                 Grabs(u)', row'[u].ts <= i.ts
          PROVE  Announced(u)' \/ Seen(u)' \in scan[s].todo
      <4>1. CASE u = t /\ x.late = FALSE
        BY <1>1, <1>2, <2>2, <2>4, <3>1, <4>1
      <4>2. CASE Grabs(u) /\ row'[u] = row[u]
        <5>1. Announced(u) \/ Seen(u) \in scan[s].todo
          BY <2>1, <3>1, <4>2 DEF Reads, Covered
        <5>2. Seen(u)' = Seen(u) /\ (Announced(u) => Announced(u)')
          BY <1>3, <4>2 DEF Seen, Announced
        <5> QED
          BY <5>1, <5>2
      <4> QED
        BY <1>8, <3>1, <4>1, <4>2
    <3> QED
      BY <1>3, <3>1 DEF Covered
  <2>6. \A u \in Tasks : (Grabs(u)' /\ row'[u].ts <= scan'[s].value) => Announced(u)'
    <3>1. ASSUME NEW u \in Tasks, Grabs(u)', row'[u].ts <= scan[s].value PROVE Announced(u)'
      <4>1. CASE u = t /\ x.late = FALSE
        BY <1>1, <1>2, <2>2, <2>3, <3>1, <4>1
      <4>2. CASE Grabs(u) /\ row'[u] = row[u]
        BY <1>3, <2>1, <3>1, <4>2 DEF Reads, Announced
      <4> QED
        BY <1>8, <3>1, <4>1, <4>2
    <3> QED
      BY <1>3, <3>1
  <2>7. Reads(s)'
    BY <2>1, <2>3, <2>4, <2>5, <2>6 DEF Reads, Reached
  <2>8. AtWork(s)'
    BY <1>3, <2>1, StillAtWork
  <2> QED
    BY <2>7, <2>8
<1>11. ScansInv'
  BY <1>10 DEF ScansInv
<1>12. FlagsInv' /\ FailedAfterGrabbed'
  BY <1>3 DEF IInv, FlagsInv, FailedAfterGrabbed
<1> QED
  BY <1>5, <1>6, <1>9, <1>11, <1>12 DEF IInv

--------------------------------------------------------------------------------
\* Every step keeps the invariant.
LEMMA StepInv == IInv /\ [Next]_vars => IInv'
<1> SUFFICES ASSUME IInv, [Next]_vars PROVE IInv'
  OBVIOUS
<1>1. ASSUME NEW s \in Scanners, ScanStep(s) PROVE IInv'
  BY <1>1, ReadCursorInv, SelectInv, PassRowInv, FindBusyInv, ClaimFlagInv, NotifySettlesInv,
     NotifyFailsInv, FinishFlagInv, ReleaseFlagInv, WriteCursorInv
     DEF ScanStep
<1>2. CASE UNCHANGED vars
  <2>1. ScansInv' /\ scan' \in [Scanners -> ScanType]
    BY <1>2, RunsKept, Types DEF IInv, vars
  <2> QED
    BY <1>2, <2>1, TablesKept DEF vars, tables
<1> QED
  BY <1>1, <1>2, StampInv, CommitInv, DiesInv, LeaseEndsInv DEF Next

\* What lies before the cursor, or before the value a run will write, is recorded.
LEMMA Invariant == Spec => []IInv
<1>1. Init => IInv
  BY InitInv
<1>2. IInv /\ [Next]_vars => IInv'
  BY StepInv
<1> QED
  BY <1>1, <1>2, PTL DEF Spec

\* The tables and the runs are what they are meant to be.
THEOREM TypeCorrect == Spec => []TypeOK
<1>1. IInv => TypeOK
  BY DEF IInv
<1> QED
  BY <1>1, Invariant, PTL

\* What the scan cursor has passed is recorded, whoever else writes the cursor, for any
\* number of overlapping runs, batches, faults and lost leases; late commits apart.
THEOREM CursorIsSafe == Spec => []PassedIsRecorded
<1>1. IInv => PassedIsRecorded
  BY DEF IInv, CursorInv
<1> QED
  BY <1>1, Invariant, PTL

\* A failure is only recorded after the grab of its task.
THEOREM GrabComesFirst == Spec => []FailedAfterGrabbed
<1>1. IInv => FailedAfterGrabbed
  BY DEF IInv
<1> QED
  BY <1>1, Invariant, PTL
=============================================================================
