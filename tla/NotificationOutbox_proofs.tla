---------------------- MODULE NotificationOutbox_proofs ----------------------
(***************************************************************************)
(* Proofs about NotificationOutbox, for any number of rows, events and     *)
(* senders and any windows: types, one live row per event, the ceiling of  *)
(* the hour and the bound on sends.                                        *)
(***************************************************************************)
EXTENDS NotificationOutbox, FiniteSetTheorems, TLAPS

RowType ==
    [occ : Occs \cup {None}, status : Status, reason : Reason, attempt : 0..MaxAttempts,
     timer : Nat, by : Senders \cup {None}, kept : 0..Window, sends : Nat,
     slip : {"none", "late", "stale"}]
SendType ==
    [pc : Pc, row : Rows \cup {None}, attempt : 0..MaxAttempts, pass : BOOLEAN, on : BOOLEAN]

\* What holds of one row.  A retry has an attempt left; only rows that were sent, or
\* written to without a lease, are kept; and the outcomes recorded of a row are no more
\* than its attempts, which a row that is not a retry has none of before it is sent.
Open(x) == x.status \in {"queued", "sending"}
Sound(x) ==
    /\ x.reason = "retry" => x.attempt < MaxAttempts
    /\ x.kept > 0 => x.status = "sent" \/ x.slip = "stale"
    /\ x.slip # "stale" =>
         /\ x.sends <= MaxAttempts
         /\ (Open(x) /\ x.reason = "retry") => x.sends <= x.attempt
         /\ (Open(x) /\ x.reason # "retry") => x.sends = 0

\* What a sender that still has its lease knows of its row.
Knows(s) ==
    /\ send[s].pc \in {"disable", "requiet", "send"} => send[s].row \in Rows
    /\ (send[s].pc = "send" /\ Holds(s, send[s].row)) =>
         send[s].attempt = NextAttempt(send[s].row)
    /\ (send[s].pc = "requiet" /\ Holds(s, send[s].row)) => del[send[s].row].reason = "quiet"

RowsInv == \A d \in Rows : Sound(del[d])
SendersInv == \A s \in Senders : Knows(s)
IInv == TypeOK /\ RowsInv /\ SendersInv /\ OneRowPerEvent /\ HourlyCeiling

\* What the rate limit counts of one row, without the rows of late senders.
Counts(x) ==
    /\ x.slip = "none"
    /\ \/ x.status = "sent" /\ x.kept > Window - Hour
       \/ x.status = "sending" /\ x.timer > 0
Counted == {d \in Rows : Counts(del[d])}

\* A row may become y without the help of others: it is sound, it is alive only if it
\* was, for the same event, and it takes no send of the hour that it had not.
May(x, y) ==
    /\ y \in RowType /\ Sound(y)
    /\ Live(y) => Live(x) /\ y.occ = x.occ
    /\ Counts(y) => Counts(x)

\* The type invariant, by parts.
LEMMA TypeRows == TypeOK <=> /\ del \in [Rows -> RowType]
                             /\ quiet \in 0..Night /\ on \in BOOLEAN
                             /\ send \in [Senders -> SendType]
                             /\ used \in [nights : Nat, faults : Nat]
  BY DEF TypeOK, RowType, SendType

\* What the rate limit counts is the reserved rows without those of late senders.
LEMMA CountedReserved == {d \in Reserved : del[d].slip = "none"} = Counted
  BY DEF Reserved, SentThisHour, Counted, Counts

\* The rows of either kind are finitely many.
LEMMA CountedFinite == IsFiniteSet(Counted) /\ IsFiniteSet(Reserved)
<1>1. Counted \subseteq Rows /\ Reserved \subseteq Rows
  BY DEF Counted, Reserved, SentThisHour
<1> QED
  BY <1>1, ConstAssumption, FS_Subset

\* A deferral is a time.
LEMMA LaterType == Later \in Nat
<1> DEFINE S == {t \in 1..Hour : \A d \in SentThisHour : del[d].kept >= t + Window - Hour}
<1>1. IsFiniteSet(1..Hour)
  BY FS_Interval, ConstAssumption
<1>2. IsFiniteSet(S)
  BY <1>1, FS_Subset
<1>3. Cardinality(S) \in Nat
  BY <1>2, FS_CardinalityType
<1> QED
  BY <1>3 DEF Later

\* Fewer sends do not pass the ceiling.
LEMMA FewerSends ==
  ASSUME HourlyCeiling, Counted' \subseteq Counted
  PROVE  HourlyCeiling'
<1>1. Cardinality(Counted') <= Cardinality(Counted)
  BY CountedFinite, FS_Subset
<1>2. Cardinality(Counted) <= MaxPerHour
  BY CountedReserved DEF HourlyCeiling
<1>3. Cardinality(Counted) \in Nat /\ Cardinality(Counted') \in Nat
  BY CountedFinite, FS_Subset, FS_CardinalityType
<1>4. Cardinality(Counted') <= MaxPerHour
  BY <1>1, <1>2, <1>3, ConstAssumption
<1>5. Counted' = {d \in Reserved' : del'[d].slip = "none"}
  BY DEF Reserved, SentThisHour, Counted, Counts
<1> QED
  BY <1>4, <1>5 DEF HourlyCeiling

\* If every row does only what it may, nothing is lost of the rows.
LEMMA RowsMove ==
  ASSUME IInv, del' \in [Rows -> RowType], \A d \in Rows : May(del[d], del'[d]),
         TypeOK'
  PROVE  RowsInv' /\ OneRowPerEvent' /\ HourlyCeiling'
<1>1. RowsInv'
  BY DEF RowsInv, May
<1>2. OneRowPerEvent'
  BY DEF IInv, OneRowPerEvent, May
<1>3. Counted' \subseteq Counted
  BY DEF Counted, May
<1>4. HourlyCeiling'
  BY <1>3, FewerSends DEF IInv
<1> QED
  BY <1>1, <1>2, <1>4

\* The same when one row changes.
LEMMA RowMoves ==
  ASSUME IInv, NEW d \in Rows, NEW y, May(del[d], y), del' = [del EXCEPT ![d] = y], TypeOK'
  PROVE  RowsInv' /\ OneRowPerEvent' /\ HourlyCeiling'
<1>1. \A e \in Rows : May(del[e], del[e])
  BY TypeRows DEF IInv, RowsInv, May
<1>2. \A e \in Rows : May(del[e], del'[e])
  BY <1>1, TypeRows DEF IInv
<1>3. del' \in [Rows -> RowType]
  BY TypeRows DEF IInv, May
<1> QED
  BY <1>2, <1>3, RowsMove

\* A new send takes one of the hour, and there was one left.
LEMMA OneMore ==
  ASSUME IInv, ~Full, NEW d \in Rows, Counted' \subseteq Counted \cup {d}
  PROVE  HourlyCeiling'
<1>1. Counted \subseteq Reserved
  BY CountedReserved
<1>2. Cardinality(Counted) <= Cardinality(Reserved) /\ Cardinality(Reserved) < MaxPerHour
  <2>1. Cardinality(Reserved) \in Nat
    BY CountedFinite, FS_CardinalityType
  <2> QED
    BY <1>1, <2>1, CountedFinite, FS_Subset, ConstAssumption DEF Full
<1>3. IsFiniteSet(Counted \cup {d}) /\ Cardinality(Counted \cup {d}) <= Cardinality(Counted) + 1
  BY CountedFinite, FS_AddElement, FS_CardinalityType
<1>4. Cardinality(Counted') <= Cardinality(Counted \cup {d})
  BY <1>3, FS_Subset
<1>5. /\ Cardinality(Counted) \in Nat /\ Cardinality(Counted') \in Nat
      /\ Cardinality(Counted \cup {d}) \in Nat /\ Cardinality(Reserved) \in Nat
  BY <1>3, CountedFinite, FS_Subset, FS_CardinalityType
<1>6. Cardinality(Counted') <= MaxPerHour
  BY <1>2, <1>3, <1>4, <1>5, ConstAssumption
<1>7. Counted' = {e \in Reserved' : del'[e].slip = "none"}
  BY DEF Reserved, SentThisHour, Counted, Counts
<1> QED
  BY <1>6, <1>7 DEF HourlyCeiling

\* A row that r still holds is as r knows it.
Keeps(r, d) ==
    (del'[d].status = "sending" /\ del'[d].by = r) =>
        /\ del[d].status = "sending" /\ del[d].by = r
        /\ del'[d].reason = del[d].reason /\ del'[d].attempt = del[d].attempt

\* What other senders know is not touched.
LEMMA OthersKnow ==
  ASSUME IInv, NEW r \in Senders, send'[r] = send[r], \A d \in Rows : Keeps(r, d)
  PROVE  Knows(r)'
  BY DEF IInv, SendersInv, Knows, Holds, NextAttempt, Keeps

\* One sender goes on and lets the rows of the others alone.
LEMMA SendersMove ==
  ASSUME IInv, NEW s \in Senders, NEW x, send' = [send EXCEPT ![s] = x],
         \A r \in Senders : r # s => \A d \in Rows : Keeps(r, d),
         Knows(s)'
  PROVE  SendersInv'
<1>1. ASSUME NEW r \in Senders, r # s PROVE Knows(r)'
  <2>1. send'[r] = send[r]
    BY <1>1, TypeRows DEF IInv, SendType
  <2> QED
    BY <1>1, <2>1, OthersKnow
<1> QED
  BY <1>1 DEF SendersInv

\* A sender that goes on to the next row, or back to idle, knows nothing.
LEMMA ContinueMove ==
  ASSUME IInv, NEW s \in Senders, Continue(s),
         \A r \in Senders : r # s => \A d \in Rows : Keeps(r, d)
  PROVE  SendersInv' /\ send' \in [Senders -> SendType]
<1> DEFINE x == IF send[s].pass THEN [Idle EXCEPT !.pc = "claim", !.pass = TRUE, !.on = send[s].on]
                ELSE Idle
<1>1. send' = [send EXCEPT ![s] = x]
  BY DEF Continue
<1>2. x \in SendType /\ x.pc \in {"idle", "claim"}
  <2>1. send[s].on \in BOOLEAN
    BY TypeRows DEF IInv, SendType
  <2>2. Idle \in SendType
    BY ConstAssumption DEF Idle, SendType, Pc
  <2>3. [Idle EXCEPT !.pc = "claim", !.pass = TRUE, !.on = send[s].on] \in SendType
    BY <2>1, <2>2 DEF SendType, Pc
  <2> QED
    BY <2>2, <2>3 DEF Idle
<1>3. send'[s] = x
  BY <1>1, TypeRows DEF IInv
<1>4. Knows(s)'
  BY <1>2, <1>3 DEF Knows
<1> QED
  BY <1>1, <1>2, <1>4, SendersMove, TypeRows DEF IInv

--------------------------------------------------------------------------------
\* The empty outbox satisfies the invariant.
LEMMA InitInv == Init => IInv
<1> SUFFICES ASSUME Init PROVE IInv
  OBVIOUS
<1> USE ConstAssumption
<1>1. TypeOK
  BY DEF Init, TypeOK, NoRow, Row, Idle, Status, Reason, Pc
<1>2. RowsInv /\ OneRowPerEvent
  BY DEF Init, NoRow, Row, RowsInv, Sound, Open, OneRowPerEvent, Live, Alive
<1>3. SendersInv
  BY DEF Init, Idle, SendersInv, Knows
<1>4. Counted = {}
  BY DEF Init, NoRow, Row, Counted, Counts
<1>5. HourlyCeiling
  <2>1. Cardinality(Counted) = 0
    BY <1>4, FS_EmptySet
  <2>2. Cardinality({d \in Reserved : del[d].slip = "none"}) = 0
    BY <2>1, CountedReserved, Zenon
  <2> QED
    BY <2>2 DEF HourlyCeiling
<1> QED
  BY <1>1, <1>2, <1>3, <1>5 DEF IInv

\* A row reserved for later counts as no send.
LEMMA DefersInv ==
  ASSUME IInv, NEW s \in Senders, NEW d \in Rows, NEW o \in Occs, ReserveDefers(s, d, o)
  PROVE  IInv'
<1> USE ConstAssumption
<1>1. PICK x \in RowType :
        /\ del' = [del EXCEPT ![d] = x]
        /\ x.occ = o /\ x.status = "queued" /\ x.reason \in {"quiet", "rate"} /\ x.attempt = 0
        /\ x.kept = 0 /\ x.sends = 0 /\ x.slip = "none"
  <2>1. ASSUME NEW reason \in {"quiet", "rate"}, NEW t \in Nat,
               del' = [del EXCEPT ![d] = Row(o, "queued", reason, 0, t, None)]
        PROVE  \E x \in RowType :
                 /\ del' = [del EXCEPT ![d] = x]
                 /\ x.occ = o /\ x.status = "queued" /\ x.reason \in {"quiet", "rate"}
                 /\ x.attempt = 0 /\ x.kept = 0 /\ x.sends = 0 /\ x.slip = "none"
    <3>1. Row(o, "queued", reason, 0, t, None) \in RowType
      BY DEF Row, RowType, Status, Reason
    <3> QED
      BY <2>1, <3>1 DEF Row
  <2>2. quiet \in Nat
    BY TypeRows DEF IInv
  <2> QED
    BY <2>1, <2>2, LaterType DEF ReserveDefers
<1>2. TypeOK'
  BY <1>1, TypeRows DEF IInv, ReserveDefers, TypeOK, RowType, SendType
<1>3. /\ del'[d] = x /\ \A e \in Rows : e # d => del'[e] = del[e]
  BY <1>1, TypeRows DEF IInv
<1>4. RowsInv'
  BY <1>1, <1>3 DEF IInv, RowsInv, Sound, Open
<1>5. \A e \in Rows : Live(del[e]) => del[e].occ # o
  BY DEF ReserveDefers, Known, IInv, RowsInv, Sound, Live, Alive
<1>6. OneRowPerEvent'
  BY <1>1, <1>3, <1>5 DEF IInv, OneRowPerEvent, Live, Alive
<1>7. HourlyCeiling'
  <2>1. Counted' \subseteq Counted
    BY <1>1, <1>3 DEF Counted, Counts
  <2> QED
    BY <2>1, FewerSends DEF IInv
<1>8. SendersInv'
  <2>1. \A r \in Senders, e \in Rows : Keeps(r, e)
    BY <1>1, <1>3 DEF Keeps
  <2>2. send' = send
    BY DEF ReserveDefers
  <2> QED
    BY <2>1, <2>2, OthersKnow DEF SendersInv
<1> QED
  BY <1>2, <1>4, <1>6, <1>7, <1>8 DEF IInv

\* A row reserved for now takes one of the hour's sends.
LEMMA SendsInv ==
  ASSUME IInv, NEW s \in Senders, NEW d \in Rows, NEW o \in Occs, ReserveSends(s, d, o)
  PROVE  IInv'
<1> USE ConstAssumption
<1> DEFINE x == Row(o, "sending", "none", 1, Lease, s)
           z == [Idle EXCEPT !.pc = "send", !.row = d, !.attempt = 1]
<1>1. del' = [del EXCEPT ![d] = x] /\ send' = [send EXCEPT ![s] = z]
  BY DEF ReserveSends
<1>2. x \in RowType /\ z \in SendType /\ z.pc = "send" /\ z.row = d /\ z.attempt = 1
  <2>1. x \in RowType
    BY DEF Row, RowType, Status, Reason
  <2>2. Idle \in SendType
    BY DEF Idle, SendType, Pc
  <2>3. z.pc = "send" /\ z.row = d /\ z.attempt = 1
    BY <2>2 DEF SendType
  <2>4. "send" \in Pc /\ d \in Rows \cup {None} /\ 1 \in 0..MaxAttempts
    BY DEF Pc
  <2>5. z \in SendType
    BY <2>2, <2>4, Zenon DEF SendType
  <2> QED
    BY <2>1, <2>3, <2>5
<1>3. TypeOK'
  BY <1>1, <1>2, TypeRows DEF IInv, ReserveSends, TypeOK, RowType, SendType
<1>4. /\ del'[d] = x /\ \A e \in Rows : e # d => del'[e] = del[e]
      /\ send'[s] = z
  BY <1>1, TypeRows DEF IInv
<1>5. RowsInv'
  BY <1>4 DEF IInv, RowsInv, Sound, Open, Row
<1>6. \A e \in Rows : Live(del[e]) => del[e].occ # o
  BY DEF ReserveSends, Known, IInv, RowsInv, Sound, Live, Alive
<1>7. OneRowPerEvent'
  BY <1>4, <1>6 DEF IInv, OneRowPerEvent, Live, Alive, Row
<1>8. HourlyCeiling'
  <2>1. Counted' \subseteq Counted \cup {d}
    BY <1>4 DEF Counted, Counts
  <2> QED
    BY <2>1, OneMore DEF ReserveSends
<1>9. SendersInv'
  <2>1. \A r \in Senders : r # s => \A e \in Rows : Keeps(r, e)
    BY <1>4 DEF Keeps, Row
  <2>2. Knows(s)'
    BY <1>2, <1>4 DEF Knows, Holds, NextAttempt, Row
  <2> QED
    BY <1>1, <2>1, <2>2, SendersMove
<1> QED
  BY <1>3, <1>5, <1>7, <1>8, <1>9 DEF IInv

\* Claiming a due row keeps the invariant,
LEMMA ClaimInv ==
  ASSUME IInv, NEW s \in Senders, NEW d \in Rows, Claim(s, d)
  PROVE  IInv'
<1> USE ConstAssumption
<1> DEFINE x == Sending(s, del[d])
           z == [send[s] EXCEPT !.pc = Verdict(s, d), !.row = d, !.attempt = NextAttempt(d)]
<1>1. del' = [del EXCEPT ![d] = x] /\ send' = [send EXCEPT ![s] = z]
  BY DEF Claim
<1>2. del[d] \in RowType /\ send[s] \in SendType /\ Sound(del[d]) /\ Open(del[d])
  BY TypeRows DEF IInv, RowsInv, Claim, Due, Open
<1>3. /\ x \in RowType /\ x.occ = del[d].occ /\ x.status = "sending" /\ x.reason = del[d].reason
      /\ x.attempt = del[d].attempt /\ x.kept = del[d].kept /\ x.sends = del[d].sends
      /\ x.slip = del[d].slip /\ x.by = s
  BY <1>2 DEF RowType, Sending, Status
<1>4. NextAttempt(d) \in 0..MaxAttempts
  BY <1>2 DEF NextAttempt, RowType, Sound
<1>5. Verdict(s, d) \in {"disable", "requiet", "send"}
  BY DEF Verdict
<1>6. z \in SendType /\ z.pc = Verdict(s, d) /\ z.row = d /\ z.attempt = NextAttempt(d)
  BY <1>2, <1>4, <1>5 DEF SendType, Pc
<1>7. TypeOK'
  BY <1>1, <1>3, <1>6, TypeRows DEF IInv, Claim, TypeOK, RowType, SendType
<1>8. /\ del'[d] = x /\ \A e \in Rows : e # d => del'[e] = del[e]
      /\ send'[s] = z
  BY <1>1, TypeRows DEF IInv
<1>9. RowsInv'
  <2>1. Sound(x)
    BY <1>2, <1>3 DEF Sound, Open
  <2> QED
    BY <1>8, <2>1 DEF IInv, RowsInv
<1>10. OneRowPerEvent'
  <2>1. Live(x) => Live(del[d])
    BY <1>2, <1>3 DEF Live, Alive, Open
  <2> QED
    BY <1>3, <1>8, <2>1 DEF IInv, OneRowPerEvent
<1>11. HourlyCeiling'
  <2>1. Counted' \subseteq Counted \cup {d}
    BY <1>8 DEF Counted
  <2> QED
    BY <2>1, OneMore DEF Claim
<1>12. SendersInv'
  <2>1. \A r \in Senders : r # s => \A e \in Rows : Keeps(r, e)
    BY <1>3, <1>8 DEF Keeps
  <2>2. z.pc = "requiet" => x.reason = "quiet"
    BY <1>3, <1>6 DEF Verdict
  <2>3. NextAttempt(d)' = NextAttempt(d)
    BY <1>3, <1>8 DEF NextAttempt
  <2>4. Knows(s)'
    BY <1>6, <1>8, <2>2, <2>3 DEF Knows
  <2> QED
    BY <1>1, <2>1, <2>4, SendersMove
<1> QED
  BY <1>7, <1>9, <1>10, <1>11, <1>12 DEF IInv

\* What all steps share that change the row of one sender, which then lets go of it.
LEMMA LetsGo ==
  ASSUME IInv, NEW s \in Senders, NEW d \in Rows, NEW y, May(del[d], y), y.by = None,
         del' = [del EXCEPT ![d] = y], Continue(s), UNCHANGED <<quiet, on, used>>
  PROVE  IInv'
<1> USE ConstAssumption
<1>1. y \in RowType /\ del'[d] = y /\ \A e \in Rows : e # d => del'[e] = del[e]
  BY TypeRows DEF IInv, May
<1>2. \A r \in Senders, e \in Rows : Keeps(r, e)
  BY <1>1 DEF Keeps
<1>3. SendersInv' /\ send' \in [Senders -> SendType]
  BY <1>2, ContinueMove
<1>4. TypeOK'
  BY <1>1, <1>3, TypeRows DEF IInv, TypeOK, RowType, SendType
<1> QED
  BY <1>3, <1>4, RowMoves DEF IInv

\* as do cancelling it because the channel is off,
LEMMA DisableInv ==
  ASSUME IInv, NEW s \in Senders, Disable(s)
  PROVE  IInv'
<1> USE ConstAssumption
<1> DEFINE d == send[s].row
           u == Unsent(del[d], "disabled", "none", 0)
           y == IF Holds(s, d) THEN u ELSE [u EXCEPT !.slip = "stale"]
<1>1. d \in Rows
  BY DEF Disable, IInv, SendersInv, Knows
<1>2. del[d] \in RowType /\ Sound(del[d])
  BY <1>1, TypeRows DEF IInv, RowsInv
<1>3. /\ u \in RowType /\ u.status = "disabled" /\ u.reason = "none" /\ u.by = None
      /\ u.kept = del[d].kept /\ u.sends = del[d].sends /\ u.slip = del[d].slip
      /\ u.occ = del[d].occ
  BY <1>2 DEF Unsent, RowType, Status, Reason
<1>4. CASE Holds(s, d)
  <2>1. Sound(u)
    BY <1>2, <1>3, <1>4 DEF Sound, Open, Holds, RowType
  <2>2. May(del[d], u)
    BY <1>3, <1>4, <2>1 DEF May, Live, Alive, Counts, Holds
  <2>3. del' = [del EXCEPT ![d] = u]
    BY <1>4 DEF Disable, Overwrite
  <2> QED
    BY <1>1, <1>3, <2>2, <2>3, LetsGo DEF Disable
<1>5. CASE ~Holds(s, d)
  <2> DEFINE v == [u EXCEPT !.slip = "stale"]
  <2>1. v \in RowType /\ v.slip = "stale" /\ v.by = None /\ v.reason = "none"
    BY <1>3 DEF RowType
  <2>2. May(del[d], v)
    BY <2>1 DEF May, Sound, Live, Counts
  <2>3. del' = [del EXCEPT ![d] = v]
    BY <1>5 DEF Disable, Overwrite
  <2> QED
    BY <1>1, <2>1, <2>2, <2>3, LetsGo DEF Disable
<1> QED
  BY <1>4, <1>5

\* and deferring it because quiet hours have begun.
LEMMA RequietInv ==
  ASSUME IInv, NEW s \in Senders, Requiet(s)
  PROVE  IInv'
<1> USE ConstAssumption
<1> DEFINE d == send[s].row
           w == Unsent(del[d], "queued", "quiet", quiet)
           u == [w EXCEPT !.attempt = 0]
<1>1. d \in Rows
  BY DEF Requiet, IInv, SendersInv, Knows
<1>2. del[d] \in RowType /\ Sound(del[d]) /\ quiet \in Nat
  BY <1>1, TypeRows DEF IInv, RowsInv
<1>3. /\ u \in RowType /\ u.status = "queued" /\ u.reason = "quiet" /\ u.by = None
      /\ u.kept = del[d].kept /\ u.sends = del[d].sends /\ u.slip = del[d].slip
      /\ u.occ = del[d].occ
  <2>1. /\ w \in RowType /\ w.status = "queued" /\ w.reason = "quiet" /\ w.by = None
        /\ w.kept = del[d].kept /\ w.sends = del[d].sends /\ w.slip = del[d].slip
        /\ w.occ = del[d].occ
    BY <1>2 DEF Unsent, RowType, Status, Reason
  <2> HIDE DEF w
  <2> QED
    BY <2>1 DEF RowType
<1>4. CASE Holds(s, d)
  <2>1. del[d].reason = "quiet"
    BY <1>4 DEF Requiet, IInv, SendersInv, Knows
  <2>2. Sound(u)
    BY <1>2, <1>3, <1>4, <2>1 DEF Sound, Open, Holds, RowType
  <2>3. May(del[d], u)
    BY <1>3, <1>4, <2>2 DEF May, Live, Alive, Counts, Holds
  <2>4. del' = [del EXCEPT ![d] = u]
    BY <1>4 DEF Requiet, Overwrite
  <2> QED
    BY <1>1, <1>3, <2>3, <2>4, LetsGo DEF Requiet
<1>5. CASE ~Holds(s, d)
  <2> DEFINE v == [u EXCEPT !.slip = "stale"]
  <2>1. v \in RowType /\ v.slip = "stale" /\ v.by = None /\ v.reason = "quiet"
    BY <1>3 DEF RowType
  <2>2. May(del[d], v)
    BY <2>1 DEF May, Sound, Live, Counts
  <2>3. del' = [del EXCEPT ![d] = v]
    BY <1>5 DEF Requiet, Overwrite
  <2> QED
    BY <1>1, <2>1, <2>2, <2>3, LetsGo DEF Requiet
<1> QED
  BY <1>4, <1>5

\* An outcome is recorded: one more of them, and the row is sent, given up or retried.
LEMMA SignedRow ==
  ASSUME IInv, NEW s \in Senders, NEW d \in Rows, d = send[s].row, send[s].pc = "send",
         Holds(s, d), NEW y \in Ended(s, Signed(s, del[d]))
  PROVE  May(del[d], y) /\ y.by = None
<1> USE ConstAssumption
<1> DEFINE x == del[d]
           g == Signed(s, x)
<1>1. x \in RowType /\ Sound(x) /\ x.status = "sending" /\ send[s] \in SendType
  BY TypeRows DEF IInv, RowsInv, Holds
<1>2. send[s].attempt = IF x.reason = "retry" THEN x.attempt + 1 ELSE 1
  BY DEF IInv, SendersInv, Knows, NextAttempt
<1>3. x.sends \in Nat /\ x.attempt \in Nat /\ x.timer \in Nat
  BY <1>1 DEF RowType
<1>4. /\ g \in RowType /\ g.occ = x.occ /\ g.kept = x.kept /\ g.attempt = send[s].attempt
      /\ g.sends = x.sends + 1 /\ g.reason = x.reason
      /\ g.slip = IF x.slip = "none" /\ x.timer = 0 THEN "late" ELSE x.slip
  <2> DEFINE slip == IF x.slip = "none" /\ x.timer = 0 THEN "late" ELSE x.slip
  <2>1. g = [x EXCEPT !.attempt = send[s].attempt, !.sends = x.sends + 1, !.slip = slip]
    BY DEF Signed
  <2>2. slip \in {"none", "late", "stale"} /\ x.sends + 1 \in Nat /\ send[s].attempt \in 0..MaxAttempts
    BY <1>1, <1>3 DEF RowType, SendType
  <2> HIDE DEF slip, g
  <2>3. /\ g \in RowType /\ g.occ = x.occ /\ g.kept = x.kept /\ g.attempt = send[s].attempt
        /\ g.sends = x.sends + 1 /\ g.reason = x.reason /\ g.slip = slip
    BY <1>1, <2>1, <2>2 DEF RowType
  <2> QED
    BY <2>3 DEF slip
<1>5. x.slip # "stale" => g.sends <= send[s].attempt
  <2> HIDE DEF x, g
  <2> SUFFICES ASSUME x.slip # "stale" PROVE g.sends <= send[s].attempt
    OBVIOUS
  <2>1. CASE x.reason = "retry"
    <3>1. x.sends <= x.attempt
      BY <1>1, <2>1 DEF Sound, Open
    <3> QED
      BY <1>2, <1>3, <1>4, <2>1, <3>1
  <2>2. CASE x.reason # "retry"
    <3>1. x.sends = 0
      BY <1>1, <2>2 DEF Sound, Open
    <3> QED
      BY <1>2, <1>4, <2>2, <3>1
  <2> QED
    BY <2>1, <2>2
<1>6. send[s].attempt \in 0..MaxAttempts
  BY <1>1 DEF SendType
<1>7. g.sends \in Nat /\ g.slip \in {"none", "late", "stale"} /\ (g.slip = "stale" <=> x.slip = "stale")
      /\ (g.slip = "none" => x.slip = "none" /\ x.timer > 0)
  <2> HIDE DEF x, g
  <2>1. g.sends \in Nat /\ x.slip \in {"none", "late", "stale"}
    BY <1>1, <1>3, <1>4 DEF RowType
  <2> QED
    BY <1>3, <1>4, <2>1
<1> HIDE DEF g
<1>8. CASE y = Sent(g)
  <2> DEFINE u == Unsent(g, "sent", "none", 0)
  <2>1. /\ u \in RowType /\ u.status = "sent" /\ u.reason = "none" /\ u.by = None
        /\ u.sends = g.sends /\ u.slip = g.slip /\ u.occ = g.occ
    BY <1>4 DEF Unsent, RowType, Status, Reason
  <2>2. y = [u EXCEPT !.kept = Window]
    BY <1>8 DEF Sent
  <2> HIDE DEF u
  <2>3. /\ y \in RowType /\ y.status = "sent" /\ y.reason = "none" /\ y.by = None
        /\ y.sends = g.sends /\ y.slip = g.slip /\ y.occ = g.occ
    BY <2>1, <2>2 DEF RowType
  <2>4. Sound(y)
    BY <2>3, <1>5, <1>6, <1>7 DEF Sound, Open
  <2> QED
    BY <1>1, <1>4, <1>7, <2>3, <2>4 DEF May, Live, Alive, Counts
<1>9. CASE y = Failed(g)
  <2>1. /\ y \in RowType /\ y.status = "failed" /\ y.reason = "none" /\ y.by = None
        /\ y.sends = g.sends /\ y.slip = g.slip /\ y.occ = g.occ /\ y.kept = g.kept
    BY <1>4, <1>9 DEF Failed, Unsent, RowType, Status, Reason
  <2>2. Sound(y)
    <3>1. y.slip # "stale" => y.sends <= MaxAttempts
      BY <2>1, <1>5, <1>6, <1>7
    <3>2. y.kept > 0 => y.slip = "stale"
      BY <2>1, <1>1, <1>4, <1>7 DEF Sound
    <3> QED
      BY <2>1, <3>1, <3>2 DEF Sound, Open
  <2> QED
    BY <1>1, <1>4, <1>7, <2>1, <2>2 DEF May, Live, Alive, Counts
<1>10. CASE y = Again(g) /\ send[s].attempt < MaxAttempts
  <2>1. /\ y \in RowType /\ y.status = "queued" /\ y.reason = "retry" /\ y.by = None
        /\ y.sends = g.sends /\ y.slip = g.slip /\ y.occ = g.occ /\ y.kept = g.kept
        /\ y.attempt = g.attempt
    BY <1>4, <1>10 DEF Again, Unsent, RowType, Status, Reason
  <2>2. Sound(y)
    <3>1. y.slip # "stale" => y.sends <= y.attempt /\ y.sends <= MaxAttempts
      BY <2>1, <1>4, <1>5, <1>6, <1>7
    <3>2. y.kept > 0 => y.slip = "stale"
      BY <2>1, <1>1, <1>4, <1>7 DEF Sound
    <3>3. y.attempt < MaxAttempts
      BY <2>1, <1>4, <1>10
    <3> QED
      BY <2>1, <3>1, <3>2, <3>3 DEF Sound, Open
  <2> QED
    BY <1>1, <1>4, <1>7, <2>1, <2>2 DEF May, Live, Alive, Counts
<1> QED
  BY <1>8, <1>9, <1>10 DEF Ended, g

\* Recording an outcome keeps the invariant, whether the sender still has its lease or not.
LEMMA FinishInv ==
  ASSUME IInv, NEW s \in Senders, Finish(s)
  PROVE  IInv'
<1> DEFINE d == send[s].row
<1>1. d \in Rows /\ send[s].pc = "send"
  BY DEF Finish, IInv, SendersInv, Knows
<1>2. CASE Holds(s, d)
  <2>1. PICK y \in Ended(s, Signed(s, del[d])) : del' = [del EXCEPT ![d] = y]
    BY <1>2 DEF Finish
  <2> QED
    BY <1>1, <1>2, <2>1, SignedRow, LetsGo DEF Finish
<1>3. CASE ~Holds(s, d)
  <2>1. UNCHANGED del
    BY <1>3 DEF Finish
  <2>2. \A r \in Senders, e \in Rows : Keeps(r, e)
    BY <2>1 DEF Keeps
  <2>3. SendersInv' /\ send' \in [Senders -> SendType]
    BY <2>2, ContinueMove DEF Finish
  <2>4. TypeOK' /\ RowsInv' /\ OneRowPerEvent'
    BY <2>1, <2>3, TypeRows
       DEF IInv, Finish, TypeOK, RowType, SendType, RowsInv, OneRowPerEvent
  <2>5. HourlyCeiling'
    BY <2>1 DEF IInv, HourlyCeiling, Reserved, SentThisHour
  <2> QED
    BY <2>3, <2>4, <2>5 DEF IInv
<1> QED
  BY <1>2, <1>3

\* A send that was not made gives the row back.
LEMMA UnsentInv ==
  ASSUME IInv, NEW s \in Senders, FinishUnsent(s)
  PROVE  IInv'
<1> DEFINE d == send[s].row
           u == Unsent(del[d], "disabled", "none", 0)
           y == [u EXCEPT !.attempt = send[s].attempt]
<1>1. d \in Rows /\ Holds(s, d) /\ send[s] \in SendType
  BY TypeRows DEF FinishUnsent, IInv, SendersInv, Knows
<1>2. del[d] \in RowType /\ Sound(del[d]) /\ del[d].status = "sending"
  BY <1>1, TypeRows DEF IInv, RowsInv, Holds
<1>3. /\ u \in RowType /\ u.status = "disabled" /\ u.reason = "none" /\ u.by = None
      /\ u.kept = del[d].kept /\ u.sends = del[d].sends /\ u.slip = del[d].slip
      /\ u.occ = del[d].occ
  BY <1>2, ConstAssumption DEF Unsent, RowType, Status, Reason
<1> HIDE DEF u
<1>4. /\ y \in RowType /\ y.status = "disabled" /\ y.reason = "none" /\ y.by = None
      /\ y.kept = del[d].kept /\ y.sends = del[d].sends /\ y.slip = del[d].slip
      /\ y.occ = del[d].occ
  BY <1>1, <1>3 DEF RowType, SendType
<1>5. Sound(y)
  BY <1>2, <1>4, ConstAssumption DEF Sound, Open, RowType
<1>6. May(del[d], y)
  BY <1>2, <1>4, <1>5 DEF May, Live, Alive, Counts
<1>7. del' = [del EXCEPT ![d] = y]
  BY <1>1 DEF FinishUnsent, u
<1> HIDE DEF y
<1> QED
  BY <1>1, <1>4, <1>6, <1>7, LetsGo DEF FinishUnsent

\* A due row may be put off for want of sends.
LEMMA PutOffRow ==
  ASSUME IInv, NEW d \in Rows, Due(d)
  PROVE  LET y == Unsent(del[d], "queued", AfterRetry(del[d]), Later)
         IN  May(del[d], y) /\ y.by = None
<1> DEFINE a == AfterRetry(del[d])
           y == Unsent(del[d], "queued", a, Later)
<1>1. del[d] \in RowType /\ Sound(del[d]) /\ Open(del[d])
  BY TypeRows DEF IInv, RowsInv, Due, Open
<1>2. a \in Reason /\ (a = "retry" <=> del[d].reason = "retry")
  BY DEF AfterRetry, Reason
<1> HIDE DEF a
<1>3. /\ y \in RowType /\ y.status = "queued" /\ y.reason = a /\ y.by = None
      /\ y.kept = del[d].kept /\ y.sends = del[d].sends /\ y.slip = del[d].slip
      /\ y.occ = del[d].occ /\ y.attempt = del[d].attempt
  BY <1>1, <1>2, LaterType DEF Unsent, RowType, Status
<1>4. Sound(y)
  BY <1>1, <1>2, <1>3 DEF Sound, Open
<1>5. May(del[d], y)
  BY <1>1, <1>3, <1>4 DEF May, Live, Alive, Counts, Open
<1> QED
  BY <1>3, <1>5 DEF a

\* A row may stay as it is.
LEMMA MayStay == IInv => \A d \in Rows : May(del[d], del[d])
  BY TypeRows DEF IInv, RowsInv, May

\* A sender with nothing to do is well-formed.
LEMMA IdleType == Idle \in SendType
  BY ConstAssumption DEF Idle, SendType, Pc

\* Putting a due row off keeps the invariant.
LEMMA PutOffInv ==
  ASSUME IInv, NEW s \in Senders, PutOff(s)
  PROVE  IInv'
<1>1. \A d \in Rows : May(del[d], del'[d]) /\ (del'[d] = del[d] \/ del'[d].by = None)
  BY PutOffRow, MayStay DEF PutOff
<1>2. del' \in [Rows -> RowType]
  BY <1>1 DEF PutOff, May
<1>3. \A r \in Senders, e \in Rows : Keeps(r, e)
  BY <1>1, ConstAssumption DEF Keeps
<1>4. send' = [send EXCEPT ![s] = Idle] /\ Idle.pc = "idle"
  BY DEF PutOff, Idle
<1>5. Knows(s)'
  BY <1>4, TypeRows DEF Knows, IInv
<1>6. SendersInv'
  BY <1>3, <1>4, <1>5, SendersMove
<1>7. TypeOK'
  BY <1>2, <1>4, IdleType, TypeRows DEF IInv, PutOff, TypeOK, RowType, SendType
<1> QED
  BY <1>1, <1>2, <1>6, <1>7, RowsMove DEF IInv

\* Steps that change only what a sender is at, and leave it without a row.
LEMMA SenderOnly ==
  ASSUME IInv, NEW s \in Senders, NEW z \in SendType, z.pc \in {"idle", "claim"},
         send' = [send EXCEPT ![s] = z], UNCHANGED <<del, quiet, on>>,
         used' \in [nights : Nat, faults : Nat]
  PROVE  IInv'
<1>1. \A r \in Senders, e \in Rows : Keeps(r, e)
  BY DEF Keeps
<1>2. Knows(s)'
  BY TypeRows DEF Knows, IInv
<1>3. SendersInv'
  BY <1>1, <1>2, SendersMove
<1>4. TypeOK'
  BY TypeRows DEF IInv, TypeOK, RowType, SendType
<1>5. RowsInv' /\ OneRowPerEvent'
  BY DEF IInv, RowsInv, OneRowPerEvent
<1>6. HourlyCeiling'
  BY DEF IInv, HourlyCeiling, Reserved, SentThisHour
<1> QED
  BY <1>3, <1>4, <1>5, <1>6 DEF IInv

\* A sender that starts a pass knows nothing.
LEMMA StartPassInv ==
  ASSUME IInv, NEW s \in Senders, StartPass(s)
  PROVE  IInv'
<1> DEFINE z == [Idle EXCEPT !.pc = "claim", !.pass = TRUE, !.on = on]
<1>1. on \in BOOLEAN /\ used \in [nights : Nat, faults : Nat]
  BY TypeRows DEF IInv
<1>2. z \in SendType
  BY <1>1, IdleType DEF SendType, Pc
<1>3. z.pc = "claim"
  BY DEF Idle
<1> QED
  BY <1>1, <1>2, <1>3, SenderOnly DEF StartPass

\* A row may lose time, and then loses nothing else.
LEMMA TickRow ==
  ASSUME NEW x \in RowType, Sound(x)
  PROVE  LET y == [x EXCEPT !.timer = Less(@), !.kept = Less(@)]
         IN  May(x, y) /\ y.status = x.status /\ y.by = x.by /\ y.reason = x.reason
             /\ y.attempt = x.attempt
<1> DEFINE t == Less(x.timer)
           k == Less(x.kept)
           y == [x EXCEPT !.timer = t, !.kept = k]
<1>1. x.timer \in Nat /\ x.kept \in 0..Window /\ Window \in Nat /\ Hour \in Nat /\ Window >= Hour
  BY ConstAssumption DEF RowType
<1>2. t \in Nat /\ k \in 0..Window /\ (t > 0 => x.timer > 0) /\ k <= x.kept /\ (k > 0 => x.kept > 0)
  BY <1>1 DEF Less
<1> HIDE DEF t, k
<1>3. /\ y \in RowType /\ y.status = x.status /\ y.by = x.by /\ y.reason = x.reason
      /\ y.attempt = x.attempt /\ y.occ = x.occ /\ y.sends = x.sends /\ y.slip = x.slip
      /\ y.timer = t /\ y.kept = k
  BY <1>2 DEF RowType
<1>4. Sound(y)
  BY <1>2, <1>3 DEF Sound, Open
<1>5. May(x, y)
  BY <1>1, <1>2, <1>3, <1>4 DEF May, Live, Alive, Counts
<1> QED
  BY <1>3, <1>5 DEF t, k

\* Time only frees sends of the hour.
LEMMA TickInv == IInv /\ Tick => IInv'
<1> SUFFICES ASSUME IInv, Tick PROVE IInv'
  OBVIOUS
<1>1. \A d \in Rows : /\ May(del[d], del'[d])
                      /\ del'[d].status = del[d].status /\ del'[d].by = del[d].by
                      /\ del'[d].reason = del[d].reason /\ del'[d].attempt = del[d].attempt
  BY TickRow, TypeRows DEF IInv, RowsInv, Tick
<1>2. del' \in [Rows -> RowType]
  BY <1>1 DEF Tick, May
<1>3. \A r \in Senders, e \in Rows : Keeps(r, e)
  BY <1>1 DEF Keeps
<1>4. SendersInv'
  BY <1>3, OthersKnow DEF SendersInv, Tick
<1>5. quiet' \in 0..Night
  <2>1. quiet \in 0..Night /\ Night \in Nat
    BY TypeRows, ConstAssumption DEF IInv
  <2>2. quiet' = Less(quiet)
    BY DEF Tick
  <2> QED
    BY <2>1, <2>2 DEF Less
<1>6. used' \in [nights : Nat, faults : Nat]
  <2> DEFINE n == Cardinality({s \in Senders : Outlasts(s)})
  <2>1. n \in Nat
    BY ConstAssumption, FS_Subset, FS_CardinalityType
  <2>2. used' = [used EXCEPT !.faults = @ + n]
    BY DEF Tick, Fault
  <2> HIDE DEF n
  <2> QED
    BY <2>1, <2>2, TypeRows DEF IInv
<1>7. TypeOK'
  BY <1>2, <1>5, <1>6, TypeRows DEF IInv, Tick, TypeOK, RowType, SendType
<1> QED
  BY <1>1, <1>2, <1>4, <1>7, RowsMove DEF IInv

--------------------------------------------------------------------------------
\* Every step keeps the invariant.
LEMMA StepInv == IInv /\ [Next]_vars => IInv'
<1> SUFFICES ASSUME IInv, [Next]_vars PROVE IInv'
  OBVIOUS
<1>1. ASSUME NEW s \in Senders, EndPass(s) PROVE IInv'
  <2>1. Idle.pc = "idle" /\ used \in [nights : Nat, faults : Nat]
    BY TypeRows DEF Idle, IInv
  <2> QED
    BY <1>1, <2>1, IdleType, SenderOnly DEF EndPass
<1>2. ASSUME NEW s \in Senders, Dies(s) PROVE IInv'
  <2>1. Idle.pc = "idle" /\ used' \in [nights : Nat, faults : Nat]
    BY <1>2, TypeRows DEF Idle, IInv, Dies, Fault
  <2> QED
    BY <1>2, <2>1, IdleType, SenderOnly DEF Dies
<1>3. ASSUME NEW s \in Senders, PassStep(s) PROVE IInv'
  BY <1>1, <1>3, StartPassInv, PutOffInv, DisableInv, RequietInv, FinishInv, UnsentInv, ClaimInv
     DEF PassStep
<1>4. ASSUME NEW d \in Rows, Prune(d) PROVE IInv'
  <2> DEFINE y == Row(None, "gone", "none", 0, 0, None)
  <2>1. May(del[d], y) /\ y.by = None /\ y.status = "gone" /\ y \in RowType
    BY ConstAssumption
       DEF Row, RowType, May, Sound, Open, Live, Alive, Counts, Status, Reason
  <2>2. del' = [del EXCEPT ![d] = y] /\ UNCHANGED <<quiet, on, send, used>>
    BY <1>4 DEF Prune
  <2> HIDE DEF y
  <2>3. del'[d] = y /\ \A e \in Rows : e # d => del'[e] = del[e]
    BY <2>2, TypeRows DEF IInv
  <2>4. \A r \in Senders, e \in Rows : Keeps(r, e)
    BY <2>1, <2>3 DEF Keeps
  <2>5. SendersInv'
    BY <2>2, <2>4, OthersKnow DEF SendersInv
  <2>6. TypeOK'
    BY <2>1, <2>2, TypeRows DEF IInv, TypeOK, RowType, SendType
  <2> QED
    BY <2>1, <2>2, <2>5, <2>6, RowMoves DEF IInv
<1>5. ASSUME UNCHANGED <<del, send>>, quiet' \in 0..Night, on' \in BOOLEAN,
             used' \in [nights : Nat, faults : Nat]
      PROVE  IInv'
  <2>1. TypeOK'
    BY <1>5, TypeRows DEF IInv, TypeOK, RowType, SendType
  <2>2. SendersInv'
    BY <1>5 DEF IInv, SendersInv, Knows, Holds, NextAttempt
  <2>3. RowsInv' /\ OneRowPerEvent'
    BY <1>5 DEF IInv, RowsInv, OneRowPerEvent
  <2>4. HourlyCeiling'
    BY <1>5 DEF IInv, HourlyCeiling, Reserved, SentThisHour
  <2> QED
    BY <2>1, <2>2, <2>3, <2>4 DEF IInv
<1>6. quiet \in 0..Night /\ on \in BOOLEAN /\ used \in [nights : Nat, faults : Nat]
  BY TypeRows DEF IInv
<1>7. CASE Toggle
  BY <1>5, <1>6, <1>7 DEF Toggle
<1>8. CASE NightFalls
  <2>1. quiet' \in 0..Night /\ used' \in [nights : Nat, faults : Nat]
    BY <1>6, <1>8, ConstAssumption DEF NightFalls
  <2> QED
    BY <1>5, <1>6, <1>8, <2>1 DEF NightFalls
<1>9. CASE UNCHANGED vars
  BY <1>5, <1>6, <1>9 DEF vars
<1> QED
  BY <1>2, <1>3, <1>4, <1>7, <1>8, <1>9, DefersInv, SendsInv, TickInv DEF Next

\* The rows do only what they may, and a sender that holds one knows its attempt.
LEMMA Invariant == Spec => []IInv
<1>1. Init => IInv
  BY InitInv
<1>2. IInv /\ [Next]_vars => IInv'
  BY StepInv
<1> QED
  BY <1>1, <1>2, PTL DEF Spec

\* The rows and the senders are what they are meant to be, and no counter runs off.
THEOREM TypeCorrect == Spec => []TypeOK
<1>1. IInv => TypeOK
  BY DEF IInv
<1> QED
  BY <1>1, Invariant, PTL

\* One live row per event and channel: the transaction of reserve_new_delivery is enough,
\* whatever retries, takes over, prunes or comes late.
THEOREM OneRow == Spec => []OneRowPerEvent
<1>1. IInv => OneRowPerEvent
  BY DEF IInv
<1> QED
  BY <1>1, Invariant, PTL

\* The channel never sends more in an hour than rate_limit_max_per_hour, late senders apart.
THEOREM Ceiling == Spec => []HourlyCeiling
<1>1. IInv => HourlyCeiling
  BY DEF IInv
<1> QED
  BY <1>1, Invariant, PTL

\* No row gets more outcomes than retry_max_attempts.
THEOREM BoundedSends == Spec => []SendsCounted
<1>1. IInv => SendsCounted
  BY DEF IInv, RowsInv, Sound, SendsCounted
<1> QED
  BY <1>1, Invariant, PTL
=============================================================================
