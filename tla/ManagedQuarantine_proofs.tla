----------------------- MODULE ManagedQuarantine_proofs -----------------------
(***************************************************************************)
(* Proofs about ManagedQuarantine, for any files, requests and bounds.     *)
(* Types, and what the journals say of the files, hold always.  The rest   *)
(* holds until two requests overlap: no file is lost, a settled operation  *)
(* stays away, old work is finished first and what is reported as rolled   *)
(* back is home, with the exceptions that the history variables name.      *)
(***************************************************************************)
EXTENDS ManagedQuarantine, TLAPS

\* An operation with a journal that is not finished, and one that nothing has
\* been misread about.
Pending(o) == journal[o].status # "none" /\ ~Finished(o)
Firm(o) == Pending(o) /\ Sound(o)

Whole(p, f) == disk[p][f] = "whole"
AllWhole(p, S) == \A f \in S : Whole(p, f)

\* The states of a request before it has an operation, those in which it has
\* judged another one, and those in which its own one is written.
Judged == {"giveback", "void", "block", "resettle", "reseal"}
Before == {"new", "recover", "audit", "plan"} \cup Judged
Applied == {"move", "record", "undo", "settle", "seal"}
There == {o \in Requests : journal[o].status # "none"}

-----------------------------------------------------------------------------
(* Types, and the record of a request after each of its steps. *)

ReqType ==
    [pc : Steps, at : Requests \cup {None}, listed : SUBSET Requests,
     left : SUBSET Requests, found : SUBSET {"blocked", "rolled_back", "finalized"},
     todo : SUBSET Files, file : Files \cup {None}, step : {"idle", "open", "full"},
     reads : {"none", "part", "whole"}, moved : SUBSET Files, undone : SUBSET Files]

ReqOK == req \in [Requests -> ReqType]
JournalOK == journal \in [Requests -> [status : Status, moves : SUBSET Files]]
DiskOK == disk \in [Places -> [Files -> {"none", "part", "whole"}]]

\* One request changes, to x.
Turns(r, x) == x \in ReqType /\ req' = [req EXCEPT ![r] = x]

\* A request that changes to a well-formed record leaves the others alone.
LEMMA TurnsTyped ==
  ASSUME ReqOK, NEW r \in Requests, NEW x, Turns(r, x)
  PROVE  ReqOK' /\ req'[r] = x /\ \A s \in Requests \ {r} : req'[s] = req[s]
  BY DEF ReqOK, Turns

Gone == [Fresh EXCEPT !.pc = "done"]
Undoing(x) == [x EXCEPT !.pc = "undo", !.todo = x.moved, !.file = None, !.step = "idle"]
Passed(x) == [x EXCEPT !.todo = @ \ {x.file}, !.file = None, !.step = "idle"]
Raised(x) == CASE x.pc \in {"move", "record"} -> Undoing(x)
               [] x.pc = "undo" -> Passed(x)
               [] OTHER -> Gone
Onward(x, outcome) == [x EXCEPT !.pc = "recover", !.at = None, !.todo = {},
                               !.found = @ \cup {outcome}]

\* A request that has ended is blank.
LEMMA GoneTyped ==
  /\ Gone \in ReqType /\ Gone.pc = "done" /\ Gone.step = "idle" /\ Gone.at = None
  /\ Gone.listed = {} /\ Gone.left = {} /\ Gone.moved = {} /\ Gone.undone = {}
  BY DEF Gone, Fresh, ReqType, Steps

\* Ending a request is one change of its record.
LEMMA FinishTurns ==
  ASSUME ReqOK, NEW r \in Requests
  PROVE  Gone \in ReqType /\ Finish(r) = [req EXCEPT ![r] = Gone]
  BY GoneTyped DEF Finish, Gone

\* So is the way an exception takes it.
LEMMA RaiseTurns ==
  ASSUME ReqOK, NEW r \in Requests
  PROVE  Raised(req[r]) \in ReqType /\ Raise(r) = [req EXCEPT ![r] = Raised(req[r])]
<1> DEFINE x == req[r]
<1>0. x \in ReqType
  BY DEF ReqOK
<1>1. CASE x.pc \in {"move", "record"}
  <2>1. Undoing(x) \in ReqType
    <3> HIDE DEF x
    <3> QED BY <1>0 DEF Undoing, ReqType, Steps, OwnWork
  <2>2. Raise(r) = [req EXCEPT ![r] = Undoing(req[r])]
    BY <1>1 DEF Raise, Undoing, ReqOK
  <2> QED BY <1>1, <2>1, <2>2 DEF Raised
<1>2. CASE x.pc = "undo"
  <2>1. Passed(x) \in ReqType
    <3> HIDE DEF x
    <3> QED BY <1>0 DEF Passed, ReqType
  <2>2. Raise(r) = [req EXCEPT ![r] = Passed(req[r])]
    BY <1>2 DEF Raise, Passed, ReqOK
  <2> QED BY <1>2, <2>1, <2>2 DEF Raised
<1>3. CASE x.pc \notin {"move", "record", "undo"}
  BY <1>3, FinishTurns DEF Raise, Raised
<1> QED BY <1>1, <1>2, <1>3

(* The steps of a request that do not end or raise, as an update of its record. *)

\* What a request becomes when it lists the journals,
LEMMA BeginTurns ==
  ASSUME ReqOK, NEW r \in Requests, Begin(r)
  PROVE  Turns(r, [req[r] EXCEPT !.pc = "recover", !.listed = There, !.left = There])
<1> DEFINE x == req[r]
<1>1. x \in ReqType
  BY DEF ReqOK
<1>2. [x EXCEPT !.pc = "recover", !.listed = There, !.left = There] \in ReqType
  <2> HIDE DEF x
  <2> QED BY <1>1 DEF ReqType, Steps, There
<1>3. req' = [req EXCEPT ![r] = [req[r] EXCEPT !.pc = "recover", !.listed = There, !.left = There]]
  BY DEF Begin, There, ReqOK
<1> QED BY <1>2, <1>3 DEF Turns

\* skips a finished one,
LEMMA SkipTurns ==
  ASSUME ReqOK, NEW r \in Requests, Skip(r)
  PROVE  \E o \in req[r].left : Finished(o) /\ Turns(r, [req[r] EXCEPT !.left = @ \ {o}])
<1> DEFINE x == req[r]
<1>1. x \in ReqType
  BY DEF ReqOK
<1>2. PICK o \in x.left : Finished(o) /\ req' = [req EXCEPT ![r].left = @ \ {o}]
  BY DEF Skip
<1>3. [x EXCEPT !.left = @ \ {o}] \in ReqType
  <2> HIDE DEF x
  <2> QED BY <1>1 DEF ReqType
<1>4. req' = [req EXCEPT ![r] = [req[r] EXCEPT !.left = @ \ {o}]]
  BY <1>2 DEF ReqOK
<1> QED BY <1>2, <1>3, <1>4 DEF Turns

\* passes over unreadable ones,
LEMMA PassOverTurns ==
  ASSUME ReqOK, NEW r \in Requests, PassOver(r)
  PROVE  \E lost \in SUBSET req[r].left :
            /\ Turns(r, [req[r] EXCEPT !.left = @ \ lost, !.listed = @ \ lost])
            /\ unread' = unread \cup {o \in lost : ~Finished(o)}
<1> DEFINE x == req[r]
<1>1. x \in ReqType
  BY DEF ReqOK
<1>2. PICK lost \in SUBSET x.left :
         /\ req' = [req EXCEPT ![r].left = @ \ lost, ![r].listed = @ \ lost]
         /\ unread' = unread \cup {o \in lost : ~Finished(o)}
  BY DEF PassOver
<1>3. [x EXCEPT !.left = @ \ lost, !.listed = @ \ lost] \in ReqType
  <2> HIDE DEF x
  <2> QED BY <1>1 DEF ReqType
<1>4. req' = [req EXCEPT ![r] = [req[r] EXCEPT !.left = @ \ lost, !.listed = @ \ lost]]
  BY <1>2 DEF ReqOK
<1> QED BY <1>2, <1>3, <1>4 DEF Turns

Judging(x, o, dark, verdict) ==
    [x EXCEPT !.left = @ \ {o}, !.at = o, !.pc = verdict, !.todo = Moved(o, dark)]

\* judges an unfinished one,
LEMMA InspectTurns ==
  ASSUME ReqOK, JournalOK, NEW r \in Requests, Inspect(r)
  PROVE  \E o \in req[r].left : \E dark \in Dark({Library, o}, journal[o].moves) :
            \E verdict \in Verdicts(o, dark) :
               /\ ~Finished(o) /\ Misses(dark)
               /\ Turns(r, Judging(req[r], o, dark, verdict))
<1> DEFINE x == req[r]
<1>1. x \in ReqType
  BY DEF ReqOK
<1>0. PICK o \in x.left : \E dark \in Dark({Library, o}, journal[o].moves) :
         \E verdict \in Verdicts(o, dark) :
            /\ ~Finished(o) /\ Misses(dark)
            /\ req' = [req EXCEPT ![r].left = @ \ {o}, ![r].at = o,
                                  ![r].pc = verdict, ![r].todo = Moved(o, dark)]
  BY DEF Inspect
<1>2. PICK dark \in Dark({Library, o}, journal[o].moves) :
         \E verdict \in Verdicts(o, dark) :
            /\ ~Finished(o) /\ Misses(dark)
            /\ req' = [req EXCEPT ![r].left = @ \ {o}, ![r].at = o,
                                  ![r].pc = verdict, ![r].todo = Moved(o, dark)]
  BY <1>0
<1>3. PICK verdict \in Verdicts(o, dark) :
         /\ ~Finished(o) /\ Misses(dark)
         /\ req' = [req EXCEPT ![r].left = @ \ {o}, ![r].at = o,
                               ![r].pc = verdict, ![r].todo = Moved(o, dark)]
  BY <1>2
<1>4. Judging(x, o, dark, verdict) \in ReqType
  <2>1. o \in Requests
    BY <1>1 DEF ReqType
  <2>2. verdict \in Steps
    BY DEF Verdicts, Steps
  <2>3. Moved(o, dark) \subseteq Files
    BY <2>1 DEF Moved, JournalOK
  <2> HIDE DEF x
  <2> QED BY <1>1, <2>1, <2>2, <2>3 DEF Judging, ReqType
<1>5. req' = [req EXCEPT ![r] = Judging(req[r], o, dark, verdict)]
  BY <1>3 DEF Judging, ReqOK
<1> QED BY <1>3, <1>4, <1>5 DEF Turns

\* goes on to the next one,
LEMMA OnwardTurns ==
  ASSUME ReqOK, NEW r \in Requests, NEW c \in {"blocked", "rolled_back", "finalized"},
         NextJournal(r, c)
  PROVE  Turns(r, Onward(req[r], c))
<1> DEFINE x == req[r]
<1>1. x \in ReqType
  BY DEF ReqOK
<1>2. Onward(x, c) \in ReqType
  <2> HIDE DEF x
  <2> QED BY <1>1 DEF Onward, ReqType, Steps
<1>3. req' = [req EXCEPT ![r] = Onward(req[r], c)]
  BY DEF NextJournal, Onward, ReqOK
<1> QED BY <1>2, <1>3 DEF Turns

Opening(x, f, v) == [x EXCEPT !.file = f, !.step = "open", !.reads = v]
Noted(x, f) == [x EXCEPT !.moved = @ \cup {f}, !.todo = @ \ {f}, !.file = None]
Landed(x) == IF x.pc = "move"
             THEN [x EXCEPT !.pc = "record", !.step = "idle"]
             ELSE [x EXCEPT !.todo = @ \ {x.file}, !.file = None, !.step = "idle",
                            !.undone = @ \cup {f \in {x.file} : x.pc = "undo"}]

\* opens a copy,
LEMMA OpeningTurns ==
  ASSUME ReqOK, NEW r \in Requests, NEW f \in Files, NEW v \in {"none", "part", "whole"},
         req' = [req EXCEPT ![r].file = f, ![r].step = "open", ![r].reads = v]
  PROVE  Turns(r, Opening(req[r], f, v))
<1> DEFINE x == req[r]
<1>1. x \in ReqType
  BY DEF ReqOK
<1>2. Opening(x, f, v) \in ReqType
  <2> HIDE DEF x
  <2> QED BY <1>1 DEF Opening, ReqType
<1>3. req' = [req EXCEPT ![r] = Opening(req[r], f, v)]
  BY DEF Opening, ReqOK
<1> QED BY <1>2, <1>3 DEF Turns

\* has moved a file,
LEMMA LandedTurns ==
  ASSUME ReqOK, NEW r \in Requests, req[r].file \in Files, req' = Arrived(r)
  PROVE  Turns(r, Landed(req[r]))
<1> DEFINE x == req[r]
<1>1. x \in ReqType /\ x.file \in Files
  BY DEF ReqOK
<1>2. Landed(x) \in ReqType
  <2> HIDE DEF x
  <2>1. {f \in {x.file} : x.pc = "undo"} \subseteq Files
    BY <1>1
  <2>2. CASE x.pc = "move"
    BY <1>1, <2>2 DEF Landed, ReqType, Steps, OwnWork
  <2>3. CASE x.pc # "move"
    BY <1>1, <2>1, <2>3 DEF Landed, ReqType
  <2> QED BY <2>2, <2>3
<1>3. req' = [req EXCEPT ![r] = Landed(req[r])]
  <2>1. CASE x.pc = "move"
    BY <2>1 DEF Arrived, Landed, ReqOK
  <2>2. CASE x.pc # "move"
    BY <2>2 DEF Arrived, Landed, ReqOK
  <2> QED BY <2>1, <2>2
<1> QED BY <1>2, <1>3 DEF Turns

\* notes it,
LEMMA NotedTurns ==
  ASSUME ReqOK, NEW r \in Requests, NEW f \in Files
  PROVE  /\ [req EXCEPT ![r].moved = @ \cup {f}, ![r].todo = @ \ {f}, ![r].file = None]
              = [req EXCEPT ![r] = Noted(req[r], f)]
         /\ Noted(req[r], f) \in ReqType
<1> DEFINE x == req[r]
<1>1. x \in ReqType
  BY DEF ReqOK
<1>2. Noted(x, f) \in ReqType
  <2> HIDE DEF x
  <2> QED BY <1>1 DEF Noted, ReqType
<1> QED BY <1>2 DEF Noted, ReqOK

\* plans its files,
LEMMA PlanningTurns ==
  ASSUME ReqOK, NEW r \in Requests, NEW S \in SUBSET Files,
         req' = [req EXCEPT ![r].pc = "plan", ![r].todo = S]
  PROVE  Turns(r, [req[r] EXCEPT !.pc = "plan", !.todo = S])
<1> DEFINE x == req[r]
<1>1. x \in ReqType
  BY DEF ReqOK
<1>2. [x EXCEPT !.pc = "plan", !.todo = S] \in ReqType
  <2> HIDE DEF x
  <2> QED BY <1>1 DEF ReqType, Steps, OwnWork
<1>3. req' = [req EXCEPT ![r] = [req[r] EXCEPT !.pc = "plan", !.todo = S]]
  BY DEF ReqOK
<1> QED BY <1>2, <1>3 DEF Turns

\* starts to move them,
LEMMA AppliesTurns ==
  ASSUME ReqOK, NEW r \in Requests,
         req' = [req EXCEPT ![r].pc = "move", ![r].at = r]
  PROVE  Turns(r, [req[r] EXCEPT !.pc = "move", !.at = r])
<1> DEFINE x == req[r]
<1>1. x \in ReqType
  BY DEF ReqOK
<1>2. [x EXCEPT !.pc = "move", !.at = r] \in ReqType
  <2> HIDE DEF x
  <2> QED BY <1>1 DEF ReqType, Steps, OwnWork
<1>3. req' = [req EXCEPT ![r] = [req[r] EXCEPT !.pc = "move", !.at = r]]
  BY DEF ReqOK
<1> QED BY <1>2, <1>3 DEF Turns

\* or leaves out a file.
LEMMA LeavesOutTurns ==
  ASSUME ReqOK, NEW r \in Requests, NEW f,
         req' = [req EXCEPT ![r].todo = @ \ {f}]
  PROVE  Turns(r, [req[r] EXCEPT !.todo = @ \ {f}])
<1> DEFINE x == req[r]
<1>1. x \in ReqType
  BY DEF ReqOK
<1>2. [x EXCEPT !.todo = @ \ {f}] \in ReqType
  <2> HIDE DEF x
  <2> QED BY <1>1 DEF ReqType, Steps, OwnWork
<1>3. req' = [req EXCEPT ![r] = [req[r] EXCEPT !.todo = @ \ {f}]]
  BY DEF ReqOK
<1> QED BY <1>2, <1>3 DEF Turns

\* A crash ends the live requests and no other.
LEMMA CrashRow ==
  ASSUME ReqOK, Crash
  PROVE  \A r \in Requests : req'[r] = IF Live(r) THEN Gone ELSE req[r]
<1>1. \A r \in Requests : Finish(r)[r] = Gone
  BY FinishTurns DEF ReqOK
<1> QED BY <1>1 DEF Crash

\* A request only goes on to another state.
LEMMA PcTurns ==
  ASSUME ReqOK, NEW r \in Requests, NEW pc \in Steps,
         req' = [req EXCEPT ![r].pc = pc]
  PROVE  Turns(r, [req[r] EXCEPT !.pc = pc])
<1> DEFINE x == req[r]
<1>1. x \in ReqType
  BY DEF ReqOK
<1>2. [x EXCEPT !.pc = pc] \in ReqType
  <2> HIDE DEF x
  <2> QED BY <1>1 DEF ReqType
<1>3. req' = [req EXCEPT ![r] = [req[r] EXCEPT !.pc = pc]]
  BY DEF ReqOK
<1> QED BY <1>2, <1>3 DEF Turns

\* What a request becomes when its copy is filled.
LEMMA FillTurns ==
  ASSUME ReqOK, NEW r \in Requests, Fill(r)
  PROVE  Turns(r, [req[r] EXCEPT !.step = "full"])
<1> DEFINE x == req[r]
<1>1. x \in ReqType
  BY DEF ReqOK
<1>2. [x EXCEPT !.step = "full"] \in ReqType
  <2> HIDE DEF x
  <2> QED BY <1>1 DEF ReqType, Steps, OwnWork
<1>3. req' = [req EXCEPT ![r] = [req[r] EXCEPT !.step = "full"]]
  BY DEF ReqOK, Fill
<1> QED BY <1>2, <1>3 DEF Turns

-----------------------------------------------------------------------------
(* The type invariant.  A request that judges or applies has an operation, *)
(* one that copies or records has a file.                                  *)

Placed(x) ==
    /\ x.pc \in Judged \cup Applied => x.at \in Requests
    /\ x.step # "idle" => x.pc \in Moving /\ x.file \in x.todo
    /\ x.pc = "record" => x.file \in x.todo

PlacedOK == \A r \in Requests : Placed(req[r])
CountsOK == faults \in 0 .. MaxFaults /\ outside \in 0 .. MaxOutside
HistoryOK == overlapped \in BOOLEAN /\ unread \subseteq Requests /\ misseen \subseteq Files

\* The type invariant, by parts.
LEMMA TypeParts == TypeOK <=> /\ DiskOK /\ keep \in BOOLEAN /\ JournalOK
                              /\ settled \subseteq Requests /\ ReqOK
                              /\ CountsOK /\ HistoryOK
  BY DEF TypeOK, DiskOK, JournalOK, ReqOK, ReqType, CountsOK, HistoryOK

TInv == TypeOK /\ PlacedOK

\* What is missed is among the files that are looked at,
LEMMA DarkFiles ==
  ASSUME NEW places, NEW files, NEW dark \in Dark(places, files), Misses(dark)
  PROVE  misseen \subseteq misseen' /\ misseen' \subseteq misseen \cup files
<1>1. \A c \in dark : c[2] \in files
  BY DEF Dark
<1> QED BY <1>1 DEF Misses

\* and it is noted.
LEMMA Noticed ==
  ASSUME NEW dark, Misses(dark), NEW p, NEW f, Exists(p, f), ~Shows(p, f, dark)
  PROVE  f \in misseen'
<1>1. <<p, f>> \in dark /\ <<p, f>>[2] = f
  BY DEF Shows
<1> QED BY <1>1 DEF Misses

\* Every step keeps the counts within their bounds, and what is noted of the past
\* only grows.
LEMMA CountsStep ==
  ASSUME TInv, Next
  PROVE  CountsOK' /\ HistoryOK' /\ keep' \in BOOLEAN
         /\ unread \subseteq unread' /\ misseen \subseteq misseen'
         /\ (overlapped => overlapped')
<1>a. CountsOK /\ HistoryOK /\ keep \in BOOLEAN /\ JournalOK
      /\ \A r \in Requests : req[r] \in ReqType /\ Placed(req[r])
  BY TypeParts DEF TInv, ReqOK, PlacedOK
<1>b. Fault => faults' \in 0 .. MaxFaults
  BY <1>a, ConstAssumption DEF Fault, CountsOK
<1>c. Meddle => outside' \in 0 .. MaxOutside
  BY <1>a, ConstAssumption DEF Meddle, CountsOK
<1>d. \A b : FaultIf(b) => faults' \in 0 .. MaxFaults
  BY <1>a, <1>b DEF FaultIf, CountsOK
<1>e. UNCHANGED <<faults, outside>> => CountsOK'
  BY <1>a DEF CountsOK
<1>f. UNCHANGED history => HistoryOK' /\ unread \subseteq unread' /\ misseen \subseteq misseen'
                           /\ (overlapped => overlapped')
  BY <1>a DEF history, HistoryOK
<1>g. ASSUME NEW files \in SUBSET Files, NEW places, NEW dark \in Dark(places, files), Misses(dark),
             UNCHANGED <<overlapped, unread>>
      PROVE  HistoryOK' /\ unread \subseteq unread' /\ misseen \subseteq misseen'
             /\ (overlapped => overlapped')
  BY <1>a, <1>g, DarkFiles DEF HistoryOK
<1>1. ASSUME NEW r \in Requests, Recovering(r) PROVE CountsOK' /\ HistoryOK' /\ keep' \in BOOLEAN
         /\ unread \subseteq unread' /\ misseen \subseteq misseen' /\ (overlapped => overlapped')
  <2>1. CASE Begin(r)
    BY <1>a, <1>e, <2>1 DEF Begin, HistoryOK
  <2>2. CASE Skip(r) \/ Conclude(r) \/ EndRecovery(r)
    BY <1>a, <1>e, <1>f, <2>2 DEF Skip, Conclude, EndRecovery
  <2>3. CASE PassOver(r)
    <3>1. PICK lost \in SUBSET req[r].left : unread' = unread \cup {o \in lost : ~Finished(o)}
      BY <2>3 DEF PassOver
    <3>2. lost \subseteq Requests
      BY <1>a DEF ReqType
    <3> QED BY <1>a, <1>b, <2>3, <3>1, <3>2 DEF PassOver, HistoryOK, CountsOK
  <2>4. CASE Inspect(r)
    <3>0. PICK o \in req[r].left : \E dark \in Dark({Library, o}, journal[o].moves) :
             FaultIf(dark # {}) /\ Misses(dark)
      BY <2>4 DEF Inspect
    <3>1. PICK dark \in Dark({Library, o}, journal[o].moves) : FaultIf(dark # {}) /\ Misses(dark)
      BY <3>0
    <3>2. journal[o].moves \in SUBSET Files
      BY <1>a DEF ReqType, JournalOK
    <3>3. HistoryOK' /\ unread \subseteq unread' /\ misseen \subseteq misseen'
          /\ (overlapped => overlapped')
      BY <1>g, <2>4, <3>1, <3>2 DEF Inspect
    <3>4. CountsOK' /\ keep' \in BOOLEAN
      BY <1>a, <1>d, <2>4, <3>1 DEF Inspect, CountsOK
    <3> QED BY <3>3, <3>4
  <2> QED BY <1>1, <2>1, <2>2, <2>3, <2>4 DEF Recovering
<1>2. ASSUME NEW r \in Requests, Copying(r) PROVE CountsOK' /\ HistoryOK' /\ keep' \in BOOLEAN
         /\ unread \subseteq unread' /\ misseen \subseteq misseen' /\ (overlapped => overlapped')
  <2>1. CASE Open(r) \/ Absent(r)
    <3>1. PICK f \in req[r].todo : \E dark \in Dark({Library}, {f}) \cup Dark({r}, {f}) :
             FaultIf(dark # {}) /\ Misses(dark)
      BY <2>1 DEF Open, Absent
    <3>0. PICK places : \E dark \in Dark(places, {f}) : FaultIf(dark # {}) /\ Misses(dark)
      BY <3>1
    <3>2. PICK dark \in Dark(places, {f}) : FaultIf(dark # {}) /\ Misses(dark)
      BY <3>0
    <3>3. {f} \in SUBSET Files
      BY <1>a DEF ReqType
    <3>4. UNCHANGED <<keep, outside, overlapped, unread>>
      BY <2>1 DEF Open, Absent
    <3>5. HistoryOK' /\ unread \subseteq unread' /\ misseen \subseteq misseen'
          /\ (overlapped => overlapped')
      BY <1>g, <3>2, <3>3, <3>4
    <3>6. CountsOK' /\ keep' \in BOOLEAN
      BY <1>a, <1>d, <3>2, <3>4 DEF CountsOK
    <3> QED BY <3>5, <3>6
  <2>2. CASE Fill(r) \/ Unlink(r)
    BY <1>a, <1>e, <1>f, <2>2 DEF Fill, Unlink
  <2>3. CASE CopyFails(r)
    BY <1>a, <1>b, <1>f, <2>3 DEF CopyFails, CountsOK
  <2> QED BY <1>2, <2>1, <2>2, <2>3 DEF Copying
<1>3. ASSUME NEW r \in Requests, Applying(r) PROVE CountsOK' /\ HistoryOK' /\ keep' \in BOOLEAN
         /\ unread \subseteq unread' /\ misseen \subseteq misseen' /\ (overlapped => overlapped')
  <2>1. CASE Audit(r) \/ Plan(r) \/ Undone(r) \/ Await(r) \/ Seal(r)
    BY <1>a, <1>e, <1>f, <2>1 DEF Audit, Plan, Undone, Await, Seal
  <2>2. CASE Refuse(r)
    BY <1>a, <1>c, <1>f, <2>2 DEF Refuse, CountsOK
  <2>3. CASE WriteFails(r)
    BY <1>a, <1>b, <1>f, <2>3 DEF WriteFails, CountsOK
  <2>4. CASE Settle(r)
    BY <1>a, <1>b, <1>f, <2>4 DEF Settle, CountsOK
  <2>5. CASE Record(r)
    <3>1. PICK dark \in Dark({Library, r}, {req[r].file}) :
             Misses(dark) /\ (FaultIf(dark # {}) \/ Fault)
      BY <2>5 DEF Record
    <3>2. {req[r].file} \in SUBSET Files
      BY <1>a, <2>5 DEF Record, Placed, ReqType
    <3>3. HistoryOK' /\ unread \subseteq unread' /\ misseen \subseteq misseen'
          /\ (overlapped => overlapped')
      BY <1>g, <2>5, <3>1, <3>2 DEF Record
    <3>4. CountsOK' /\ keep' \in BOOLEAN
      BY <1>a, <1>b, <1>d, <2>5, <3>1 DEF Record, CountsOK
    <3> QED BY <3>3, <3>4
  <2> QED BY <1>3, <2>1, <2>2, <2>3, <2>4, <2>5 DEF Applying
<1>4. CASE Crash
  BY <1>a, <1>b, <1>f, <1>4 DEF Crash, CountsOK
<1>5. CASE Outsider
  BY <1>a, <1>c, <1>f, <1>5 DEF Outsider, CountsOK
<1> QED BY <1>1, <1>2, <1>3, <1>4, <1>5 DEF Next

\* One well-formed and placed record among such records.
LEMMA TurnsPlaced ==
  ASSUME ReqOK, PlacedOK, NEW r \in Requests, NEW x, Turns(r, x), Placed(x)
  PROVE  ReqOK' /\ PlacedOK'
  BY TurnsTyped DEF PlacedOK, Placed

\* Raising leaves the record in order.
LEMMA RaisedPlaced == ASSUME NEW x \in ReqType, Placed(x) PROVE Placed(Raised(x))
<1>1. CASE x.pc \in {"move", "record"}
  BY <1>1 DEF Placed, Raised, Undoing, ReqType, Judged, Applied
<1>2. CASE x.pc = "undo"
  BY <1>2 DEF Placed, Raised, Passed, ReqType, Judged, Applied
<1>3. CASE x.pc \notin {"move", "record", "undo"}
  BY <1>3, GoneTyped DEF Raised, Placed, Judged, Applied
<1> QED BY <1>1, <1>2, <1>3

\* Every file of one place, or one place of one file, changes.
LEMMA CopyTyped ==
  ASSUME DiskOK, NEW p, NEW f, NEW v \in {"none", "part", "whole"},
         disk' = [disk EXCEPT ![p][f] = v]
  PROVE  DiskOK'
  BY DEF DiskOK

\* The file f becomes v at the place p, and nothing else changes on disk.
OnlyThere(p, f, v) ==
    \A q \in Places, g \in Files :
        disk'[q][g] = IF q = p /\ g = f THEN v ELSE disk[q][g]

\* Writing one copy changes one file at one place.
LEMMA CopyChanges ==
  ASSUME DiskOK, NEW p \in Places, NEW f \in Files, NEW v \in {"none", "part", "whole"},
         disk' = [disk EXCEPT ![p][f] = v]
  PROVE  OnlyThere(p, f, v)
  BY DEF DiskOK, OnlyThere

\* One journal is written; its files stay.
LEMMA WriteTyped ==
  ASSUME JournalOK, NEW o \in Requests, NEW status \in Status, Write(o, status)
  PROVE  /\ JournalOK' /\ journal'[o].status = status
         /\ \A p \in Requests : /\ journal'[p].moves = journal[p].moves
                                /\ p # o => journal'[p] = journal[p]
  BY DEF JournalOK, Write

\* The places of a request that moves a file.
LEMMA MovingPlaces ==
  ASSUME NEW r \in Requests, req[r].at \in Requests
  PROVE  Origin(r) \in Places /\ Target(r) \in Places /\ Origin(r) # Target(r)
  BY ConstAssumption DEF Origin, Target, Places

\* The parts make up the invariant of the next state.
LEMMA TypeKept ==
  ASSUME TInv, Next, ReqOK', PlacedOK', DiskOK', JournalOK', settled' \subseteq Requests
  PROVE  TInv'
  BY CountsStep DEF TInv, TypeOK, DiskOK, JournalOK, ReqOK, ReqType, CountsOK, HistoryOK

\* A step of a request which only reads.
LEMMA ReadingTyped ==
  ASSUME TInv, Next, NEW r \in Requests, NEW x, Turns(r, x), Placed(x),
         UNCHANGED <<disk, journal, settled>>
  PROVE  TInv'
<1>1. ReqOK' /\ PlacedOK'
  BY TypeParts, TurnsPlaced DEF TInv
<1>2. DiskOK' /\ JournalOK' /\ settled' \subseteq Requests
  BY TypeParts DEF TInv, DiskOK, JournalOK
<1> QED BY <1>1, <1>2, TypeKept DEF TInv

\* Every step keeps the types.
LEMMA TypeNext == TInv /\ Next => TInv'
<1> SUFFICES ASSUME TInv, Next PROVE TInv'
  OBVIOUS
<1>a. ReqOK /\ PlacedOK /\ DiskOK /\ JournalOK
  BY TypeParts DEF TInv
<1>b. \A r \in Requests : req[r] \in ReqType /\ Placed(req[r])
  BY <1>a DEF ReqOK, PlacedOK
<1>1. ASSUME NEW r \in Requests, Begin(r) PROVE TInv'
  <2> DEFINE y == req[r]
             x == [y EXCEPT !.pc = "recover", !.listed = There, !.left = There]
  <2>1. Turns(r, x)
    BY <1>1, <1>a, BeginTurns
  <2>2. Placed(x)
    <3>1. y \in ReqType /\ Placed(y) /\ y.pc = "new"
      BY <1>1, <1>b DEF Begin
    <3> HIDE DEF y
    <3> QED BY <3>1 DEF Placed, ReqType, Judged, Applied, Moving
  <2> HIDE DEF x
  <2> QED BY <1>1, <2>1, <2>2, ReadingTyped DEF Begin
<1>2. ASSUME NEW r \in Requests, Skip(r) PROVE TInv'
  <2> DEFINE y == req[r]
  <2>1. PICK o \in y.left : Turns(r, [y EXCEPT !.left = @ \ {o}])
    BY <1>2, <1>a, SkipTurns
  <2> DEFINE x == [y EXCEPT !.left = @ \ {o}]
  <2>2. Placed(x)
    <3>1. y \in ReqType /\ Placed(y)
      BY <1>b
    <3> HIDE DEF y
    <3> QED BY <3>1 DEF Placed, ReqType
  <2>3. Turns(r, x)
    BY <2>1
  <2> HIDE DEF x
  <2> QED BY <1>2, <2>2, <2>3, ReadingTyped DEF Skip
<1>0. ASSUME NEW r \in Requests, PassOver(r) PROVE TInv'
  <2> DEFINE y == req[r]
  <2>1. PICK lost \in SUBSET y.left : Turns(r, [y EXCEPT !.left = @ \ lost, !.listed = @ \ lost])
    BY <1>0, <1>a, PassOverTurns
  <2> DEFINE x == [y EXCEPT !.left = @ \ lost, !.listed = @ \ lost]
  <2>2. Placed(x)
    <3>1. y \in ReqType /\ Placed(y)
      BY <1>b
    <3> HIDE DEF y
    <3> QED BY <3>1 DEF Placed, ReqType
  <2>3. Turns(r, x)
    BY <2>1
  <2> HIDE DEF x
  <2> QED BY <1>0, <2>2, <2>3, ReadingTyped DEF PassOver
<1>3. ASSUME NEW r \in Requests, Inspect(r) PROVE TInv'
  <2> DEFINE y == req[r]
  <2>1. PICK o \in y.left : \E dark \in Dark({Library, o}, journal[o].moves) :
           \E verdict \in Verdicts(o, dark) : Turns(r, Judging(y, o, dark, verdict))
    BY <1>3, <1>a, InspectTurns
  <2>2. PICK dark \in Dark({Library, o}, journal[o].moves) :
           \E verdict \in Verdicts(o, dark) : Turns(r, Judging(y, o, dark, verdict))
    BY <2>1
  <2>3. PICK verdict \in Verdicts(o, dark) : Turns(r, Judging(y, o, dark, verdict))
    BY <2>2
  <2>4. Placed(Judging(y, o, dark, verdict))
    <3>1. y \in ReqType /\ Placed(y) /\ y.pc = "recover"
      BY <1>3, <1>b DEF Inspect
    <3> HIDE DEF y
    <3>2. o \in Requests /\ verdict \in Judged
      BY <2>1, <3>1 DEF ReqType, Verdicts, Judged
    <3>3. y.step = "idle"
      BY <3>1 DEF Placed, Moving
    <3> QED BY <3>1, <3>2, <3>3 DEF Judging, Placed, ReqType, Judged, Applied
  <2> QED BY <1>3, <2>3, <2>4, ReadingTyped DEF Inspect
<1>4. ASSUME NEW r \in Requests, Conclude(r) PROVE TInv'
  <2> DEFINE y == req[r]
  <2>1. PICK c \in {"blocked", "rolled_back", "finalized"} : Write(y.at, c) /\ NextJournal(r, c)
    BY <1>4 DEF Conclude
  <2>2. Turns(r, Onward(y, c))
    BY <1>a, <2>1, OnwardTurns
  <2>3. /\ y \in ReqType /\ Placed(y)
        /\ y.pc \in Judged /\ (y.pc = "giveback" => y.todo = {})
    BY <1>4, <1>b DEF Conclude, Judged
  <2>4. y.at \in Requests /\ JournalOK'
    BY <1>a, <2>1, <2>3, WriteTyped DEF Placed, Status
  <2>5. Placed(Onward(y, c))
    <3> HIDE DEF y
    <3> QED BY <2>3 DEF Onward, Placed, ReqType, Judged, Applied, Moving
  <2> QED BY <1>4, <1>a, <2>2, <2>4, <2>5, TurnsPlaced, TypeKept, TypeParts DEF Conclude, TInv, DiskOK
<1>5. ASSUME NEW r \in Requests, EndRecovery(r) PROVE TInv'
  <2> DEFINE y == req[r]
  <2>1. PICK pc \in {"done", "audit"} : req' = [req EXCEPT ![r].pc = pc]
    BY <1>5 DEF EndRecovery
  <2>2. Turns(r, [y EXCEPT !.pc = pc])
    BY <1>a, <2>1, PcTurns DEF Steps, OwnWork
  <2>3. Placed([y EXCEPT !.pc = pc])
    <3>1. y \in ReqType /\ Placed(y) /\ y.pc = "recover"
      BY <1>5, <1>b DEF EndRecovery
    <3> HIDE DEF y
    <3> QED BY <2>1, <3>1 DEF Placed, ReqType, Judged, Applied, Moving
  <2> QED BY <1>5, <2>2, <2>3, ReadingTyped DEF EndRecovery
<1>6. ASSUME NEW r \in Requests, Audit(r) PROVE TInv'
  <2> DEFINE y == req[r]
             S == {f \in Files : Exists(Library, f)}
  <2>0. y \in ReqType /\ Placed(y) /\ y.pc = "audit"
    BY <1>6, <1>b DEF Audit
  <2>1. CASE req' = [req EXCEPT ![r].pc = "plan", ![r].todo = S]
    <3>1. Turns(r, [y EXCEPT !.pc = "plan", !.todo = S])
      BY <1>a, <2>1, PlanningTurns
    <3>2. Placed([y EXCEPT !.pc = "plan", !.todo = S])
      <4> HIDE DEF y, S
      <4> QED BY <2>0 DEF Placed, ReqType, Judged, Applied, Moving
    <3> QED BY <1>6, <3>1, <3>2, ReadingTyped DEF Audit
  <2>2. CASE req' = Finish(r)
    <3>1. Turns(r, Gone) /\ Placed(Gone)
      BY <1>a, <2>2, FinishTurns, GoneTyped DEF Turns, Placed, Judged, Applied
    <3> QED BY <1>6, <3>1, ReadingTyped DEF Audit
  <2> QED BY <1>6, <2>1, <2>2 DEF Audit
<1>7. ASSUME NEW r \in Requests, Plan(r) PROVE TInv'
  <2> DEFINE y == req[r]
  <2>0. y \in ReqType /\ Placed(y) /\ y.pc = "plan" /\ y.step = "idle"
    BY <1>7, <1>b DEF Plan, Placed, Moving
  <2>1. CASE /\ journal' = [journal EXCEPT ![r] = [status |-> "planned", moves |-> y.todo]]
             /\ req' = [req EXCEPT ![r].pc = "move", ![r].at = r]
    <3>1. Turns(r, [y EXCEPT !.pc = "move", !.at = r])
      BY <1>a, <2>1, AppliesTurns
    <3>2. Placed([y EXCEPT !.pc = "move", !.at = r])
      <4> HIDE DEF y
      <4> QED BY <2>0 DEF Placed, ReqType, Judged, Applied, Moving
    <3>3. JournalOK'
      BY <1>a, <2>0, <2>1 DEF JournalOK, ReqType, Status
    <3> QED BY <1>7, <1>a, <3>1, <3>2, <3>3, TurnsPlaced, TypeKept, TypeParts DEF Plan, TInv, DiskOK
  <2>2. CASE req' = Finish(r) /\ UNCHANGED journal
    <3>1. Turns(r, Gone) /\ Placed(Gone)
      BY <1>a, <2>2, FinishTurns, GoneTyped DEF Turns, Placed, Judged, Applied
    <3> QED BY <1>7, <2>2, <3>1, ReadingTyped DEF Plan
  <2> QED BY <1>7, <2>1, <2>2 DEF Plan
<1>e. ASSUME NEW r \in Requests, req' = Finish(r) PROVE ReqOK' /\ PlacedOK'
  <2>1. Turns(r, Gone) /\ Placed(Gone)
    BY <1>a, <1>e, FinishTurns, GoneTyped DEF Turns, Placed, Judged, Applied
  <2> QED BY <1>a, <2>1, TurnsPlaced
<1>f. ASSUME NEW r \in Requests, req' = Raise(r) PROVE ReqOK' /\ PlacedOK'
  BY <1>a, <1>b, <1>f, RaiseTurns, RaisedPlaced, TurnsPlaced DEF Turns
<1>8. ASSUME NEW r \in Requests, Refuse(r) PROVE TInv'
  <2>1. JournalOK'
    BY <1>8, <1>a, WriteTyped DEF Refuse, Status
  <2> QED BY <1>8, <1>a, <1>e, <2>1, TypeKept, TypeParts DEF Refuse, TInv, DiskOK
<1>9. ASSUME NEW r \in Requests, Open(r) PROVE TInv'
  <2> DEFINE y == req[r]
  <2>0. y \in ReqType /\ Placed(y) /\ y.pc \in Moving
    BY <1>9, <1>b DEF Open
  <2>1. PICK f \in y.todo :
           /\ disk' = [disk EXCEPT ![Target(r)][f] = "part"]
           /\ req' = [req EXCEPT ![r].file = f, ![r].step = "open", ![r].reads = disk[Origin(r)][f]]
    BY <1>9 DEF Open
  <2>2. f \in Files /\ disk[Origin(r)][f] \in {"none", "part", "whole"}
    <3>1. y.at \in Requests
      BY <2>0 DEF Placed, Moving, Judged, Applied
    <3> QED BY <1>a, <2>0, <2>1, <3>1, MovingPlaces DEF ReqType, DiskOK
  <2>3. Turns(r, Opening(y, f, disk[Origin(r)][f]))
    BY <1>a, <2>1, <2>2, OpeningTurns
  <2>4. Placed(Opening(y, f, disk[Origin(r)][f]))
    <3> HIDE DEF y
    <3> QED BY <2>0, <2>1 DEF Opening, Placed, ReqType, Moving
  <2>5. DiskOK'
    BY <1>a, <2>1, CopyTyped
  <2> QED BY <1>9, <1>a, <2>3, <2>4, <2>5, TurnsPlaced, TypeKept, TypeParts DEF Open, TInv, JournalOK
<1>10. ASSUME NEW r \in Requests, Absent(r) PROVE TInv'
  <2> DEFINE y == req[r]
  <2>1. CASE \E f \in y.todo : req' = [req EXCEPT ![r].todo = @ \ {f}]
    <3>1. PICK f \in y.todo : req' = [req EXCEPT ![r].todo = @ \ {f}]
      BY <2>1
    <3>2. Turns(r, [y EXCEPT !.todo = @ \ {f}])
      BY <1>a, <3>1, LeavesOutTurns
    <3>3. Placed([y EXCEPT !.todo = @ \ {f}])
      <4>1. y \in ReqType /\ Placed(y) /\ y.pc \in Moving /\ y.step = "idle"
        BY <1>10, <1>b DEF Absent
      <4> HIDE DEF y
      <4> QED BY <4>1 DEF Placed, ReqType, Moving
    <3> QED BY <1>10, <3>2, <3>3, ReadingTyped DEF Absent
  <2>2. CASE req' = Raise(r)
    BY <1>10, <1>a, <1>f, <2>2, TypeKept, TypeParts DEF Absent, TInv, DiskOK, JournalOK
  <2> QED BY <1>10, <2>1, <2>2 DEF Absent
<1>11. ASSUME NEW r \in Requests, Fill(r) PROVE TInv'
  <2> DEFINE y == req[r]
  <2>0. y \in ReqType /\ Placed(y) /\ y.step = "open"
    BY <1>11, <1>b DEF Fill
  <2>1. Turns(r, [y EXCEPT !.step = "full"])
    BY <1>11, <1>a, FillTurns
  <2>2. Placed([y EXCEPT !.step = "full"])
    <3> HIDE DEF y
    <3> QED BY <2>0 DEF Placed, ReqType, Moving
  <2>3. DiskOK'
    BY <1>11, <1>a, <2>0, CopyTyped DEF Fill, ReqType
  <2> QED BY <1>11, <1>a, <2>1, <2>2, <2>3, TurnsPlaced, TypeKept, TypeParts DEF Fill, TInv, JournalOK
<1>12. ASSUME NEW r \in Requests, Unlink(r) PROVE TInv'
  <2> DEFINE y == req[r]
  <2>0. y \in ReqType /\ Placed(y) /\ y.step = "full" /\ y.pc \in Moving /\ y.file \in Files
    BY <1>12, <1>b DEF Unlink, Placed, ReqType
  <2>1. CASE /\ disk' = [disk EXCEPT ![Origin(r)][req[r].file] = "none"]
             /\ req' = Arrived(r)
    <3>1. Turns(r, Landed(y))
      BY <1>a, <2>0, <2>1, LandedTurns
    <3>2. Placed(Landed(y))
      <4> HIDE DEF y
      <4>1. CASE y.pc = "move"
        BY <2>0, <4>1 DEF Landed, Placed, ReqType, Moving, Judged, Applied
      <4>2. CASE y.pc # "move"
        BY <2>0, <4>2 DEF Landed, Placed, ReqType, Moving, Judged, Applied
      <4> QED BY <4>1, <4>2
    <3>3. DiskOK'
      BY <1>a, <2>1, CopyTyped
    <3> QED BY <1>12, <1>a, <3>1, <3>2, <3>3, TurnsPlaced, TypeKept, TypeParts DEF Unlink, TInv, JournalOK
  <2>2. CASE req' = Raise(r) /\ UNCHANGED disk
    BY <1>12, <1>a, <1>f, <2>2, TypeKept, TypeParts DEF Unlink, TInv, DiskOK, JournalOK
  <2> QED BY <1>12, <2>1, <2>2 DEF Unlink
<1>13. ASSUME NEW r \in Requests, CopyFails(r) PROVE TInv'
  <2> DEFINE y == req[r]
  <2>1. CASE y.step = "idle" /\ \E f \in y.todo : req' = [req EXCEPT ![r].todo = @ \ {f}]
    <3>1. PICK f \in y.todo : req' = [req EXCEPT ![r].todo = @ \ {f}]
      BY <2>1
    <3>2. Turns(r, [y EXCEPT !.todo = @ \ {f}])
      BY <1>a, <3>1, LeavesOutTurns
    <3>3. Placed([y EXCEPT !.todo = @ \ {f}])
      <4>1. y \in ReqType /\ Placed(y) /\ y.pc \in Moving /\ y.step = "idle"
        BY <1>13, <1>b, <2>1 DEF CopyFails
      <4> HIDE DEF y
      <4> QED BY <4>1 DEF Placed, ReqType, Moving
    <3> QED BY <1>13, <3>2, <3>3, ReadingTyped DEF CopyFails
  <2>2. CASE req' = Raise(r)
    BY <1>13, <1>a, <1>f, <2>2, TypeKept, TypeParts DEF CopyFails, TInv, DiskOK, JournalOK
  <2> QED BY <1>13, <2>1, <2>2 DEF CopyFails
<1>14. ASSUME NEW r \in Requests, Record(r) PROVE TInv'
  <2> DEFINE y == req[r]
             f == y.file
             x == Noted(y, f)
  <2>0. y \in ReqType /\ Placed(y) /\ y.pc = "record" /\ f \in Files /\ y.step = "idle"
    BY <1>14, <1>b DEF Record, Placed, Moving, ReqType
  <2>1. CASE req' = Raise(r) /\ UNCHANGED journal
    BY <1>14, <1>a, <1>f, <2>1, TypeKept, TypeParts DEF Record, TInv, DiskOK, JournalOK
  <2> DEFINE noted == [req EXCEPT ![r].moved = @ \cup {f}, ![r].todo = @ \ {f}, ![r].file = None]
  <2>n. noted = [req EXCEPT ![r] = x] /\ x \in ReqType
    BY <1>a, <2>0, NotedTurns
  <2>2. CASE Write(r, "moving") /\ req' = [noted EXCEPT ![r].pc = "move"]
    <3>1. Turns(r, [x EXCEPT !.pc = "move"])
      <4>1. [x EXCEPT !.pc = "move"] \in ReqType
        <5> HIDE DEF x
        <5> QED BY <2>n DEF ReqType, Steps, OwnWork
      <4>2. req' = [req EXCEPT ![r] = [x EXCEPT !.pc = "move"]]
        <5> HIDE DEF x, noted
        <5> QED BY <1>a, <2>2, <2>n DEF ReqOK
      <4> QED BY <4>1, <4>2 DEF Turns
    <3>2. Placed([x EXCEPT !.pc = "move"])
      <4> HIDE DEF y
      <4> QED BY <2>0 DEF Noted, Placed, ReqType, Moving, Judged, Applied
    <3>3. JournalOK'
      BY <1>a, <2>2, WriteTyped DEF Status
    <3> HIDE DEF x
    <3> QED BY <1>14, <1>a, <2>2, <3>1, <3>2, <3>3, TurnsPlaced, TypeKept, TypeParts DEF Record, TInv, DiskOK
  <2>3. CASE req' = [noted EXCEPT ![r].pc = "undo", ![r].todo = noted[r].moved] /\ UNCHANGED journal
    <3>1. Turns(r, [x EXCEPT !.pc = "undo", !.todo = x.moved])
      <4>1. [x EXCEPT !.pc = "undo", !.todo = x.moved] \in ReqType
        <5> HIDE DEF x
        <5> QED BY <2>n DEF ReqType, Steps, OwnWork
      <4>2. req' = [req EXCEPT ![r] = [x EXCEPT !.pc = "undo", !.todo = x.moved]]
        <5> HIDE DEF x, noted
        <5>1. noted[r] = x
          BY <1>a, <2>n DEF ReqOK
        <5> QED BY <1>a, <2>3, <2>n, <5>1 DEF ReqOK
      <4> QED BY <4>1, <4>2 DEF Turns
    <3>2. Placed([x EXCEPT !.pc = "undo", !.todo = x.moved])
      <4> HIDE DEF y
      <4> QED BY <2>0 DEF Noted, Placed, ReqType, Moving, Judged, Applied
    <3> HIDE DEF x
    <3> QED BY <1>14, <1>a, <2>3, <3>1, <3>2, TurnsPlaced, TypeKept, TypeParts DEF Record, TInv, DiskOK, JournalOK
  <2> QED BY <1>14, <2>1, <2>2, <2>3 DEF Record
<1>15. ASSUME NEW r \in Requests, Undone(r) PROVE TInv'
  <2>1. JournalOK'
    BY <1>15, <1>a, WriteTyped DEF Undone, Status
  <2> QED BY <1>15, <1>a, <1>e, <2>1, TypeKept, TypeParts DEF Undone, TInv, DiskOK
<1>16. ASSUME NEW r \in Requests, Await(r) PROVE TInv'
  <2> DEFINE y == req[r]
  <2>1. Turns(r, [y EXCEPT !.pc = "settle"])
    BY <1>16, <1>a, PcTurns DEF Await, Steps, OwnWork
  <2>2. Placed([y EXCEPT !.pc = "settle"])
    <3>1. y \in ReqType /\ Placed(y) /\ y.pc = "move" /\ y.todo = {}
      BY <1>16, <1>b DEF Await
    <3> HIDE DEF y
    <3> QED BY <3>1 DEF Placed, ReqType, Moving, Judged, Applied
  <2>3. JournalOK'
    BY <1>16, <1>a, WriteTyped DEF Await, Status
  <2> QED BY <1>16, <1>a, <2>1, <2>2, <2>3, TurnsPlaced, TypeKept, TypeParts DEF Await, TInv, DiskOK
<1>17. ASSUME NEW r \in Requests, Settle(r) PROVE TInv'
  <2> DEFINE y == req[r]
  <2>0. y \in ReqType /\ Placed(y) /\ y.pc \in {"settle", "resettle"}
    BY <1>17, <1>b DEF Settle
  <2>1. CASE settled' = settled \cup {req[r].at}
             /\ req' = [req EXCEPT ![r].pc = IF req[r].pc = "settle" THEN "seal" ELSE "reseal"]
    <3>1. PICK pc \in {"seal", "reseal"} : req' = [req EXCEPT ![r].pc = pc]
      BY <2>1
    <3>2. Turns(r, [y EXCEPT !.pc = pc])
      BY <1>a, <3>1, PcTurns DEF Steps, OwnWork
    <3>3. Placed([y EXCEPT !.pc = pc]) /\ y.at \in Requests
      <4> HIDE DEF y
      <4> QED BY <2>0 DEF Placed, ReqType, Moving, Judged, Applied
    <3>4. settled' \subseteq Requests
      BY <2>1, <3>3, TypeParts DEF TInv
    <3> QED BY <1>17, <1>a, <2>1, <3>2, <3>3, <3>4, TurnsPlaced, TypeKept, TypeParts DEF Settle, TInv, DiskOK, JournalOK
  <2>2. CASE req' = Finish(r) /\ UNCHANGED settled
    BY <1>17, <1>a, <1>e, <2>2, TypeKept, TypeParts DEF Settle, TInv, DiskOK, JournalOK
  <2> QED BY <1>17, <2>1, <2>2 DEF Settle
<1>18. ASSUME NEW r \in Requests, Seal(r) PROVE TInv'
  <2>1. JournalOK'
    BY <1>18, <1>a, WriteTyped DEF Seal, Status
  <2> QED BY <1>18, <1>a, <1>e, <2>1, TypeKept, TypeParts DEF Seal, TInv, DiskOK
<1>19. ASSUME NEW r \in Requests, WriteFails(r) PROVE TInv'
  BY <1>19, <1>a, <1>e, TypeKept, TypeParts DEF WriteFails, TInv, DiskOK, JournalOK
<1>20. ASSUME Crash PROVE TInv'
  <2>1. \A r \in Requests : req'[r] \in {req[r], Gone}
    BY <1>20, <1>a, CrashRow
  <2>2. \A r \in Requests : req'[r] \in ReqType /\ Placed(req'[r])
    BY <1>b, <2>1, GoneTyped DEF Placed, Judged, Applied
  <2>3. ReqOK' /\ PlacedOK'
    BY <1>20, <2>2 DEF ReqOK, PlacedOK, Crash
  <2> QED BY <1>20, <1>a, <2>3, TypeKept, TypeParts DEF Crash, TInv, DiskOK, JournalOK
<1>21. ASSUME Outsider PROVE TInv'
  <2>1. DiskOK'
    BY <1>21, <1>a, CopyTyped DEF Outsider, DiskOK
  <2>2. ReqOK' /\ PlacedOK' /\ JournalOK'
    BY <1>21, <1>a DEF Outsider, ReqOK, PlacedOK, JournalOK
  <2> QED BY <1>21, <2>1, <2>2, TypeKept, TypeParts DEF Outsider, TInv
<1> QED
  BY <1>0, <1>1, <1>2, <1>3, <1>4, <1>5, <1>6, <1>7, <1>8, <1>9, <1>10, <1>11, <1>12, <1>13,
     <1>14, <1>15, <1>16, <1>17, <1>18, <1>19, <1>20, <1>21
  DEF Next, Recovering, Copying, Applying

\* So does a stuttering step.
LEMMA TypeStep == TInv /\ [Next]_vars => TInv'
<1> SUFFICES ASSUME TInv, UNCHANGED vars PROVE TInv'
  BY TypeNext
<1> QED BY DEF vars, history, TInv, TypeOK, PlacedOK

\* The first state is well-formed.
LEMMA InitType == Init => TInv
<1> SUFFICES ASSUME Init PROVE TInv
  OBVIOUS
<1>1. \A r \in Requests : req[r] = Fresh
  BY DEF Init
<1>2. Fresh \in ReqType /\ Placed(Fresh)
  BY DEF Fresh, ReqType, Steps, Placed, Judged, Applied
<1>3. ReqOK /\ PlacedOK
  BY <1>1, <1>2 DEF Init, ReqOK, PlacedOK
<1>4. DiskOK /\ JournalOK
  BY DEF Init, DiskOK, JournalOK, Status
<1>5. CountsOK
  BY ConstAssumption DEF Init, CountsOK
<1>6. HistoryOK /\ keep \in BOOLEAN /\ settled \subseteq Requests
  BY DEF Init, HistoryOK
<1> QED BY <1>3, <1>4, <1>5, <1>6, TypeParts DEF TInv

\* The tables stay well-formed, and a request in a copy, a move or a verdict names its
\* file and its operation, whoever runs beside it.
THEOREM Types == Spec => []TInv
  BY InitType, TypeStep, PTL DEF Spec

\* Every reachable state of the quarantine has the declared types: requests,
\* journals and the copies on both file systems, however requests overlap.
THEOREM TypeCorrect == Spec => []TypeOK
<1>1. TInv => TypeOK
  BY DEF TInv
<1> QED BY <1>1, Types, PTL
-----------------------------------------------------------------------------
(* What a request is after a step that does not end it. *)

\* All of the fields of a record, but the named ones, stay.
LEMMA BeginFields ==
  ASSUME TInv, NEW r \in Requests, Begin(r)
  PROVE  /\ \A s \in Requests \ {r} : req'[s] = req[s]
         /\ req'[r].pc = "recover" /\ req'[r].listed = There /\ req'[r].left = There
         /\ req'[r].at = req[r].at /\ req'[r].found = req[r].found /\ req'[r].file = req[r].file
         /\ req'[r].step = req[r].step /\ req'[r].moved = req[r].moved
         /\ req'[r].undone = req[r].undone
<1> DEFINE y == req[r]
<1>1. ReqOK /\ y \in ReqType
  BY TypeParts DEF TInv, ReqOK
<1>2. Turns(r, [y EXCEPT !.pc = "recover", !.listed = There, !.left = There])
  BY <1>1, BeginTurns
<1>3. /\ req'[r] = [y EXCEPT !.pc = "recover", !.listed = There, !.left = There]
      /\ \A s \in Requests \ {r} : req'[s] = req[s]
  BY <1>1, <1>2, TurnsTyped
<1> HIDE DEF y
<1>4. /\ req'[r].pc = "recover" /\ req'[r].listed = There /\ req'[r].left = There
      /\ req'[r].at = y.at /\ req'[r].found = y.found /\ req'[r].file = y.file
      /\ req'[r].step = y.step /\ req'[r].moved = y.moved /\ req'[r].undone = y.undone
  BY <1>1, <1>3 DEF ReqType
<1> QED BY <1>3, <1>4 DEF y

\* Skipping takes a finished operation off the list,
LEMMA SkipFields ==
  ASSUME TInv, NEW r \in Requests, Skip(r)
  PROVE  /\ \A s \in Requests \ {r} : req'[s] = req[s]
         /\ \E o \in req[r].left : Finished(o) /\ req'[r].left = req[r].left \ {o}
         /\ req'[r].pc = req[r].pc /\ req'[r].at = req[r].at /\ req'[r].listed = req[r].listed
         /\ req'[r].found = req[r].found /\ req'[r].file = req[r].file
         /\ req'[r].step = req[r].step /\ req'[r].moved = req[r].moved
         /\ req'[r].undone = req[r].undone
<1> DEFINE y == req[r]
<1>1. ReqOK /\ y \in ReqType
  BY TypeParts DEF TInv, ReqOK
<1>2. PICK o \in y.left : Finished(o) /\ Turns(r, [y EXCEPT !.left = @ \ {o}])
  BY <1>1, SkipTurns
<1>3. req'[r] = [y EXCEPT !.left = @ \ {o}] /\ \A s \in Requests \ {r} : req'[s] = req[s]
  BY <1>1, <1>2, TurnsTyped
<1> HIDE DEF y
<1>4. /\ req'[r].left = y.left \ {o} /\ req'[r].pc = y.pc /\ req'[r].at = y.at
      /\ req'[r].listed = y.listed /\ req'[r].found = y.found /\ req'[r].file = y.file
      /\ req'[r].step = y.step /\ req'[r].moved = y.moved /\ req'[r].undone = y.undone
  BY <1>1, <1>3 DEF ReqType
<1> QED BY <1>2, <1>3, <1>4 DEF y

\* passing over takes off unreadable ones,
LEMMA PassOverFields ==
  ASSUME TInv, NEW r \in Requests, PassOver(r)
  PROVE  /\ \A s \in Requests \ {r} : req'[s] = req[s]
         /\ \E lost \in SUBSET req[r].left :
               /\ req'[r].left = req[r].left \ lost /\ req'[r].listed = req[r].listed \ lost
               /\ unread' = unread \cup {o \in lost : ~Finished(o)}
         /\ req'[r].pc = req[r].pc /\ req'[r].at = req[r].at
         /\ req'[r].found = req[r].found /\ req'[r].file = req[r].file
         /\ req'[r].step = req[r].step /\ req'[r].moved = req[r].moved
         /\ req'[r].undone = req[r].undone
<1> DEFINE y == req[r]
<1>1. ReqOK /\ y \in ReqType
  BY TypeParts DEF TInv, ReqOK
<1>2. PICK lost \in SUBSET y.left :
         /\ Turns(r, [y EXCEPT !.left = @ \ lost, !.listed = @ \ lost])
         /\ unread' = unread \cup {o \in lost : ~Finished(o)}
  BY <1>1, PassOverTurns
<1>3. /\ req'[r] = [y EXCEPT !.left = @ \ lost, !.listed = @ \ lost]
      /\ \A s \in Requests \ {r} : req'[s] = req[s]
  BY <1>1, <1>2, TurnsTyped
<1> HIDE DEF y
<1>4. /\ req'[r].left = y.left \ lost /\ req'[r].listed = y.listed \ lost
      /\ req'[r].pc = y.pc /\ req'[r].at = y.at /\ req'[r].found = y.found /\ req'[r].file = y.file
      /\ req'[r].step = y.step /\ req'[r].moved = y.moved /\ req'[r].undone = y.undone
  BY <1>1, <1>3 DEF ReqType
<1> QED BY <1>2, <1>3, <1>4 DEF y

\* an inspection takes up an unfinished one,
LEMMA InspectFields ==
  ASSUME TInv, NEW r \in Requests, Inspect(r)
  PROVE  /\ \A s \in Requests \ {r} : req'[s] = req[s]
         /\ \E o \in req[r].left : \E dark \in Dark({Library, o}, journal[o].moves) :
               /\ ~Finished(o) /\ Misses(dark) /\ o \in Requests
               /\ req'[r].pc \in Verdicts(o, dark) /\ req'[r].at = o
               /\ req'[r].todo = Moved(o, dark) /\ req'[r].left = req[r].left \ {o}
         /\ req'[r].listed = req[r].listed
         /\ req'[r].found = req[r].found /\ req'[r].file = req[r].file
         /\ req'[r].step = req[r].step /\ req'[r].moved = req[r].moved
         /\ req'[r].undone = req[r].undone
<1> DEFINE y == req[r]
<1>1. ReqOK /\ y \in ReqType /\ JournalOK
  BY TypeParts DEF TInv, ReqOK
<1>2. PICK o \in y.left : \E dark \in Dark({Library, o}, journal[o].moves) :
         \E verdict \in Verdicts(o, dark) :
            /\ ~Finished(o) /\ Misses(dark) /\ Turns(r, Judging(y, o, dark, verdict))
  BY <1>1, InspectTurns
<1>3. PICK dark \in Dark({Library, o}, journal[o].moves) :
         \E verdict \in Verdicts(o, dark) :
            /\ ~Finished(o) /\ Misses(dark) /\ Turns(r, Judging(y, o, dark, verdict))
  BY <1>2
<1>4. PICK verdict \in Verdicts(o, dark) :
            /\ ~Finished(o) /\ Misses(dark) /\ Turns(r, Judging(y, o, dark, verdict))
  BY <1>3
<1>5. /\ req'[r] = Judging(y, o, dark, verdict)
      /\ \A s \in Requests \ {r} : req'[s] = req[s]
  BY <1>1, <1>4, TurnsTyped
<1> HIDE DEF y
<1>6. /\ req'[r].left = y.left \ {o} /\ req'[r].at = o /\ req'[r].pc = verdict
      /\ req'[r].todo = Moved(o, dark)
      /\ req'[r].listed = y.listed /\ req'[r].found = y.found /\ req'[r].file = y.file
      /\ req'[r].step = y.step /\ req'[r].moved = y.moved /\ req'[r].undone = y.undone
      /\ o \in Requests
  BY <1>1, <1>5 DEF ReqType, Judging
<1> QED BY <1>4, <1>5, <1>6 DEF y

\* a conclusion puts it down,
LEMMA ConcludeFields ==
  ASSUME TInv, NEW r \in Requests, Conclude(r)
  PROVE  /\ \A s \in Requests \ {r} : req'[s] = req[s]
         /\ \E c \in {"blocked", "rolled_back", "finalized"} :
               /\ Write(req[r].at, c) /\ req'[r].found = req[r].found \cup {c}
               /\ c = "rolled_back" => /\ req[r].pc \in {"void", "giveback"}
                                       /\ req[r].pc = "giveback" => req[r].todo = {}
         /\ req[r].pc \in Judged /\ req[r].at \in Requests
         /\ req'[r].pc = "recover" /\ req'[r].at = None /\ req'[r].listed = req[r].listed
         /\ req'[r].left = req[r].left /\ req'[r].file = req[r].file
         /\ req'[r].step = req[r].step /\ req'[r].moved = req[r].moved
         /\ req'[r].undone = req[r].undone
<1> DEFINE y == req[r]
<1>1. ReqOK /\ y \in ReqType /\ Placed(y)
  BY TypeParts DEF TInv, ReqOK, PlacedOK
<1>2. PICK c \in {"blocked", "rolled_back", "finalized"} :
         /\ Write(y.at, c) /\ NextJournal(r, c) /\ y.pc \in Judged
         /\ c = "rolled_back" => y.pc \in {"void", "giveback"} /\ (y.pc = "giveback" => y.todo = {})
  BY DEF Conclude, Judged
<1>3. Turns(r, Onward(y, c)) /\ y.at \in Requests
  BY <1>1, <1>2, OnwardTurns DEF Placed
<1>4. /\ req'[r] = Onward(y, c)
      /\ \A s \in Requests \ {r} : req'[s] = req[s]
  BY <1>1, <1>3, TurnsTyped
<1> HIDE DEF y
<1>5. /\ req'[r].pc = "recover" /\ req'[r].at = None /\ req'[r].listed = y.listed
      /\ req'[r].left = y.left /\ req'[r].file = y.file /\ req'[r].found = y.found \cup {c}
      /\ req'[r].step = y.step /\ req'[r].moved = y.moved /\ req'[r].undone = y.undone
  BY <1>1, <1>4 DEF ReqType, Onward
<1> QED BY <1>2, <1>3, <1>4, <1>5 DEF y

\* and other steps only go on to another state.
LEMMA PcFields ==
  ASSUME TInv, NEW r \in Requests, NEW pc \in Steps, req' = [req EXCEPT ![r].pc = pc]
  PROVE  /\ \A s \in Requests \ {r} : req'[s] = req[s]
         /\ req'[r].pc = pc /\ req'[r].at = req[r].at /\ req'[r].listed = req[r].listed
         /\ req'[r].left = req[r].left /\ req'[r].file = req[r].file /\ req'[r].found = req[r].found
         /\ req'[r].step = req[r].step /\ req'[r].moved = req[r].moved
         /\ req'[r].undone = req[r].undone /\ req'[r].todo = req[r].todo
<1> DEFINE y == req[r]
<1>1. ReqOK /\ y \in ReqType
  BY TypeParts DEF TInv, ReqOK
<1>2. Turns(r, [y EXCEPT !.pc = pc])
  BY <1>1, PcTurns
<1>3. req'[r] = [y EXCEPT !.pc = pc] /\ \A s \in Requests \ {r} : req'[s] = req[s]
  BY <1>1, <1>2, TurnsTyped
<1> HIDE DEF y
<1>4. /\ req'[r].pc = pc /\ req'[r].at = y.at /\ req'[r].listed = y.listed
      /\ req'[r].left = y.left /\ req'[r].file = y.file /\ req'[r].found = y.found
      /\ req'[r].step = y.step /\ req'[r].moved = y.moved
      /\ req'[r].undone = y.undone /\ req'[r].todo = y.todo
  BY <1>1, <1>3 DEF ReqType
<1> QED BY <1>3, <1>4 DEF y

\* The audit sets the files to move,
LEMMA PlanningFields ==
  ASSUME TInv, NEW r \in Requests, NEW S \in SUBSET Files,
         req' = [req EXCEPT ![r].pc = "plan", ![r].todo = S]
  PROVE  /\ \A s \in Requests \ {r} : req'[s] = req[s]
         /\ req'[r].pc = "plan" /\ req'[r].todo = S
         /\ req'[r].at = req[r].at /\ req'[r].listed = req[r].listed
         /\ req'[r].left = req[r].left /\ req'[r].file = req[r].file /\ req'[r].found = req[r].found
         /\ req'[r].step = req[r].step /\ req'[r].moved = req[r].moved
         /\ req'[r].undone = req[r].undone
<1> DEFINE y == req[r]
<1>1. ReqOK /\ y \in ReqType
  BY TypeParts DEF TInv, ReqOK
<1>2. Turns(r, [y EXCEPT !.pc = "plan", !.todo = S])
  BY <1>1, PlanningTurns
<1>3. req'[r] = [y EXCEPT !.pc = "plan", !.todo = S] /\ \A s \in Requests \ {r} : req'[s] = req[s]
  BY <1>1, <1>2, TurnsTyped
<1> HIDE DEF y
<1>4. PICK x : x = [y EXCEPT !.pc = "plan", !.todo = S]
  OBVIOUS
<1>5. /\ x.pc = "plan" /\ x.todo = S /\ x.at = y.at /\ x.listed = y.listed
      /\ x.left = y.left /\ x.file = y.file /\ x.found = y.found
      /\ x.step = y.step /\ x.moved = y.moved /\ x.undone = y.undone
  BY <1>1, <1>4 DEF ReqType
<1>6. /\ req'[r].pc = "plan" /\ req'[r].todo = S /\ req'[r].at = y.at /\ req'[r].listed = y.listed
      /\ req'[r].left = y.left /\ req'[r].file = y.file /\ req'[r].found = y.found
      /\ req'[r].step = y.step /\ req'[r].moved = y.moved /\ req'[r].undone = y.undone
  BY <1>3, <1>4, <1>5
<1> QED BY <1>3, <1>6 DEF y

\* the plan gives the request its operation,
LEMMA AppliesFields ==
  ASSUME TInv, NEW r \in Requests, req' = [req EXCEPT ![r].pc = "move", ![r].at = r]
  PROVE  /\ \A s \in Requests \ {r} : req'[s] = req[s]
         /\ req'[r].pc = "move" /\ req'[r].at = r
         /\ req'[r].todo = req[r].todo /\ req'[r].listed = req[r].listed
         /\ req'[r].left = req[r].left /\ req'[r].file = req[r].file /\ req'[r].found = req[r].found
         /\ req'[r].step = req[r].step /\ req'[r].moved = req[r].moved
         /\ req'[r].undone = req[r].undone
<1> DEFINE y == req[r]
<1>1. ReqOK /\ y \in ReqType
  BY TypeParts DEF TInv, ReqOK
<1>2. Turns(r, [y EXCEPT !.pc = "move", !.at = r])
  BY <1>1, AppliesTurns
<1>3. req'[r] = [y EXCEPT !.pc = "move", !.at = r] /\ \A s \in Requests \ {r} : req'[s] = req[s]
  BY <1>1, <1>2, TurnsTyped
<1> HIDE DEF y
<1>4. PICK x : x = [y EXCEPT !.pc = "move", !.at = r]
  OBVIOUS
<1>5. /\ x.pc = "move" /\ x.at = r /\ x.todo = y.todo /\ x.listed = y.listed
      /\ x.left = y.left /\ x.file = y.file /\ x.found = y.found
      /\ x.step = y.step /\ x.moved = y.moved /\ x.undone = y.undone
  BY <1>1, <1>4 DEF ReqType
<1>6. /\ req'[r].pc = "move" /\ req'[r].at = r /\ req'[r].todo = y.todo /\ req'[r].listed = y.listed
      /\ req'[r].left = y.left /\ req'[r].file = y.file /\ req'[r].found = y.found
      /\ req'[r].step = y.step /\ req'[r].moved = y.moved /\ req'[r].undone = y.undone
  BY <1>3, <1>4, <1>5
<1> QED BY <1>3, <1>6 DEF y

\* and a file may be left out.
LEMMA LeavesOutFields ==
  ASSUME TInv, NEW r \in Requests, NEW f, req' = [req EXCEPT ![r].todo = @ \ {f}]
  PROVE  /\ \A s \in Requests \ {r} : req'[s] = req[s]
         /\ req'[r].pc = req[r].pc /\ req'[r].at = req[r].at
         /\ req'[r].todo = req[r].todo \ {f} /\ req'[r].listed = req[r].listed
         /\ req'[r].left = req[r].left /\ req'[r].file = req[r].file /\ req'[r].found = req[r].found
         /\ req'[r].step = req[r].step /\ req'[r].moved = req[r].moved
         /\ req'[r].undone = req[r].undone
<1> DEFINE y == req[r]
<1>1. ReqOK /\ y \in ReqType
  BY TypeParts DEF TInv, ReqOK
<1>2. Turns(r, [y EXCEPT !.todo = @ \ {f}])
  BY <1>1, LeavesOutTurns
<1>3. req'[r] = [y EXCEPT !.todo = @ \ {f}] /\ \A s \in Requests \ {r} : req'[s] = req[s]
  BY <1>1, <1>2, TurnsTyped
<1> HIDE DEF y
<1>4. /\ req'[r].pc = y.pc /\ req'[r].at = y.at /\ req'[r].todo = y.todo \ {f}
      /\ req'[r].listed = y.listed
      /\ req'[r].left = y.left /\ req'[r].file = y.file /\ req'[r].found = y.found
      /\ req'[r].step = y.step /\ req'[r].moved = y.moved /\ req'[r].undone = y.undone
  BY <1>1, <1>3 DEF ReqType
<1> QED BY <1>3, <1>4 DEF y

\* An exception ends a recovery, turns to undoing, or leaves out a file.
LEMMA RaiseFields ==
  ASSUME TInv, NEW r \in Requests, req' = Raise(r)
  PROVE  /\ \A s \in Requests \ {r} : req'[s] = req[s]
         /\ req[r].pc \notin {"move", "record", "undo"} => req'[r] = Gone
         /\ req[r].pc \in {"move", "record", "undo"} =>
               /\ req'[r].pc = "undo" /\ req'[r].at = req[r].at
               /\ req[r].pc = "undo" => req'[r].todo = req[r].todo \ {req[r].file}
               /\ req[r].pc # "undo" => req'[r].todo = req[r].moved
               /\ req'[r].listed = req[r].listed /\ req'[r].left = req[r].left
               /\ req'[r].file = None /\ req'[r].found = req[r].found
               /\ req'[r].step = "idle" /\ req'[r].moved = req[r].moved
               /\ req'[r].undone = req[r].undone
<1> DEFINE y == req[r]
<1>1. ReqOK /\ y \in ReqType
  BY TypeParts DEF TInv, ReqOK
<1>2. Turns(r, Raised(y))
  BY <1>1, RaiseTurns DEF Turns
<1>3. req'[r] = Raised(y) /\ \A s \in Requests \ {r} : req'[s] = req[s]
  BY <1>1, <1>2, TurnsTyped
<1> HIDE DEF y
<1>4. y.pc \notin {"move", "record", "undo"} => req'[r] = Gone
  BY <1>3 DEF Raised
<1>5. CASE y.pc \in {"move", "record"}
  BY <1>1, <1>3, <1>4, <1>5 DEF ReqType, Raised, Undoing, y
<1>6. CASE y.pc = "undo"
  BY <1>1, <1>3, <1>4, <1>6 DEF ReqType, Raised, Passed, y
<1> QED BY <1>3, <1>4, <1>5, <1>6 DEF y

\* Opening a copy notes the file and what is read,
LEMMA OpenFields ==
  ASSUME TInv, NEW r \in Requests, Open(r)
  PROVE  /\ \A s \in Requests \ {r} : req'[s] = req[s]
         /\ \E f \in req[r].todo : \E dark \in Dark({Library}, {f}) :
               /\ Misses(dark) /\ Exists(Origin(r), f)
               /\ req[r].pc = "undo" => ~Shows(Library, f, dark)
               /\ f \in Files /\ OnlyThere(Target(r), f, "part")
               /\ req'[r].file = f /\ req'[r].reads = disk[Origin(r)][f]
         /\ req[r].at \in Requests
         /\ req'[r].pc = req[r].pc /\ req'[r].at = req[r].at /\ req'[r].step = "open"
         /\ req'[r].listed = req[r].listed /\ req'[r].left = req[r].left
         /\ req'[r].found = req[r].found /\ req'[r].todo = req[r].todo
         /\ req'[r].moved = req[r].moved /\ req'[r].undone = req[r].undone
<1> DEFINE y == req[r]
<1>1. ReqOK /\ y \in ReqType /\ Placed(y) /\ DiskOK /\ y.pc \in Moving
  BY TypeParts DEF TInv, ReqOK, PlacedOK, Open
<1>2. PICK f \in y.todo : \E dark \in Dark({Library}, {f}) :
               /\ Misses(dark) /\ Exists(Origin(r), f)
               /\ y.pc = "undo" => ~Shows(Library, f, dark)
               /\ disk' = [disk EXCEPT ![Target(r)][f] = "part"]
               /\ req' = [req EXCEPT ![r].file = f, ![r].step = "open",
                                     ![r].reads = disk[Origin(r)][f]]
  BY DEF Open
<1>3. y.at \in Requests /\ f \in Files
  BY <1>1 DEF Placed, Moving, Judged, Applied, ReqType
<1>4. Target(r) \in Places /\ disk[Origin(r)][f] \in {"none", "part", "whole"}
  BY <1>1, <1>3, MovingPlaces DEF DiskOK
<1>5. Turns(r, Opening(y, f, disk[Origin(r)][f])) /\ OnlyThere(Target(r), f, "part")
  BY <1>1, <1>2, <1>3, <1>4, OpeningTurns, CopyChanges
<1>6. /\ req'[r] = Opening(y, f, disk[Origin(r)][f])
      /\ \A s \in Requests \ {r} : req'[s] = req[s]
  BY <1>1, <1>5, TurnsTyped
<1> HIDE DEF y
<1>7. /\ req'[r].file = f /\ req'[r].reads = disk[Origin(r)][f]
      /\ req'[r].pc = y.pc /\ req'[r].at = y.at /\ req'[r].step = "open"
      /\ req'[r].listed = y.listed /\ req'[r].left = y.left
      /\ req'[r].found = y.found /\ req'[r].todo = y.todo
      /\ req'[r].moved = y.moved /\ req'[r].undone = y.undone
  BY <1>1, <1>6 DEF ReqType, Opening
<1> QED BY <1>2, <1>3, <1>5, <1>6, <1>7 DEF y

\* filling it gives it that,
LEMMA FillFields ==
  ASSUME TInv, NEW r \in Requests, Fill(r)
  PROVE  /\ \A s \in Requests \ {r} : req'[s] = req[s]
         /\ req[r].file \in Files /\ req[r].file \in req[r].todo /\ req[r].at \in Requests
         /\ OnlyThere(Target(r), req[r].file, req[r].reads)
         /\ req[r].pc \in Moving /\ req'[r].step = "full"
         /\ req'[r].pc = req[r].pc /\ req'[r].at = req[r].at /\ req'[r].file = req[r].file
         /\ req'[r].reads = req[r].reads
         /\ req'[r].listed = req[r].listed /\ req'[r].left = req[r].left
         /\ req'[r].found = req[r].found /\ req'[r].todo = req[r].todo
         /\ req'[r].moved = req[r].moved /\ req'[r].undone = req[r].undone
<1> DEFINE y == req[r]
<1>1. ReqOK /\ y \in ReqType /\ Placed(y) /\ DiskOK /\ y.step = "open"
  BY TypeParts DEF TInv, ReqOK, PlacedOK, Fill
<1>2. y.at \in Requests /\ y.pc \in Moving /\ y.file \in y.todo /\ y.file \in Files
      /\ y.reads \in {"none", "part", "whole"}
  BY <1>1 DEF Placed, Moving, Judged, Applied, ReqType
<1>3. Target(r) \in Places
  BY <1>2, MovingPlaces
<1>4. Turns(r, [y EXCEPT !.step = "full"]) /\ OnlyThere(Target(r), y.file, y.reads)
  BY <1>1, <1>2, <1>3, FillTurns, CopyChanges DEF Fill
<1>5. req'[r] = [y EXCEPT !.step = "full"] /\ \A s \in Requests \ {r} : req'[s] = req[s]
  BY <1>1, <1>4, TurnsTyped
<1> HIDE DEF y
<1>6. /\ req'[r].step = "full"
      /\ req'[r].pc = y.pc /\ req'[r].at = y.at /\ req'[r].file = y.file /\ req'[r].reads = y.reads
      /\ req'[r].listed = y.listed /\ req'[r].left = y.left
      /\ req'[r].found = y.found /\ req'[r].todo = y.todo
      /\ req'[r].moved = y.moved /\ req'[r].undone = y.undone
  BY <1>1, <1>5 DEF ReqType
<1> QED BY <1>2, <1>4, <1>5, <1>6 DEF y

\* and unlinking the original ends the move of the file.
LEMMA UnlinkFields ==
  ASSUME TInv, NEW r \in Requests, Unlink(r)
  PROVE  /\ req[r].file \in Files /\ req[r].file \in req[r].todo /\ req[r].at \in Requests
         /\ req[r].pc \in Moving
         /\ \/ UNCHANGED disk /\ req' = Raise(r)
            \/ /\ OnlyThere(Origin(r), req[r].file, "none")
               /\ \A s \in Requests \ {r} : req'[s] = req[s]
               /\ req'[r].at = req[r].at /\ req'[r].step = "idle"
               /\ req'[r].listed = req[r].listed /\ req'[r].left = req[r].left
               /\ req'[r].found = req[r].found /\ req'[r].moved = req[r].moved
               /\ req[r].pc = "move" => /\ req'[r].pc = "record" /\ req'[r].todo = req[r].todo
                                        /\ req'[r].undone = req[r].undone
                                        /\ req'[r].file = req[r].file
               /\ req[r].pc # "move" =>
                     /\ req'[r].pc = req[r].pc /\ req'[r].todo = req[r].todo \ {req[r].file}
                     /\ req'[r].file = None
                     /\ req[r].pc = "undo" => req'[r].undone = req[r].undone \cup {req[r].file}
                     /\ req[r].pc # "undo" => req'[r].undone = req[r].undone
<1> DEFINE y == req[r]
<1>1. ReqOK /\ y \in ReqType /\ Placed(y) /\ DiskOK /\ y.step = "full"
  BY TypeParts DEF TInv, ReqOK, PlacedOK, Unlink
<1>2. y.at \in Requests /\ y.pc \in Moving /\ y.file \in y.todo /\ y.file \in Files
  BY <1>1 DEF Placed, Moving, Judged, Applied, ReqType
<1>3. CASE UNCHANGED disk /\ req' = Raise(r)
  BY <1>2, <1>3
<1>4. CASE disk' = [disk EXCEPT ![Origin(r)][y.file] = "none"] /\ req' = Arrived(r)
  <2>1. Origin(r) \in Places
    BY <1>2, MovingPlaces
  <2>2. Turns(r, Landed(y)) /\ OnlyThere(Origin(r), y.file, "none")
    BY <1>1, <1>2, <1>4, <2>1, LandedTurns, CopyChanges
  <2>3. req'[r] = Landed(y) /\ \A s \in Requests \ {r} : req'[s] = req[s]
    BY <1>1, <2>2, TurnsTyped
  <2>s. \A g, b : {h \in {g} : b} = IF b THEN {g} ELSE {}
    OBVIOUS
  <2> HIDE DEF y
  <2>4. CASE y.pc = "move"
    <3>1. /\ req'[r].at = y.at /\ req'[r].step = "idle"
          /\ req'[r].listed = y.listed /\ req'[r].left = y.left
          /\ req'[r].found = y.found /\ req'[r].moved = y.moved
          /\ req'[r].pc = "record" /\ req'[r].todo = y.todo
          /\ req'[r].undone = y.undone /\ req'[r].file = y.file
      BY <1>1, <2>3, <2>4 DEF ReqType, Landed
    <3> QED BY <1>2, <2>2, <2>3, <2>4, <3>1 DEF y
  <2>5. CASE y.pc # "move"
    <3>1. /\ req'[r].at = y.at /\ req'[r].step = "idle"
          /\ req'[r].listed = y.listed /\ req'[r].left = y.left
          /\ req'[r].found = y.found /\ req'[r].moved = y.moved
          /\ req'[r].pc = y.pc /\ req'[r].todo = y.todo \ {y.file} /\ req'[r].file = None
          /\ req'[r].undone = y.undone \cup {g \in {y.file} : y.pc = "undo"}
      BY <1>1, <2>3, <2>5 DEF ReqType, Landed
    <3>2. /\ y.pc = "undo" => req'[r].undone = y.undone \cup {y.file}
          /\ y.pc # "undo" => req'[r].undone = y.undone
      BY <3>1, <2>s
    <3> QED BY <1>2, <2>2, <2>3, <2>5, <3>1, <3>2 DEF y
  <2> QED BY <2>4, <2>5
<1> QED BY <1>3, <1>4 DEF Unlink

\* A moved file is noted, or all that was moved is to be undone.
LEMMA RecordFields ==
  ASSUME TInv, NEW r \in Requests, Record(r)
  PROVE  /\ req[r].file \in req[r].todo /\ req[r].file \in Files /\ req[r].at = req[r].at
         /\ \E dark \in Dark({Library, r}, {req[r].file}) :
               /\ Misses(dark)
               /\ \/ /\ Shows(Library, req[r].file, dark) \/ ~Shows(r, req[r].file, dark)
                     /\ req' = Raise(r) /\ UNCHANGED journal
                  \/ /\ ~Shows(Library, req[r].file, dark) /\ Shows(r, req[r].file, dark)
                     /\ \A s \in Requests \ {r} : req'[s] = req[s]
                     /\ \/ /\ Write(r, "moving") /\ req'[r].pc = "move"
                           /\ req'[r].todo = req[r].todo \ {req[r].file}
                        \/ /\ UNCHANGED journal /\ req'[r].pc = "undo"
                           /\ req'[r].todo = req[r].moved \cup {req[r].file}
                     /\ req'[r].at = req[r].at /\ req'[r].step = "idle"
                     /\ req'[r].moved = req[r].moved \cup {req[r].file}
                     /\ req'[r].file = None /\ req'[r].undone = req[r].undone
                     /\ req'[r].listed = req[r].listed /\ req'[r].left = req[r].left
                     /\ req'[r].found = req[r].found
<1> DEFINE y == req[r]
           f == y.file
           x == Noted(y, f)
           noted == [req EXCEPT ![r].moved = @ \cup {f}, ![r].todo = @ \ {f}, ![r].file = None]
<1>1. ReqOK /\ y \in ReqType /\ Placed(y) /\ y.pc = "record"
  BY TypeParts DEF TInv, ReqOK, PlacedOK, Record
<1>2. f \in y.todo /\ f \in Files /\ y.step = "idle"
  BY <1>1 DEF Placed, Moving, ReqType
<1>3. noted = [req EXCEPT ![r] = x] /\ x \in ReqType /\ noted[r] = x
  <2>1. noted = [req EXCEPT ![r] = x] /\ x \in ReqType
    BY <1>1, <1>2, NotedTurns
  <2> HIDE DEF x, noted
  <2> QED BY <1>1, <2>1 DEF ReqOK
<1>4. /\ x.at = y.at /\ x.step = "idle" /\ x.moved = y.moved \cup {f} /\ x.todo = y.todo \ {f}
      /\ x.file = None /\ x.undone = y.undone /\ x.listed = y.listed /\ x.left = y.left
      /\ x.found = y.found
  <2> HIDE DEF y
  <2> QED BY <1>1, <1>2 DEF ReqType, Noted
<1>5. PICK dark \in Dark({Library, r}, {f}) :
         /\ Misses(dark)
         /\ \/ /\ Shows(Library, f, dark) \/ ~Shows(r, f, dark)
               /\ req' = Raise(r) /\ UNCHANGED journal
            \/ /\ ~Shows(Library, f, dark) /\ Shows(r, f, dark)
               /\ \/ Write(r, "moving") /\ req' = [noted EXCEPT ![r].pc = "move"]
                  \/ /\ UNCHANGED journal
                     /\ req' = [noted EXCEPT ![r].pc = "undo", ![r].todo = noted[r].moved]
  BY DEF Record
<1>6. CASE (Shows(Library, f, dark) \/ ~Shows(r, f, dark)) /\ req' = Raise(r) /\ UNCHANGED journal
  BY <1>2, <1>5, <1>6
<1>7. CASE /\ ~Shows(Library, f, dark) /\ Shows(r, f, dark)
           /\ Write(r, "moving") /\ req' = [noted EXCEPT ![r].pc = "move"]
  <2>1. req' = [req EXCEPT ![r] = [x EXCEPT !.pc = "move"]]
    <3> HIDE DEF x, noted
    <3> QED BY <1>1, <1>3, <1>7 DEF ReqOK
  <2>2. req'[r] = [x EXCEPT !.pc = "move"] /\ \A s \in Requests \ {r} : req'[s] = req[s]
    <3> HIDE DEF x
    <3> QED BY <1>1, <2>1 DEF ReqOK
  <2>3. /\ req'[r].pc = "move" /\ req'[r].at = x.at /\ req'[r].step = x.step
        /\ req'[r].moved = x.moved /\ req'[r].todo = x.todo
        /\ req'[r].file = x.file /\ req'[r].undone = x.undone
        /\ req'[r].listed = x.listed /\ req'[r].left = x.left /\ req'[r].found = x.found
    <3> HIDE DEF x
    <3> QED BY <1>3, <2>2 DEF ReqType
  <2> HIDE DEF x, noted
  <2> QED BY <1>2, <1>4, <1>5, <1>7, <2>2, <2>3
<1>8. CASE /\ ~Shows(Library, f, dark) /\ Shows(r, f, dark) /\ UNCHANGED journal
           /\ req' = [noted EXCEPT ![r].pc = "undo", ![r].todo = noted[r].moved]
  <2>1. req' = [req EXCEPT ![r] = [x EXCEPT !.pc = "undo", !.todo = x.moved]]
    <3> HIDE DEF x, noted
    <3> QED BY <1>1, <1>3, <1>8 DEF ReqOK
  <2>2. /\ req'[r] = [x EXCEPT !.pc = "undo", !.todo = x.moved]
        /\ \A s \in Requests \ {r} : req'[s] = req[s]
    <3> HIDE DEF x
    <3> QED BY <1>1, <2>1 DEF ReqOK
  <2>3. /\ req'[r].pc = "undo" /\ req'[r].at = x.at /\ req'[r].step = x.step
        /\ req'[r].moved = x.moved /\ req'[r].todo = x.moved
        /\ req'[r].file = x.file /\ req'[r].undone = x.undone
        /\ req'[r].listed = x.listed /\ req'[r].left = x.left /\ req'[r].found = x.found
    <3> HIDE DEF x
    <3> QED BY <1>3, <2>2 DEF ReqType
  <2> HIDE DEF x, noted
  <2> QED BY <1>2, <1>4, <1>5, <1>8, <2>2, <2>3
<1> QED BY <1>5, <1>6, <1>7, <1>8

\* A request that ends is gone.
LEMMA FinishFields ==
  ASSUME TInv, NEW r \in Requests, req' = Finish(r)
  PROVE  req'[r] = Gone /\ \A s \in Requests \ {r} : req'[s] = req[s]
<1>1. Turns(r, Gone) /\ ReqOK
  BY FinishTurns, TypeParts DEF Turns, TInv
<1> QED BY <1>1, TurnsTyped

-----------------------------------------------------------------------------
(* What the journals say, whatever overlaps, fails or is misread. *)

\* An operation has a journal, with some move in it, before it has anything else.
Shelved ==
    \A o \in Requests :
        IF journal[o].status = "none"
        THEN journal[o].moves = {} /\ o \notin settled /\ \A f \in Files : disk[o][f] = "none"
        ELSE journal[o].moves # {}

\* A request that has an operation works within its journal.
Owned(r) ==
    /\ req[r].pc \in Before => /\ journal[r].status = "none"
                               /\ req[r].moved = {} /\ req[r].undone = {}
    /\ req[r].pc \in Before \ Judged => req[r].at = None
    /\ req[r].pc \in Applied => req[r].at = r
    /\ req[r].pc \in Judged \cup Applied => /\ req[r].at \in Requests
                                            /\ journal[req[r].at].status # "none"
    /\ req[r].pc = "plan" => req[r].todo # {}
    /\ req[r].pc \in Moving \cup {"record"} =>
          req[r].todo \cup req[r].moved \subseteq journal[req[r].at].moves
    /\ req[r].left \subseteq req[r].listed
    /\ \A o \in req[r].listed : o # r /\ journal[o].status # "none"

Books == TInv /\ Shelved /\ Journaled /\ \A r \in Requests : Owned(r)

\* The journals that there are, and their moves, stay.
JournalsStay ==
    \A o \in Requests : /\ journal'[o].moves = journal[o].moves
                        /\ journal'[o].status = "none" <=> journal[o].status = "none"

\* Writing another status is such a change.
LEMMA WriteStays ==
  ASSUME JournalOK, NEW o \in Requests, NEW status \in Status \ {"none"},
         journal[o].status # "none", Write(o, status)
  PROVE  JournalsStay
  BY WriteTyped DEF JournalsStay

\* While the journals stay, a request that does not turn still has its operation.
LEMMA OwnedRest ==
  ASSUME Books, JournalsStay, NEW s \in Requests, req'[s] = req[s]
  PROVE  Owned(s)'
<1>1. Owned(s) /\ req[s] \in ReqType
  BY TypeParts DEF Books, TInv, ReqOK
<1>2. req[s].pc \in Moving \cup {"record"} => req[s].pc \in Judged \cup Applied
  BY DEF Moving, Judged, Applied
<1>3. req[s].listed \subseteq Requests
  BY <1>1 DEF ReqType
<1> QED BY <1>1, <1>2, <1>3 DEF Owned, JournalsStay

\* One that is gone has none.
LEMMA OwnedGone == ASSUME NEW r, req'[r] = Gone PROVE Owned(r)'
  BY GoneTyped DEF Owned, Before, Judged, Applied, Moving

\* Without a move on the disk the journals say what they said.
LEMMA ShelvedRest ==
  ASSUME Books, JournalsStay, UNCHANGED <<disk, settled>>
  PROVE  Shelved' /\ Journaled'
  BY DEF Books, Shelved, Journaled, JournalsStay, Exists

\* A move within an operation is in its journal.
LEMMA ShelvedMoved ==
  ASSUME Books, UNCHANGED <<journal, settled>>, NEW o \in Requests, journal[o].status # "none",
         NEW f \in Files, f \in journal[o].moves, NEW p \in {Library, o}, NEW v, OnlyThere(p, f, v)
  PROVE  Shelved' /\ Journaled'
<1>1. Library \in Places /\ Requests \subseteq Places /\ Library \notin Requests
  BY ConstAssumption DEF Places
<1>2. \A q \in Requests, g \in Files : disk'[q][g] # disk[q][g] => q = o /\ g = f
  BY <1>1 DEF OnlyThere
<1>3. \A g \in Files : g # f => disk'[Library][g] = disk[Library][g]
  BY <1>1 DEF OnlyThere
<1>4. Shelved'
  BY <1>2 DEF Books, Shelved
<1>5. Journaled'
  BY <1>2, <1>3 DEF Books, Journaled, Exists
<1> QED BY <1>4, <1>5

\* A turn of one request, with the journals there are,
LEMMA BooksTurn ==
  ASSUME Books, TInv', JournalsStay, Shelved', Journaled', NEW r \in Requests, Owned(r)',
         \A s \in Requests \ {r} : req'[s] = req[s]
  PROVE  Books'
  BY OwnedRest DEF Books

\* and the end of one.
LEMMA BooksEnds ==
  ASSUME Books, TInv', JournalsStay, UNCHANGED <<disk, settled>>, NEW r \in Requests, req' = Finish(r)
  PROVE  Books'
<1>1. req'[r] = Gone /\ \A s \in Requests \ {r} : req'[s] = req[s]
  BY FinishFields DEF Books
<1> QED BY <1>1, OwnedGone, ShelvedRest, BooksTurn

\* So is an exception.
LEMMA BooksRaise ==
  ASSUME Books, TInv', UNCHANGED <<disk, journal, settled>>, NEW r \in Requests, req' = Raise(r),
         req[r].pc \in Moving \cup {"record"}
  PROVE  Books'
<1>1. JournalsStay /\ Shelved' /\ Journaled'
  BY ShelvedRest DEF JournalsStay
<1>2. \A s \in Requests \ {r} : req'[s] = req[s]
  BY RaiseFields DEF Books
<1>3. Owned(r)'
  <2>1. CASE req[r].pc \in {"move", "record", "undo"}
    <3>1. /\ req'[r].pc = "undo" /\ req'[r].at = req[r].at
          /\ req'[r].todo \subseteq req[r].todo \cup req[r].moved /\ req'[r].moved = req[r].moved
          /\ req'[r].listed = req[r].listed /\ req'[r].left = req[r].left
      BY <2>1, RaiseFields DEF Books
    <3> QED BY <2>1, <3>1 DEF Books, Owned, Before, Judged, Applied, Moving
  <2>2. CASE req[r].pc \notin {"move", "record", "undo"}
    BY <2>2, RaiseFields, OwnedGone DEF Books
  <2> QED BY <2>1, <2>2
<1> QED BY <1>1, <1>2, <1>3, BooksTurn

\* Recovery only writes to journals that are there,
LEMMA BooksRecovering ==
  ASSUME Books, TInv', NEW r \in Requests, Recovering(r)
  PROVE  Books'
<1>a. Owned(r) /\ JournalOK /\ req[r] \in ReqType
  BY TypeParts DEF Books, TInv, ReqOK
<1>b. UNCHANGED journal => JournalsStay
  BY DEF JournalsStay
<1>1. CASE Begin(r)
  <2>0. /\ req[r].pc = "new" /\ UNCHANGED journal
        /\ req'[r].pc = "recover" /\ req'[r].listed = There /\ req'[r].left = There
        /\ req'[r].at = req[r].at /\ req'[r].moved = req[r].moved
        /\ req'[r].undone = req[r].undone
    BY <1>1, BeginFields DEF Begin, Books
  <2>2. journal[r].status = "none" /\ req[r].at = None /\ req[r].moved = {} /\ req[r].undone = {}
    BY <1>a, <2>0 DEF Owned, Before, Judged
  <2>1. Owned(r)'
    BY <2>0, <2>2 DEF Owned, Before, Judged, Applied, Moving, There
  <2> QED BY <1>1, <1>b, <2>1, BeginFields, ShelvedRest, BooksTurn DEF Begin, Books
<1>2. CASE Skip(r)
  <2>1. Owned(r)'
    BY <1>a, <1>2, SkipFields DEF Skip, Books, Owned, Before, Judged, Applied, Moving
  <2> QED BY <1>2, <1>b, <2>1, SkipFields, ShelvedRest, BooksTurn DEF Skip, Books
<1>3. CASE PassOver(r)
  <2>0. /\ req[r].pc = "recover" /\ UNCHANGED journal
        /\ req'[r].pc = req[r].pc /\ req'[r].at = req[r].at /\ req'[r].moved = req[r].moved
        /\ req'[r].undone = req[r].undone
    BY <1>3, PassOverFields DEF PassOver, Books
  <2>2. PICK lost \in SUBSET req[r].left :
           req'[r].left = req[r].left \ lost /\ req'[r].listed = req[r].listed \ lost
    BY <1>3, PassOverFields DEF Books
  <2>1. Owned(r)'
    BY <1>a, <2>0, <2>2 DEF Owned, Before, Judged, Applied, Moving
  <2> QED BY <1>3, <1>b, <2>1, PassOverFields, ShelvedRest, BooksTurn DEF PassOver, Books
<1>4. CASE Inspect(r)
  <2>1. PICK o \in req[r].left : \E dark \in Dark({Library, o}, journal[o].moves) :
               /\ ~Finished(o) /\ Misses(dark) /\ o \in Requests
               /\ req'[r].pc \in Verdicts(o, dark) /\ req'[r].at = o
               /\ req'[r].todo = Moved(o, dark) /\ req'[r].left = req[r].left \ {o}
    BY <1>4, InspectFields DEF Books
  <2>2. PICK dark \in Dark({Library, o}, journal[o].moves) :
               /\ req'[r].pc \in Verdicts(o, dark) /\ req'[r].at = o /\ o \in Requests
               /\ req'[r].todo = Moved(o, dark) /\ req'[r].left = req[r].left \ {o}
    BY <2>1
  <2>3. req'[r].pc \in Judged /\ req'[r].pc # "plan" /\ Moved(o, dark) \subseteq journal[o].moves
    BY <2>2 DEF Verdicts, Judged, Moved
  <2>4. /\ req'[r].listed = req[r].listed /\ req'[r].moved = req[r].moved
        /\ req'[r].undone = req[r].undone
    BY <1>4, InspectFields DEF Books
  <2>5. Owned(r)'
    <3>1. req[r].pc = "recover" /\ UNCHANGED journal
      BY <1>4 DEF Inspect
    <3>2. /\ journal[r].status = "none" /\ req[r].moved = {} /\ req[r].undone = {}
          /\ journal[o].status # "none"
      BY <1>a, <2>1, <3>1 DEF Owned, Before
    <3>3. req'[r].pc \notin Before \ Judged /\ req'[r].pc \notin Applied
      BY <2>3 DEF Before, Judged, Applied
    <3>4. /\ req'[r].left \subseteq req'[r].listed
          /\ \A p \in req'[r].listed : p # r /\ journal'[p].status # "none"
      BY <1>a, <2>2, <2>4, <3>1 DEF Owned
    <3> QED BY <2>2, <2>3, <2>4, <3>1, <3>2, <3>3, <3>4 DEF Owned
  <2> QED BY <1>4, <1>b, <2>5, InspectFields, ShelvedRest, BooksTurn DEF Inspect, Books
<1>5. CASE Conclude(r)
  <2>1. PICK c \in {"blocked", "rolled_back", "finalized"} : Write(req[r].at, c)
    BY <1>5, ConcludeFields DEF Books
  <2>2. req[r].pc \in Judged /\ req[r].at \in Requests /\ journal[req[r].at].status # "none"
    BY <1>a, <1>5, ConcludeFields DEF Books, Owned
  <2>3. JournalsStay
    BY <1>a, <2>1, <2>2, WriteStays DEF Status
  <2>4. Owned(r)'
    <3>1. /\ req'[r].pc = "recover" /\ req'[r].at = None /\ req'[r].listed = req[r].listed
          /\ req'[r].left = req[r].left /\ req'[r].moved = req[r].moved
          /\ req'[r].undone = req[r].undone
      BY <1>5, ConcludeFields DEF Books
    <3>2. req[r].listed \subseteq Requests
      BY <1>a DEF ReqType
    <3> QED BY <1>a, <2>2, <2>3, <3>1, <3>2
            DEF Owned, Before, Judged, Applied, Moving, JournalsStay
  <2> QED BY <1>5, <2>3, <2>4, ConcludeFields, ShelvedRest, BooksTurn DEF Conclude, Books
<1>6. CASE EndRecovery(r)
  <2>1. PICK pc \in {"done", "audit"} : req' = [req EXCEPT ![r].pc = pc]
    BY <1>6 DEF EndRecovery
  <2>2. pc \in Steps
    BY DEF Steps, OwnWork
  <2>3. Owned(r)'
    BY <1>a, <1>6, <2>1, <2>2, PcFields DEF EndRecovery, Books, Owned, Before, Judged, Applied, Moving
  <2> QED BY <1>6, <1>b, <2>1, <2>2, <2>3, PcFields, ShelvedRest, BooksTurn DEF EndRecovery, Books
<1> QED BY <1>1, <1>2, <1>3, <1>4, <1>5, <1>6 DEF Recovering

\* moves go by the journal of the operation,
LEMMA BooksCopying ==
  ASSUME Books, TInv', NEW r \in Requests, Copying(r)
  PROVE  Books'
<1>a. Owned(r) /\ JournalOK /\ req[r] \in ReqType /\ Placed(req[r])
  BY TypeParts DEF Books, TInv, ReqOK, PlacedOK
<1>b. UNCHANGED journal => JournalsStay
  BY DEF JournalsStay
<1>c. req[r].pc \in Moving => /\ req[r].at \in Requests /\ journal[req[r].at].status # "none"
                              /\ req[r].todo \subseteq journal[req[r].at].moves
                              /\ Target(r) \in {Library, req[r].at}
                              /\ Origin(r) \in {Library, req[r].at}
  BY <1>a DEF Owned, Moving, Judged, Applied, Target, Origin
<1>1. CASE Open(r)
  <2>1. PICK f \in req[r].todo : f \in Files /\ OnlyThere(Target(r), f, "part")
    BY <1>1, OpenFields DEF Books
  <2>2. Shelved' /\ Journaled'
    BY <1>1, <1>c, <2>1, ShelvedMoved DEF Open
  <2>3. Owned(r)'
    <3>1. /\ req'[r].pc = req[r].pc /\ req'[r].at = req[r].at
          /\ req'[r].listed = req[r].listed /\ req'[r].left = req[r].left
          /\ req'[r].todo = req[r].todo
          /\ req'[r].moved = req[r].moved /\ req'[r].undone = req[r].undone
      BY <1>1, OpenFields DEF Books
    <3>2. UNCHANGED journal
      BY <1>1 DEF Open
    <3> QED BY <1>a, <3>1, <3>2 DEF Owned
  <2> QED BY <1>1, <1>b, <2>2, <2>3, OpenFields, BooksTurn DEF Open, Books
<1>2. CASE Absent(r)
  <2>1. CASE \E f \in req[r].todo : req' = [req EXCEPT ![r].todo = @ \ {f}]
    <3>1. PICK f \in req[r].todo : req' = [req EXCEPT ![r].todo = @ \ {f}]
      BY <2>1
    <3>2. Owned(r)'
      BY <1>a, <1>2, <3>1, LeavesOutFields DEF Absent, Books, Owned, Before, Judged, Applied, Moving
    <3> QED BY <1>2, <1>b, <3>1, <3>2, LeavesOutFields, ShelvedRest, BooksTurn DEF Absent, Books
  <2>2. CASE req' = Raise(r)
    BY <1>2, <2>2, BooksRaise DEF Absent
  <2> QED BY <1>2, <2>1, <2>2 DEF Absent
<1>3. CASE Fill(r)
  <2>1. /\ req[r].pc \in Moving /\ req[r].file \in Files /\ req[r].file \in req[r].todo
        /\ OnlyThere(Target(r), req[r].file, req[r].reads)
    BY <1>3, FillFields DEF Books
  <2>2. Shelved' /\ Journaled'
    BY <1>3, <1>c, <2>1, ShelvedMoved DEF Fill
  <2>3. Owned(r)'
    <3>1. /\ req'[r].pc = req[r].pc /\ req'[r].at = req[r].at
          /\ req'[r].listed = req[r].listed /\ req'[r].left = req[r].left
          /\ req'[r].todo = req[r].todo
          /\ req'[r].moved = req[r].moved /\ req'[r].undone = req[r].undone
      BY <1>3, FillFields DEF Books
    <3>2. UNCHANGED journal
      BY <1>3 DEF Fill
    <3> QED BY <1>a, <3>1, <3>2 DEF Owned
  <2> QED BY <1>3, <1>b, <2>2, <2>3, FillFields, BooksTurn DEF Fill, Books
<1>4. CASE Unlink(r)
  <2>0. req[r].pc \in Moving /\ req[r].file \in Files /\ req[r].file \in req[r].todo
    BY <1>4, UnlinkFields DEF Books
  <2>1. CASE UNCHANGED disk /\ req' = Raise(r)
    BY <1>4, <2>0, <2>1, BooksRaise DEF Unlink
  <2>2. CASE /\ OnlyThere(Origin(r), req[r].file, "none")
             /\ \A s \in Requests \ {r} : req'[s] = req[s]
             /\ req'[r].at = req[r].at
             /\ req'[r].listed = req[r].listed /\ req'[r].left = req[r].left
             /\ req'[r].moved = req[r].moved /\ req'[r].todo \subseteq req[r].todo
             /\ req[r].pc = "move" => req'[r].pc = "record"
             /\ req[r].pc # "move" => req'[r].pc = req[r].pc
             /\ req[r].pc = "giveback" => req'[r].undone = req[r].undone
    <3>1. Shelved' /\ Journaled'
      BY <1>4, <1>c, <2>0, <2>2, ShelvedMoved DEF Unlink
    <3>2. UNCHANGED journal
      BY <1>4 DEF Unlink
    <3>3. Owned(r)'
      <4>1. CASE req[r].pc = "move"
        BY <1>a, <1>c, <2>0, <2>2, <3>2, <4>1 DEF Owned, Before, Judged, Applied, Moving
      <4>2. CASE req[r].pc = "undo"
        BY <1>a, <1>c, <2>0, <2>2, <3>2, <4>2 DEF Owned, Before, Judged, Applied, Moving
      <4>3. CASE req[r].pc = "giveback"
        BY <1>a, <1>c, <2>0, <2>2, <3>2, <4>3 DEF Owned, Before, Judged, Applied, Moving
      <4> QED BY <2>0, <4>1, <4>2, <4>3 DEF Moving
    <3> QED BY <1>b, <2>2, <3>1, <3>2, <3>3, BooksTurn
  <2>3. \/ UNCHANGED disk /\ req' = Raise(r)
        \/ /\ OnlyThere(Origin(r), req[r].file, "none")
           /\ \A s \in Requests \ {r} : req'[s] = req[s]
           /\ req'[r].at = req[r].at
           /\ req'[r].listed = req[r].listed /\ req'[r].left = req[r].left
           /\ req'[r].moved = req[r].moved /\ req'[r].todo \subseteq req[r].todo
           /\ req[r].pc = "move" => req'[r].pc = "record"
           /\ req[r].pc # "move" => req'[r].pc = req[r].pc
           /\ req[r].pc = "giveback" => req'[r].undone = req[r].undone
    BY <1>4, UnlinkFields DEF Books
  <2> QED BY <2>1, <2>2, <2>3
<1>5. CASE CopyFails(r)
  <2>1. CASE \E f \in req[r].todo : req' = [req EXCEPT ![r].todo = @ \ {f}]
    <3>1. PICK f \in req[r].todo : req' = [req EXCEPT ![r].todo = @ \ {f}]
      BY <2>1
    <3>2. Owned(r)'
      BY <1>a, <1>5, <3>1, LeavesOutFields DEF CopyFails, Books, Owned, Before, Judged, Applied, Moving
    <3> QED BY <1>5, <1>b, <3>1, <3>2, LeavesOutFields, ShelvedRest, BooksTurn DEF CopyFails, Books
  <2>2. CASE req' = Raise(r)
    BY <1>5, <2>2, BooksRaise DEF CopyFails
  <2> QED BY <1>5, <2>1, <2>2 DEF CopyFails
<1> QED BY <1>1, <1>2, <1>3, <1>4, <1>5 DEF Copying

\* and a request writes its journal before it moves anything.
LEMMA BooksApplying ==
  ASSUME Books, TInv', NEW r \in Requests, Applying(r)
  PROVE  Books'
<1>a. Owned(r) /\ JournalOK /\ req[r] \in ReqType /\ Placed(req[r])
  BY TypeParts DEF Books, TInv, ReqOK, PlacedOK
<1>b. UNCHANGED journal => JournalsStay
  BY DEF JournalsStay
<1>c. ASSUME req[r].pc \in Applied, NEW status \in Status \ {"none"}, Write(r, status)
      PROVE  JournalsStay
  BY <1>a, <1>c, WriteStays DEF Owned
<1>1. CASE Audit(r)
  <2>1. CASE req' = Finish(r)
    BY <1>1, <1>b, <2>1, BooksEnds DEF Audit
  <2>2. CASE \E S \in SUBSET Files : S # {} /\ req' = [req EXCEPT ![r].pc = "plan", ![r].todo = S]
    <3>1. PICK S \in SUBSET Files : S # {} /\ req' = [req EXCEPT ![r].pc = "plan", ![r].todo = S]
      BY <2>2
    <3>2. Owned(r)'
      <4>1. /\ req'[r].pc = "plan" /\ req'[r].todo = S
            /\ req'[r].at = req[r].at /\ req'[r].listed = req[r].listed
            /\ req'[r].left = req[r].left /\ req'[r].moved = req[r].moved
            /\ req'[r].undone = req[r].undone
        BY <3>1, PlanningFields DEF Books
      <4>2. req[r].pc = "audit" /\ UNCHANGED journal
        BY <1>1 DEF Audit
      <4> QED BY <1>a, <3>1, <4>1, <4>2 DEF Owned, Before, Judged, Applied, Moving
    <3> QED BY <1>1, <1>b, <3>1, <3>2, PlanningFields, ShelvedRest, BooksTurn DEF Audit, Books
  <2> QED BY <1>1, <2>1, <2>2 DEF Audit
<1>2. CASE Plan(r)
  <2>1. CASE req' = Finish(r) /\ UNCHANGED journal
    BY <1>2, <1>b, <2>1, BooksEnds DEF Plan
  <2>2. CASE /\ journal' = [journal EXCEPT ![r] = [status |-> "planned", moves |-> req[r].todo]]
             /\ req' = [req EXCEPT ![r].pc = "move", ![r].at = r]
    <3>1. /\ journal'[r].status = "planned" /\ journal'[r].moves = req[r].todo
          /\ \A o \in Requests \ {r} : journal'[o] = journal[o]
      BY <1>a, <2>2 DEF JournalOK
    <3>2. journal[r].status = "none" /\ req[r].todo # {} /\ req[r].moved = {}
          /\ UNCHANGED <<disk, settled>>
      BY <1>a, <1>2 DEF Plan, Owned, Before
    <3>3. Shelved' /\ Journaled'
      BY <3>1, <3>2 DEF Books, Shelved, Journaled, Exists
    <3>4. ASSUME NEW s \in Requests \ {r} PROVE Owned(s)'
      <4>1. req'[s] = req[s] /\ Owned(s) /\ req[s] \in ReqType
        BY <2>2, AppliesFields, TypeParts DEF Books, TInv, ReqOK
      <4>2. req[s].pc \in Moving \cup {"record"} => req[s].pc \in Judged \cup Applied
        BY DEF Moving, Judged, Applied
      <4>3. req[s].pc \in Judged \cup Applied => journal'[req[s].at] = journal[req[s].at]
        BY <3>1, <3>2, <4>1 DEF Owned
      <4>4. \A o \in req[s].listed : journal'[o].status # "none"
        BY <3>1, <4>1 DEF Owned, ReqType
      <4> QED BY <3>1, <4>1, <4>2, <4>3, <4>4 DEF Owned
    <3>5. Owned(r)'
      <4>1. /\ req'[r].pc = "move" /\ req'[r].at = r /\ req'[r].todo = req[r].todo
            /\ req'[r].moved = req[r].moved /\ req'[r].listed = req[r].listed
            /\ req'[r].left = req[r].left
        BY <2>2, AppliesFields DEF Books
      <4>2. \A o \in req[r].listed : o # r /\ journal'[o].status # "none"
        BY <1>a, <3>1 DEF Owned, ReqType
      <4> QED BY <1>a, <3>1, <3>2, <4>1, <4>2 DEF Owned, Before, Judged, Applied, Moving
    <3> QED BY <3>3, <3>4, <3>5 DEF Books
  <2> QED BY <1>2, <2>1, <2>2 DEF Plan
<1>3. CASE Refuse(r) \/ Undone(r) \/ Seal(r)
  <2>1. req[r].pc \in Applied /\ UNCHANGED <<disk, settled>> /\ req' = Finish(r)
        /\ \E status \in Status \ {"none"} : Write(r, status)
    BY <1>3 DEF Refuse, Undone, Seal, Applied, Status
  <2> QED BY <1>c, <2>1, BooksEnds
<1>4. CASE Record(r)
  <2>1. PICK dark : \/ req' = Raise(r) /\ UNCHANGED journal
                    \/ /\ \A s \in Requests \ {r} : req'[s] = req[s]
                       /\ \/ /\ Write(r, "moving") /\ req'[r].pc = "move"
                             /\ req'[r].todo = req[r].todo \ {req[r].file}
                          \/ /\ UNCHANGED journal /\ req'[r].pc = "undo"
                             /\ req'[r].todo = req[r].moved \cup {req[r].file}
                       /\ req'[r].at = req[r].at
                       /\ req'[r].moved = req[r].moved \cup {req[r].file}
                       /\ req'[r].listed = req[r].listed /\ req'[r].left = req[r].left
    BY <1>4, RecordFields DEF Books
  <2>2. req[r].pc = "record" /\ req[r].file \in req[r].todo /\ UNCHANGED <<disk, settled>>
    BY <1>4, RecordFields DEF Record, Books
  <2>3. CASE req' = Raise(r) /\ UNCHANGED journal
    BY <2>2, <2>3, BooksRaise
  <2>4. CASE /\ \A s \in Requests \ {r} : req'[s] = req[s]
             /\ \/ Write(r, "moving") /\ req'[r].pc = "move"
                \/ UNCHANGED journal /\ req'[r].pc = "undo"
             /\ req'[r].todo \subseteq req[r].todo \cup req[r].moved
             /\ req'[r].at = req[r].at
             /\ req'[r].moved = req[r].moved \cup {req[r].file}
             /\ req'[r].listed = req[r].listed /\ req'[r].left = req[r].left
    <3>1. JournalsStay
      BY <1>b, <1>c, <2>2, <2>4 DEF Applied, Status
    <3>2. req[r].listed \subseteq Requests
      BY <1>a DEF ReqType
    <3>3. Owned(r)'
      BY <1>a, <2>2, <2>4, <3>1, <3>2 DEF Owned, Before, Judged, Applied, Moving, JournalsStay
    <3> QED BY <2>2, <2>4, <3>1, <3>3, ShelvedRest, BooksTurn
  <2> QED BY <2>1, <2>2, <2>3, <2>4
<1>5. CASE Await(r)
  <2>1. Write(r, "awaiting") /\ req[r].pc = "move" /\ UNCHANGED <<disk, settled>>
        /\ req' = [req EXCEPT ![r].pc = "settle"]
    BY <1>5 DEF Await
  <2>2. JournalsStay
    BY <1>c, <2>1 DEF Applied, Status
  <2>3. "settle" \in Steps /\ req[r].listed \subseteq Requests
    BY <1>a DEF Steps, OwnWork, ReqType
  <2>4. Owned(r)'
    BY <1>a, <2>1, <2>2, <2>3, PcFields DEF Books, Owned, Before, Judged, Applied, Moving, JournalsStay
  <2> QED BY <2>1, <2>2, <2>3, <2>4, PcFields, ShelvedRest, BooksTurn DEF Books
<1>6. CASE Settle(r)
  <2>1. CASE req' = Finish(r) /\ UNCHANGED settled
    BY <1>6, <1>b, <2>1, BooksEnds DEF Settle
  <2>2. CASE /\ settled' = settled \cup {req[r].at}
             /\ req' = [req EXCEPT ![r].pc = IF req[r].pc = "settle" THEN "seal" ELSE "reseal"]
    <3>1. PICK pc \in {"seal", "reseal"} : /\ req' = [req EXCEPT ![r].pc = pc]
                                           /\ pc = "seal" <=> req[r].pc = "settle"
      BY <2>2
    <3>2. pc \in Steps /\ req[r].pc \in {"settle", "resettle"} /\ UNCHANGED <<disk, journal>>
      BY <1>6 DEF Steps, OwnWork, Settle
    <3>3. Owned(r)'
      BY <1>a, <3>1, <3>2, PcFields DEF Books, Owned, Before, Judged, Applied, Moving
    <3>4. journal[req[r].at].status # "none"
      BY <1>a, <3>2 DEF Owned, Judged, Applied
    <3>5. Shelved' /\ Journaled'
      BY <2>2, <3>2, <3>4 DEF Books, Shelved, Journaled, Exists
    <3> QED BY <1>b, <3>1, <3>2, <3>3, <3>5, PcFields, BooksTurn DEF Books
  <2> QED BY <1>6, <2>1, <2>2 DEF Settle
<1>7. CASE WriteFails(r)
  BY <1>7, <1>b, BooksEnds DEF WriteFails
<1> QED BY <1>1, <1>2, <1>3, <1>4, <1>5, <1>6, <1>7 DEF Applying

\* Every step keeps the books.
LEMMA BooksStep == Books /\ [Next]_vars => Books'
<1> SUFFICES ASSUME Books, [Next]_vars PROVE Books'
  OBVIOUS
<1>1. TInv'
  BY TypeStep DEF Books
<1>b. UNCHANGED journal => JournalsStay
  BY DEF JournalsStay
<1>2. CASE Crash
  <2>1. \A r \in Requests : req'[r] = req[r] \/ req'[r] = Gone
    BY <1>2, CrashRow, TypeParts DEF Books, TInv
  <2>2. JournalsStay /\ UNCHANGED <<disk, settled>>
    BY <1>2, <1>b DEF Crash
  <2>3. \A r \in Requests : Owned(r)'
    BY <2>1, <2>2, OwnedRest, OwnedGone
  <2> QED BY <1>1, <2>2, <2>3, ShelvedRest DEF Books
<1>3. CASE Outsider
  <2>1. JournalsStay /\ UNCHANGED <<journal, settled, req>>
    BY <1>3, <1>b DEF Outsider
  <2>2. \A r \in Requests : Owned(r)'
    BY <2>1, OwnedRest
  <2>3. CASE UNCHANGED disk
    BY <1>1, <2>1, <2>2, <2>3, ShelvedRest DEF Books
  <2>4. ASSUME NEW f \in Files, disk' = [disk EXCEPT ![Library][f] = "whole"]
        PROVE  Books'
    <3>1. Library \in Places /\ Requests \subseteq Places /\ Library \notin Requests /\ DiskOK
      BY ConstAssumption, TypeParts DEF Places, Books, TInv
    <3>2. OnlyThere(Library, f, "whole")
      BY <2>4, <3>1, CopyChanges
    <3>3. /\ \A o \in Requests, g \in Files : disk'[o][g] = disk[o][g]
          /\ \A g \in Files : disk'[Library][g] = "none" => disk[Library][g] = "none"
      BY <3>1, <3>2 DEF OnlyThere
    <3>4. Shelved'
      BY <2>1, <3>3 DEF Books, Shelved
    <3>5. Journaled'
      BY <2>1, <3>3 DEF Books, Journaled, Exists
    <3> QED BY <1>1, <2>2, <3>4, <3>5 DEF Books
  <2> QED BY <1>3, <2>3, <2>4 DEF Outsider
<1>4. CASE UNCHANGED vars
  <2>1. UNCHANGED <<disk, journal, settled, req>> /\ JournalsStay
    BY <1>4, <1>b DEF vars
  <2>2. \A r \in Requests : Owned(r)'
    BY <2>1, OwnedRest
  <2> QED BY <1>1, <2>1, <2>2, ShelvedRest DEF Books
<1> QED BY <1>1, <1>2, <1>3, <1>4, BooksRecovering, BooksCopying, BooksApplying DEF Next

\* At the start no journal is there and every duplicate is at home.
LEMMA InitBooks == Init => Books
<1> SUFFICES ASSUME Init PROVE Books
  OBVIOUS
<1>1. /\ \A o \in Requests : req[o] = Fresh /\ journal[o].status = "none" /\ journal[o].moves = {}
      /\ settled = {} /\ Library \in Places /\ Requests \subseteq Places /\ Library \notin Requests
      /\ \A p \in Places, f \in Files : disk[p][f] = IF p = Library THEN "whole" ELSE "none"
  BY ConstAssumption DEF Init, Places
<1>2. Shelved /\ Journaled
  BY <1>1 DEF Shelved, Journaled, Exists
<1>3. /\ Fresh.pc = "new" /\ Fresh.at = None /\ Fresh.moved = {} /\ Fresh.undone = {}
      /\ Fresh.left = {} /\ Fresh.listed = {}
  BY DEF Fresh
<1>4. \A r \in Requests : Owned(r)
  BY <1>1, <1>3 DEF Owned, Before, Judged, Applied, Moving
<1> QED BY <1>2, <1>4, InitType DEF Books

\* Journals come before moves and name them, whoever runs beside whom.
THEOREM BooksHold == Spec => []Books
  BY InitBooks, BooksStep, PTL DEF Spec

\* The write-ahead rule of the journal: whatever overlaps, fails, dies or cannot be
\* read, a duplicate that is in a quarantine folder is in the journal of that
\* operation, and one that is gone from the library is in some journal.
THEOREM WriteAhead == Spec => []Journaled
<1>1. Books => Journaled
  BY DEF Books
<1> QED BY <1>1, BooksHold, PTL

-----------------------------------------------------------------------------
(* The inductive invariant, as long as requests do not overlap. *)

\* A file of an unfinished operation is whole in its folder or in the library,
Twins == \A o \in Requests : Firm(o) => \A f \in journal[o].moves : Whole(o, f) \/ Whole(Library, f)

\* one of a settled operation in its folder,
Kept == \A o \in settled : Sound(o) => /\ AllWhole(o, journal[o].moves)
                                       /\ journal[o].status # "rolled_back"

\* and every file is whole somewhere.
Somewhere == \A f \in Files \ misseen : \E p \in Places : Whole(p, f)

World == Twins /\ Kept /\ Somewhere

\* The operation of a request is unfinished, and not settled before its files are moved.
Engaged(r) ==
    /\ req[r].pc \in Judged \cup Applied => Pending(req[r].at)
    /\ req[r].pc \in {"move", "record", "undo", "settle"} => r \notin settled
    /\ req[r].pc \in {"move", "record"} => req[r].undone = {}

\* Any other unfinished operation, of which the request knows or nobody has passed
\* over, is still to be judged, or will end the request.
Met(r) ==
    \A o \in Requests \ {r} :
        Pending(o) /\ (o \notin unread \/ o \in req[r].listed) =>
            /\ req[r].pc \notin OwnWork
            /\ o \in req[r].left \/ o = req[r].at \/ "blocked" \in req[r].found

\* A copy under way has what is read.
Carry(r) ==
    req[r].step # "idle" =>
        /\ req[r].reads # "none" /\ disk[Origin(r)][req[r].file] = req[r].reads
        /\ req[r].step = "open" => disk[Target(r)][req[r].file] = "part"
        /\ req[r].step = "full" => disk[Target(r)][req[r].file] = req[r].reads

\* Where the files are while the request moves its own ones,
Forward(r) ==
    /\ req[r].pc = "plan" => AllWhole(Library, req[r].todo)
    /\ req[r].pc \in {"move", "record"} =>
          /\ req[r].todo \cup req[r].moved = journal[r].moves
          /\ req[r].todo \cap req[r].moved = {}
          /\ AllWhole(r, req[r].moved)
    /\ req[r].pc = "move" => AllWhole(Library, req[r].todo)
    /\ req[r].pc = "record" => /\ Whole(r, req[r].file) /\ disk[Library][req[r].file] # "part"
                               /\ AllWhole(Library, req[r].todo \ {req[r].file})
    /\ req[r].pc = "settle" => AllWhole(r, journal[r].moves)

\* moves them back,
Back(r) ==
    req[r].pc = "undo" =>
        /\ req[r].todo \subseteq req[r].moved \ req[r].undone
        /\ AllWhole(r, req[r].moved \ req[r].undone)
        /\ AllWhole(Library, req[r].undone)
        /\ AllWhole(Library, (journal[r].moves \ req[r].moved) \ misseen)

\* or carries out what recovery has decided.
Decided(r) ==
    LET o == req[r].at
        moves == journal[o].moves
    IN  Sound(o) =>
          /\ req[r].pc = "resettle" => AllWhole(o, moves)
          /\ req[r].pc = "void" => o \notin settled /\ AllWhole(Library, moves)
          /\ req[r].pc = "giveback" => /\ o \notin settled /\ AllWhole(o, req[r].todo)
                                       /\ AllWhole(Library, moves \ req[r].todo)

\* What is moved back lies in the library over no file that another operation needs.
Beside(r) ==
    req[r].pc = "giveback" =>
        \A f \in req[r].todo \ misseen :
            /\ \E q \in Requests : Whole(q, f)
            /\ \A o \in Requests \ {req[r].at} : Firm(o) /\ f \in journal[o].moves => Whole(o, f)

Facts(r) ==
    Live(r) => /\ Engaged(r) /\ Met(r) /\ Carry(r)
               /\ Forward(r) /\ Back(r) /\ Decided(r) /\ Beside(r)

OneLive == \A r, s \in Requests : Live(r) /\ Live(s) => r = s
Quiet == OneLive /\ World /\ \A r \in Requests : Facts(r)
IInv == Books /\ (~overlapped => Quiet)

\* What is known of the past grows.
Grows == unread \subseteq unread' /\ misseen \subseteq misseen'

\* No other request runs.
Aside(r) == \A s \in Requests \ {r} : ~Live(s)

\* Beside the one live request all others have not begun or are done.
LEMMA LiveAside == ASSUME OneLive, NEW r \in Requests, Live(r) PROVE Aside(r)
  BY DEF OneLive, Aside

\* One request turns, alone, into an order that fits the world.
LEMMA QuietTurn ==
  ASSUME NEW r \in Requests, Aside(r), \A s \in Requests \ {r} : req'[s] = req[s],
         World', Facts(r)'
  PROVE  Quiet'
<1>1. \A s \in Requests \ {r} : ~Live(s)'
  BY DEF Aside, Live
<1> QED BY <1>1 DEF Quiet, OneLive, Facts

\* The end of a request leaves nobody.
LEMMA QuietEnds ==
  ASSUME TInv, NEW r \in Requests, Aside(r), req' = Finish(r), World'
  PROVE  Quiet'
<1>1. req'[r] = Gone /\ \A s \in Requests \ {r} : req'[s] = req[s]
  BY FinishFields
<1>2. Facts(r)'
  BY <1>1, GoneTyped DEF Facts, Live
<1> QED BY <1>1, <1>2, QuietTurn

\* What is sound was sound before.
LEMMA SoundBefore ==
  ASSUME Grows, JournalsStay
  PROVE  \A o \in Requests : (o \notin unread' /\ journal'[o].moves \cap misseen' = {}) => Sound(o)
  BY DEF Grows, JournalsStay, Sound

\* Nothing moves and nothing is written.
LEMMA WorldRest ==
  ASSUME TInv, World, Grows, UNCHANGED <<disk, journal, settled>>
  PROVE  World'
<1>1. JournalsStay
  BY DEF JournalsStay
<1>2. settled \subseteq Requests
  BY TypeParts DEF TInv
<1>3. Twins' /\ Kept'
  BY <1>1, <1>2, SoundBefore DEF World, Twins, Kept, Firm, Pending, Finished, Sound, Whole, AllWhole
<1>4. Somewhere'
  BY DEF World, Somewhere, Whole, Grows
<1> QED BY <1>3, <1>4 DEF World

\* The status of an unfinished operation is written.
LEMMA WorldWritten ==
  ASSUME TInv, World, Grows, NEW o \in Requests, NEW status \in Status \ {"none"},
         Pending(o), Write(o, status), status = "rolled_back" /\ Sound(o) => o \notin settled,
         UNCHANGED <<disk, settled>>
  PROVE  World'
<1>1. /\ \A p \in Requests : /\ journal'[p].moves = journal[p].moves
                             /\ p # o => journal'[p] = journal[p]
      /\ journal'[o].status = status /\ settled \subseteq Requests
  BY TypeParts, WriteTyped DEF TInv
<1>2. JournalsStay
  BY TypeParts, WriteStays DEF TInv, Pending
<1>3. \A p \in Requests : journal'[p].status \notin {"none", "finalized", "rolled_back"} => Pending(p)
  BY <1>1 DEF Pending, Finished
<1>4. Twins'
  BY <1>1, <1>2, <1>3, SoundBefore DEF World, Twins, Firm, Pending, Finished, Sound, Whole
<1>5. Kept'
  BY <1>1, <1>2, SoundBefore DEF World, Kept, Sound, Whole, AllWhole
<1>6. Somewhere'
  BY DEF World, Somewhere, Whole, Grows
<1> QED BY <1>4, <1>5, <1>6 DEF World

\* A copy of one file changes, at one place, and another one covers for it.
LEMMA WorldMoved ==
  ASSUME TInv, World, Grows, UNCHANGED <<journal, settled>>, NEW p \in Places, NEW f \in Files, NEW v,
         OnlyThere(p, f, v),
         \A o \in Requests : Firm(o) /\ f \in journal[o].moves /\ f \notin misseen' =>
             disk'[o][f] = "whole" \/ disk'[Library][f] = "whole",
         \A o \in settled : Sound(o) /\ f \in journal[o].moves => disk'[o][f] = "whole",
         f \notin misseen' => \E q \in Places : disk'[q][f] = "whole"
  PROVE  World'
<1>1. JournalsStay
  BY DEF JournalsStay
<1>2. settled \subseteq Requests /\ \A o \in Requests : journal[o].moves \subseteq Files
  BY TypeParts DEF TInv, JournalOK
<1>3. Library \in Places /\ Requests \subseteq Places
  BY DEF Places
<1>4. \A q \in Places, g \in Files : g # f => disk'[q][g] = disk[q][g]
  BY DEF OnlyThere
<1>5. Twins'
  <2> SUFFICES ASSUME NEW o \in Requests, Firm(o)', NEW g \in journal[o].moves
               PROVE  disk'[o][g] = "whole" \/ disk'[Library][g] = "whole"
    BY DEF Twins, Whole
  <2>1. Firm(o) /\ g \notin misseen'
    BY <1>1, SoundBefore DEF Firm, Pending, Finished, Sound
  <2>2. CASE g = f
    BY <2>1, <2>2
  <2>3. CASE g # f
    BY <1>2, <1>3, <1>4, <2>1, <2>3 DEF World, Twins, Whole
  <2> QED BY <2>2, <2>3
<1>6. Kept'
  <2> SUFFICES ASSUME NEW o \in settled, Sound(o)'
               PROVE  /\ \A g \in journal[o].moves : disk'[o][g] = "whole"
                      /\ journal[o].status # "rolled_back"
    BY DEF Kept, AllWhole, Whole
  <2>1. Sound(o)
    BY <1>1, <1>2, SoundBefore DEF Sound
  <2> QED BY <1>2, <1>3, <1>4, <2>1 DEF World, Kept, AllWhole, Whole
<1>7. Somewhere'
  BY <1>4 DEF World, Somewhere, Whole, Grows
<1> QED BY <1>5, <1>6, <1>7 DEF World

\* What is whole stays whole.
LEMMA WorldKept ==
  ASSUME TInv, World, Grows, UNCHANGED <<journal, settled>>,
         \A p \in Places, f \in Files : disk[p][f] = "whole" => disk'[p][f] = "whole"
  PROVE  World'
<1>1. JournalsStay
  BY DEF JournalsStay
<1>2. settled \subseteq Requests /\ \A o \in Requests : journal[o].moves \subseteq Files
  BY TypeParts DEF TInv, JournalOK
<1>3. Library \in Places /\ Requests \subseteq Places
  BY DEF Places
<1>4. Twins' /\ Kept'
  BY <1>1, <1>2, <1>3, SoundBefore
  DEF World, Twins, Kept, Firm, Pending, Finished, Sound, Whole, AllWhole
<1>5. Somewhere'
  BY DEF World, Somewhere, Whole, Grows
<1> QED BY <1>4, <1>5 DEF World

\* A request that recovers, or is about to look at the files, has to know of the
\* other operations and of nothing else.
LEMMA FactsIdle ==
  ASSUME Books', NEW r \in Requests, req'[r].pc \in {"recover", "audit"}, Met(r)'
  PROVE  Facts(r)'
<1>1. req'[r].step = "idle"
  <2>1. Placed(req'[r]) /\ ReqOK'
    BY DEF Books, TInv, PlacedOK, TypeOK, ReqOK, ReqType
  <2>2. req'[r].step \in {"idle", "open", "full"}
    BY <2>1 DEF ReqOK, ReqType
  <2> QED BY <2>1 DEF Placed, Moving
<1> QED BY <1>1 DEF Facts, Engaged, Judged, Applied, Carry, Forward, Back, Decided, Beside

\* The lists of a request may go on when no other operation becomes unfinished.
LEMMA MetRest ==
  ASSUME NEW r \in Requests, Met(r), Grows,
         \A o \in Requests \ {r} : journal'[o] = journal[o],
         req'[r].listed = req[r].listed, req'[r].left = req[r].left,
         req'[r].at = req[r].at \/ req[r].pc \in OwnWork, req'[r].found = req[r].found,
         req'[r].pc \in OwnWork => req[r].pc \in OwnWork
  PROVE  Met(r)'
  BY DEF Met, Grows, Pending, Finished


(* Recovery. *)

\* A request that lists the journals has to judge all of them,
LEMMA BeginQuiet ==
  ASSUME Books, Books', Quiet, Grows, ~overlapped', NEW r \in Requests, Begin(r)
  PROVE  Quiet'
<1>1. Aside(r)
  BY DEF Begin, Aside
<1>2. World'
  BY WorldRest DEF Books, Quiet, Begin
<1>3. /\ req'[r].pc = "recover" /\ req'[r].left = There /\ UNCHANGED journal
      /\ \A s \in Requests \ {r} : req'[s] = req[s]
  BY BeginFields DEF Books, Begin
<1>4. Met(r)'
  BY <1>3 DEF Met, OwnWork, There, Pending
<1> QED BY <1>1, <1>2, <1>3, <1>4, FactsIdle, QuietTurn

\* may skip the finished ones,
LEMMA SkipQuiet ==
  ASSUME Books, Books', Quiet, Grows, NEW r \in Requests, Skip(r)
  PROVE  Quiet'
<1>0. req[r].pc = "recover" /\ UNCHANGED <<disk, journal, settled, unread, misseen>>
  BY DEF Skip, history
<1>1. Facts(r) /\ Live(r) /\ Aside(r)
  BY <1>0, LiveAside DEF Quiet, Live
<1>2. World'
  BY <1>0, WorldRest DEF Books, Quiet
<1>3. /\ req'[r].pc = "recover" /\ req'[r].listed = req[r].listed /\ req'[r].at = req[r].at
      /\ req'[r].found = req[r].found /\ \A s \in Requests \ {r} : req'[s] = req[s]
  BY <1>0, SkipFields DEF Books
<1>4. PICK o \in req[r].left : Finished(o) /\ req'[r].left = req[r].left \ {o}
  BY SkipFields DEF Books
<1>5. Met(r)'
  BY <1>0, <1>1, <1>3, <1>4 DEF Facts, Met, OwnWork, Pending, Finished
<1> QED BY <1>1, <1>2, <1>3, <1>5, FactsIdle, QuietTurn

\* passes over those it cannot read,
LEMMA PassOverQuiet ==
  ASSUME Books, Books', Quiet, Grows, NEW r \in Requests, PassOver(r)
  PROVE  Quiet'
<1>0. req[r].pc = "recover" /\ UNCHANGED <<disk, journal, settled>>
  BY DEF PassOver
<1>1. Facts(r) /\ Live(r) /\ Aside(r)
  BY <1>0, LiveAside DEF Quiet, Live
<1>2. World'
  BY <1>0, WorldRest DEF Books, Quiet
<1>3. /\ req'[r].pc = "recover" /\ req'[r].at = req[r].at
      /\ req'[r].found = req[r].found /\ \A s \in Requests \ {r} : req'[s] = req[s]
  BY <1>0, PassOverFields DEF Books
<1>4. PICK lost \in SUBSET req[r].left :
         /\ req'[r].left = req[r].left \ lost /\ req'[r].listed = req[r].listed \ lost
         /\ unread' = unread \cup {o \in lost : ~Finished(o)}
  BY PassOverFields DEF Books
<1>5. Met(r)'
  <2> SUFFICES ASSUME NEW o \in Requests \ {r}, Pending(o), o \notin unread' \/ o \in req'[r].listed
               PROVE  /\ req'[r].pc \notin OwnWork
                      /\ o \in req'[r].left \/ o = req'[r].at \/ "blocked" \in req'[r].found
    BY <1>0 DEF Met, Pending, Finished
  <2>1. o \notin lost
    BY <1>4 DEF Pending
  <2>2. o \notin unread \/ o \in req[r].listed
    BY <1>4
  <2> QED BY <1>1, <1>3, <1>4, <2>1, <2>2 DEF Facts, Met, OwnWork
<1> QED BY <1>1, <1>2, <1>3, <1>5, FactsIdle, QuietTurn

\* What a sound operation seems to be is what it is, and its verdict fits.
LEMMA VerdictFits ==
  ASSUME Books, World, Grows, UNCHANGED journal, NEW o \in Requests, Pending(o),
         NEW dark, Misses(dark), o \notin unread', journal[o].moves \cap misseen' = {},
         NEW verdict \in Verdicts(o, dark)
  PROVE  /\ verdict = "resettle" => AllWhole(o, journal[o].moves)
         /\ verdict = "void" => o \notin settled /\ AllWhole(Library, journal[o].moves)
         /\ verdict = "giveback" => /\ o \notin settled /\ AllWhole(o, Moved(o, dark))
                                    /\ AllWhole(Library, journal[o].moves \ Moved(o, dark))
<1> DEFINE moves == journal[o].moves
<1>1. \A f \in moves : f \notin misseen'
  OBVIOUS
<1>2. \A f \in moves, p \in {Library, o} : Shows(p, f, dark) <=> Exists(p, f)
  BY <1>1, Noticed DEF Shows
<1>3. Sound(o) /\ Firm(o) /\ moves # {}
  BY DEF Firm, Sound, Grows, Books, Shelved, Pending
<1>4. \A f \in moves : Whole(o, f) \/ Whole(Library, f)
  BY <1>3 DEF World, Twins
<1>5. \A p, f : Whole(p, f) => Exists(p, f)
  BY DEF Whole, Exists
<1>6. o \in settled => AllWhole(o, moves)
  BY <1>3 DEF World, Kept
<1>7. Moved(o, dark) = {f \in moves : ~Exists(Library, f) /\ Exists(o, f)}
      /\ Home(o, dark) = {f \in moves : Exists(Library, f) /\ ~Exists(o, f)}
  BY <1>2 DEF Moved, Home
<1>8. AllWhole(o, Moved(o, dark)) /\ AllWhole(Library, Home(o, dark))
  BY <1>4, <1>5, <1>7 DEF AllWhole
<1>9. o \in settled => Home(o, dark) = {}
  BY <1>5, <1>6, <1>7 DEF AllWhole
<1>10. verdict = "resettle" => Moved(o, dark) = moves
  BY DEF Verdicts
<1>11. verdict = "void" => Home(o, dark) = moves
  BY DEF Verdicts
<1>12. verdict = "giveback" => /\ Moved(o, dark) \cup Home(o, dark) = moves
                               /\ Moved(o, dark) # moves
  BY DEF Verdicts
<1> HIDE DEF moves
<1>13. CASE verdict = "resettle"
  BY <1>8, <1>10, <1>13 DEF moves
<1>14. CASE verdict = "void"
  BY <1>3, <1>8, <1>9, <1>11, <1>14 DEF moves
<1>15. CASE verdict = "giveback"
  <2>1. moves \ Moved(o, dark) \subseteq Home(o, dark)
    BY <1>12, <1>15
  <2>2. o \notin settled
    BY <1>9, <1>12, <1>15
  <2> QED BY <1>8, <1>15, <2>1, <2>2 DEF moves, AllWhole
<1> QED BY <1>13, <1>14, <1>15

\* and judges the others,
LEMMA InspectQuiet ==
  ASSUME Books, Books', Quiet, Grows, NEW r \in Requests, Inspect(r)
  PROVE  Quiet'
<1>0. req[r].pc = "recover" /\ UNCHANGED <<disk, journal, settled, unread>>
  BY DEF Inspect
<1>1. Facts(r) /\ Live(r) /\ Aside(r) /\ Owned(r) /\ World
  BY <1>0, LiveAside DEF Quiet, Live, Books
<1>2. World'
  BY <1>0, WorldRest DEF Books, Quiet
<1>3. /\ req'[r].listed = req[r].listed /\ req'[r].step = req[r].step
      /\ req'[r].found = req[r].found /\ \A s \in Requests \ {r} : req'[s] = req[s]
  BY <1>0, InspectFields DEF Books
<1>4. PICK o \in req[r].left : \E dark \in Dark({Library, o}, journal[o].moves) :
               /\ ~Finished(o) /\ Misses(dark) /\ o \in Requests
               /\ req'[r].pc \in Verdicts(o, dark) /\ req'[r].at = o
               /\ req'[r].todo = Moved(o, dark) /\ req'[r].left = req[r].left \ {o}
  BY InspectFields DEF Books
<1>5. PICK dark \in Dark({Library, o}, journal[o].moves) :
               /\ ~Finished(o) /\ Misses(dark) /\ o \in Requests
               /\ req'[r].pc \in Verdicts(o, dark) /\ req'[r].at = o
               /\ req'[r].todo = Moved(o, dark) /\ req'[r].left = req[r].left \ {o}
  BY <1>4
<1>6. Pending(o) /\ req[r].at = None /\ req[r].step = "idle"
  <2>1. journal[o].status # "none" /\ req[r].at = None
    BY <1>0, <1>1, <1>4 DEF Owned, Before, Judged
  <2>2. Placed(req[r]) /\ req[r].step \in {"idle", "open", "full"}
    BY TypeParts DEF Books, TInv, PlacedOK, ReqOK, ReqType
  <2> QED BY <1>0, <1>5, <2>1, <2>2 DEF Pending, Placed, Moving
<1>7. req'[r].pc \in Judged
  BY <1>5 DEF Verdicts, Judged
<1>8. Engaged(r)'
  <2>1. Pending(o)'
    BY <1>0, <1>6 DEF Pending, Finished
  <2>2. req'[r].pc \notin {"move", "record", "undo", "settle"}
    BY <1>7 DEF Judged
  <2> QED BY <1>5, <2>1, <2>2 DEF Engaged, Pending, Finished
<1>9. Met(r)'
  <2>1. \A p \in Requests : Pending(p)' => Pending(p)
    BY <1>0 DEF Pending, Finished
  <2>2. req'[r].pc \notin OwnWork
    BY <1>7 DEF Judged, OwnWork
  <2>3. None \notin Requests
    BY ConstAssumption
  <2> QED BY <1>0, <1>1, <1>3, <1>5, <1>6, <2>1, <2>2, <2>3 DEF Facts, Met, Pending, Finished
<1>10. Carry(r)' /\ Forward(r)' /\ Back(r)'
  BY <1>3, <1>6, <1>7 DEF Carry, Forward, Back, Judged
<1>11. Decided(r)'
  <2> SUFFICES ASSUME o \notin unread', journal[o].moves \cap misseen' = {}
               PROVE  /\ req'[r].pc = "resettle" => AllWhole(o, journal[o].moves)
                      /\ req'[r].pc = "void" => o \notin settled /\ AllWhole(Library, journal[o].moves)
                      /\ req'[r].pc = "giveback" =>
                            /\ o \notin settled /\ AllWhole(o, req'[r].todo)
                            /\ AllWhole(Library, journal[o].moves \ req'[r].todo)
    BY <1>0, <1>5 DEF Decided, Sound, AllWhole, Whole
  <2> QED BY <1>0, <1>1, <1>5, <1>6, VerdictFits
<1>12. Beside(r)'
  <2> SUFFICES ASSUME NEW f \in Moved(o, dark), f \notin misseen'
               PROVE  /\ \E q \in Requests : Whole(q, f)
                      /\ \A q \in Requests : Firm(q) /\ f \in journal[q].moves => Whole(q, f)
    <3>1. \A q \in Requests : Firm(q)' => Firm(q)
      BY <1>0 DEF Grows, Firm, Pending, Finished, Sound
    <3> QED BY <1>0, <1>5, <3>1 DEF Beside, Whole, Firm, Pending, Finished, Sound
  <2>1. ~Exists(Library, f) /\ f \in journal[o].moves
    BY <1>5, Noticed DEF Moved
  <2>2. ~Whole(Library, f)
    BY <2>1 DEF Whole, Exists
  <2>3. f \in Files /\ f \notin misseen
    BY <1>5, <2>1, TypeParts DEF Books, TInv, JournalOK, Grows
  <2> QED BY <1>1, <2>2, <2>3 DEF World, Twins, Somewhere, Places
<1>13. Facts(r)'
  BY <1>8, <1>9, <1>10, <1>11, <1>12 DEF Facts
<1> QED BY <1>1, <1>2, <1>3, <1>13, QuietTurn

\* writes what it has decided,
LEMMA ConcludeQuiet ==
  ASSUME Books, Books', Quiet, Grows, NEW r \in Requests, Conclude(r)
  PROVE  Quiet'
<1>0. /\ UNCHANGED <<disk, settled, unread, misseen>>
      /\ req[r].pc \in Judged /\ req[r].at \in Requests
      /\ req'[r].pc = "recover" /\ req'[r].listed = req[r].listed
      /\ req'[r].left = req[r].left /\ \A s \in Requests \ {r} : req'[s] = req[s]
  BY ConcludeFields DEF Books, Conclude, history
<1>1. Facts(r) /\ Live(r) /\ Aside(r) /\ World
  BY <1>0, LiveAside DEF Quiet, Live, Judged
<1>2. PICK c \in {"blocked", "rolled_back", "finalized"} :
         /\ Write(req[r].at, c) /\ req'[r].found = req[r].found \cup {c}
         /\ c = "rolled_back" => req[r].pc \in {"void", "giveback"}
  BY ConcludeFields DEF Books
<1>3. Pending(req[r].at)
  BY <1>0, <1>1 DEF Facts, Engaged
<1>4. c = "rolled_back" /\ Sound(req[r].at) => req[r].at \notin settled
  BY <1>1, <1>2 DEF Facts, Decided
<1>5. World'
  BY <1>0, <1>1, <1>2, <1>3, <1>4, WorldWritten DEF Books, Status
<1>6. /\ \A o \in Requests \ {req[r].at} : journal'[o] = journal[o]
      /\ journal'[req[r].at].status = c
  BY <1>0, <1>2, TypeParts, WriteTyped DEF Books, TInv, Status
<1>7. Met(r)'
  <2> SUFFICES ASSUME NEW o \in Requests \ {r}, Pending(o)', o \notin unread \/ o \in req[r].listed
               PROVE  o \in req[r].left \/ "blocked" \in req'[r].found
    BY <1>0 DEF Met, OwnWork, Pending, Finished
  <2>1. CASE o = req[r].at
    BY <1>2, <1>6, <2>1 DEF Pending, Finished
  <2>2. CASE o # req[r].at
    <3>1. Pending(o)
      BY <1>6, <2>2 DEF Pending, Finished
    <3> QED BY <1>1, <1>2, <2>2, <3>1 DEF Facts, Met
  <2> QED BY <2>1, <2>2
<1> QED BY <1>0, <1>1, <1>5, <1>7, FactsIdle, QuietTurn

\* and goes on only when nothing is left that it knows of.
LEMMA EndRecoveryQuiet ==
  ASSUME Books, Books', Quiet, Grows, NEW r \in Requests, EndRecovery(r)
  PROVE  Quiet'
<1>0. /\ req[r].pc = "recover" /\ req[r].left = {}
      /\ UNCHANGED <<disk, journal, settled, unread, misseen>>
  BY DEF EndRecovery, history
<1>1. Facts(r) /\ Live(r) /\ Aside(r) /\ Owned(r)
  BY <1>0, LiveAside DEF Quiet, Live, Books
<1>2. World'
  BY <1>0, WorldRest DEF Books, Quiet
<1>3. PICK pc \in {"done", "audit"} : /\ req' = [req EXCEPT ![r].pc = pc]
                                      /\ pc = "audit" => "blocked" \notin req[r].found
  BY DEF EndRecovery
<1>4. /\ req'[r].pc = pc /\ \A s \in Requests \ {r} : req'[s] = req[s]
      /\ req'[r].listed = req[r].listed
  <2>1. pc \in Steps
    BY DEF Steps, OwnWork
  <2> QED BY <1>3, <2>1, PcFields DEF Books
<1>5. CASE pc = "done"
  <2>1. Facts(r)'
    BY <1>4, <1>5 DEF Facts, Live
  <2> QED BY <1>1, <1>2, <1>4, <2>1, QuietTurn
<1>6. CASE pc = "audit"
  <2>1. req[r].at = None /\ None \notin Requests
    BY <1>0, <1>1, ConstAssumption DEF Owned, Before, Judged
  <2>2. \A o \in Requests \ {r} : ~(Pending(o) /\ (o \notin unread \/ o \in req[r].listed))
    BY <1>0, <1>1, <1>3, <1>6, <2>1 DEF Facts, Met
  <2>3. Met(r)'
    BY <1>0, <1>4, <2>2 DEF Met, Pending, Finished
  <2> QED BY <1>1, <1>2, <1>4, <1>6, <2>3, FactsIdle, QuietTurn
<1> QED BY <1>5, <1>6

(* The operation of the request itself. *)

\* Only a request that copies is in the middle of a file.
LEMMA Stands ==
  ASSUME TInv, NEW r \in Requests, req[r].pc \notin Moving
  PROVE  req[r].step = "idle"
<1>1. Placed(req[r]) /\ req[r].step \in {"idle", "open", "full"}
  BY TypeParts DEF TInv, PlacedOK, ReqOK, ReqType
<1> QED BY <1>1 DEF Placed

\* So it is after a step.
LEMMA Stops ==
  ASSUME TInv', NEW r \in Requests, req'[r].pc \notin Moving
  PROVE  Carry(r)'
<1>1. Placed(req'[r]) /\ ReqOK'
  BY DEF TInv, PlacedOK, TypeOK, ReqOK, ReqType
<1>2. req'[r].step \in {"idle", "open", "full"}
  BY <1>1 DEF ReqOK, ReqType
<1> QED BY <1>1, <1>2 DEF Placed, Carry

\* A request that plans finds its files whole,
LEMMA AuditQuiet ==
  ASSUME Books, Books', Quiet, Grows, NEW r \in Requests, Audit(r)
  PROVE  Quiet'
<1>0. req[r].pc = "audit" /\ UNCHANGED <<disk, journal, settled, unread, misseen>>
  BY DEF Audit, history
<1>1. Facts(r) /\ Live(r) /\ Aside(r)
  BY <1>0, LiveAside DEF Quiet, Live
<1>2. World'
  BY <1>0, WorldRest DEF Books, Quiet
<1>3. CASE req' = Finish(r)
  BY <1>1, <1>2, <1>3, QuietEnds DEF Books
<1>4. ASSUME NEW S \in SUBSET Files, AllWhole(Library, S),
             req' = [req EXCEPT ![r].pc = "plan", ![r].todo = S]
      PROVE  Quiet'
  <2>1. /\ \A s \in Requests \ {r} : req'[s] = req[s]
        /\ req'[r].pc = "plan" /\ req'[r].todo = S
        /\ req'[r].at = req[r].at /\ req'[r].listed = req[r].listed
        /\ req'[r].left = req[r].left /\ req'[r].found = req[r].found
    BY <1>4, PlanningFields DEF Books
  <2>2. Met(r)'
    BY <1>0, <1>1, <2>1, MetRest DEF Facts, OwnWork
  <2>3. Carry(r)'
    BY <2>1, Stops DEF Books, Moving
  <2>4. Facts(r)'
    BY <1>0, <1>4, <2>1, <2>2, <2>3
    DEF Facts, Engaged, Judged, Applied, Forward, Back, Decided, Beside, AllWhole, Whole
  <2> QED BY <1>1, <1>2, <2>1, <2>4, QuietTurn
<1> QED BY <1>3, <1>4 DEF Audit, AllWhole, Whole

\* writes them down before it moves any,
LEMMA PlanQuiet ==
  ASSUME Books, Books', Quiet, Grows, NEW r \in Requests, Plan(r)
  PROVE  Quiet'
<1>0. req[r].pc = "plan" /\ UNCHANGED <<disk, settled, unread, misseen>>
  BY DEF Plan, history
<1>1. Facts(r) /\ Live(r) /\ Aside(r) /\ Owned(r) /\ World
  BY <1>0, LiveAside DEF Quiet, Live, Books
<1>2. CASE UNCHANGED journal /\ req' = Finish(r)
  BY <1>0, <1>1, <1>2, WorldRest, QuietEnds DEF Books
<1>3. CASE /\ journal' = [journal EXCEPT ![r] = [status |-> "planned", moves |-> req[r].todo]]
           /\ req' = [req EXCEPT ![r].pc = "move", ![r].at = r]
  <2>1. /\ journal'[r].status = "planned" /\ journal'[r].moves = req[r].todo
        /\ \A o \in Requests \ {r} : journal'[o] = journal[o]
    BY <1>3, TypeParts DEF Books, TInv, JournalOK
  <2>2. /\ \A s \in Requests \ {r} : req'[s] = req[s]
        /\ req'[r].pc = "move" /\ req'[r].at = r
        /\ req'[r].todo = req[r].todo /\ req'[r].listed = req[r].listed
        /\ req'[r].left = req[r].left /\ req'[r].found = req[r].found
        /\ req'[r].step = req[r].step /\ req'[r].moved = req[r].moved
        /\ req'[r].undone = req[r].undone
    BY <1>3, AppliesFields DEF Books
  <2>3. /\ AllWhole(Library, req[r].todo) /\ r \notin settled
        /\ req[r].moved = {} /\ req[r].undone = {} /\ req[r].step = "idle"
    BY <1>0, <1>1, Stands DEF Facts, Forward, Owned, Before, Books, Shelved, Moving
  <2>4. World'
    <3>1. settled \subseteq Requests
      BY TypeParts DEF Books, TInv
    <3>2. Twins'
      <4> SUFFICES ASSUME NEW o \in Requests, Firm(o)', NEW f \in journal'[o].moves
                   PROVE  Whole(o, f) \/ Whole(Library, f)
        BY <1>0 DEF Twins, Whole
      <4>1. CASE o = r
        BY <2>1, <2>3, <4>1 DEF AllWhole
      <4>2. CASE o # r
        BY <1>0, <1>1, <2>1, <4>2 DEF World, Twins, Firm, Pending, Finished, Sound
      <4> QED BY <4>1, <4>2
    <3>3. Kept'
      BY <1>0, <1>1, <2>1, <2>3, <3>1 DEF World, Kept, Sound, AllWhole, Whole
    <3>4. Somewhere'
      BY <1>0, <1>1 DEF World, Somewhere, Whole
    <3> QED BY <3>2, <3>3, <3>4 DEF World
  <2>5. Engaged(r)'
    BY <1>0, <2>1, <2>2, <2>3 DEF Engaged, Pending, Finished, Judged, Applied
  <2>6. Met(r)'
    BY <1>0, <1>1, <2>1, <2>2, MetRest DEF Facts, OwnWork
  <2>7. Forward(r)'
    BY <1>0, <2>1, <2>2, <2>3 DEF Forward, AllWhole, Whole
  <2>8. Carry(r)' /\ Back(r)' /\ Decided(r)' /\ Beside(r)'
    BY <2>2, <2>3 DEF Carry, Back, Decided, Beside
  <2>9. Facts(r)'
    BY <2>5, <2>6, <2>7, <2>8 DEF Facts
  <2> QED BY <1>1, <2>2, <2>4, <2>9, QuietTurn
<1> QED BY <1>2, <1>3 DEF Plan

\* ends with what became of them,
LEMMA EndsQuiet ==
  ASSUME Books, Books', Quiet, Grows, NEW r \in Requests,
         Refuse(r) \/ Undone(r) \/ Seal(r) \/ WriteFails(r)
  PROVE  Quiet'
<1>0. UNCHANGED <<disk, settled>> /\ req' = Finish(r) /\ req[r].pc \notin {"new", "done"}
  BY DEF Refuse, Undone, Seal, WriteFails, Moving
<1>1. Facts(r) /\ Live(r) /\ Aside(r) /\ Owned(r) /\ World
  BY <1>0, LiveAside DEF Quiet, Live, Books
<1>2. World'
  <2>1. CASE WriteFails(r)
    BY <1>1, <2>1, WorldRest DEF WriteFails, Books
  <2>2. CASE Refuse(r) \/ Undone(r) \/ Seal(r)
    <3>1. PICK c \in {"blocked", "rolled_back", "finalized"} :
             Write(r, c) /\ (c = "rolled_back" => req[r].pc = "undo")
      BY <2>2 DEF Refuse, Undone, Seal
    <3>2. req[r].pc \in {"move", "undo", "seal"}
      BY <2>2 DEF Refuse, Undone, Seal
    <3>3. Pending(r) /\ (c = "rolled_back" => r \notin settled)
      BY <1>1, <3>1, <3>2 DEF Facts, Engaged, Owned, Applied
    <3> QED BY <1>0, <1>1, <3>1, <3>3, WorldWritten DEF Books, Status
  <2> QED BY <2>1, <2>2
<1> QED BY <1>0, <1>1, <1>2, QuietEnds DEF Books

\* awaits the rows when all are moved,
LEMMA AwaitQuiet ==
  ASSUME Books, Books', Quiet, Grows, NEW r \in Requests, Await(r)
  PROVE  Quiet'
<1>0. /\ req[r].pc = "move" /\ req[r].todo = {} /\ Write(r, "awaiting")
      /\ req' = [req EXCEPT ![r].pc = "settle"]
      /\ UNCHANGED <<disk, settled, unread, misseen>>
  BY DEF Await, history
<1>1. Facts(r) /\ Live(r) /\ Aside(r) /\ Owned(r) /\ World
  BY <1>0, LiveAside DEF Quiet, Live, Books
<1>2. Pending(r) /\ req[r].at = r /\ r \notin settled /\ AllWhole(r, journal[r].moves)
  BY <1>0, <1>1 DEF Facts, Engaged, Owned, Applied, Forward
<1>3. World'
  BY <1>0, <1>1, <1>2, WorldWritten DEF Books, Status
<1>4. /\ journal'[r].status = "awaiting" /\ journal'[r].moves = journal[r].moves
      /\ \A o \in Requests \ {r} : journal'[o] = journal[o]
  BY <1>0, TypeParts, WriteTyped DEF Books, TInv, Status
<1>5. /\ \A s \in Requests \ {r} : req'[s] = req[s]
      /\ req'[r].pc = "settle" /\ req'[r].at = req[r].at /\ req'[r].listed = req[r].listed
      /\ req'[r].left = req[r].left /\ req'[r].found = req[r].found
  BY <1>0, PcFields DEF Books, Steps, OwnWork
<1>6. Met(r)'
  BY <1>0, <1>1, <1>4, <1>5, MetRest DEF Facts, OwnWork
<1>7. Carry(r)'
  BY <1>5, Stops DEF Books, Moving
<1>8. Facts(r)'
  BY <1>0, <1>2, <1>4, <1>5, <1>6, <1>7
  DEF Facts, Engaged, Pending, Finished, Forward, Back, Decided, Beside, AllWhole, Whole
<1> QED BY <1>1, <1>3, <1>5, <1>8, QuietTurn

\* and settles those only.
LEMMA SettleQuiet ==
  ASSUME Books, Books', Quiet, Grows, NEW r \in Requests, Settle(r)
  PROVE  Quiet'
<1>0. req[r].pc \in {"settle", "resettle"} /\ UNCHANGED <<disk, journal, unread, misseen>>
  BY DEF Settle, history
<1>1. Facts(r) /\ Live(r) /\ Aside(r) /\ Owned(r) /\ World
  BY <1>0, LiveAside DEF Quiet, Live, Books
<1>2. CASE UNCHANGED settled /\ req' = Finish(r)
  BY <1>0, <1>1, <1>2, WorldRest, QuietEnds DEF Books
<1>3. CASE /\ settled' = settled \cup {req[r].at}
           /\ req' = [req EXCEPT ![r].pc = IF req[r].pc = "settle" THEN "seal" ELSE "reseal"]
  <2>1. PICK pc \in {"seal", "reseal"} : /\ req' = [req EXCEPT ![r].pc = pc]
                                         /\ pc = "seal" <=> req[r].pc = "settle"
    BY <1>3
  <2>2. /\ \A s \in Requests \ {r} : req'[s] = req[s]
        /\ req'[r].pc = pc /\ req'[r].at = req[r].at /\ req'[r].listed = req[r].listed
        /\ req'[r].left = req[r].left /\ req'[r].found = req[r].found
    <3>1. pc \in Steps
      BY DEF Steps, OwnWork
    <3> QED BY <2>1, <3>1, PcFields DEF Books
  <2>3. /\ req[r].at \in Requests /\ Pending(req[r].at)
        /\ Sound(req[r].at) => AllWhole(req[r].at, journal[req[r].at].moves)
    <3>1. req[r].at \in Requests /\ Pending(req[r].at)
      BY <1>0, <1>1 DEF Facts, Engaged, Owned, Judged, Applied
    <3>2. CASE req[r].pc = "settle"
      BY <1>1, <3>1, <3>2 DEF Facts, Forward, Owned, Applied
    <3>3. CASE req[r].pc = "resettle"
      BY <1>1, <3>1, <3>3 DEF Facts, Decided
    <3> QED BY <1>0, <3>1, <3>2, <3>3
  <2>4. World'
    <3>1. Twins' /\ Somewhere'
      BY <1>0, <1>1 DEF World, Twins, Somewhere, Firm, Pending, Finished, Sound, Whole
    <3>2. Kept'
      BY <1>0, <1>1, <1>3, <2>3 DEF World, Kept, Pending, Finished, Sound, AllWhole, Whole
    <3> QED BY <3>1, <3>2 DEF World
  <2>5. Met(r)'
    BY <1>0, <1>1, <2>1, <2>2, MetRest DEF Facts, OwnWork
  <2>6. Carry(r)'
    BY <2>2, Stops DEF Books, Moving
  <2>7. Engaged(r)'
    BY <1>0, <2>2, <2>3 DEF Engaged, Pending, Finished
  <2>8. Forward(r)' /\ Back(r)' /\ Decided(r)' /\ Beside(r)'
    BY <2>2 DEF Forward, Back, Decided, Beside
  <2>9. Facts(r)'
    BY <2>5, <2>6, <2>7, <2>8 DEF Facts
  <2> QED BY <1>1, <2>2, <2>4, <2>9, QuietTurn
<1> QED BY <1>2, <1>3 DEF Settle

\* An exception leaves what is moved to be undone.
LEMMA RaiseQuiet ==
  ASSUME Books, Books', Quiet, Grows, UNCHANGED <<disk, journal, settled>>,
         NEW r \in Requests, req[r].pc \in Moving \cup {"record"}, req' = Raise(r),
         req[r].pc = "record" => Whole(Library, req[r].file) \/ req[r].file \in misseen'
  PROVE  Quiet'
<1>1. Facts(r) /\ Live(r) /\ Aside(r) /\ Owned(r)
  BY LiveAside DEF Quiet, Live, Books, Moving
<1>2. World'
  BY WorldRest DEF Books, Quiet
<1>3. CASE req[r].pc \notin {"move", "record", "undo"}
  <2>1. req'[r] = Gone /\ \A s \in Requests \ {r} : req'[s] = req[s]
    BY <1>3, RaiseFields DEF Books
  <2>2. Facts(r)'
    BY <2>1, GoneTyped DEF Facts, Live
  <2> QED BY <1>1, <1>2, <2>1, <2>2, QuietTurn
<1>4. CASE req[r].pc \in {"move", "record", "undo"}
  <2>1. /\ \A s \in Requests \ {r} : req'[s] = req[s]
        /\ req'[r].pc = "undo" /\ req'[r].at = req[r].at
        /\ req[r].pc = "undo" => req'[r].todo = req[r].todo \ {req[r].file}
        /\ req[r].pc # "undo" => req'[r].todo = req[r].moved
        /\ req'[r].listed = req[r].listed /\ req'[r].left = req[r].left
        /\ req'[r].found = req[r].found
        /\ req'[r].step = "idle" /\ req'[r].moved = req[r].moved
        /\ req'[r].undone = req[r].undone
    BY <1>4, RaiseFields DEF Books
  <2>2. /\ Pending(r) /\ req[r].at = r /\ r \notin settled
        /\ req[r].pc # "undo" => req[r].undone = {}
    BY <1>1, <1>4 DEF Facts, Engaged, Owned, Applied
  <2>3. Engaged(r)'
    BY <2>1, <2>2 DEF Engaged, Pending, Finished
  <2>4. Met(r)'
    BY <1>1, <1>4, <2>1, MetRest DEF Facts, OwnWork
  <2>5. Back(r)'
    <3>1. /\ req'[r].todo \subseteq req[r].moved \ req[r].undone
          /\ AllWhole(r, req[r].moved \ req[r].undone)
          /\ AllWhole(Library, req[r].undone)
          /\ AllWhole(Library, (journal[r].moves \ req[r].moved) \ misseen')
      <4>1. CASE req[r].pc = "undo"
        BY <1>1, <2>1, <4>1 DEF Facts, Back, AllWhole, Grows
      <4>2. CASE req[r].pc = "move"
        BY <1>1, <2>1, <2>2, <4>2 DEF Facts, Forward, AllWhole
      <4>3. CASE req[r].pc = "record"
        <5>1. /\ req[r].todo \cup req[r].moved = journal[r].moves /\ AllWhole(r, req[r].moved)
              /\ AllWhole(Library, req[r].todo \ {req[r].file})
          BY <1>1, <4>3 DEF Facts, Forward
        <5> QED BY <2>1, <2>2, <4>3, <5>1 DEF AllWhole
      <4> QED BY <1>4, <4>1, <4>2, <4>3
    <3> QED BY <2>1, <3>1 DEF Back, AllWhole, Whole
  <2>6. Carry(r)' /\ Forward(r)' /\ Decided(r)' /\ Beside(r)'
    BY <2>1 DEF Carry, Forward, Decided, Beside
  <2>7. Facts(r)'
    BY <2>3, <2>4, <2>5, <2>6 DEF Facts
  <2> QED BY <1>1, <1>2, <2>1, <2>7, QuietTurn
<1> QED BY <1>3, <1>4

\* What cannot be undone is left where it is.
LEMMA LeavesOutQuiet ==
  ASSUME Books, Books', Quiet, Grows, UNCHANGED <<disk, journal, settled>>,
         NEW r \in Requests, req[r].pc = "undo", req[r].step = "idle",
         NEW f, req' = [req EXCEPT ![r].todo = @ \ {f}]
  PROVE  Quiet'
<1>1. Facts(r) /\ Live(r) /\ Aside(r) /\ Owned(r)
  BY LiveAside DEF Quiet, Live, Books
<1>2. World'
  BY WorldRest DEF Books, Quiet
<1>3. /\ \A s \in Requests \ {r} : req'[s] = req[s]
      /\ req'[r].pc = req[r].pc /\ req'[r].at = req[r].at
      /\ req'[r].todo = req[r].todo \ {f} /\ req'[r].listed = req[r].listed
      /\ req'[r].left = req[r].left /\ req'[r].found = req[r].found
      /\ req'[r].step = req[r].step /\ req'[r].moved = req[r].moved
      /\ req'[r].undone = req[r].undone
  BY LeavesOutFields DEF Books
<1>4. Engaged(r)' /\ Back(r)'
  BY <1>1, <1>3 DEF Facts, Engaged, Pending, Finished, Back, AllWhole, Whole, Grows
<1>5. Met(r)'
  BY <1>1, <1>3, MetRest DEF Facts, OwnWork
<1>6. Carry(r)' /\ Forward(r)' /\ Decided(r)' /\ Beside(r)'
  BY <1>3 DEF Carry, Forward, Decided, Beside
<1>7. Facts(r)'
  BY <1>4, <1>5, <1>6 DEF Facts
<1> QED BY <1>1, <1>2, <1>3, <1>7, QuietTurn

\* A moved file is noted, or everything is to be undone.
LEMMA RecordQuiet ==
  ASSUME Books, Books', Quiet, Grows, NEW r \in Requests, Record(r)
  PROVE  Quiet'
<1> DEFINE f == req[r].file
<1>0. req[r].pc = "record" /\ UNCHANGED <<disk, settled, unread>>
  BY DEF Record
<1>1. Facts(r) /\ Live(r) /\ Aside(r) /\ Owned(r) /\ World
  BY <1>0, LiveAside DEF Quiet, Live, Books
<1>2. f \in req[r].todo /\ f \in Files
  BY RecordFields DEF Books
<1>3. PICK dark \in Dark({Library, r}, {f}) :
         /\ Misses(dark)
         /\ \/ /\ Shows(Library, f, dark) \/ ~Shows(r, f, dark)
               /\ req' = Raise(r) /\ UNCHANGED journal
            \/ /\ \A s \in Requests \ {r} : req'[s] = req[s]
               /\ \/ /\ Write(r, "moving") /\ req'[r].pc = "move"
                     /\ req'[r].todo = req[r].todo \ {f}
                  \/ /\ UNCHANGED journal /\ req'[r].pc = "undo"
                     /\ req'[r].todo = req[r].moved \cup {f}
               /\ req'[r].at = req[r].at /\ req'[r].step = "idle"
               /\ req'[r].moved = req[r].moved \cup {f}
               /\ req'[r].undone = req[r].undone
               /\ req'[r].listed = req[r].listed /\ req'[r].left = req[r].left
               /\ req'[r].found = req[r].found
  BY RecordFields DEF Books
<1>4. /\ Pending(r) /\ req[r].at = r /\ r \notin settled /\ req[r].undone = {}
      /\ req[r].todo \cup req[r].moved = journal[r].moves /\ req[r].todo \cap req[r].moved = {}
      /\ AllWhole(r, req[r].moved) /\ Whole(r, f) /\ disk[Library][f] # "part"
      /\ AllWhole(Library, req[r].todo \ {f})
  BY <1>0, <1>1 DEF Facts, Engaged, Owned, Applied, Forward
<1> HIDE DEF f
<1>5. CASE /\ Shows(Library, f, dark) \/ ~Shows(r, f, dark)
           /\ req' = Raise(r) /\ UNCHANGED journal
  <2>1. CASE Shows(Library, f, dark)
    <3>1. disk[Library][f] \in {"part", "whole"}
      BY <1>2, <2>1, TypeParts DEF Shows, Exists, Books, TInv, DiskOK, Places
    <3> QED BY <1>0, <1>4, <1>5, <3>1, RaiseQuiet DEF Whole, f
  <2>2. CASE ~Shows(r, f, dark)
    <3>1. f \in misseen'
      BY <1>3, <1>4, <2>2, Noticed DEF Whole, Exists
    <3> QED BY <1>0, <1>5, <3>1, RaiseQuiet DEF f
  <2> QED BY <1>5, <2>1, <2>2
<1>6. CASE /\ \A s \in Requests \ {r} : req'[s] = req[s]
           /\ Write(r, "moving") /\ req'[r].pc = "move"
           /\ req'[r].todo = req[r].todo \ {f}
           /\ req'[r].at = req[r].at /\ req'[r].step = "idle"
           /\ req'[r].moved = req[r].moved \cup {f}
           /\ req'[r].undone = req[r].undone
           /\ req'[r].listed = req[r].listed /\ req'[r].left = req[r].left
           /\ req'[r].found = req[r].found
  <2>1. World'
    BY <1>0, <1>1, <1>4, <1>6, WorldWritten DEF Books, Status
  <2>2. /\ journal'[r].status = "moving" /\ journal'[r].moves = journal[r].moves
        /\ \A o \in Requests \ {r} : journal'[o] = journal[o]
    BY <1>6, TypeParts, WriteTyped DEF Books, TInv, Status
  <2>3. Met(r)'
    BY <1>0, <1>1, <1>6, <2>2, MetRest DEF Facts, OwnWork
  <2>4. Engaged(r)'
    BY <1>4, <1>6, <1>0, <2>2 DEF Engaged, Pending, Finished
  <2>5. Forward(r)'
    <3>1. /\ req'[r].todo \cup req'[r].moved = journal[r].moves
          /\ req'[r].todo \cap req'[r].moved = {}
          /\ AllWhole(r, req'[r].moved) /\ AllWhole(Library, req'[r].todo)
      BY <1>2, <1>4, <1>6 DEF AllWhole
    <3> QED BY <1>0, <1>6, <2>2, <3>1 DEF Forward, AllWhole, Whole
  <2>6. Carry(r)' /\ Back(r)' /\ Decided(r)' /\ Beside(r)'
    BY <1>6 DEF Carry, Back, Decided, Beside
  <2>7. Facts(r)'
    BY <2>3, <2>4, <2>5, <2>6 DEF Facts
  <2> QED BY <1>1, <1>6, <2>1, <2>7, QuietTurn
<1>7. CASE /\ \A s \in Requests \ {r} : req'[s] = req[s]
           /\ UNCHANGED journal /\ req'[r].pc = "undo"
           /\ req'[r].todo = req[r].moved \cup {f}
           /\ req'[r].at = req[r].at /\ req'[r].step = "idle"
           /\ req'[r].moved = req[r].moved \cup {f}
           /\ req'[r].undone = req[r].undone
           /\ req'[r].listed = req[r].listed /\ req'[r].left = req[r].left
           /\ req'[r].found = req[r].found
  <2>1. World'
    BY <1>0, <1>1, <1>7, WorldRest DEF Books
  <2>2. Met(r)'
    BY <1>0, <1>1, <1>7, MetRest DEF Facts, OwnWork
  <2>3. Engaged(r)'
    BY <1>4, <1>7, <1>0 DEF Engaged, Pending, Finished
  <2>4. Back(r)'
    <3>1. /\ req'[r].todo \subseteq req'[r].moved \ req'[r].undone
          /\ AllWhole(r, req'[r].moved \ req'[r].undone) /\ AllWhole(Library, req'[r].undone)
          /\ AllWhole(Library, journal[r].moves \ req'[r].moved)
      BY <1>2, <1>4, <1>7 DEF AllWhole
    <3> QED BY <1>0, <1>7, <3>1 DEF Back, AllWhole, Whole
  <2>5. Carry(r)' /\ Forward(r)' /\ Decided(r)' /\ Beside(r)'
    BY <1>7 DEF Carry, Forward, Decided, Beside
  <2>6. Facts(r)'
    BY <2>2, <2>3, <2>4, <2>5 DEF Facts
  <2> QED BY <1>1, <1>7, <2>1, <2>6, QuietTurn
<1> QED BY <1>3, <1>5, <1>6, <1>7

(* shutil.move. *)

\* A copy is begun beside a whole one, and over none that anybody needs,
LEMMA OpenQuiet ==
  ASSUME Books, Books', Quiet, Grows, NEW r \in Requests, Open(r)
  PROVE  Quiet'
<1>0. req[r].pc \in Moving /\ UNCHANGED <<journal, settled, unread>>
  BY DEF Open
<1>1. Facts(r) /\ Live(r) /\ Aside(r) /\ Owned(r) /\ World
  BY <1>0, LiveAside DEF Quiet, Live, Books, Moving
<1>2. /\ \A s \in Requests \ {r} : req'[s] = req[s]
      /\ req[r].at \in Requests
      /\ req'[r].pc = req[r].pc /\ req'[r].at = req[r].at /\ req'[r].step = "open"
      /\ req'[r].listed = req[r].listed /\ req'[r].left = req[r].left
      /\ req'[r].found = req[r].found /\ req'[r].todo = req[r].todo
      /\ req'[r].moved = req[r].moved /\ req'[r].undone = req[r].undone
  BY OpenFields DEF Books
<1>3. PICK f \in req[r].todo : \E dark \in Dark({Library}, {f}) :
         /\ Misses(dark) /\ Exists(Origin(r), f)
         /\ req[r].pc = "undo" => ~Shows(Library, f, dark)
         /\ f \in Files /\ OnlyThere(Target(r), f, "part")
         /\ req'[r].file = f /\ req'[r].reads = disk[Origin(r)][f]
  BY OpenFields DEF Books
<1>4. PICK dark \in Dark({Library}, {f}) :
         /\ Misses(dark) /\ Exists(Origin(r), f)
         /\ req[r].pc = "undo" => ~Shows(Library, f, dark)
         /\ f \in Files /\ OnlyThere(Target(r), f, "part")
         /\ req'[r].file = f /\ req'[r].reads = disk[Origin(r)][f]
  BY <1>3
<1>5. /\ Library \in Places /\ Requests \subseteq Places /\ Library \notin Requests
      /\ Origin(r) \in Places /\ Target(r) \in Places /\ Origin(r) # Target(r)
  BY <1>2, MovingPlaces, ConstAssumption DEF Places
<1>6. /\ disk'[Target(r)][f] = "part"
      /\ \A p \in Places, g \in Files : p # Target(r) \/ g # f => disk'[p][g] = disk[p][g]
  BY <1>4, <1>5 DEF OnlyThere
<1>7. /\ req[r].todo \subseteq Files /\ \A o \in Requests : journal[o].moves \subseteq Files
      /\ settled \subseteq Requests /\ req[r].moved \subseteq Files /\ req[r].undone \subseteq Files
  BY TypeParts DEF Books, TInv, JournalOK, ReqOK, ReqType
<1>8. Engaged(r)'
  BY <1>0, <1>1, <1>2 DEF Facts, Engaged, Pending, Finished
<1>9. Met(r)'
  BY <1>0, <1>1, <1>2, MetRest DEF Facts
<1>10. Carry(r)'
  BY <1>2, <1>4, <1>5, <1>6 DEF Carry, Exists, Origin, Target
<1>11. CASE req[r].pc = "move"
  <2>1. /\ Target(r) = r /\ r \notin settled /\ f \notin req[r].moved /\ Whole(Library, f)
        /\ AllWhole(r, req[r].moved) /\ AllWhole(Library, req[r].todo)
        /\ req[r].todo \cup req[r].moved = journal[r].moves
        /\ req[r].todo \cap req[r].moved = {}
    BY <1>1, <1>11 DEF Facts, Engaged, Forward, Owned, Applied, Target, AllWhole
  <2>2. disk'[Library][f] = "whole"
    BY <1>4, <1>5, <1>6, <2>1 DEF Whole
  <2>3. \A o \in settled : Sound(o) /\ f \in journal[o].moves => disk'[o][f] = "whole"
    BY <1>1, <1>4, <1>5, <1>6, <1>7, <2>1 DEF World, Kept, AllWhole, Whole
  <2>4. World'
    BY <1>0, <1>1, <1>4, <1>5, <2>2, <2>3, WorldMoved DEF Books
  <2>5. Forward(r)'
    <3>1. \A g \in req[r].moved : disk'[r][g] = "whole"
      BY <1>5, <1>6, <1>7, <2>1 DEF AllWhole, Whole
    <3>2. \A g \in req[r].todo : disk'[Library][g] = "whole"
      BY <1>5, <1>6, <1>7, <2>1 DEF AllWhole, Whole
    <3> QED BY <1>0, <1>2, <1>11, <2>1, <3>1, <3>2 DEF Forward, AllWhole, Whole
  <2>6. Back(r)' /\ Decided(r)' /\ Beside(r)'
    BY <1>2, <1>11 DEF Back, Decided, Beside
  <2>7. Facts(r)'
    BY <1>8, <1>9, <1>10, <2>5, <2>6 DEF Facts
  <2> QED BY <1>1, <1>2, <2>4, <2>7, QuietTurn
<1>12. CASE req[r].pc = "undo"
  <2>1. /\ Target(r) = Library /\ Whole(r, f) /\ f \in req[r].moved /\ f \notin req[r].undone
        /\ req[r].todo \subseteq req[r].moved \ req[r].undone
        /\ AllWhole(r, req[r].moved \ req[r].undone) /\ AllWhole(Library, req[r].undone)
        /\ AllWhole(Library, (journal[r].moves \ req[r].moved) \ misseen)
    BY <1>1, <1>12 DEF Facts, Back, Target, AllWhole
  <2>2. f \notin misseen' => ~Whole(Library, f)
    BY <1>4, <1>12, Noticed DEF Whole, Exists
  <2>3. \A o \in Requests : disk'[o][f] = disk[o][f]
    BY <1>4, <1>5, <1>6, <2>1
  <2>4. \A o \in Requests : Firm(o) /\ f \in journal[o].moves /\ f \notin misseen' =>
            disk'[o][f] = "whole"
    BY <1>1, <2>2, <2>3 DEF World, Twins, Whole
  <2>5. \A o \in settled : Sound(o) /\ f \in journal[o].moves => disk'[o][f] = "whole"
    BY <1>1, <1>7, <2>3 DEF World, Kept, AllWhole, Whole
  <2>6. World'
    BY <1>0, <1>1, <1>4, <1>5, <2>1, <2>3, <2>4, <2>5, WorldMoved DEF Books, Whole
  <2>7. Back(r)'
    <3>1. \A g \in req[r].moved \ req[r].undone : disk'[r][g] = "whole"
      BY <1>5, <1>6, <1>7, <2>1 DEF AllWhole, Whole
    <3>2. \A g \in req[r].undone : disk'[Library][g] = "whole"
      BY <1>5, <1>6, <1>7, <2>1 DEF AllWhole, Whole
    <3>3. \A g \in (journal[r].moves \ req[r].moved) \ misseen : disk'[Library][g] = "whole"
      BY <1>5, <1>6, <1>7, <2>1 DEF AllWhole, Whole
    <3> QED BY <1>0, <1>2, <2>1, <3>1, <3>2, <3>3 DEF Back, AllWhole, Whole, Grows
  <2>8. Forward(r)' /\ Decided(r)' /\ Beside(r)'
    BY <1>2, <1>12 DEF Forward, Decided, Beside
  <2>9. Facts(r)'
    BY <1>8, <1>9, <1>10, <2>7, <2>8 DEF Facts
  <2> QED BY <1>1, <1>2, <2>6, <2>9, QuietTurn
<1>13. CASE req[r].pc = "giveback"
  <2> DEFINE o == req[r].at
  <2>1. /\ Target(r) = Library /\ o \in Requests /\ Decided(r) /\ Beside(r)
    BY <1>1, <1>2, <1>13 DEF Facts, Target
  <2>2. \A q \in Requests, g \in Files : disk'[q][g] = disk[q][g]
    BY <1>5, <1>6, <2>1
  <2>3. \A g \in Files : g # f => disk'[Library][g] = disk[Library][g]
    BY <1>5, <1>6
  <2>4. \A q \in Requests : Firm(q) /\ f \in journal[q].moves /\ f \notin misseen' =>
            disk'[q][f] = "whole"
    BY <1>4, <1>13, <2>1, <2>2 DEF Decided, Beside, AllWhole, Whole, Grows, Firm
  <2>5. \A q \in settled : Sound(q) /\ f \in journal[q].moves => disk'[q][f] = "whole"
    BY <1>1, <1>4, <1>7, <2>2 DEF World, Kept, AllWhole, Whole
  <2>6. f \notin misseen' => \E q \in Places : disk'[q][f] = "whole"
    BY <1>4, <1>5, <1>13, <2>1, <2>2 DEF Beside, Whole, Grows
  <2>7. World'
    BY <1>0, <1>1, <1>4, <1>5, <2>4, <2>5, <2>6, WorldMoved DEF Books
  <2> HIDE DEF o
  <2>8. Decided(r)'
    <3> SUFFICES ASSUME Sound(o)
                 PROVE  /\ o \notin settled /\ \A g \in req[r].todo : disk'[o][g] = "whole"
                        /\ \A g \in journal[o].moves \ req[r].todo : disk'[Library][g] = "whole"
      BY <1>0, <1>2, <1>13 DEF Decided, AllWhole, Whole, Sound, Grows, o
    <3>1. /\ o \notin settled /\ AllWhole(o, req[r].todo)
          /\ AllWhole(Library, journal[o].moves \ req[r].todo)
      BY <1>13, <2>1 DEF Decided, o
    <3> QED BY <1>3, <1>7, <2>1, <2>2, <2>3, <3>1 DEF AllWhole, Whole, o
  <2>9. Beside(r)'
    <3> SUFFICES ASSUME NEW g \in req[r].todo, g \notin misseen'
                 PROVE  /\ \E q \in Requests : disk'[q][g] = "whole"
                        /\ \A q \in Requests \ {o} : Firm(q)' /\ g \in journal[q].moves =>
                               disk'[q][g] = "whole"
      BY <1>0, <1>2 DEF Beside, Whole, o
    <3>1. \A q \in Requests : Firm(q)' => Firm(q)
      BY <1>0 DEF Grows, Firm, Pending, Finished, Sound
    <3>2. g \in Files /\ g \notin misseen
      BY <1>7 DEF Grows
    <3> QED BY <1>13, <2>1, <2>2, <3>1, <3>2 DEF Beside, Whole, o
  <2>10. Forward(r)' /\ Back(r)'
    BY <1>2, <1>13 DEF Forward, Back
  <2>11. Facts(r)'
    BY <1>8, <1>9, <1>10, <2>8, <2>9, <2>10 DEF Facts
  <2> QED BY <1>1, <1>2, <2>7, <2>11, QuietTurn
<1> QED BY <1>0, <1>11, <1>12, <1>13 DEF Moving

\* What is known of the files stays true while whole files stay whole and the
\* request goes on with the same work.
LEMMA FactsFlow ==
  ASSUME NEW r \in Requests, Books, Live(r), Facts(r), Grows, UNCHANGED <<journal, settled>>,
         req'[r].pc = req[r].pc, req'[r].at = req[r].at, req'[r].file = req[r].file,
         req'[r].listed = req[r].listed, req'[r].left = req[r].left, req'[r].found = req[r].found,
         req'[r].todo = req[r].todo, req'[r].moved = req[r].moved, req'[r].undone = req[r].undone,
         Carry(r)',
         \A p \in Places, f \in Files : disk[p][f] = "whole" => disk'[p][f] = "whole",
         req[r].pc = "record" => disk'[Library][req[r].file] # "part"
  PROVE  Facts(r)'
<1>1. /\ req[r] \in ReqType /\ \A o \in Requests : journal[o].moves \subseteq Files
      /\ Owned(r) /\ Placed(req[r])
      /\ Library \in Places /\ Requests \subseteq Places
  BY TypeParts DEF Books, TInv, JournalOK, ReqOK, Places, PlacedOK
<1>2. /\ req[r].todo \subseteq Files /\ req[r].moved \subseteq Files /\ req[r].undone \subseteq Files
      /\ req[r].pc = "record" => req[r].file \in Files
  BY <1>1 DEF ReqType, Placed
<1>3. \A S \in SUBSET Files, p \in Places : AllWhole(p, S) => \A f \in S : disk'[p][f] = "whole"
  BY DEF AllWhole, Whole
<1>4. Engaged(r)'
  BY DEF Facts, Engaged, Pending, Finished
<1>5. Met(r)'
  BY MetRest DEF Facts
<1>6. Forward(r)'
  BY <1>1, <1>2, <1>3 DEF Facts, Forward, AllWhole, Whole
<1>7. Back(r)'
  <2> SUFFICES ASSUME req[r].pc = "undo" PROVE Back(r)'
    BY DEF Back
  <2>1. Back(r)
    BY DEF Facts
  <2>2. /\ \A f \in req[r].moved \ req[r].undone : disk'[r][f] = "whole"
        /\ \A f \in req[r].undone : disk'[Library][f] = "whole"
        /\ \A f \in (journal[r].moves \ req[r].moved) \ misseen : disk'[Library][f] = "whole"
    BY <1>1, <1>2, <2>1 DEF Back, AllWhole, Whole
  <2> QED BY <2>1, <2>2 DEF Back, AllWhole, Whole, Grows
<1>8. Decided(r)'
  <2> SUFFICES ASSUME req[r].pc \in {"resettle", "void", "giveback"} PROVE Decided(r)'
    BY DEF Decided
  <2>1. Decided(r) /\ req[r].at \in Requests
    BY <1>1 DEF Facts, Owned, Judged
  <2> QED BY <1>1, <1>2, <2>1 DEF Decided, Sound, AllWhole, Whole, Grows
<1>9. Beside(r)'
  <2> SUFFICES ASSUME req[r].pc = "giveback", NEW g \in req[r].todo, g \notin misseen'
               PROVE  /\ \E q \in Requests : disk'[q][g] = "whole"
                      /\ \A q \in Requests \ {req[r].at} : Firm(q)' /\ g \in journal[q].moves =>
                             disk'[q][g] = "whole"
    BY DEF Beside, Whole
  <2>1. \A q \in Requests : Firm(q)' => Firm(q)
    BY DEF Grows, Firm, Pending, Finished, Sound
  <2>2. g \in Files /\ g \notin misseen /\ Beside(r)
    BY <1>2 DEF Grows, Facts
  <2> QED BY <1>1, <2>1, <2>2 DEF Beside, Whole
<1> QED BY <1>4, <1>5, <1>6, <1>7, <1>8, <1>9 DEF Facts

\* is filled with what is read,
LEMMA FillQuiet ==
  ASSUME Books, Books', Quiet, Grows, NEW r \in Requests, Fill(r)
  PROVE  Quiet'
<1>0. UNCHANGED <<journal, settled, unread, misseen>> /\ req[r].step = "open"
  BY DEF Fill, history
<1>1. /\ \A s \in Requests \ {r} : req'[s] = req[s]
      /\ req[r].file \in Files /\ req[r].file \in req[r].todo /\ req[r].at \in Requests
      /\ OnlyThere(Target(r), req[r].file, req[r].reads)
      /\ req[r].pc \in Moving /\ req'[r].step = "full"
      /\ req'[r].pc = req[r].pc /\ req'[r].at = req[r].at /\ req'[r].file = req[r].file
      /\ req'[r].reads = req[r].reads
      /\ req'[r].listed = req[r].listed /\ req'[r].left = req[r].left
      /\ req'[r].found = req[r].found /\ req'[r].todo = req[r].todo
      /\ req'[r].moved = req[r].moved /\ req'[r].undone = req[r].undone
  BY FillFields DEF Books
<1>2. Facts(r) /\ Live(r) /\ Aside(r) /\ World
  BY <1>1, LiveAside DEF Quiet, Live, Moving
<1>3. /\ req[r].reads # "none" /\ disk[Origin(r)][req[r].file] = req[r].reads
      /\ disk[Target(r)][req[r].file] = "part"
  BY <1>0, <1>2 DEF Facts, Carry
<1>4. Origin(r) \in Places /\ Target(r) \in Places /\ Origin(r) # Target(r)
  BY <1>1, MovingPlaces
<1>5. \A p \in Places, f \in Files : disk[p][f] = "whole" => disk'[p][f] = "whole"
  BY <1>1, <1>3, <1>4 DEF OnlyThere
<1>6. World'
  BY <1>0, <1>2, <1>5, WorldKept DEF Books
<1>7. Carry(r)'
  BY <1>1, <1>3, <1>4 DEF Carry, OnlyThere, Origin, Target
<1>8. Facts(r)'
  BY <1>0, <1>1, <1>2, <1>5, <1>7, FactsFlow DEF Moving
<1> QED BY <1>1, <1>2, <1>6, <1>8, QuietTurn

\* and takes the place of the original.
LEMMA UnlinkQuiet ==
  ASSUME Books, Books', Quiet, Grows, NEW r \in Requests, Unlink(r)
  PROVE  Quiet'
<1> DEFINE f == req[r].file
           unlinked ==
             /\ OnlyThere(Origin(r), f, "none")
             /\ \A s \in Requests \ {r} : req'[s] = req[s]
             /\ req'[r].at = req[r].at /\ req'[r].step = "idle"
             /\ req'[r].listed = req[r].listed /\ req'[r].left = req[r].left
             /\ req'[r].found = req[r].found /\ req'[r].moved = req[r].moved
             /\ req[r].pc = "move" => /\ req'[r].pc = "record" /\ req'[r].todo = req[r].todo
                                      /\ req'[r].undone = req[r].undone
                                      /\ req'[r].file = req[r].file
             /\ req[r].pc # "move" =>
                   /\ req'[r].pc = req[r].pc /\ req'[r].todo = req[r].todo \ {f}
                   /\ req'[r].file = None
                   /\ req[r].pc = "undo" => req'[r].undone = req[r].undone \cup {f}
                   /\ req[r].pc # "undo" => req'[r].undone = req[r].undone
<1>0. UNCHANGED <<journal, settled, unread, misseen>> /\ req[r].step = "full"
  BY DEF Unlink, history
<1>1. /\ f \in Files /\ f \in req[r].todo /\ req[r].at \in Requests
      /\ req[r].pc \in Moving
  BY UnlinkFields DEF Books
<1>2. Facts(r) /\ Live(r) /\ Aside(r) /\ World /\ Owned(r)
  BY <1>1, LiveAside DEF Quiet, Live, Moving, Books
<1>3. disk[Target(r)][f] = disk[Origin(r)][f]
  BY <1>0, <1>2 DEF Facts, Carry
<1>4. /\ Library \in Places /\ Requests \subseteq Places /\ Library \notin Requests
      /\ Origin(r) \in Places /\ Target(r) \in Places /\ Origin(r) # Target(r)
  BY <1>1, MovingPlaces, ConstAssumption DEF Places
<1>5. /\ req[r].todo \subseteq Files /\ \A o \in Requests : journal[o].moves \subseteq Files
      /\ settled \subseteq Requests /\ req[r].moved \subseteq Files /\ req[r].undone \subseteq Files
  BY TypeParts DEF Books, TInv, JournalOK, ReqOK, ReqType
<1>6. CASE UNCHANGED disk /\ req' = Raise(r)
  BY <1>0, <1>1, <1>6, RaiseQuiet DEF Moving
<1>7. CASE unlinked
  <2>1. /\ disk'[Origin(r)][f] = "none"
        /\ \A p \in Places, g \in Files : p # Origin(r) \/ g # f => disk'[p][g] = disk[p][g]
    BY <1>1, <1>4, <1>7 DEF OnlyThere
  <2>2. disk'[Target(r)][f] = disk[Origin(r)][f]
    BY <1>1, <1>3, <1>4, <2>1
  <2>3. Carry(r)'
    BY <1>7 DEF Carry
  <2>4. Met(r)'
    BY <1>0, <1>1, <1>2, <1>7, MetRest DEF Facts, OwnWork, Moving
  <2>5. CASE req[r].pc = "move"
    <3>1. /\ Origin(r) = Library /\ Target(r) = r /\ req[r].at = r /\ Pending(r) /\ r \notin settled
          /\ req[r].undone = {} /\ req[r].todo \cup req[r].moved = journal[r].moves
          /\ req[r].todo \cap req[r].moved = {} /\ AllWhole(r, req[r].moved)
          /\ AllWhole(Library, req[r].todo)
      BY <1>2, <2>5 DEF Facts, Engaged, Forward, Owned, Applied, Origin, Target
    <3>2. disk'[r][f] = "whole"
      BY <1>1, <2>2, <3>1 DEF AllWhole, Whole
    <3>3. \A o \in Requests : Firm(o) => o = r
      BY <1>2, <2>5 DEF Facts, Met, OwnWork, Firm, Sound
    <3>4. \A o \in settled : Sound(o) /\ f \in journal[o].moves => disk'[o][f] = "whole"
      BY <1>1, <1>2, <1>4, <1>5, <2>1, <3>1 DEF World, Kept, AllWhole, Whole
    <3>5. World'
      BY <1>0, <1>1, <1>2, <1>4, <1>7, <3>1, <3>2, <3>3, <3>4, WorldMoved DEF Books
    <3>6. Engaged(r)'
      BY <1>0, <1>7, <2>5, <3>1 DEF Engaged, Pending, Finished
    <3>7. Forward(r)'
      <4>1. \A g \in req[r].moved : disk'[r][g] = "whole"
        BY <1>4, <1>5, <2>1, <3>1 DEF AllWhole, Whole
      <4>2. \A g \in req[r].todo \ {f} : disk'[Library][g] = "whole"
        BY <1>4, <1>5, <2>1, <3>1 DEF AllWhole, Whole
      <4> QED BY <1>0, <1>7, <2>1, <2>5, <3>1, <3>2, <4>1, <4>2 DEF Forward, AllWhole, Whole
    <3>8. Back(r)' /\ Decided(r)' /\ Beside(r)'
      BY <1>7, <2>5 DEF Back, Decided, Beside
    <3>9. Facts(r)'
      BY <2>3, <2>4, <3>6, <3>7, <3>8 DEF Facts
    <3> QED BY <1>2, <1>7, <3>5, <3>9, QuietTurn
  <2>6. CASE req[r].pc = "undo"
    <3>1. /\ Origin(r) = r /\ Target(r) = Library /\ req[r].at = r /\ Pending(r) /\ r \notin settled
          /\ req[r].todo \subseteq req[r].moved \ req[r].undone
          /\ AllWhole(r, req[r].moved \ req[r].undone) /\ AllWhole(Library, req[r].undone)
          /\ AllWhole(Library, (journal[r].moves \ req[r].moved) \ misseen)
      BY <1>2, <2>6 DEF Facts, Engaged, Back, Owned, Applied, Origin, Target
    <3>2. disk'[Library][f] = "whole"
      BY <1>1, <2>2, <3>1 DEF AllWhole, Whole
    <3>3. \A o \in settled : Sound(o) /\ f \in journal[o].moves => disk'[o][f] = "whole"
      BY <1>1, <1>2, <1>4, <1>5, <2>1, <3>1 DEF World, Kept, AllWhole, Whole
    <3>4. World'
      BY <1>0, <1>1, <1>2, <1>4, <1>7, <3>1, <3>2, <3>3, WorldMoved DEF Books
    <3>5. Engaged(r)'
      BY <1>0, <1>7, <2>6, <3>1 DEF Engaged, Pending, Finished
    <3>6. Back(r)'
      <4>1. \A g \in req[r].moved \ (req[r].undone \cup {f}) : disk'[r][g] = "whole"
        BY <1>4, <1>5, <2>1, <3>1 DEF AllWhole, Whole
      <4>2. \A g \in req[r].undone \cup {f} : disk'[Library][g] = "whole"
        BY <1>4, <1>5, <2>1, <3>1, <3>2 DEF AllWhole, Whole
      <4>3. \A g \in (journal[r].moves \ req[r].moved) \ misseen : disk'[Library][g] = "whole"
        BY <1>4, <1>5, <2>1, <3>1 DEF AllWhole, Whole
      <4>4. req[r].todo \ {f} \subseteq req[r].moved \ (req[r].undone \cup {f})
        BY <3>1
      <4> QED BY <1>0, <1>7, <2>6, <3>1, <4>1, <4>2, <4>3, <4>4 DEF Back, AllWhole, Whole
    <3>7. Forward(r)' /\ Decided(r)' /\ Beside(r)'
      BY <1>7, <2>6 DEF Forward, Decided, Beside
    <3>8. Facts(r)'
      BY <2>3, <2>4, <3>5, <3>6, <3>7 DEF Facts
    <3> QED BY <1>2, <1>7, <3>4, <3>8, QuietTurn
  <2>7. CASE req[r].pc = "giveback"
    <3> DEFINE o == req[r].at
    <3>1. /\ Origin(r) = o /\ Target(r) = Library /\ o \in Requests
          /\ Decided(r) /\ Beside(r) /\ Pending(o)
      BY <1>1, <1>2, <2>7 DEF Facts, Engaged, Judged, Origin, Target
    <3>2. Sound(o) => o \notin settled /\ AllWhole(o, req[r].todo) /\ disk'[Library][f] = "whole"
                      /\ AllWhole(Library, journal[o].moves \ req[r].todo)
      BY <1>1, <2>2, <2>7, <3>1 DEF Decided, AllWhole, Whole
    <3>3. \A q \in Requests \ {o}, g \in Files : disk'[q][g] = disk[q][g]
      BY <1>4, <2>1, <3>1
    <3>4. \A g \in Files : g # f => /\ disk'[Library][g] = disk[Library][g]
                                    /\ \A q \in Requests : disk'[q][g] = disk[q][g]
      BY <1>4, <2>1
    <3>a. \A q \in Requests \ {o} : Firm(q) /\ f \in journal[q].moves /\ f \notin misseen =>
              Whole(q, f)
      BY <1>1, <2>7, <3>1 DEF Beside
    <3>b. f \notin misseen => \E q \in Requests : Whole(q, f)
      BY <1>1, <2>7, <3>1 DEF Beside
    <3> HIDE DEF o, f
    <3>5. \A q \in Requests : Firm(q) /\ f \in journal[q].moves /\ f \notin misseen' =>
              disk'[q][f] = "whole" \/ disk'[Library][f] = "whole"
      BY <1>0, <1>1, <3>2, <3>3, <3>a DEF Whole, Firm
    <3>6. \A q \in settled : Sound(q) /\ f \in journal[q].moves => disk'[q][f] = "whole"
      BY <1>1, <1>2, <1>5, <3>2, <3>3 DEF World, Kept, AllWhole, Whole
    <3>7. f \notin misseen' => \E q \in Places : disk'[q][f] = "whole"
      BY <1>0, <1>1, <1>4, <2>2, <3>1, <3>3, <3>b DEF Whole
    <3>8. World'
      BY <1>0, <1>1, <1>2, <1>4, <1>7, <3>5, <3>6, <3>7, WorldMoved DEF Books
    <3>9. Engaged(r)'
      BY <1>0, <1>7, <2>7, <3>1 DEF Engaged, Pending, Finished, o
    <3>10. Decided(r)'
      <4> SUFFICES ASSUME Sound(o)
                   PROVE  /\ o \notin settled
                          /\ \A g \in req[r].todo \ {f} : disk'[o][g] = "whole"
                          /\ \A g \in journal[o].moves \ (req[r].todo \ {f}) : disk'[Library][g] = "whole"
        BY <1>0, <1>7, <2>7 DEF Decided, AllWhole, Whole, Sound, o, f
      <4> QED BY <1>5, <3>1, <3>2, <3>4 DEF AllWhole, Whole
    <3>11. Beside(r)'
      <4> SUFFICES ASSUME NEW g \in req[r].todo \ {f}, g \notin misseen
                   PROVE  /\ \E q \in Requests : disk'[q][g] = "whole"
                          /\ \A q \in Requests \ {o} : Firm(q) /\ g \in journal[q].moves =>
                                 disk'[q][g] = "whole"
        BY <1>0, <1>7, <2>7 DEF Beside, Whole, o, f, Firm, Pending, Finished, Sound
      <4> QED BY <1>5, <2>7, <3>1, <3>4 DEF Beside, Whole, o
    <3>12. Forward(r)' /\ Back(r)'
      BY <1>7, <2>7 DEF Forward, Back
    <3>13. Facts(r)'
      BY <2>3, <2>4, <3>9, <3>10, <3>11, <3>12 DEF Facts
    <3> QED BY <1>2, <1>7, <3>8, <3>13, QuietTurn
  <2> QED BY <1>1, <2>5, <2>6, <2>7 DEF Moving
<1>8. (UNCHANGED disk /\ req' = Raise(r)) \/ unlinked
  BY UnlinkFields DEF Books
<1> HIDE DEF unlinked
<1> QED BY <1>6, <1>7, <1>8

\* A copy that is not made changes nothing on the disk.
LEMMA NotMovedQuiet ==
  ASSUME Books, Books', Quiet, Grows, NEW r \in Requests, Absent(r) \/ CopyFails(r)
  PROVE  Quiet'
<1>1. UNCHANGED <<disk, journal, settled>> /\ req[r].pc \in Moving
  BY DEF Absent, CopyFails
<1>2. CASE req' = Raise(r)
  BY <1>1, <1>2, RaiseQuiet DEF Moving
<1>3. CASE req[r].step = "idle" /\ req[r].pc = "undo"
           /\ \E f \in req[r].todo : req' = [req EXCEPT ![r].todo = @ \ {f}]
  BY <1>1, <1>3, LeavesOutQuiet
<1> QED BY <1>2, <1>3 DEF Absent, CopyFails

(* Faults and others. *)

\* After a crash nobody is there.
LEMMA CrashQuiet == ASSUME Books, Quiet, Grows, Crash PROVE Quiet'
<1>1. World'
  BY WorldRest DEF Books, Quiet, Crash
<1>2. \A r \in Requests : ~Live(r)'
  BY CrashRow, TypeParts, GoneTyped DEF Books, TInv, Live
<1> QED BY <1>1, <1>2 DEF Quiet, OneLive, Facts

\* What others do takes no whole file away.
LEMMA OutsiderQuiet == ASSUME Books, Books', Quiet, Grows, Outsider PROVE Quiet'
<1>0. UNCHANGED <<journal, settled, req, unread, misseen>> /\ World /\ OneLive /\ DiskOK
  BY TypeParts DEF Outsider, history, Quiet, Books, TInv
<1>1. Library \in Places /\ Requests \subseteq Places
  BY DEF Places
<1>2. \A p \in Places, f \in Files :
         disk'[p][f] = disk[p][f] \/ (disk[p][f] = "none" /\ disk'[p][f] = "whole")
  <2>1. CASE UNCHANGED disk
    BY <2>1
  <2>2. ASSUME NEW f \in Files, ~Exists(Library, f), disk' = [disk EXCEPT ![Library][f] = "whole"]
        PROVE  \A p \in Places, g \in Files :
                  disk'[p][g] = disk[p][g] \/ (disk[p][g] = "none" /\ disk'[p][g] = "whole")
    BY <1>0, <1>1, <2>2, CopyChanges DEF OnlyThere, Exists
  <2> QED BY <2>1, <2>2 DEF Outsider
<1>3. World'
  BY <1>0, <1>2, WorldKept DEF Books
<1>4. ASSUME NEW r \in Requests PROVE Facts(r)'
  <2>1. CASE ~Live(r)
    BY <1>0, <2>1 DEF Facts, Live
  <2>2. CASE Live(r)
    <3>1. Facts(r) /\ Owned(r) /\ Placed(req[r]) /\ req[r] \in ReqType
      BY TypeParts DEF Quiet, Books, TInv, PlacedOK, ReqOK
    <3>2. Carry(r)'
      <4> SUFFICES ASSUME req[r].step # "idle" PROVE Carry(r)'
        BY <1>0 DEF Carry
      <4>1. req[r].pc \in Moving /\ req[r].file \in Files
        BY <3>1 DEF Placed, ReqType
      <4>2. Origin(r) \in Places /\ Target(r) \in Places
        BY <3>1, <4>1, MovingPlaces DEF Placed, Moving, Judged, Applied
      <4> QED BY <1>0, <1>2, <2>2, <3>1, <4>1, <4>2 DEF Facts, Carry, Origin, Target
    <3>3. req[r].pc = "record" => disk'[Library][req[r].file] # "part"
      BY <1>1, <1>2, <2>2, <3>1 DEF Facts, Forward, Placed, ReqType
    <3> QED BY <1>0, <1>2, <2>2, <3>1, <3>2, <3>3, FactsFlow
  <2> QED BY <2>1, <2>2
<1>5. OneLive'
  BY <1>0 DEF OneLive, Live
<1> QED BY <1>3, <1>4, <1>5 DEF Quiet

-----------------------------------------------------------------------------
(* The theorems. *)

\* Every step of a history without overlap keeps the invariant.
LEMMA QuietNext ==
  ASSUME Books, Books', Quiet, Grows, ~overlapped', Next
  PROVE  Quiet'
<1>1. ASSUME NEW r \in Requests, Recovering(r) PROVE Quiet'
  BY <1>1, BeginQuiet, SkipQuiet, PassOverQuiet, InspectQuiet, ConcludeQuiet, EndRecoveryQuiet
  DEF Recovering
<1>2. ASSUME NEW r \in Requests, Copying(r) PROVE Quiet'
  BY <1>2, OpenQuiet, NotMovedQuiet, FillQuiet, UnlinkQuiet DEF Copying
<1>3. ASSUME NEW r \in Requests, Applying(r) PROVE Quiet'
  BY <1>3, AuditQuiet, PlanQuiet, EndsQuiet, RecordQuiet, AwaitQuiet, SettleQuiet DEF Applying
<1> QED BY <1>1, <1>2, <1>3, CrashQuiet, OutsiderQuiet DEF Next

\* So does a stuttering one.
LEMMA QuietStep == IInv /\ [Next]_vars => IInv'
<1> SUFFICES ASSUME IInv, [Next]_vars PROVE IInv'
  OBVIOUS
<1>1. Books /\ Books' /\ TInv
  BY BooksStep DEF IInv, Books
<1>2. CASE Next
  <2>1. Grows /\ (overlapped => overlapped')
    BY <1>1, <1>2, CountsStep DEF Grows
  <2> QED BY <1>1, <1>2, <2>1, QuietNext DEF IInv
<1>3. CASE UNCHANGED vars
  <2>1. UNCHANGED <<disk, journal, settled, req, overlapped, unread, misseen>>
    BY <1>3 DEF vars, history
  <2>2. ASSUME Quiet PROVE Quiet'
    <3>1. World'
      BY <1>1, <2>1, <2>2, WorldRest DEF Quiet, Grows
    <3>2. ASSUME NEW r \in Requests PROVE Facts(r)'
      <4>1. CASE ~Live(r)
        BY <2>1, <4>1 DEF Facts, Live
      <4>2. CASE Live(r)
        <5>1. Facts(r)
          BY <2>2 DEF Quiet
        <5>2. Carry(r)'
          BY <2>1, <4>2, <5>1 DEF Facts, Carry, Origin, Target
        <5>3. req[r].pc = "record" => disk'[Library][req[r].file] # "part"
          BY <2>1, <4>2, <5>1 DEF Facts, Forward
        <5> QED BY <1>1, <2>1, <4>2, <5>1, <5>2, <5>3, FactsFlow DEF Grows
      <4> QED BY <4>1, <4>2
    <3> QED BY <2>1, <2>2, <3>1, <3>2 DEF Quiet, OneLive, Live
  <2> QED BY <1>1, <2>1, <2>2 DEF IInv
<1> QED BY <1>2, <1>3

\* At the start every file is whole and nobody is there.
LEMMA InitQuiet == Init => IInv
<1> SUFFICES ASSUME Init PROVE IInv
  OBVIOUS
<1>1. /\ \A o \in Requests : req[o] = Fresh /\ journal[o].status = "none"
      /\ settled = {} /\ Library \in Places
      /\ \A f \in Files : disk[Library][f] = "whole"
  BY DEF Init, Places
<1>2. World
  BY <1>1 DEF World, Twins, Kept, Somewhere, Firm, Pending, Whole
<1>3. \A r \in Requests : ~Live(r)
  BY <1>1 DEF Live, Fresh
<1> QED BY <1>2, <1>3, InitBooks DEF IInv, Quiet, OneLive, Facts

\* Every behaviour keeps the inductive invariant: what the journals say always
\* holds, and the rest until two requests overlap.
THEOREM Invariance == Spec => []IInv
  BY InitQuiet, QuietStep, PTL DEF Spec

\* Until requests overlap, whatever crashes, fails or cannot be read, a duplicate of
\* which no copy was taken for missing is whole in the library or in a quarantine
\* folder.
THEOREM NeverLost == Spec => []NothingLost
<1>1. IInv => NothingLost
  BY DEF IInv, Quiet, World, Somewhere, NothingLost, Whole
<1> QED BY <1>1, Invariance, PTL

\* Until requests overlap, an operation that is settled and sound keeps its files
\* whole in its folder and is not reported as rolled back.
THEOREM SettledForGood == Spec => []SettledStaysAway
<1>1. IInv => SettledStaysAway
  BY DEF IInv, Quiet, World, Kept, SettledStaysAway, AllWhole, Whole
<1> QED BY <1>1, Invariance, PTL

\* Until requests overlap, a request touches no new file while an operation whose
\* journal it found and could read is not finished.
THEOREM RecoveryFirst == Spec => []OldWorkFirst
<1>1. IInv => OldWorkFirst
  <2> SUFFICES ASSUME IInv, ~overlapped, NEW r \in Requests, req[r].pc \in OwnWork,
                      NEW o \in req[r].listed
               PROVE  Finished(o)
    BY DEF OldWorkFirst
  <2>1. Live(r) /\ Facts(r) /\ Owned(r) /\ req[r] \in ReqType
    BY TypeParts DEF IInv, Quiet, Live, OwnWork, Books, TInv, ReqOK
  <2>2. o \in Requests \ {r} /\ journal[o].status # "none"
    BY <2>1 DEF Owned, ReqType
  <2> QED BY <2>1, <2>2 DEF Facts, Met, Pending
<1> QED BY <1>1, Invariance, PTL

\* Until requests overlap, a sound operation is reported as rolled back, by its own
\* request or by a recovery, only when its files are whole in the library.
THEOREM RollbackIsHonest == Spec => RolledBackIsHome
<1>1. IInv /\ [Next]_vars =>
        [~overlapped => \A o \in Requests :
           Sound(o) /\ journal[o].status # "rolled_back" /\ journal'[o].status = "rolled_back"
              => \A f \in journal[o].moves : disk[Library][f] = "whole"]_vars
  <2> SUFFICES ASSUME IInv, Next, ~overlapped, NEW o \in Requests, Sound(o),
                      journal[o].status # "rolled_back", journal'[o].status = "rolled_back"
               PROVE  AllWhole(Library, journal[o].moves)
    BY DEF vars, AllWhole, Whole
  <2>0. JournalOK /\ Books
    BY TypeParts DEF IInv, Books, TInv
  <2>1. ASSUME NEW r \in Requests, NEW p \in Requests,
               NEW status \in Status, Write(p, status)
        PROVE  p = o /\ status = "rolled_back"
    BY <2>0, <2>1, WriteTyped
  <2>2. ASSUME NEW r \in Requests, Conclude(r) PROVE AllWhole(Library, journal[o].moves)
    <3>1. PICK c \in {"blocked", "rolled_back", "finalized"} :
             /\ Write(req[r].at, c)
             /\ c = "rolled_back" => /\ req[r].pc \in {"void", "giveback"}
                                     /\ req[r].pc = "giveback" => req[r].todo = {}
      BY <2>0, <2>2, ConcludeFields DEF Books
    <3>2. req[r].at \in Requests /\ req[r].pc \in Judged
      BY <2>0, <2>2, ConcludeFields DEF Books
    <3>3. req[r].at = o /\ c = "rolled_back"
      BY <2>1, <3>1, <3>2 DEF Status
    <3>4. Decided(r)
      BY <3>2 DEF IInv, Quiet, Facts, Live, Judged
    <3> QED BY <3>1, <3>3, <3>4 DEF Decided, AllWhole
  <2>3. ASSUME NEW r \in Requests, Undone(r) PROVE AllWhole(Library, journal[o].moves)
    <3>1. /\ req[r].pc = "undo" /\ req[r].todo = {}
          /\ Write(r, IF req[r].undone = req[r].moved THEN "rolled_back" ELSE "blocked")
      BY <2>3 DEF Undone
    <3>2. r = o /\ req[r].undone = req[r].moved
      BY <2>1, <3>1 DEF Status
    <3>3. Back(r)
      BY <3>1 DEF IInv, Quiet, Facts, Live
    <3>4. \A f \in journal[o].moves : f \notin misseen
      BY DEF Sound
    <3> QED BY <3>1, <3>2, <3>3, <3>4 DEF Back, AllWhole
  <2>4. ASSUME NEW r \in Requests, NEW status \in Status \ {"rolled_back"}, Write(r, status)
        PROVE  FALSE
    BY <2>1, <2>4
  <2>5. ~UNCHANGED journal
    OBVIOUS
  <2>6. ASSUME NEW r \in Requests, Plan(r) PROVE FALSE
    <3>1. journal' = [journal EXCEPT ![r] = [status |-> "planned", moves |-> req[r].todo]]
      BY <2>5, <2>6 DEF Plan
    <3> QED BY <2>0, <3>1 DEF JournalOK
  <2>7. ASSUME NEW r \in Requests, Recovering(r) PROVE AllWhole(Library, journal[o].moves)
    BY <2>2, <2>5, <2>7 DEF Recovering, Begin, Skip, PassOver, Inspect, EndRecovery
  <2>8. ASSUME NEW r \in Requests, Copying(r) PROVE FALSE
    BY <2>5, <2>8 DEF Copying, Open, Absent, Fill, Unlink, CopyFails
  <2>9. ASSUME NEW r \in Requests, Applying(r) PROVE AllWhole(Library, journal[o].moves)
    <3>1. CASE Audit(r) \/ Settle(r) \/ WriteFails(r)
      BY <2>5, <3>1 DEF Audit, Settle, WriteFails
    <3>2. CASE Refuse(r) \/ Await(r) \/ Seal(r) \/ Record(r)
      BY <2>4, <2>5, <3>2 DEF Refuse, Await, Seal, Record, Status
    <3> QED BY <2>3, <2>6, <2>9, <3>1, <3>2 DEF Applying
  <2> QED BY <2>5, <2>7, <2>8, <2>9 DEF Next, Crash, Outsider
<1> QED BY <1>1, Invariance, PTL DEF Spec, RolledBackIsHome
=============================================================================
