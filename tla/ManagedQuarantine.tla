------------------------- MODULE ManagedQuarantine -------------------------
(***************************************************************************)
(* The journal under which InkDrop moves the duplicate files of one group  *)
(* into its quarantine (src/core/inkdrop_state.py, "managed_duplicate_     *)
(* quarantine_*" and managed_library_duplicate_file_quarantine).           *)
(*                                                                         *)
(* A request first settles the operations which earlier requests left      *)
(* unfinished, looking only at where their files are: all moved, it        *)
(* finalizes them; some moved, it moves those back; both or neither place  *)
(* taken, it blocks.  Then it plans an operation of its own, moves the     *)
(* files one by one, and finalizes.  The quarantine is on another file     *)
(* system than the library, so a move is a copy followed by an unlink, and *)
(* a crash may leave part of a file.                                       *)
(*                                                                         *)
(* The web server gives every request a thread and no lock is held, so two *)
(* requests for a group may run at once.  A journal that cannot be read is *)
(* passed over, and a path whose stat fails counts as missing.  What these *)
(* three have touched is kept in history variables, which no step reads:   *)
(* the properties say what they cannot promise after them.                 *)
(***************************************************************************)
EXTENDS Naturals, FiniteSets

CONSTANTS
    Files,       \* the duplicates of the group, without the file to keep
    Requests,    \* calls that apply the quarantine; each plans one operation
    Library,     \* the place the files start from
    None,        \* no file, no operation
    MaxFaults,   \* bound: crashes, failed copies, writes, reads and looks
    MaxOutside   \* bound: changes made by others to files and settings

ASSUME ConstAssumption ==
    /\ Library \notin Requests
    /\ None \notin Files \cup Requests
    /\ MaxFaults \in Nat
    /\ MaxOutside \in Nat

VARIABLES
    disk,      \* what is at the library path and at the path in each quarantine folder
    keep,      \* the file to keep exists
    journal,   \* the operations: status and the files to move
    settled,   \* operations whose history event and media_files rows are committed
    req,       \* the requests
    faults,    \* faults so far
    outside    \* changes by others so far

\* History.
VARIABLES
    overlapped, \* a request began while another one was under way
    unread,     \* unfinished operations that a request passed over
    misseen     \* files of which a copy was taken for missing

history == <<overlapped, unread, misseen>>
vars == <<disk, keep, journal, settled, req, faults, outside, history>>

Places == {Library} \cup Requests   \* an operation has a folder of its own
Status == {"none", "planned", "moving", "awaiting", "finalized", "rolled_back", "blocked"}

\* States of a request: those in which it moves files, those of its own
\* operation, and all.
Moving == {"move", "undo", "giveback"}
OwnWork == {"audit", "plan", "move", "record", "undo", "settle", "seal"}
Steps == OwnWork \cup
         {"new", "recover", "giveback", "void", "block", "resettle", "reseal", "done"}

Fresh == [pc |-> "new", at |-> None, listed |-> {}, left |-> {}, found |-> {},
          todo |-> {}, file |-> None, step |-> "idle", reads |-> "none",
          moved |-> {}, undone |-> {}]

Init ==
    /\ disk = [p \in Places |-> [f \in Files |-> IF p = Library THEN "whole" ELSE "none"]]
    /\ keep = TRUE
    /\ journal = [o \in Requests |-> [status |-> "none", moves |-> {}]]
    /\ settled = {}
    /\ req = [r \in Requests |-> Fresh]
    /\ faults = 0
    /\ outside = 0
    /\ overlapped = FALSE
    /\ unread = {}
    /\ misseen = {}

Exists(p, f) == disk[p][f] # "none"

\* path_exists_quietly: a copy at one of the paths `dark`, whose stat fails, is
\* taken for missing.
Shows(p, f, dark) == Exists(p, f) /\ <<p, f>> \notin dark
Dark(places, files) == SUBSET {c \in places \X files : Exists(c[1], c[2])}
Misses(dark) == misseen' = misseen \cup {c[2] : c \in dark}

Live(r) == req[r].pc \notin {"new", "done"}
Finished(o) == journal[o].status \in {"finalized", "rolled_back"}

Write(o, status) == journal' = [journal EXCEPT ![o].status = status]
Fault == /\ faults < MaxFaults
         /\ faults' = faults + 1
Meddle == /\ outside < MaxOutside
          /\ outside' = outside + 1
FaultIf(failed) == IF failed THEN Fault ELSE UNCHANGED faults

(***************************************************************************)
(* Recovery of what earlier requests left.                                 *)
(***************************************************************************)

\* The request lists the journals there are.
Begin(r) ==
    /\ req[r].pc = "new"
    /\ LET there == {o \in Requests : journal[o].status # "none"}
       IN  req' = [req EXCEPT ![r].pc = "recover", ![r].listed = there, ![r].left = there]
    /\ overlapped' = (overlapped \/ \E s \in Requests : Live(s))
    /\ UNCHANGED <<disk, keep, journal, settled, faults, outside, unread, misseen>>

Skip(r) ==
    /\ req[r].pc = "recover"
    /\ \E o \in req[r].left :
        /\ Finished(o)
        /\ req' = [req EXCEPT ![r].left = @ \ {o}]
    /\ UNCHANGED <<disk, keep, journal, settled, faults, outside, history>>

\* Journals that cannot be read or parsed, as when their directory is away, are
\* passed over, and the request goes on beside what they say.
PassOver(r) ==
    /\ req[r].pc = "recover"
    /\ \E lost \in SUBSET req[r].left \ {{}} :
        /\ req' = [req EXCEPT ![r].left = @ \ lost, ![r].listed = @ \ lost]
        /\ unread' = unread \cup {o \in lost : ~Finished(o)}
    /\ Fault
    /\ UNCHANGED <<disk, keep, journal, settled, outside, overlapped, misseen>>

\* Slip: a file counts as moved when something is in the quarantine.
SlipMoved(o, dark) == {f \in journal[o].moves : Shows(o, f, dark)}

\* Where the files of an operation are, by what shows.
Moved(o, dark) == {f \in journal[o].moves : ~Shows(Library, f, dark) /\ Shows(o, f, dark)}
Home(o, dark) == {f \in journal[o].moves : Shows(Library, f, dark) /\ ~Shows(o, f, dark)}

\* What recovery may decide about an operation.  The look at the file to keep may
\* fail as well, and of two duplicates with one name, which have one destination,
\* one at home seems to be in both places.
Verdicts(o, dark) ==
    LET moves == journal[o].moves
        moved == Moved(o, dark)
        home == Home(o, dark)
    IN  CASE moved = moves               -> IF keep THEN {"resettle", "block"} ELSE {"block"}
          [] home = moves                -> {"void"}
          [] moved \cup home # moves     -> {"block"}
          [] OTHER                       -> {"giveback", "block"}

\* Recovery reads a journal and looks at the files; what it decides here it
\* does in later steps.
Inspect(r) ==
    /\ req[r].pc = "recover"
    /\ \E o \in req[r].left : \E dark \in Dark({Library, o}, journal[o].moves) :
        /\ ~Finished(o)
        /\ \E verdict \in Verdicts(o, dark) :
              req' = [req EXCEPT ![r].left = @ \ {o}, ![r].at = o,
                                 ![r].pc = verdict, ![r].todo = Moved(o, dark)]
        /\ FaultIf(dark # {})
        /\ Misses(dark)
    /\ UNCHANGED <<disk, keep, journal, settled, outside, overlapped, unread>>

\* Slip: the step is noted in place of the outcome.
SlipNextJournal(r, outcome) ==
    req' = [req EXCEPT ![r].pc = "recover", ![r].at = None, ![r].todo = {},
                       ![r].found = @ \cup {req[r].pc}]

\* Recovery is done with the operation and goes on to the next journal.
NextJournal(r, outcome) ==
    req' = [req EXCEPT ![r].pc = "recover", ![r].at = None, ![r].todo = {},
                       ![r].found = @ \cup {outcome}]

\* The verdict, or the end of moving back, is written to the journal.
Conclude(r) ==
    /\ \/ /\ req[r].pc = "block"
          /\ Write(req[r].at, "blocked")
          /\ NextJournal(r, "blocked")
       \/ /\ \/ req[r].pc = "void"
             \/ req[r].pc = "giveback" /\ req[r].todo = {}
          /\ Write(req[r].at, "rolled_back")
          /\ NextJournal(r, "rolled_back")
       \/ /\ req[r].pc = "reseal"
          /\ Write(req[r].at, "finalized")
          /\ NextJournal(r, "finalized")
    /\ UNCHANGED <<disk, keep, settled, faults, outside, history>>

\* Slip: a request goes on beside a blocked operation.
SlipEndRecovery(r) ==
    /\ req[r].pc = "recover"
    /\ req[r].left = {}
    /\ req' = [req EXCEPT ![r].pc = IF "finalized" \in req[r].found THEN "done" ELSE "audit"]
    /\ UNCHANGED <<disk, keep, journal, settled, faults, outside, history>>

\* A blocked operation, or one that recovery has finalized, ends the request.
EndRecovery(r) ==
    /\ req[r].pc = "recover"
    /\ req[r].left = {}
    /\ req' = [req EXCEPT ![r].pc = IF {"blocked", "finalized"} \cap req[r].found # {}
                                    THEN "done" ELSE "audit"]
    /\ UNCHANGED <<disk, keep, journal, settled, faults, outside, history>>

(***************************************************************************)
(* The operation of the request itself.                                    *)
(***************************************************************************)

Finish(r) == [req EXCEPT ![r] = [Fresh EXCEPT !.pc = "done"]]

\* The library is scanned and the copies are hashed.  The group is refused
\* when the confirmed file to keep is gone or a copy is not the same.
Audit(r) ==
    /\ req[r].pc = "audit"
    /\ LET found == {f \in Files : Exists(Library, f)}
           safe == keep /\ found # {} /\ \A f \in found : disk[Library][f] = "whole"
       IN  req' = IF safe THEN [req EXCEPT ![r].pc = "plan", ![r].todo = found]
                          ELSE Finish(r)
    /\ UNCHANGED <<disk, keep, journal, settled, faults, outside, history>>

\* Slip: the journal is begun empty, to take down each file once it is moved.
SlipPlan(r) ==
    /\ req[r].pc = "plan"
    /\ keep /\ \A f \in req[r].todo : Exists(Library, f)
    /\ Write(r, "planned")
    /\ req' = [req EXCEPT ![r].pc = "move", ![r].at = r]
    /\ UNCHANGED <<disk, keep, settled, faults, outside, history>>

\* The files must still be there; then the plan is written.  A look that fails
\* ends the request, as a failed write does.
Plan(r) ==
    /\ req[r].pc = "plan"
    /\ IF keep /\ \A f \in req[r].todo : Exists(Library, f)
       THEN /\ journal' = [journal EXCEPT ![r] = [status |-> "planned", moves |-> req[r].todo]]
            /\ req' = [req EXCEPT ![r].pc = "move", ![r].at = r]
       ELSE /\ req' = Finish(r)
            /\ UNCHANGED journal
    /\ UNCHANGED <<disk, keep, settled, faults, outside, history>>

\* A file is outside the library roots, which someone has changed, or its
\* destination is taken, which another file of that name may cause: the request
\* ends at once, and what it has moved stays where it is.
Refuse(r) ==
    /\ req[r].pc = "move"
    /\ req[r].step = "idle"
    /\ req[r].todo # {}
    /\ Meddle
    /\ Write(r, "blocked")
    /\ req' = Finish(r)
    /\ UNCHANGED <<disk, keep, settled, faults, history>>

(***************************************************************************)
(* shutil.move: the copy is opened, filled, and the original unlinked.     *)
(***************************************************************************)
Origin(r) == IF req[r].pc = "move" THEN Library ELSE req[r].at
Target(r) == IF req[r].pc = "move" THEN req[r].at ELSE Library

\* The request after an exception: the operation under way is undone; undoing
\* goes on to the next file; recovery gives up.
Raise(r) ==
    CASE req[r].pc \in {"move", "record"} ->
            [req EXCEPT ![r].pc = "undo", ![r].todo = req[r].moved, ![r].file = None,
                        ![r].step = "idle"]
      [] req[r].pc = "undo" ->
            [req EXCEPT ![r].todo = @ \ {req[r].file}, ![r].file = None, ![r].step = "idle"]
      [] OTHER -> Finish(r)

Open(r) ==
    /\ req[r].pc \in Moving
    /\ req[r].step = "idle"
    /\ \E f \in req[r].todo : \E dark \in Dark({Library}, {f}) :
        /\ IF req[r].pc = "undo" THEN ~Shows(Library, f, dark) ELSE dark = {}
        /\ FaultIf(dark # {})
        /\ Misses(dark)
        /\ Exists(Origin(r), f)
        /\ disk' = [disk EXCEPT ![Target(r)][f] = "part"]
        /\ req' = [req EXCEPT ![r].file = f, ![r].step = "open",
                              ![r].reads = disk[Origin(r)][f]]
    /\ UNCHANGED <<keep, journal, settled, outside, overlapped, unread>>

\* Nothing to move: an exception when moving forward or back for recovery;
\* undoing leaves out a file that is not in the quarantine or is at home.
Absent(r) ==
    /\ req[r].pc \in Moving
    /\ req[r].step = "idle"
    /\ \E f \in req[r].todo : \E dark \in Dark({r}, {f}) :
        /\ IF req[r].pc = "undo"
           THEN /\ ~Shows(r, f, dark) \/ Exists(Library, f)
                /\ req' = [req EXCEPT ![r].todo = @ \ {f}]
           ELSE /\ ~Exists(Origin(r), f) /\ dark = {}
                /\ req' = Raise(r)
        /\ FaultIf(dark # {})
        /\ Misses(dark)
    /\ UNCHANGED <<disk, keep, journal, settled, outside, overlapped, unread>>

Fill(r) ==
    /\ req[r].step = "open"
    /\ disk' = [disk EXCEPT ![Target(r)][req[r].file] = req[r].reads]
    /\ req' = [req EXCEPT ![r].step = "full"]
    /\ UNCHANGED <<keep, journal, settled, faults, outside, history>>

\* The file is where it was to go.
Arrived(r) ==
    IF req[r].pc = "move"
    THEN [req EXCEPT ![r].pc = "record", ![r].step = "idle"]
    ELSE [req EXCEPT ![r].todo = @ \ {req[r].file}, ![r].file = None, ![r].step = "idle",
                     ![r].undone = @ \cup {f \in {req[r].file} : req[r].pc = "undo"}]

Unlink(r) ==
    /\ req[r].step = "full"
    /\ IF Exists(Origin(r), req[r].file)
       THEN /\ disk' = [disk EXCEPT ![Origin(r)][req[r].file] = "none"]
            /\ req' = Arrived(r)
       ELSE /\ req' = Raise(r)
            /\ UNCHANGED disk
    /\ UNCHANGED <<keep, journal, settled, faults, outside, history>>

\* The move fails before anything is opened, or on a full disk, or because the
\* original cannot be unlinked.
CopyFails(r) ==
    /\ req[r].pc \in Moving
    /\ \/ /\ req[r].step # "idle" \/ (req[r].pc # "undo" /\ req[r].todo # {})
          /\ req' = Raise(r)
       \/ /\ req[r].step = "idle" /\ req[r].pc = "undo"
          /\ \E f \in req[r].todo : req' = [req EXCEPT ![r].todo = @ \ {f}]
    /\ Fault
    /\ UNCHANGED <<disk, keep, journal, settled, outside, history>>

\* A moved file is verified and recorded in the journal, or the write fails.
Record(r) ==
    /\ req[r].pc = "record"
    /\ \E dark \in Dark({Library, r}, {req[r].file}) :
        LET f == req[r].file
            noted == [req EXCEPT ![r].moved = @ \cup {f}, ![r].todo = @ \ {f}, ![r].file = None]
        IN  /\ Misses(dark)
            /\ IF Shows(Library, f, dark) \/ ~Shows(r, f, dark)
               THEN /\ req' = Raise(r)
                    /\ FaultIf(dark # {})
                    /\ UNCHANGED journal
               ELSE \/ /\ Write(r, "moving")
                       /\ req' = [noted EXCEPT ![r].pc = "move"]
                       /\ FaultIf(dark # {})
                    \/ /\ Fault
                       /\ req' = [noted EXCEPT ![r].pc = "undo", ![r].todo = noted[r].moved]
                       /\ UNCHANGED journal
    /\ UNCHANGED <<disk, keep, settled, outside, overlapped, unread>>

\* Slip: what could not be undone is not noticed.
SlipUndone(r) ==
    /\ req[r].pc = "undo"
    /\ req[r].todo = {}
    /\ Write(r, "rolled_back")
    /\ req' = Finish(r)
    /\ UNCHANGED <<disk, keep, settled, faults, outside, history>>

\* Everything that could be undone has been.
Undone(r) ==
    /\ req[r].pc = "undo"
    /\ req[r].todo = {}
    /\ Write(r, IF req[r].undone = req[r].moved THEN "rolled_back" ELSE "blocked")
    /\ req' = Finish(r)
    /\ UNCHANGED <<disk, keep, settled, faults, outside, history>>

\* All files are moved.
Await(r) ==
    /\ req[r].pc = "move"
    /\ req[r].todo = {}
    /\ Write(r, "awaiting")
    /\ req' = [req EXCEPT ![r].pc = "settle"]
    /\ UNCHANGED <<disk, keep, settled, faults, outside, history>>

(***************************************************************************)
(* Finalizing, by the request itself or by a recovery.                     *)
(***************************************************************************)

\* The rows of the files and the history event, under an id that belongs to
\* the operation, are committed together; on failure the request ends.
Settle(r) ==
    /\ req[r].pc \in {"settle", "resettle"}
    /\ \/ /\ settled' = settled \cup {req[r].at}
          /\ req' = [req EXCEPT ![r].pc = IF req[r].pc = "settle" THEN "seal" ELSE "reseal"]
          /\ UNCHANGED faults
       \/ /\ Fault
          /\ req' = Finish(r)
          /\ UNCHANGED settled
    /\ UNCHANGED <<disk, keep, journal, outside, history>>

Seal(r) ==
    /\ req[r].pc = "seal"
    /\ Write(r, "finalized")
    /\ req' = Finish(r)
    /\ UNCHANGED <<disk, keep, settled, faults, outside, history>>

(***************************************************************************)
(* Faults and others.                                                      *)
(***************************************************************************)

\* A journal write that is not caught ends the request.
WriteFails(r) ==
    /\ \/ req[r].pc \in {"plan", "void", "block", "reseal", "seal"}
       \/ req[r].pc \in Moving /\ req[r].todo = {}
    /\ Fault
    /\ req' = Finish(r)
    /\ UNCHANGED <<disk, keep, journal, settled, outside, history>>

\* The web process dies with all its threads.
Crash ==
    /\ Fault
    /\ req' = [r \in Requests |-> IF Live(r) THEN Finish(r)[r] ELSE req[r]]
    /\ \E r \in Requests : Live(r)
    /\ UNCHANGED <<disk, keep, journal, settled, outside, history>>

\* A copy turns up at the library path again, or the file to keep goes.
Outsider ==
    /\ Meddle
    /\ \/ /\ \E f \in Files : ~Exists(Library, f)
                              /\ disk' = [disk EXCEPT ![Library][f] = "whole"]
          /\ UNCHANGED keep
       \/ /\ keep
          /\ keep' = FALSE
          /\ UNCHANGED disk
    /\ UNCHANGED <<journal, settled, req, faults, history>>

Recovering(r) == Begin(r) \/ Skip(r) \/ PassOver(r) \/ Inspect(r) \/ Conclude(r) \/ EndRecovery(r)
Copying(r) == Open(r) \/ Absent(r) \/ Fill(r) \/ Unlink(r) \/ CopyFails(r)
Applying(r) == \/ Audit(r) \/ Plan(r) \/ Refuse(r) \/ Record(r) \/ Undone(r)
               \/ Await(r) \/ Settle(r) \/ Seal(r) \/ WriteFails(r)

Next ==
    \/ \E r \in Requests : Recovering(r) \/ Copying(r) \/ Applying(r)
    \/ Crash
    \/ Outsider

Spec == Init /\ [][Next]_vars

-----------------------------------------------------------------------------
(* Properties. *)

TypeOK ==
    /\ disk \in [Places -> [Files -> {"none", "part", "whole"}]]
    /\ keep \in BOOLEAN
    /\ journal \in [Requests -> [status : Status, moves : SUBSET Files]]
    /\ settled \subseteq Requests
    /\ req \in [Requests ->
           [pc : Steps, at : Requests \cup {None}, listed : SUBSET Requests,
            left : SUBSET Requests, found : SUBSET {"blocked", "rolled_back", "finalized"},
            todo : SUBSET Files, file : Files \cup {None}, step : {"idle", "open", "full"},
            reads : {"none", "part", "whole"}, moved : SUBSET Files, undone : SUBSET Files]]
    /\ faults \in 0 .. MaxFaults
    /\ outside \in 0 .. MaxOutside
    /\ overlapped \in BOOLEAN
    /\ unread \subseteq Requests
    /\ misseen \subseteq Files

\* The journal of the operation was never passed over, and no copy of its files
\* was taken for missing.
Sound(o) == o \notin unread /\ journal[o].moves \cap misseen = {}

\* At any moment, also when requests overlap, crash, fail or misread: what is in a
\* quarantine folder, or gone from the library, is in a journal.
Journaled ==
    \A f \in Files :
        /\ \A o \in Requests : Exists(o, f) => f \in journal[o].moves
        /\ ~Exists(Library, f) => \E o \in Requests : f \in journal[o].moves

\* As long as requests come one after the other: whatever fails and whenever the
\* process dies, and also when unfinished journals cannot be read, every duplicate
\* of which no copy was taken for missing is whole in the library or in some
\* quarantine folder.
NothingLost ==
    ~overlapped => \A f \in Files \ misseen : \E p \in Places : disk[p][f] = "whole"

\* As long as requests come one after the other: once the rows say that a sound
\* operation has quarantined its files, they are whole in its folder and the
\* operation is never reported as rolled back, also when the crash came before the
\* journal was sealed, a recovery judged the operation again, and other operations
\* were passed over or misjudged in between.
SettledStaysAway ==
    ~overlapped => \A o \in settled :
        Sound(o) => /\ \A f \in journal[o].moves : disk[o][f] = "whole"
                    /\ journal[o].status # "rolled_back"

\* As long as requests come one after the other: a sound operation is reported as
\* rolled back only when all its files are whole in the library again, whether the
\* request undid it or a recovery did, after however many attempts to do so were
\* cut short, and whatever became of other operations on the same files.
RolledBackIsHome ==
    [][~overlapped => \A o \in Requests :
         Sound(o) /\ journal[o].status # "rolled_back" /\ journal'[o].status = "rolled_back"
            => \A f \in journal[o].moves : disk[Library][f] = "whole"]_vars

\* As long as requests come one after the other: a request touches no new file
\* while an operation whose journal it found and could read is not finished.
OldWorkFirst ==
    ~overlapped => \A r \in Requests :
        req[r].pc \in OwnWork => \A o \in req[r].listed : Finished(o)
=============================================================================
