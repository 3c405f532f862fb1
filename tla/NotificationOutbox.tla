-------------------------- MODULE NotificationOutbox --------------------------
(***************************************************************************)
(* The delivery pipeline of notifications: notification_deliveries of one  *)
(* channel.  An event is reserved in one transaction that deduplicates it, *)
(* defers it to the end of quiet hours, or takes one of the sends that the *)
(* channel has left for the hour; the sender then calls the provider and   *)
(* records the outcome, if it still has its lease.  Passes of the          *)
(* notification-dispatch job claim what is due: deferred events, retries,  *)
(* and sends whose lease ran out.                                          *)
(*                                                                         *)
(* Times are kept as what is left of them.  next_attempt_at is the timer   *)
(* of a row; for a row that is being sent it also says whose lease it is,  *)
(* which is the field "by".  Rows that only record that nothing is sent    *)
(* (deduped, filtered) are left out: no query reads them.                  *)
(***************************************************************************)
EXTENDS Integers, FiniteSets

CONSTANTS
    Rows,        \* rows of notification_deliveries
    Age,         \* the order in which they are created
    Occs,        \* occurrence keys
    Urgent,      \* those of events that ignore quiet hours
    Senders,     \* calls of notify_result and of process_due_retries
    MaxPerHour,  \* rate_limit_max_per_hour (20)
    MaxAttempts, \* retry_max_attempts (5)
    Hour,        \* the hour of the rate limit
    Window,      \* dedup_window_seconds (86400)
    Lease,       \* REQUEST_TIMEOUT_SECONDS * 3 + 15
    Backoff,     \* retry_backoff_seconds (300)
    Night,       \* the length of quiet hours
    MaxNights,   \* bound on the number of quiet hours
    MaxFaults,   \* bound on senders that die or outlast their lease
    None

ASSUME ConstAssumption ==
    /\ Age \in [Rows -> Nat] /\ \A d, e \in Rows : Age[d] = Age[e] => d = e
    /\ Urgent \subseteq Occs /\ None \notin Senders \cup Occs \cup Rows
    /\ MaxPerHour \in Nat \ {0} /\ MaxAttempts \in Nat \ {0}
    /\ Hour \in Nat \ {0} /\ Window \in Nat /\ Window >= Hour
    /\ Lease \in Nat \ {0} /\ Backoff \in Nat \ {0} /\ Night \in Nat \ {0}
    /\ MaxNights \in Nat /\ MaxFaults \in Nat
    /\ IsFiniteSet(Rows) /\ IsFiniteSet(Senders)

VARIABLES
    del,   \* the rows
    quiet, \* what is left of quiet hours
    on,    \* the channel is enabled and subscribed
    send,  \* local state of a sender
    used   \* nights and faults so far

vars == <<del, quiet, on, send, used>>

--------------------------------------------------------------------------------
\* kept: what is left of the dedup window since it was sent.  Of the last two no code
\* knows: sends counts the outcomes that were recorded; slip marks a row whose outcome
\* was recorded after its lease ("late"), or that a sender without its lease wrote to
\* ("stale").
Row(o, status, reason, attempt, timer, s) ==
    [occ |-> o, status |-> status, reason |-> reason, attempt |-> attempt, timer |-> timer,
     by |-> s, kept |-> 0, sends |-> 0, slip |-> "none"]
NoRow == Row(None, "none", "none", 0, 0, None)
Reason == {"none", "quiet", "rate", "retry"}
Status == {"none", "queued", "sending", "sent", "failed", "disabled", "gone"}

\* row, attempt: what it sends; pass, on: it is a pass, with the settings it has read.
Idle == [pc |-> "idle", row |-> None, attempt |-> 0, pass |-> FALSE, on |-> FALSE]
Pc == {"idle", "claim", "disable", "requiet", "send"}

Init ==
    /\ del = [d \in Rows |-> NoRow]
    /\ quiet = 0 /\ on = TRUE
    /\ send = [s \in Senders |-> Idle]
    /\ used = [nights |-> 0, faults |-> 0]

--------------------------------------------------------------------------------
(* Queries.                                                                 *)

SentThisHour == {d \in Rows : del[d].status = "sent" /\ del[d].kept > Window - Hour}
\* Slip: the sends under way are not counted.
SlipReserved == SentThisHour
\* What the rate limit counts: a send whose lease ran out no longer counts.
Reserved == SentThisHour \cup {d \in Rows : del[d].status = "sending" /\ del[d].timer > 0}
Full == Cardinality(Reserved) >= MaxPerHour
\* When the oldest send of the hour is out of it, and half a minute from now at least.
Later ==
    IF SentThisHour = {} THEN 1
    ELSE 1 + Cardinality({t \in 1..Hour :
                            \A d \in SentThisHour : del[d].kept >= t + Window - Hour})

\* Slip: a send whose lease ran out does not stand in the way of a new one.
SlipKnown(o) ==
    \E d \in Rows : /\ del[d].occ = o
                    /\ \/ del[d].status = "queued"
                       \/ del[d].status = "sending" /\ del[d].timer > 0
                       \/ del[d].status = "sent" /\ del[d].kept > 0
\* The event was sent within the window, or is going to be.
Known(o) ==
    \E d \in Rows : /\ del[d].occ = o
                    /\ \/ del[d].status \in {"queued", "sending"}
                       \/ del[d].status = "sent" /\ del[d].kept > 0
\* Slip: a send is not taken over.
SlipDue(d) == del[d].status = "queued" /\ del[d].timer = 0
Due(d) == del[d].status \in {"queued", "sending"} /\ del[d].timer = 0
Fresh(d) == del[d].status = "none" /\ \A e \in Rows : Age[e] < Age[d] => del[e].status # "none"

--------------------------------------------------------------------------------
(* An event.                                                                *)

Defers(o) == quiet > 0 /\ o \notin Urgent

\* reserve_new_delivery, one transaction; the row that it inserts is d.
ReserveDefers(s, d, o) ==
    /\ send[s].pc = "idle" /\ on /\ Fresh(d)
    /\ ~Known(o)
    /\ \/ /\ Defers(o)
          /\ del' = [del EXCEPT ![d] = Row(o, "queued", "quiet", 0, quiet, None)]
       \/ /\ ~Defers(o) /\ Full
          /\ del' = [del EXCEPT ![d] = Row(o, "queued", "rate", 0, Later, None)]
    /\ UNCHANGED <<quiet, on, send, used>>

ReserveSends(s, d, o) ==
    /\ send[s].pc = "idle" /\ on /\ Fresh(d)
    /\ ~Known(o) /\ ~Defers(o) /\ ~Full
    /\ del' = [del EXCEPT ![d] = Row(o, "sending", "none", 1, Lease, s)]
    /\ send' = [send EXCEPT ![s] = [Idle EXCEPT !.pc = "send", !.row = d, !.attempt = 1]]
    /\ UNCHANGED <<quiet, on, used>>

--------------------------------------------------------------------------------
(* A pass of process_due_retries.                                           *)

StartPass(s) ==
    /\ send[s].pc = "idle"
    /\ send' = [send EXCEPT ![s] = [Idle EXCEPT !.pc = "claim", !.pass = TRUE, !.on = on]]
    /\ UNCHANGED <<del, quiet, on, used>>

\* What the pass does with the row: the channel as it was when the pass began, the
\* clock as it was at the claim.
Verdict(s, d) ==
    IF ~send[s].on THEN "disable"
    ELSE IF del[d].reason = "quiet" /\ del[d].occ \notin Urgent /\ quiet > 0 THEN "requiet"
    ELSE "send"
\* Slip: every claim counts as a first attempt.
SlipNextAttempt(d) == 1
\* Only a retry counts on; a deferred row, or one whose first sender died, starts at 1.
NextAttempt(d) == IF del[d].reason = "retry" THEN del[d].attempt + 1 ELSE 1

Sending(s, x) == [x EXCEPT !.status = "sending", !.timer = Lease, !.by = s]
Unsent(x, status, reason, timer) ==
    [x EXCEPT !.status = status, !.reason = reason, !.timer = timer, !.by = None]
AfterRetry(x) == IF x.reason = "retry" THEN "retry" ELSE "rate"

\* claim_next_due_delivery: the oldest row that is due, or, when the hour is full,
\* none, and all that are due are put off.
Claim(s, d) ==
    /\ send[s].pc = "claim" /\ ~Full
    /\ Due(d) /\ \A e \in Rows : Due(e) => Age[d] <= Age[e]
    /\ del' = [del EXCEPT ![d] = Sending(s, @)]
    /\ send' = [send EXCEPT ![s] = [send[s] EXCEPT !.pc = Verdict(s, d), !.row = d,
                                                  !.attempt = NextAttempt(d)]]
    /\ UNCHANGED <<quiet, on, used>>

PutOff(s) ==
    /\ send[s].pc = "claim" /\ Full /\ \E d \in Rows : Due(d)
    /\ del' = [d \in Rows |->
                 IF Due(d) THEN Unsent(del[d], "queued", AfterRetry(del[d]), Later) ELSE del[d]]
    /\ send' = [send EXCEPT ![s] = Idle]
    /\ UNCHANGED <<quiet, on, used>>

EndPass(s) ==
    /\ send[s].pc = "claim" /\ \A d \in Rows : ~Due(d)
    /\ send' = [send EXCEPT ![s] = Idle]
    /\ UNCHANGED <<del, quiet, on, used>>

Holds(s, d) == del[d].status = "sending" /\ del[d].by = s
Continue(s) ==
    send' = [send EXCEPT ![s] =
               IF send[s].pass THEN [Idle EXCEPT !.pc = "claim", !.pass = TRUE, !.on = send[s].on]
               ELSE Idle]

\* Two updates that do not ask for the lease: the row may have gone on without s.
Overwrite(s, d, x) ==
    del' = [del EXCEPT ![d] = IF Holds(s, d) THEN x ELSE [x EXCEPT !.slip = "stale"]]
Disable(s) ==
    LET d == send[s].row IN
    /\ send[s].pc = "disable"
    /\ Overwrite(s, d, Unsent(del[d], "disabled", "none", 0))
    /\ Continue(s)
    /\ UNCHANGED <<quiet, on, used>>
\* attempt is written as it was read when the row was claimed: it had none.
Requiet(s) ==
    LET d == send[s].row IN
    /\ send[s].pc = "requiet"
    /\ Overwrite(s, d, [Unsent(del[d], "queued", "quiet", quiet) EXCEPT !.attempt = 0])
    /\ Continue(s)
    /\ UNCHANGED <<quiet, on, used>>

--------------------------------------------------------------------------------
(* _attempt_send.                                                           *)

\* What the provider's answer makes of the row.
Sent(x) == [Unsent(x, "sent", "none", 0) EXCEPT !.kept = Window]
Failed(x) == Unsent(x, "failed", "none", 0)
Again(x) == Unsent(x, "queued", "retry", Backoff)
\* Slip: one retry too many.
SlipEnded(s, x) == {Sent(x), Failed(x)} \cup (IF send[s].attempt <= MaxAttempts THEN {Again(x)} ELSE {})
Ended(s, x) == {Sent(x), Failed(x)} \cup (IF send[s].attempt < MaxAttempts THEN {Again(x)} ELSE {})
Signed(s, x) ==
    [x EXCEPT !.attempt = send[s].attempt, !.sends = @ + 1,
              !.slip = IF @ = "none" /\ x.timer = 0 THEN "late" ELSE @]

\* provider.send and update_delivery with expected_lease_until: sent, an error that may
\* pass, or one that will not.
Finish(s) ==
    LET d == send[s].row IN
    /\ send[s].pc = "send"
    /\ IF Holds(s, d) THEN \E y \in Ended(s, Signed(s, del[d])) : del' = [del EXCEPT ![d] = y]
       ELSE UNCHANGED del
    /\ Continue(s)
    /\ UNCHANGED <<quiet, on, used>>

\* The provider is not configured: nothing is sent.
FinishUnsent(s) ==
    LET d == send[s].row IN
    /\ send[s].pc = "send" /\ Holds(s, d)
    /\ del' = [del EXCEPT ![d] = [Unsent(@, "disabled", "none", 0) EXCEPT !.attempt = send[s].attempt]]
    /\ Continue(s)
    /\ UNCHANGED <<quiet, on, used>>

--------------------------------------------------------------------------------
(* Faults, time and history.                                                *)

Fault(n) == used.faults + n <= MaxFaults /\ used' = [used EXCEPT !.faults = @ + n]

\* A sender dies, before the provider has the message or after.
Dies(s) ==
    /\ send[s].pc # "idle" /\ Fault(1)
    /\ send' = [send EXCEPT ![s] = Idle]
    /\ UNCHANGED <<del, quiet, on>>

\* prune_history: a row that neither the dedup nor the rate limit reads.
Prune(d) ==
    /\ del[d].status \in {"sent", "failed", "disabled"} /\ del[d].kept = 0
    /\ del' = [del EXCEPT ![d] = Row(None, "gone", "none", 0, 0, None)]
    /\ UNCHANGED <<quiet, on, send, used>>

Toggle ==
    /\ on' = ~on
    /\ UNCHANGED <<del, quiet, send, used>>

NightFalls ==
    /\ quiet = 0 /\ used.nights < MaxNights
    /\ quiet' = Night
    /\ used' = [used EXCEPT !.nights = @ + 1]
    /\ UNCHANGED <<del, on, send>>

\* A sender that still works when its lease runs out is a fault.
Outlasts(s) == send[s].row # None /\ Holds(s, send[s].row) /\ del[send[s].row].timer = 1
Less(n) == IF n > 0 THEN n - 1 ELSE 0
Tick ==
    /\ quiet > 0 \/ \E d \in Rows : del[d].timer > 0 \/ del[d].kept > 0
    /\ Fault(Cardinality({s \in Senders : Outlasts(s)}))
    /\ del' = [d \in Rows |-> [del[d] EXCEPT !.timer = Less(@), !.kept = Less(@)]]
    /\ quiet' = Less(quiet)
    /\ UNCHANGED <<on, send>>

PassStep(s) ==
    \/ StartPass(s) \/ PutOff(s) \/ EndPass(s) \/ Disable(s) \/ Requiet(s)
    \/ Finish(s) \/ FinishUnsent(s) \/ \E d \in Rows : Claim(s, d)

Next ==
    \/ \E s \in Senders, d \in Rows, o \in Occs : ReserveDefers(s, d, o) \/ ReserveSends(s, d, o)
    \/ \E s \in Senders : PassStep(s) \/ Dies(s)
    \/ \E d \in Rows : Prune(d)
    \/ Toggle \/ NightFalls \/ Tick

Spec == Init /\ [][Next]_vars

\* Time passes, a sender goes on, and passes come round.
FairSpec == Spec /\ WF_vars(Tick) /\ \A s \in Senders : WF_vars(PassStep(s))
--------------------------------------------------------------------------------
(* Properties.                                                              *)

TypeOK ==
    /\ del \in [Rows -> [occ : Occs \cup {None}, status : Status, reason : Reason,
                         attempt : 0..MaxAttempts, timer : Nat, by : Senders \cup {None},
                         kept : 0..Window, sends : Nat, slip : {"none", "late", "stale"}]]
    /\ quiet \in 0..Night /\ on \in BOOLEAN
    /\ send \in [Senders -> [pc : Pc, row : Rows \cup {None}, attempt : 0..MaxAttempts,
                              pass : BOOLEAN, on : BOOLEAN]]
    /\ used \in [nights : Nat, faults : Nat]

\* "Atomically deduplicate": of one event at most one row is sent within the window or
\* still to be sent, through retries, expired leases, pruning and senders that come
\* late; rows written to without a lease are left out.
Alive(x) == x.status \in {"queued", "sending"} \/ x.kept > 0
Live(x) == x.slip # "stale" /\ Alive(x)
OneRowPerEvent ==
    \A d, e \in Rows :
        (del[d].occ = del[e].occ /\ Live(del[d]) /\ Live(del[e])) => d = e

\* rate_limit_max_per_hour holds for the sends of the last hour and those under way,
\* but for a row whose sender outlasted its lease.
HourlyCeiling == Cardinality({d \in Reserved : del[d].slip = "none"}) <= MaxPerHour

\* "retry_max_attempts counts *total* sends": no row gets more outcomes than that, in
\* whatever way it was deferred, put off, taken over and retried.  Only sends whose
\* outcome nobody could record come on top.
SendsCounted ==
    \A d \in Rows : del[d].slip # "stale" => del[d].sends <= MaxAttempts

\* Every event that was recorded is sent, given up or disabled some time.
EverySettles ==
    \A d \in Rows :
        del[d].status \in {"queued", "sending"} ~> del[d].status \notin {"queued", "sending"}
================================================================================
