--------------------------- MODULE DigestDelivery ---------------------------
(***************************************************************************)
(* The delivery of one subscriber's digests: the minute tick that enqueues *)
(* a GenerateDigest job for a due boundary, the apalis queue that runs and *)
(* retries the job, `digest::generate` split at every point where the code *)
(* awaits the database, the model sidecar or the mail server, and the      *)
(* subscriber's schedule row, which preference changes move concurrently.  *)
(*                                                                         *)
(* One subscriber is modelled: every row the flow touches is the           *)
(* subscriber's own (row-level security fences it) and the job key carries *)
(* the subscriber id, so two subscribers never interact here.              *)
(*                                                                         *)
(* Time is a natural number.  An instant also stands for "an item that     *)
(* happened at that instant": what a digest considered is an interval of   *)
(* instants, from its display floor to what was ready when it was read.    *)
(***************************************************************************)
EXTENDS Integers

CONSTANTS
    Horizon,      \* the last instant of the clock (bounds the model only)
    Schedules,    \* the recurrences a subscriber may choose
    Lag,          \* time from an item's event to its summarized cluster
    MaxDelay,     \* how long a due boundary may wait before time is held
    MaxAttempts,  \* DIGEST_MAX_ATTEMPTS, the retry budget of one job
    MaxFailures,  \* attempts that return an error in a behaviour
    MaxCrashes,   \* attempts whose worker dies in a behaviour
    MaxChanges    \* preference changes in a behaviour

Recurrence == [period : Nat \ {0}, phase : Nat, grace : Nat]

ASSUME DeliveryAssumption ==
    /\ Horizon \in Nat /\ Lag \in Nat /\ MaxDelay \in Nat
    /\ MaxAttempts \in Nat \ {0} /\ MaxFailures \in Nat /\ MaxCrashes \in Nat /\ MaxChanges \in Nat
    /\ Schedules \subseteq Recurrence

VARIABLES
    clock,     \* now(), shared by the database and the workers
    schedule,  \* subscriber.freq / on_weekday / digest_time
    nextRun,   \* subscriber.next_run_at
    lastRun,   \* subscriber.last_run_at, NoRun before the first delivery
    job,       \* the apalis row of each window's idempotency key
    run,       \* the attempt in progress of each job
    digest,    \* the digest row of each window_end, with its frozen items
    sent,      \* mails handed to the mail server, per window
    exposed,   \* history: windows sent, but not marked, by an attempt
    seen,      \* history: instants whose items a delivered digest considered
    passed,    \* history: instants a mark left behind, not yet summarized for it
    failures,  \* attempts that returned an error so far
    crashes,   \* attempts whose worker died so far
    changes    \* preference changes so far

subscriberVars == <<schedule, nextRun, lastRun>>
historyVars == <<exposed, seen, passed>>
boundVars == <<failures, crashes, changes>>
vars == <<clock, schedule, nextRun, lastRun, job, run, digest, sent,
          exposed, seen, passed, failures, crashes, changes>>

Instants == 0 .. Horizon
NoRun == -1

JobStatus == {"Absent", "Pending", "Running", "Failed", "Done", "Killed"}
Phase == {"idle", "loaded", "selected", "frozen", "sent", "marked"}

JobRow == [status : JobStatus, attempts : Nat]
RunRecord == [pc : Phase, win : Instants, snap : Instants,
              last : Instants \cup {NoRun}, window : Nat, read : Instants, floor : Int]
\* `first` says that its attempt knew of no delivery before.
DigestRow == [exists : BOOLEAN, first : BOOLEAN, read : Instants, floor : Int, delivered : BOOLEAN]

IdleRun == [pc |-> "idle", win |-> 0, snap |-> 0, last |-> NoRun,
            window |-> 0, read |-> 0, floor |-> 0]
NoDigest == [exists |-> FALSE, first |-> FALSE, read |-> 0, floor |-> 0, delivered |-> FALSE]

(***************************************************************************)
(* The SQL function next_run: the first boundary strictly after t.         *)
(***************************************************************************)
LastBoundary(s, t) == t - ((t - s.phase) % s.period)  \* mutant: the boundary behind
AtOrAfter(s, t) == t + ((s.phase - t) % s.period)  \* mutant: not strictly after
NextRun(s, t) == t + 1 + ((s.phase - (t + 1)) % s.period)

Later(a, b) == IF a < b THEN b ELSE a

\* Recurrence::display_window: one cadence plus its grace.
DisplayWindow(s) == s.period + s.grace

\* Recurrence::display_floor: back to the last delivery, and never less than
\* the window.
CadenceFloor(window, last, now) == now - window  \* mutant: the cadence alone
DisplayFloor(window, last, now) ==
    IF last = NoRun \/ now - window < last THEN now - window ELSE last

\* The instants whose items a read at `read` could surface.
Considered(floor, read) == {e \in Instants : floor <= e /\ e + Lag <= read}

\* The attempt has passed the delivered_at check and may still send or mark.
Committed(r) == r.pc \in {"frozen", "sent"}

-----------------------------------------------------------------------------
Init ==
    /\ clock = 0
    /\ schedule \in Schedules
    /\ nextRun = NextRun(schedule, 0)
    /\ lastRun = NoRun
    /\ job = [w \in Instants |-> [status |-> "Absent", attempts |-> 0]]
    /\ run = [w \in Instants |-> IdleRun]
    /\ digest = [w \in Instants |-> NoDigest]
    /\ sent = [w \in Instants |-> 0]
    /\ exposed = {}
    /\ seen = {}
    /\ passed = {}
    /\ failures = 0
    /\ crashes = 0
    /\ changes = 0

\* Time passes; MaxDelay says how late a due boundary may still be served.
Advance ==
    /\ clock < Horizon
    /\ clock < nextRun + MaxDelay
    /\ clock' = clock + 1
    /\ UNCHANGED <<subscriberVars, job, run, digest, sent, historyVars, boundVars>>

\* run_tick: a due subscriber's window is enqueued once.  The key's unique
\* index is permanent, so a window that was ever enqueued is not enqueued again.
Tick ==
    /\ nextRun <= clock
    /\ job[nextRun].status = "Absent"
    /\ job' = [job EXCEPT ![nextRun].status = "Pending"]
    /\ UNCHANGED <<clock, subscriberVars, run, digest, sent, historyVars, boundVars>>

\* update_preferences: a reschedule anchored on GREATEST(now, last_run_at).
ChangePreferences(s) ==
    /\ changes < MaxChanges
    /\ s # schedule
    /\ schedule' = s
    /\ nextRun' = NextRun(s, Later(clock, lastRun))
    /\ changes' = changes + 1
    /\ UNCHANGED <<clock, lastRun, job, run, digest, sent, historyVars, failures, crashes>>

-----------------------------------------------------------------------------
(***************************************************************************)
(* One attempt of the job keyed by window j.  The job carries only the     *)
(* subscriber id: the window it serves is the next_run_at it loads.        *)
(***************************************************************************)
PendingOnly(j) == job[j].status = "Pending"  \* mutant: no retry

\* The queue hands out a Pending job, or a Failed one with attempts left.
Runnable(j) ==
    \/ job[j].status = "Pending"
    \/ job[j].status = "Failed" /\ job[j].attempts < MaxAttempts

\* generate's head: snapshot_at, the subscriber row, and the due check.
Load(j) ==
    /\ Runnable(j)
    /\ nextRun <= clock
    /\ job' = [job EXCEPT ![j].status = "Running", ![j].attempts = @ + 1]
    /\ run' = [run EXCEPT ![j] = [pc |-> "loaded", win |-> nextRun, snap |-> clock,
                                  last |-> lastRun, window |-> DisplayWindow(schedule),
                                  read |-> 0, floor |-> 0]]
    /\ UNCHANGED <<clock, subscriberVars, digest, sent, historyVars, boundVars>>

\* DigestOutcome::NotYetDue: the boundary moved; the job ends as a success.
LoadNotYetDue(j) ==
    /\ Runnable(j)
    /\ nextRun > clock
    /\ job' = [job EXCEPT ![j].status = "Done", ![j].attempts = @ + 1]
    /\ UNCHANGED <<clock, subscriberVars, run, digest, sent, historyVars, boundVars>>

\* build_private and link_and_select: the candidates are read as of now.
Select(j) ==
    /\ run[j].pc = "loaded"
    /\ run' = [run EXCEPT ![j].pc = "selected", ![j].read = clock,
                          ![j].floor = DisplayFloor(run[j].window, run[j].last, clock)]
    /\ UNCHANGED <<clock, subscriberVars, job, digest, sent, historyVars, boundVars>>

\* create_with_items: the first attempt freezes its selection, every later
\* one gets the frozen row; a row that was delivered ends the attempt.
GetOrCreate(j) ==
    LET r == run[j] IN
    IF digest[r.win].exists
    THEN digest
    ELSE [digest EXCEPT ![r.win] = [exists |-> TRUE, first |-> r.last = NoRun, read |-> r.read,
                                    floor |-> r.floor, delivered |-> FALSE]]

NeverDelivered(w) == FALSE  \* mutant: the check is dropped
AlreadyDelivered(w) == digest[w].delivered

Freeze(j) ==
    /\ run[j].pc = "selected"
    /\ ~ AlreadyDelivered(run[j].win)
    /\ digest' = GetOrCreate(j)
    /\ run' = [run EXCEPT ![j].pc = "frozen"]
    /\ exposed' = IF \E i \in Instants \ {j} : Committed(run[i]) /\ run[i].win = run[j].win
                  THEN exposed \cup {run[j].win}
                  ELSE exposed
    /\ UNCHANGED <<clock, subscriberVars, job, sent, seen, passed, boundVars>>

FreezeAlreadyDelivered(j) ==
    /\ run[j].pc = "selected"
    /\ AlreadyDelivered(run[j].win)
    /\ job' = [job EXCEPT ![j].status = "Done"]
    /\ run' = [run EXCEPT ![j] = IdleRun]
    /\ UNCHANGED <<clock, subscriberVars, digest, sent, historyVars, boundVars>>

\* The rest of generate up to mailer.send: the lead was authored (or nothing
\* is left to show and the all-caught-up note goes out), and the mail is sent.
Send(j) ==
    /\ run[j].pc = "frozen"
    /\ sent' = [sent EXCEPT ![run[j].win] = @ + 1]
    /\ run' = [run EXCEPT ![j].pc = "sent"]
    /\ UNCHANGED <<clock, subscriberVars, job, digest, historyVars, boundVars>>

\* mark_delivered: the row and the schedule in one transaction.  What happened
\* before the attempt's snapshot, but was summarized only after the read that
\* its row is frozen from, is then behind last_run_at and in no digest.
MarkBeforeSend(j) == run[j].pc \in {"frozen", "sent"}  \* mutant: order not enforced
ReadyToMark(j) == run[j].pc = "sent"

MarkDelivered(j) ==
    LET w == run[j].win IN
    /\ ReadyToMark(j)
    /\ digest' = [digest EXCEPT ![w].delivered = TRUE]
    /\ lastRun' = run[j].snap
    /\ nextRun' = NextRun(schedule, clock)
    /\ run' = [run EXCEPT ![j].pc = "marked"]
    /\ seen' = seen \cup Considered(digest[w].floor, digest[w].read)
    /\ passed' = passed \cup {e \in Instants : e < run[j].snap /\ e + Lag > digest[w].read}
    /\ UNCHANGED <<clock, schedule, job, sent, exposed, boundVars>>

\* The handler returned Ok and the queue records it.
Acknowledge(j) ==
    /\ run[j].pc = "marked"
    /\ job' = [job EXCEPT ![j].status = "Done"]
    /\ run' = [run EXCEPT ![j] = IdleRun]
    /\ UNCHANGED <<clock, subscriberVars, digest, sent, historyVars, boundVars>>

\* What an attempt that ends early leaves behind in the history.
Abandon(j) ==
    /\ run' = [run EXCEPT ![j] = IdleRun]
    /\ exposed' = IF run[j].pc = "sent" THEN exposed \cup {run[j].win} ELSE exposed

\* Any step may return an error: the database, the mail server, or
\* DigestOutcome::LeadDeferred.  The queue retries until the budget is spent.
Fail(j) ==
    /\ failures < MaxFailures
    /\ run[j].pc \notin {"idle", "marked"}
    /\ job' = [job EXCEPT ![j].status =
                   IF job[j].attempts < MaxAttempts THEN "Failed" ELSE "Killed"]
    /\ Abandon(j)
    /\ failures' = failures + 1
    /\ UNCHANGED <<clock, subscriberVars, digest, sent, seen, passed, crashes, changes>>

\* The worker dies; the queue re-enqueues the orphaned job.
Crash(j) ==
    /\ crashes < MaxCrashes
    /\ run[j].pc # "idle"
    /\ job' = [job EXCEPT ![j].status = "Pending"]
    /\ Abandon(j)
    /\ crashes' = crashes + 1
    /\ UNCHANGED <<clock, subscriberVars, digest, sent, seen, passed, failures, changes>>

Attempt(j) ==
    \/ Load(j) \/ LoadNotYetDue(j)
    \/ Select(j)
    \/ Freeze(j) \/ FreezeAlreadyDelivered(j)
    \/ Send(j)
    \/ MarkDelivered(j) \/ Acknowledge(j)

Next ==
    \/ Advance
    \/ Tick
    \/ \E s \in Schedules : ChangePreferences(s)
    \/ \E j \in Instants : Attempt(j) \/ Fail(j) \/ Crash(j)

Spec == Init /\ [][Next]_vars

\* The tick fires every minute and a worker polls the queue; a started
\* attempt is always driven on.  Faults, clients and the clock owe nothing.
Fairness == WF_vars(Tick) /\ \A j \in Instants : WF_vars(Attempt(j))

FairSpec == Spec /\ Fairness

-----------------------------------------------------------------------------
TypeOK ==
    /\ clock \in Instants
    /\ schedule \in Schedules
    /\ nextRun \in Nat
    /\ lastRun \in Instants \cup {NoRun}
    /\ job \in [Instants -> JobRow]
    /\ run \in [Instants -> RunRecord]
    /\ digest \in [Instants -> DigestRow]
    /\ sent \in [Instants -> Nat]
    /\ exposed \subseteq Instants
    /\ seen \subseteq Instants
    /\ passed \subseteq Instants
    /\ failures \in 0 .. MaxFailures
    /\ crashes \in 0 .. MaxCrashes
    /\ changes \in 0 .. MaxChanges

(***************************************************************************)
(* A window is mailed at most once unless an attempt was lost between its  *)
(* mail and its mark, or two attempts were past the delivered check at     *)
(* once: the get-or-create row and its delivered_at are the only guard.    *)
(***************************************************************************)
SentOnceUnlessExposed ==
    \A w \in Instants : w \notin exposed => sent[w] <= 1

(***************************************************************************)
(* No digest is lost: a window is only recorded delivered, and its items   *)
(* only count as considered, after its mail went out.                      *)
(***************************************************************************)
DeliveredWasSent ==
    \A w \in Instants : digest[w].delivered => sent[w] >= 1

(***************************************************************************)
(* "delivered => schedule moved" (digest/store.rs): a delivered window is  *)
(* behind the schedule and no later reschedule brings it back.             *)
(***************************************************************************)
DeliveredNeverDueAgain ==
    \A w \in Instants : digest[w].delivered => w < nextRun

(***************************************************************************)
(* Consideration (system-design.md 9.4): no item falls between two digests,*)
(* however late, retried or overlapping they are.  Of what the first       *)
(* digest could reach and none has considered, everything is still ahead   *)
(* of last_run_at, so that the next floor reaches back to it, unless a     *)
(* mark has passed over it; and that is lost only if no digest was read    *)
(* within a display window of it.                                          *)
(***************************************************************************)
Recorded == {w \in Instants : digest[w].delivered}

Owed(e) ==
    /\ Recorded # {}
    /\ \A w \in Recorded : digest[w].first => digest[w].floor <= e

\* Summarized by then, and within the window whatever the cadence.
InTime(e, read) ==
    /\ e + Lag <= read
    /\ \A s \in Schedules : read - DisplayWindow(s) <= e

NoItemSkipped ==
    \A e \in Instants : Owed(e) /\ e \notin seen =>
        \/ lastRun <= e
        \/ e \in passed /\ \A w \in Recorded : ~ InTime(e, digest[w].read)

(***************************************************************************)
(* Every due boundary is eventually served or moved: the subscriber is     *)
(* never left due for good.                                                *)
(***************************************************************************)
DueIsServed == (nextRun <= clock) ~> (nextRun > clock)

(***************************************************************************)
(* The delivery keeps its promise, see DigestPromise: an attempt past the  *)
(* delivered check holds its window, and everything else the flow does, a  *)
(* retry, a crash, a preference change or a late job, is a step of the     *)
(* promise or none at all.                                                 *)
(***************************************************************************)
Held(r) ==
    IF Committed(r) THEN [busy |-> TRUE, window |-> r.win, mailed |-> r.pc = "sent"]
    ELSE [busy |-> FALSE, window |-> 0, mailed |-> FALSE]

Holds == [j \in Instants |-> Held(run[j])]

Promise == INSTANCE DigestPromise WITH
    Windows <- Instants, Hands <- Instants,
    due <- nextRun, holds <- Holds, mails <- sent, recorded <- Recorded, doubtful <- exposed

KeepsPromise == Promise!Spec

-----------------------------------------------------------------------------
(***************************************************************************)
(* The inductive strengthening of the three safety properties above: what  *)
(* an attempt at each phase knows of its window.                           *)
(***************************************************************************)
MarkFollowsSend ==
    /\ DeliveredWasSent
    /\ \A j \in Instants : run[j].pc \in {"sent", "marked"} => sent[run[j].win] >= 1

ServedIsPast ==
    /\ DeliveredNeverDueAgain
    /\ \A w \in Instants : digest[w].delivered => w <= clock
    /\ \A j \in Instants : run[j].pc # "idle" => run[j].win <= clock

\* A job in any other state has no attempt: Load never overwrites one.
AttemptOwnsJob == \A j \in Instants : run[j].pc # "idle" => job[j].status = "Running"

\* Of an unexposed window: at most one attempt is past the delivered check,
\* and the number of mails follows from its phase and from delivered_at.
OneCommitted ==
    \A i, j \in Instants :
        Committed(run[i]) /\ Committed(run[j]) /\ run[i].win = run[j].win
        => i = j \/ run[i].win \in exposed

CommittedUndelivered ==
    \A j \in Instants :
        Committed(run[j]) => ~ digest[run[j].win].delivered \/ run[j].win \in exposed

MailsByPhase ==
    \A w \in Instants \ exposed :
        /\ \A j \in Instants : run[j].pc = "frozen" /\ run[j].win = w => sent[w] = 0
        /\ \A j \in Instants : run[j].pc = "sent" /\ run[j].win = w => sent[w] = 1
        /\ ~ digest[w].delivered /\ (\A j \in Instants : run[j].pc = "sent" => run[j].win # w)
           => sent[w] = 0

SendInv ==
    AttemptOwnsJob /\ OneCommitted /\ CommittedUndelivered /\ MailsByPhase /\ SentOnceUnlessExposed
=============================================================================
