-------------------------- MODULE ConnectionIngest --------------------------
(***************************************************************************)
(* One connection: the tick that enqueues its polls, the polls, which read *)
(* the feed, append what is new and then advance the cursor, the backoff   *)
(* after a failed read, and the two kinds of webhook, activity and         *)
(* lifecycle.  A poll job has no key: while the connection is due every    *)
(* tick pushes one more, so polls overlap.                                 *)
(*                                                                         *)
(* The feed is the sequence 1, 2, ... of its activities, of which it serves*)
(* the last page.  Etag and last event id of a cursor move together, so a  *)
(* cursor is the number of activities published when it was taken.  The    *)
(* several repositories of a poll are one feed: a poll of which one        *)
(* request fails keeps nothing.  Activities are named by their content id, *)
(* the same from poll and webhook; the types without one are left out.     *)
(* Scopes are those of `append_scoped`, public and the owner's.            *)
(***************************************************************************)
EXTENDS Integers, FiniteSets

CONSTANTS
    Scopes,        \* the scope contexts of a batch, a transaction each
    Scope,         \* the scope of each activity
    Incremental,   \* GitHub: a poll keeps what is newer than its cursor; RSS: the page
    PageSize,      \* activities the feed serves at once
    ErroredAfter,  \* consecutive failures that flip the status
    Jobs,          \* poll jobs in the queue at once (bounds the model only)
    Hooked,        \* activities whose webhook may arrive (bounds the model only)
    Notices,       \* lifecycle webhooks (bounds the model only)
    MaxActivity,   \* activities ever published (bounds the model only)
    MaxFaults      \* failed reads and lost attempts (bounds the model only)

Activities == 1 .. MaxActivity

ASSUME IngestAssumption ==
    /\ MaxActivity \in Nat /\ MaxFaults \in Nat
    /\ PageSize \in Nat \ {0} /\ ErroredAfter \in Nat \ {0}
    /\ Incremental \in BOOLEAN
    /\ Scope \in [Activities -> Scopes]
    /\ Hooked \subseteq Activities

VARIABLES
    published,  \* activities the source has published
    log,        \* the event table
    conn,       \* the connection row
    poll,       \* the poll jobs
    hook,       \* the webhook of each hooked activity
    notice,     \* the lifecycle webhooks
    faults,
    missed,     \* history: off the page before any poll read them
    streak,     \* history: failed reads since the last poll that went through
    told        \* history: the status of the last lifecycle webhook applied

vars == <<published, log, conn, poll, hook, notice, faults, missed, streak, told>>

Lifecycle == {"active", "suspended", "revoked"}
\* `due` is next_poll_at <= now().
ConnectionRow == [status : Lifecycle \cup {"errored"}, cursor : 0 .. MaxActivity,
                  failures : Nat, due : BOOLEAN]
\* The cursor the job loaded, the one it will write, what it has yet to append.
PollJob == [pc : {"idle", "pending", "loaded", "fetched"}, cursor : 0 .. MaxActivity,
            next : 0 .. MaxActivity, items : SUBSET Activities]
IdleJob == [pc |-> "idle", cursor |-> 0, next |-> 0, items |-> {}]

-----------------------------------------------------------------------------
Init ==
    /\ published = 0
    /\ log = {}
    /\ conn = [status |-> "active", cursor |-> 0, failures |-> 0, due |-> TRUE]
    /\ poll = [j \in Jobs |-> IdleJob]
    /\ hook = [i \in Hooked |-> "unsent"]
    /\ notice = [n \in Notices |-> "unsent"]
    /\ faults = 0
    /\ missed = {}
    /\ streak = 0
    /\ told = "active"

Publish ==
    /\ published < MaxActivity
    /\ published' = published + 1
    /\ UNCHANGED <<log, conn, poll, hook, notice, faults, missed, streak, told>>

Elapse ==
    /\ ~ conn.due
    /\ conn' = [conn EXCEPT !.due = TRUE]
    /\ UNCHANGED <<published, log, poll, hook, notice, faults, missed, streak, told>>

\* The first arm of run_tick, with due_connections.
Tick ==
    /\ conn.status = "active" /\ conn.due
    /\ \E j \in Jobs :
          /\ poll[j].pc = "idle"
          /\ poll' = [poll EXCEPT ![j].pc = "pending"]
    /\ UNCHANGED <<published, log, conn, hook, notice, faults, missed, streak, told>>

-----------------------------------------------------------------------------
\* ingest::poll.  It looks at the status again, not at next_poll_at.
Load(j) ==
    /\ poll[j].pc = "pending"
    /\ poll' = [poll EXCEPT ![j] = IF conn.status = "active"
                                   THEN [IdleJob EXCEPT !.pc = "loaded", !.cursor = conn.cursor]
                                   ELSE IdleJob]
    /\ UNCHANGED <<published, log, conn, hook, notice, faults, missed, streak, told>>

Page == {i \in 1 .. published : i > published - PageSize}

\* A cursor that is still current gets a 304 and stays.
Fresh(c) ==
    IF c = published THEN {} ELSE {i \in Page : Incremental => i > c}

PastNewest == published + 1             \* mutant: the first it has not seen
NewCursor == published

Fetch(j) ==
    /\ poll[j].pc = "loaded"
    /\ poll' = [poll EXCEPT ![j].pc = "fetched", ![j].next = NewCursor,
                            ![j].items = Fresh(poll[j].cursor)]
    /\ missed' = missed \cup {i \in 1 .. published : i > poll[j].cursor /\ i \notin log \cup Page}
    /\ UNCHANGED <<published, log, conn, hook, notice, faults, streak, told>>

OneEarly(n) == n + 2 >= ErroredAfter    \* mutant: a failure counted twice
ErroredAt(n) == n + 1 >= ErroredAfter

StaleStatus ==                           \* mutant: the row as the poll loaded it
    IF ErroredAt(conn.failures) THEN "errored" ELSE "active"
FailureStatus == IF ErroredAt(conn.failures) THEN "errored" ELSE conn.status

\* The source cannot be read: record_failure, and the job is done.
FetchFails(j) ==
    /\ poll[j].pc = "loaded"
    /\ faults < MaxFaults
    /\ faults' = faults + 1
    /\ conn' = [conn EXCEPT !.status = FailureStatus, !.failures = @ + 1, !.due = FALSE]
    /\ poll' = [poll EXCEPT ![j] = IdleJob]
    /\ streak' = streak + 1
    /\ UNCHANGED <<published, log, hook, notice, missed, told>>

\* append_scoped: the events of one scope, in one transaction.
AppendScoped(j, s) ==
    LET batch == {i \in poll[j].items : Scope[i] = s}
    IN  /\ poll[j].pc = "fetched"
        /\ batch # {}
        /\ log' = log \cup batch
        /\ poll' = [poll EXCEPT ![j].items = @ \ batch]
        /\ UNCHANGED <<published, conn, hook, notice, faults, missed, streak, told>>

BeforeAppend(r) == r.pc = "fetched"     \* mutant: the cursor first
Appended(r) == r.pc = "fetched" /\ r.items = {}

\* advance_cursor: whatever another poll has written in the meantime.
Advance(j) ==
    /\ Appended(poll[j])
    /\ conn' = [conn EXCEPT !.cursor = poll[j].next, !.failures = 0, !.due = FALSE]
    /\ poll' = [poll EXCEPT ![j] = IdleJob]
    /\ streak' = 0
    /\ UNCHANGED <<published, log, hook, notice, faults, missed, told>>

\* A statement fails or the worker dies: the job runs again, or has no
\* attempt left.  What it has committed stays.
Abort(j) ==
    /\ poll[j].pc \in {"loaded", "fetched"}
    /\ faults < MaxFaults
    /\ faults' = faults + 1
    /\ \E pc \in {"pending", "idle"} : poll' = [poll EXCEPT ![j] = [IdleJob EXCEPT !.pc = pc]]
    /\ UNCHANGED <<published, log, conn, hook, notice, missed, streak, told>>

-----------------------------------------------------------------------------
\* The webhook of an activity is accepted; a repetition meets the job's key.
Deliver(i) ==
    /\ i <= published
    /\ hook[i] = "unsent"
    /\ hook' = [hook EXCEPT ![i] = "queued"]
    /\ UNCHANGED <<published, log, conn, poll, notice, faults, missed, streak, told>>

\* process_webhook, an activity: whatever the status of the connection.
IngestHook(i) ==
    /\ hook[i] = "queued"
    /\ hook' = [hook EXCEPT ![i] = "spent"]
    /\ log' = log \cup {i}
    /\ UNCHANGED <<published, conn, poll, notice, faults, missed, streak, told>>

\* A job that fails until its attempts are spent; its key stays taken.
KillHook(i) ==
    /\ hook[i] = "queued"
    /\ faults < MaxFaults
    /\ faults' = faults + 1
    /\ hook' = [hook EXCEPT ![i] = "spent"]
    /\ UNCHANGED <<published, log, conn, poll, notice, missed, streak, told>>

Notify(n) ==
    /\ notice[n] = "unsent"
    /\ \E s \in Lifecycle : notice' = [notice EXCEPT ![n] = s]
    /\ UNCHANGED <<published, log, conn, poll, hook, faults, missed, streak, told>>

\* process_webhook, a lifecycle: in any order, and nothing but the status.
ApplyNotice(n) ==
    /\ notice[n] \in Lifecycle
    /\ conn' = [conn EXCEPT !.status = notice[n]]
    /\ notice' = [notice EXCEPT ![n] = "spent"]
    /\ told' = notice[n]
    /\ UNCHANGED <<published, log, poll, hook, faults, missed, streak>>

-----------------------------------------------------------------------------
Step(j) ==
    \/ Load(j)
    \/ Fetch(j)
    \/ \E s \in Scopes : AppendScoped(j, s)
    \/ Advance(j)

Next ==
    \/ Publish
    \/ Elapse
    \/ Tick
    \/ \E j \in Jobs : Step(j) \/ FetchFails(j) \/ Abort(j)
    \/ \E i \in Hooked : Deliver(i) \/ IngestHook(i) \/ KillHook(i)
    \/ \E n \in Notices : Notify(n) \/ ApplyNotice(n)

Spec == Init /\ [][Next]_vars

\* Time passes, the tick comes every minute and the workers take every job.
\* Neither the webhooks nor the source are owed anything.
Fairness ==
    /\ WF_vars(Elapse)
    /\ WF_vars(Tick)
    /\ \A j \in Jobs : WF_vars(Step(j))

FairSpec == Spec /\ Fairness

-----------------------------------------------------------------------------
(***************************************************************************)
(* Type correctness: the rows the two intakes and the tick write.          *)
(***************************************************************************)
TypeOK ==
    /\ published \in 0 .. MaxActivity
    /\ log \subseteq Activities
    /\ conn \in ConnectionRow
    /\ poll \in [Jobs -> PollJob]
    /\ hook \in [Hooked -> {"unsent", "queued", "spent"}]
    /\ notice \in [Notices -> {"unsent", "spent"} \cup Lifecycle]
    /\ faults \in Nat
    /\ missed \subseteq Activities
    /\ streak \in Nat
    /\ told \in Lifecycle

(***************************************************************************)
(* "Events commit before the cursor advances": whatever polls overlap, die *)
(* halfway or write their cursor late, no activity the source served is    *)
(* behind the cursor and not in the log (ingest::poll).                    *)
(***************************************************************************)
NothingBehindCursor ==
    \A i \in Activities : i <= conn.cursor => i \in log \cup missed

(***************************************************************************)
(* A poll that began before a suspension and ends after it does not undo   *)
(* it: only a lifecycle webhook makes a connection active again, whatever  *)
(* record_failure and advance_cursor write.                                *)
(***************************************************************************)
OnlyLifecycleResumes ==
    [][conn.status # "active" /\ conn'.status = "active"
       => \E n \in Notices : notice[n] = "active" /\ notice'[n] = "spent"]_vars

(***************************************************************************)
(* "A dropped webhook is recovered by the next poll": as long as no        *)
(* lifecycle webhook pauses the connection and fewer than ErroredAfter     *)
(* reads in a row fail, every activity the source still serves when polled *)
(* is ingested, with no help from any webhook.                             *)
(***************************************************************************)
EventuallyIngested ==
    [](streak < ErroredAfter) /\ <>[](told = "active")
    => \A i \in Activities : (i <= published) ~> (i \in log \cup missed)

-----------------------------------------------------------------------------
\* The inductive strengthening: what a job at each phase knows of its cursor.
Settled(c, items) ==
    \A i \in Activities : i <= c => i \in log \cup missed \cup items

CursorInv ==
    /\ Settled(conn.cursor, {})
    /\ \A j \in Jobs : poll[j].pc = "loaded" => Settled(poll[j].cursor, {})
    /\ \A j \in Jobs : poll[j].pc = "fetched" => Settled(poll[j].next, poll[j].items)
=============================================================================
