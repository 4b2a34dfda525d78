---------------------------- MODULE SummarySweep ----------------------------
(***************************************************************************)
(* The cluster-summarization sweep: what the content of a cluster goes     *)
(* through from an event, or a fetched article, to the model's summary,    *)
(* with the retry budget and the quarantine of a cluster that keeps        *)
(* failing.  Nothing schedules a sweep: each is called by the build or the *)
(* article fetch that has just committed, so several may run at once, and  *)
(* none comes while nothing is built.  No sweep holds a transaction across *)
(* a model call.                                                           *)
(*                                                                         *)
(* The staleness gate compares timestamps: `updated_at` is the START of    *)
(* the transaction that announces a change, `summarized_at` and            *)
(* `summary_quarantined_at` the instant of the write.  The clock therefore *)
(* only counts the transactions that announce a change: a write at clock t *)
(* falls after the start of the t-th and before the next.                  *)
(***************************************************************************)
EXTENDS Integers, FiniteSets

CONSTANTS
    Clusters,     \* the clusters of one scope
    Fetchers,     \* the article fetches that may end at the same time
    Sweepers,     \* the jobs that may sweep it at the same time
    MaxAttempts,  \* MAX_SUMMARY_ATTEMPTS
    MaxPerSweep,  \* cfg.max_per_sweep
    MaxChanges,   \* content changes per cluster (bounds the model only)
    MaxUpgrades,  \* model or prompt upgrades (bounds the model only)
    MaxCrashes    \* transactions and sweeps that die (bounds the model only)

ASSUME SummaryAssumption ==
    /\ IsFiniteSet(Clusters) /\ Clusters # {}
    /\ IsFiniteSet(Sweepers)
    /\ MaxAttempts \in Nat \ {0} /\ MaxPerSweep \in Nat
    /\ MaxChanges \in Nat /\ MaxUpgrades \in Nat /\ MaxCrashes \in Nat

VARIABLES
    clock,    \* the transactions begun that announce a change
    content,  \* the version of each cluster's events in the log
    unbuilt,  \* clusters with events that no build has taken up
    announce, \* the open transactions that announce a change of each cluster
    row,      \* the summary columns of each cluster row
    model,    \* the model and prompt version in the environment
    called,   \* a job has committed and is about to sweep
    sweep,    \* the sweep of each job
    crashes,
    announced, judged, raced, failures  \* history, see below

changeVars == <<clock, content, unbuilt, announce, announced>>
summaryVars == <<row, judged, raced, failures>>
vars == <<changeVars, called, summaryVars, model, sweep, crashes>>

Never == -1     \* a NULL timestamp
NoContent == 0  \* no version: a NULL hash

Versions == 0 .. MaxChanges + 1
Times == Nat \cup {Never}

SummaryRow == [updated : Nat, summarized : Times, hash : Versions, model : Nat,
               attempts : Nat, quarantined : Times]
DueCluster == [cluster : Clusters, hash : Versions, attempts : Nat]
NotReading == [cluster |-> CHOOSE c \in Clusters : TRUE, hash |-> NoContent, attempts |-> 0]
SweepRecord == [pc : {"idle", "walking", "calling"}, model : Nat, todo : SUBSET DueCluster,
                at : DueCluster, read : Versions]

\* The transactions that announce changes of one cluster: builds of a scope
\* exclude each other, the tasks of an article sweep do not.
Writers == {"build"} \cup Fetchers
NoAnnouncement == [start |-> Never, seen |-> NoContent]
Announcement == [start : Nat, seen : Versions] \cup {NoAnnouncement}

NewRow == [updated |-> 0, summarized |-> Never, hash |-> NoContent, model |-> 0,
           attempts |-> 0, quarantined |-> Never]
NoSweep == [pc |-> "idle", model |-> 0, todo |-> {}, at |-> NotReading, read |-> NoContent]

Open(c, w) == announce[c][w] # NoAnnouncement

-----------------------------------------------------------------------------
\* Every cluster has been built once, over the first version of its content.
Init ==
    /\ clock = 0
    /\ content = [c \in Clusters |-> 1]
    /\ unbuilt = {}
    /\ announce = [c \in Clusters |-> [w \in Writers |-> NoAnnouncement]]
    /\ row = [c \in Clusters |-> NewRow]
    /\ model = 0
    /\ called = FALSE
    /\ sweep = [s \in Sweepers |-> NoSweep]
    /\ crashes = 0
    /\ announced = [c \in Clusters |-> 1]
    /\ judged = [c \in Clusters |-> NoContent]
    /\ raced = [c \in Clusters |-> FALSE]
    /\ failures = [c \in Clusters |-> 0]

\* An event of the group commits to the log.
Arrive(c) ==
    /\ content[c] <= MaxChanges
    /\ content' = [content EXCEPT ![c] = @ + 1]
    /\ unbuilt' = unbuilt \cup {c}
    /\ UNCHANGED <<clock, announce, announced, called, summaryVars, model, sweep, crashes>>

\* A build, or the write of a fetched article, starts its transaction: now()
\* is fixed here.
Begin(c, w) ==
    /\ ~ Open(c, w)
    /\ clock' = clock + 1
    /\ announce' = [announce EXCEPT ![c][w] = [start |-> clock + 1, seen |-> content[c]]]

BeginBuild(c) ==
    /\ c \in unbuilt
    /\ Begin(c, "build")
    /\ unbuilt' = unbuilt \ {c}
    /\ UNCHANGED <<content, announced, called, summaryVars, model, sweep, crashes>>

BeginFetch(c, f) ==
    /\ content[c] <= MaxChanges
    /\ Begin(c, f)
    /\ UNCHANGED <<content, unbuilt, announced, called, summaryVars, model, sweep, crashes>>

\* The commit: `updated_at` is the transaction's start, even over the one a
\* transaction that started later has left.  A change after a quarantine
\* earns a fresh budget.  The job goes on to sweep.
Announce(c, w, version) ==
    LET start == announce[c][w].start IN
    /\ row' = [row EXCEPT ![c].updated = start]
    /\ announced' = [announced EXCEPT ![c] = IF version > @ THEN version ELSE @]
    /\ announce' = [announce EXCEPT ![c][w] = NoAnnouncement]
    /\ called' = TRUE
    /\ failures' = [failures EXCEPT ![c] =
          IF row[c].quarantined # Never /\ start > row[c].quarantined THEN 0 ELSE @]

\* upsert_cluster, at the commit of the build.
CommitBuild(c) ==
    /\ Open(c, "build")
    /\ Announce(c, "build", announce[c]["build"].seen)
    /\ UNCHANGED <<clock, content, unbuilt, judged, raced, model, sweep, crashes>>

SilentFetch(c, f) ==  \* mutant: the text is stored, the cluster not touched
    /\ Open(c, f)
    /\ content[c] <= MaxChanges
    /\ content' = [content EXCEPT ![c] = @ + 1]
    /\ announced' = [announced EXCEPT ![c] = content[c] + 1]
    /\ announce' = [announce EXCEPT ![c][f] = NoAnnouncement]
    /\ called' = TRUE
    /\ UNCHANGED <<clock, unbuilt, summaryVars, model, sweep, crashes>>

\* store_full_text and touch_group: the text and the announcement together.
CommitFetch(c, f) ==
    /\ Open(c, f)
    /\ content[c] <= MaxChanges
    /\ content' = [content EXCEPT ![c] = @ + 1]
    /\ Announce(c, f, content[c] + 1)
    /\ UNCHANGED <<clock, unbuilt, judged, raced, model, sweep, crashes>>

\* The transaction fails: its events are still unbuilt, its article unfetched.
Rollback(c, w) ==
    /\ Open(c, w)
    /\ crashes < MaxCrashes
    /\ crashes' = crashes + 1
    /\ unbuilt' = IF w = "build" THEN unbuilt \cup {c} ELSE unbuilt
    /\ announce' = [announce EXCEPT ![c][w] = NoAnnouncement]
    /\ UNCHANGED <<clock, content, announced, called, summaryVars, model, sweep>>

\* A deployment with another model or prompt version.
Upgrade ==
    /\ model < MaxUpgrades
    /\ model' = model + 1
    /\ UNCHANGED <<changeVars, called, summaryVars, sweep, crashes>>

\* A build of other clusters of the scope commits; for a private scope, the
\* hourly maintenance job begins its sweep.
BuildElsewhere ==
    /\ ~ called
    /\ called' = TRUE
    /\ UNCHANGED <<changeVars, summaryVars, model, sweep, crashes>>

\* The worker dies between the commit and its sweep.
DropSweep ==
    /\ called
    /\ crashes < MaxCrashes
    /\ crashes' = crashes + 1
    /\ called' = FALSE
    /\ UNCHANGED <<changeVars, summaryVars, model, sweep>>

-----------------------------------------------------------------------------
(***************************************************************************)
(* The work queue, clusters_needing_summary.                               *)
(***************************************************************************)
IgnoreQuarantine(c) == TRUE  \* mutant: the quarantine is not looked at

Stale(c, current) ==
    \/ row[c].summarized = Never
    \/ row[c].updated > row[c].summarized
    \/ row[c].model # current

Retryable(c) == row[c].quarantined = Never \/ row[c].updated > row[c].quarantined

NeedsSummary(c, current) == Stale(c, current) /\ Retryable(c)

\* `retry_reset`: a content change since the quarantine, a fresh budget.
RetryReset(c) == row[c].quarantined # Never /\ row[c].updated > row[c].quarantined

Entry(c) == [cluster |-> c, hash |-> row[c].hash,
             attempts |-> IF RetryReset(c) THEN 0 ELSE row[c].attempts]

\* The limit keeps the newest; the events' times are not modelled, so any.
Batches(current) ==
    LET due == {c \in Clusters : NeedsSummary(c, current)}
        size == IF Cardinality(due) < MaxPerSweep THEN Cardinality(due) ELSE MaxPerSweep
    IN  {S \in SUBSET due : Cardinality(S) = size}

StartSweep(s) ==
    /\ called
    /\ sweep[s].pc = "idle"
    /\ \E S \in Batches(model) :
          sweep' = [sweep EXCEPT ![s] = [NoSweep EXCEPT !.pc = "walking", !.model = model,
                                                        !.todo = {Entry(c) : c \in S}]]
    /\ called' = FALSE
    /\ UNCHANGED <<changeVars, summaryVars, model, crashes>>

\* list_group_events, and the start of the model call for what was read.
ReadEvents(s) ==
    /\ sweep[s].pc = "walking"
    /\ \E d \in sweep[s].todo :
          sweep' = [sweep EXCEPT ![s].pc = "calling", ![s].at = d, ![s].todo = @ \ {d},
                                 ![s].read = content[d.cluster]]
    /\ UNCHANGED <<changeVars, called, summaryVars, model, crashes>>

FinishSweep(s) ==
    /\ sweep[s].pc = "walking"
    /\ sweep[s].todo = {}
    /\ sweep' = [sweep EXCEPT ![s] = NoSweep]
    /\ UNCHANGED <<changeVars, called, summaryVars, model, crashes>>

\* On to the next entry; nothing of this one is kept.
Walk(s) ==
    sweep' = [sweep EXCEPT ![s].pc = "walking", ![s].at = NotReading, ![s].read = NoContent]

\* The cached summary still holds, or so its hash says.
CacheHit(s) == sweep[s].read = sweep[s].at.hash

\* The write settles the cluster's state for the version that was read; it
\* races every change whose transaction has started and that was not in it.
Judge(s, c) ==
    /\ judged' = [judged EXCEPT ![c] = sweep[s].read]
    /\ raced' = [raced EXCEPT ![c] = announced[c] > sweep[s].read \/ \E w \in Writers : Open(c, w)]

TouchSummarized(s) ==
    LET c == sweep[s].at.cluster IN
    /\ sweep[s].pc = "calling"
    /\ CacheHit(s)
    /\ row' = [row EXCEPT ![c].summarized = clock, ![c].attempts = 0, ![c].quarantined = Never]
    /\ Judge(s, c)
    /\ failures' = [failures EXCEPT ![c] = 0]
    /\ Walk(s)
    /\ UNCHANGED <<changeVars, called, model, crashes>>

\* An error of the touch is dropped and the sweep goes on.
TouchFails(s) ==
    /\ sweep[s].pc = "calling"
    /\ CacheHit(s)
    /\ crashes < MaxCrashes
    /\ crashes' = crashes + 1
    /\ Walk(s)
    /\ UNCHANGED <<changeVars, called, summaryVars, model>>

StoreSummary(s) ==
    LET c == sweep[s].at.cluster IN
    /\ sweep[s].pc = "calling"
    /\ ~ CacheHit(s)
    /\ row' = [row EXCEPT ![c].summarized = clock, ![c].hash = sweep[s].read,
                          ![c].model = sweep[s].model,
                          ![c].attempts = 0, ![c].quarantined = Never]
    /\ Judge(s, c)
    /\ failures' = [failures EXCEPT ![c] = 0]
    /\ Walk(s)
    /\ UNCHANGED <<changeVars, called, model, crashes>>

CountDown(s) == sweep[s].at.attempts - 1  \* mutant: the attempts left
StuckAttempts(s) == 1  \* mutant: the count is not carried over

\* note_summary_failure: the absolute new count, and whether it is the last.
NextAttempts(s) == sweep[s].at.attempts + 1
QuarantinedAt(s, c) == IF NextAttempts(s) >= MaxAttempts THEN clock ELSE Never

RecordFailure(s) ==
    LET c == sweep[s].at.cluster IN
    /\ sweep[s].pc = "calling"
    /\ ~ CacheHit(s)
    /\ row' = [row EXCEPT ![c].attempts = NextAttempts(s), ![c].quarantined = QuarantinedAt(s, c)]
    /\ IF NextAttempts(s) >= MaxAttempts THEN Judge(s, c) ELSE UNCHANGED <<judged, raced>>
    /\ failures' = [failures EXCEPT ![c] = IF @ > MaxAttempts THEN @ ELSE @ + 1]
    /\ Walk(s)
    /\ UNCHANGED <<changeVars, called, model, crashes>>

\* A database error or a dead worker ends the sweep where it stands.
CrashSweep(s) ==
    /\ sweep[s].pc # "idle"
    /\ crashes < MaxCrashes
    /\ crashes' = crashes + 1
    /\ sweep' = [sweep EXCEPT ![s] = NoSweep]
    /\ UNCHANGED <<changeVars, called, summaryVars, model>>

Change(c) ==
    \/ Arrive(c) \/ BeginBuild(c) \/ CommitBuild(c)
    \/ \E f \in Fetchers : BeginFetch(c, f) \/ CommitFetch(c, f)

Sweep(s) ==
    \/ StartSweep(s) \/ ReadEvents(s) \/ FinishSweep(s)
    \/ TouchSummarized(s) \/ StoreSummary(s) \/ RecordFailure(s)

Next ==
    \/ \E c \in Clusters : Change(c) \/ \E w \in Writers : Rollback(c, w)
    \/ \E s \in Sweepers : Sweep(s) \/ TouchFails(s) \/ CrashSweep(s)
    \/ Upgrade \/ BuildElsewhere \/ DropSweep

Spec == Init /\ [][Next]_vars

\* Transactions end, a build comes for every unbuilt event, and the job that
\* has committed sweeps.  Nothing says that there will be another build.
Fairness ==
    /\ \A c \in Clusters : WF_vars(BeginBuild(c) \/ CommitBuild(c))
    /\ \A c \in Clusters, f \in Fetchers : WF_vars(CommitFetch(c, f))
    /\ \A s \in Sweepers : WF_vars(Sweep(s))

FairSpec == Spec /\ Fairness
-----------------------------------------------------------------------------
\* The type of every variable; the history variables are
\*   announced  the newest version a committed transaction has announced,
\*   judged     the version the last settling write was about,
\*   raced      whether a change was announced, or being announced, past it,
\*   failures   the failed calls since a success or a fresh budget, counted
\*              up to one more than the budget.
TypeOK ==
    /\ clock \in Nat /\ model \in Nat /\ crashes \in Nat /\ called \in BOOLEAN
    /\ content \in [Clusters -> Versions]
    /\ unbuilt \in SUBSET Clusters
    /\ announce \in [Clusters -> [Writers -> Announcement]]
    /\ row \in [Clusters -> SummaryRow]
    /\ sweep \in [Sweepers -> SweepRecord]
    /\ announced \in [Clusters -> Versions]
    /\ judged \in [Clusters -> Versions]
    /\ raced \in [Clusters -> BOOLEAN]
    /\ failures \in [Clusters -> Nat]

Due(c) == NeedsSummary(c, model)

\* What the staleness gate does guarantee: a change announced after the last
\* summary, cache hit or quarantine of its cluster puts the cluster in the
\* work queue, whatever the sweeps and the open transactions are doing, as
\* long as that last write did not race a change.
NoChangeMissedUnlessRaced ==
    \A c \in Clusters : announced[c] > judged[c] /\ ~ raced[c] => Due(c)

\* A cluster is tried MAX_SUMMARY_ATTEMPTS times in a row, never more, and is
\* in quarantine when the last of them has failed.
BudgetRespected ==
    \A c \in Clusters :
        /\ failures[c] <= MaxAttempts
        /\ failures[c] = MaxAttempts => row[c].quarantined # Never

\* The candidate query's gate: a cluster with a stored summary may be shown.
Candidate(c) == row[c].hash # NoContent

\* While sweeps keep being called, a cluster in the work queue leaves it, by a
\* summary, a cache hit or the quarantine, however small a slice one sweep
\* takes and however many calls fail.  When the builds stop, it may stay.
DueIsSettled == []<> called => \A c \in Clusters : Due(c) ~> ~ Due(c)

\* What mod.rs:59 promises of a bumped version: it reaches every summarized
\* cluster.  It is not a property of the code, and no run checks it: the sweep
\* takes the unchanged hash for a cache hit and never restamps the model.
UpgradeReaches ==
    \A c \in Clusters :
        (Candidate(c) /\ row[c].model # model)
            ~> (row[c].model = model \/ row[c].quarantined # Never)

-----------------------------------------------------------------------------
(***************************************************************************)
(* The inductive strengthening of NoChangeMissedUnlessRaced.               *)
(***************************************************************************)
\* Both stamps a change is compared with lie in the past.
StampsPast ==
    \A c \in Clusters : row[c].summarized <= clock /\ row[c].quarantined <= clock

After(t, c) == t > row[c].summarized /\ t > row[c].quarantined

\* Unless it raced, the last settling write precedes the start of every
\* transaction that is open and of the one that announced what it missed.
GateInv ==
    \A c \in Clusters : ~ raced[c] =>
        /\ \A w \in Writers : Open(c, w) => After(announce[c][w].start, c)
        /\ announced[c] > judged[c] =>
              \/ row[c].summarized = Never /\ row[c].quarantined = Never
              \/ After(row[c].updated, c)
=============================================================================
