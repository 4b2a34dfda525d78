---------------------------- MODULE ArticleFetch ----------------------------
(***************************************************************************)
(* The full-text fetch: a tick enqueues a job while some public event      *)
(* still wants the article behind its link; the job sweeps the newest of   *)
(* them under a session advisory lock, fetches a few at a time, and writes *)
(* each text back, raising the depth of the event and of its cluster.      *)
(* Beside it, the public build rolls the events of a group up into the     *)
(* cluster, reading them in one statement and writing in another.          *)
(*                                                                         *)
(* What a fetch costs is counted on the event: the retry budget is the     *)
(* only memory of a link that does not answer.                             *)
(***************************************************************************)
EXTENDS Integers, FiniteSets, Sequences

CONSTANTS
    Events,        \* 1 .. n, in the order of their ingest_time
    Group,         \* the group of each event, its cluster's identity
    Links,         \* the links of each event
    Web,           \* the answers each URL may give, by URL
    Domain,        \* the host of each URL, NoDomain when it is no web address
    Jobs,          \* the fetch jobs that may run at the same time
    Conns,         \* the database sessions of the pools
    MaxAttempts,   \* MAX_FETCH_ATTEMPTS
    MaxPerSweep,   \* cfg.max_per_sweep
    MaxPerDomain,  \* cfg.max_per_domain_per_sweep
    MaxConcurrent, \* cfg.max_concurrent_fetches
    MaxRedirects,  \* cfg.max_redirects
    MaxFaults      \* panics, crashes, lost sessions, failed writes (bounds the model only)

ASSUME FetchAssumption ==
    /\ Events \subseteq Nat \ {0} /\ Events # {} /\ IsFiniteSet(Events)
    /\ MaxAttempts \in Nat \ {0} /\ MaxPerSweep \in Nat \ {0}
    /\ MaxPerDomain \in Nat \ {0} /\ MaxConcurrent \in Nat
    /\ MaxRedirects \in Nat /\ MaxFaults \in Nat
    /\ Cardinality(Jobs) <= Cardinality(Conns) /\ "none" \notin Conns

VARIABLES
    log,      \* the events in the log
    article,  \* the fetch columns and the depth of each event
    cluster,  \* the row of each group
    build,    \* the groups a build has still to take up, and the open one
    queue,    \* the jobs enqueued, and whether this minute's key is used
    lock,     \* the session that holds the sweep lock, and how many times
    sweep,    \* the sweep of each job
    faults,
    exposed, overlapped  \* history, see below

vars == <<log, article, cluster, build, queue, lock, sweep, faults, exposed, overlapped>>

NoDomain == "none"
NoConn == "none"
Groups == {Group[e] : e \in Events}

\* The newest of S is taken first.
IsNewest(e, S) == e \in S /\ \A f \in S : f <= e

Article == [text : BOOLEAN, attempts : Nat, longform : BOOLEAN]
Cluster == [built : BOOLEAN, longform : BOOLEAN]
NoBuild == [open |-> FALSE, group |-> CHOOSE g \in Groups : TRUE, longform |-> FALSE]
NoSweep == [pc |-> "idle", conn |-> NoConn, due |-> {}, todo |-> {}, flying |-> {}]
SweepRecord == [pc : {"idle", "loading", "walking", "fetching"}, conn : Conns \cup {NoConn},
                due : SUBSET Events, todo : SUBSET Events, flying : SUBSET Events]

-----------------------------------------------------------------------------
(***************************************************************************)
(* One fetch, fetch_article: every hop is validated, then asked.           *)
(***************************************************************************)
Outcomes == {"long", "short", "bad_scheme", "blocked_address", "dns", "too_many_redirects",
             "client_status", "server_status", "content_type", "too_large", "empty", "transport"}

\* is_permanent: a 408 or a 429 counts with the 5xx answers.
IsPermanent(o) ==
    o \in {"bad_scheme", "blocked_address", "content_type", "too_large", "empty",
           "too_many_redirects", "client_status"}

Succeeds(o) == o \in {"long", "short"}

\* An answer is an outcome, or a redirect to the URL it names.
Fetched[hop \in 0 .. MaxRedirects + 1, url \in DOMAIN Web] ==
    IF hop > MaxRedirects
    THEN {"too_many_redirects"}
    ELSE (Web[url] \cap Outcomes)
            \cup UNION {Fetched[hop + 1, to] : to \in Web[url] \ Outcomes}

FetchArticle(url) == Fetched[0, url]

\* first_fetchable_link
Usable(e) == {i \in DOMAIN Links[e] : Domain[Links[e][i]] # NoDomain}
FirstLink(e) == Links[e][CHOOSE i \in Usable(e) : \A j \in Usable(e) : i <= j]

-----------------------------------------------------------------------------
Init ==
    /\ log = {}
    /\ article = [e \in Events |-> [text |-> FALSE, attempts |-> 0, longform |-> FALSE]]
    /\ cluster = [g \in Groups |-> [built |-> FALSE, longform |-> FALSE]]
    /\ build = [due |-> {}, at |-> NoBuild]
    /\ queue = [jobs |-> 0, used |-> FALSE]
    /\ lock = [conn |-> NoConn, count |-> 0]
    /\ sweep = [j \in Jobs |-> NoSweep]
    /\ faults = 0
    /\ exposed = FALSE
    /\ overlapped = {}

\* A poll appends a snippet with a link.
Arrive ==
    /\ \E e \in Events \ log :
          /\ \A f \in Events \ log : e <= f
          /\ log' = log \cup {e}
          /\ build' = [build EXCEPT !.due = @ \cup {Group[e]}]
    /\ UNCHANGED <<article, cluster, queue, lock, sweep, faults, exposed, overlapped>>

-----------------------------------------------------------------------------
(***************************************************************************)
(* The public build of one group: list_group_events, then upsert_cluster.  *)
(***************************************************************************)
Deep(g) == \E e \in log : Group[e] = g /\ article[e].longform

LoadGroup(g) ==
    /\ g \in build.due
    /\ ~ build.at.open
    /\ build' = [due |-> build.due \ {g}, at |-> [open |-> TRUE, group |-> g, longform |-> Deep(g)]]
    /\ overlapped' = overlapped \ {g}
    /\ UNCHANGED <<log, article, cluster, queue, lock, sweep, faults, exposed>>

\* The recomputed rollup replaces the row.
UpsertCluster ==
    /\ build.at.open
    /\ cluster' = [cluster EXCEPT ![build.at.group] =
                      [built |-> TRUE, longform |-> build.at.longform]]
    /\ build' = [build EXCEPT !.at = NoBuild]
    /\ UNCHANGED <<log, article, queue, lock, sweep, faults, exposed, overlapped>>

-----------------------------------------------------------------------------
(***************************************************************************)
(* The tick's gate and the job queue.                                      *)
(***************************************************************************)
Settled(e) == article[e].text \/ article[e].attempts >= MaxAttempts
WantsFetch == {e \in log : ~ Settled(e) /\ Links[e] # <<>>}

\* The key of the minute's bucket: a second push is swallowed.
Tick ==
    /\ WantsFetch # {}
    /\ ~ queue.used
    /\ queue' = [jobs |-> queue.jobs + 1, used |-> TRUE]
    /\ UNCHANGED <<log, article, cluster, build, lock, sweep, faults, exposed, overlapped>>

\* Bounded: a minute passes only when a job has taken up the last one pushed.
NextMinute ==
    /\ queue.used
    /\ queue.jobs = 0
    /\ queue' = [queue EXCEPT !.used = FALSE]
    /\ UNCHANGED <<log, article, cluster, build, lock, sweep, faults, exposed, overlapped>>

-----------------------------------------------------------------------------
(***************************************************************************)
(* The sweep and its lock.                                                 *)
(***************************************************************************)
Free == Conns \ {sweep[j].conn : j \in Jobs}

AlwaysLocks(c) == TRUE  \* mutant: the lock is not looked at

\* pg_try_advisory_lock: a session that has the lock takes it once more.
TryLock(c) == lock.conn \in {NoConn, c}

Unlocked == IF lock.count <= 1 THEN [conn |-> NoConn, count |-> 0]
                               ELSE [lock EXCEPT !.count = @ - 1]

StartSweep(j, c) ==
    /\ queue.jobs > 0
    /\ sweep[j].pc = "idle"
    /\ c \in Free
    /\ queue' = [queue EXCEPT !.jobs = @ - 1]
    /\ IF TryLock(c)
       THEN /\ lock' = [conn |-> c, count |-> IF lock.conn = c THEN lock.count + 1 ELSE 1]
            /\ sweep' = [sweep EXCEPT ![j] = [NoSweep EXCEPT !.pc = "loading", !.conn = c]]
       ELSE UNCHANGED <<lock, sweep>>  \* another sweep is at work: no-op, the job ends well
    /\ UNCHANGED <<log, article, cluster, build, faults, exposed, overlapped>>

\* due_events_for_fetch: newest first, LIMIT max_per_sweep.
Newest(S) == {e \in S : Cardinality({f \in S : f > e}) < MaxPerSweep}

Load(j) ==
    /\ sweep[j].pc = "loading"
    /\ sweep' = [sweep EXCEPT ![j].pc = "walking", ![j].due = Newest(WantsFetch)]
    /\ UNCHANGED <<log, article, cluster, build, queue, lock, faults, exposed, overlapped>>

\* The pre-pass takes the targets in the order of the queue.
Target(j, e) == sweep[j].pc = "walking" /\ IsNewest(e, sweep[j].due)

SkipUnusable(e) == article  \* mutant: an event without a usable link is skipped

\* record_fetch_failure
Failed(e, permanent) ==
    [article EXCEPT ![e].attempts = IF permanent THEN MaxAttempts ELSE @ + 1]
DropUnusable(e) == Failed(e, TRUE)

\* No usable link: a permanent failure; an error of its write is dropped.
NoLink(j, e) ==
    /\ Target(j, e)
    /\ Usable(e) = {}
    /\ sweep' = [sweep EXCEPT ![j].due = @ \ {e}]
    /\ \/ article' = DropUnusable(e) /\ UNCHANGED faults
       \/ faults < MaxFaults /\ faults' = faults + 1 /\ UNCHANGED article
    /\ UNCHANGED <<log, cluster, build, queue, lock, exposed, overlapped>>

BusyDomain(j, e) ==
    Cardinality({f \in sweep[j].todo : Domain[FirstLink(f)] = Domain[FirstLink(e)]}) >= MaxPerDomain

Skip(j, e) ==
    /\ Target(j, e)
    /\ Usable(e) # {}
    /\ BusyDomain(j, e)
    /\ sweep' = [sweep EXCEPT ![j].due = @ \ {e}]
    /\ UNCHANGED <<log, article, cluster, build, queue, lock, faults, exposed, overlapped>>

Admit(j, e) ==
    /\ Target(j, e)
    /\ Usable(e) # {}
    /\ ~ BusyDomain(j, e)
    /\ sweep' = [sweep EXCEPT ![j].due = @ \ {e}, ![j].todo = @ \cup {e}]
    /\ UNCHANGED <<log, article, cluster, build, queue, lock, faults, exposed, overlapped>>

StartFetching(j) ==
    /\ sweep[j].pc = "walking"
    /\ sweep[j].due = {}
    /\ sweep' = [sweep EXCEPT ![j].pc = "fetching"]
    /\ UNCHANGED <<log, article, cluster, build, queue, lock, faults, exposed, overlapped>>

-----------------------------------------------------------------------------
(***************************************************************************)
(* The fetch tasks.  Each writes its own result back.                      *)
(***************************************************************************)
Permits == IF MaxConcurrent = 0 THEN 1 ELSE MaxConcurrent

Spawn(j) ==
    /\ sweep[j].pc = "fetching"
    /\ Cardinality(sweep[j].flying) < Permits
    /\ \E e \in sweep[j].todo :
          /\ IsNewest(e, sweep[j].todo)
          /\ sweep' = [sweep EXCEPT ![j].todo = @ \ {e}, ![j].flying = @ \cup {e}]
    /\ UNCHANGED <<log, article, cluster, build, queue, lock, faults, exposed, overlapped>>

Land(j, e) == e \in sweep[j].flying /\ sweep' = [sweep EXCEPT ![j].flying = @ \ {e}]

OnlyTouch(g, longform) == cluster  \* mutant: the cluster's depth is left alone

\* touch_group: no row when the group has no cluster yet.
TouchGroup(g, longform) == [cluster EXCEPT ![g].longform = @ \/ (cluster[g].built /\ longform)]

\* store_full_text: the text, the depth and the cluster in one transaction.
StoreFullText(j, e) ==
    /\ Land(j, e)
    /\ \E o \in FetchArticle(FirstLink(e)) :
          /\ Succeeds(o)
          /\ article' = [article EXCEPT ![e] =
                [text |-> TRUE, attempts |-> @.attempts + 1, longform |-> @.longform \/ o = "long"]]
          /\ cluster' = TouchGroup(Group[e], o = "long")
    /\ overlapped' = IF build.at.open /\ build.at.group = Group[e]
                     THEN overlapped \cup {Group[e]} ELSE overlapped
    /\ UNCHANGED <<log, build, queue, lock, faults, exposed>>

FreeFailure(e, o) == article  \* mutant: a failed fetch costs nothing
Charged(e, o) == Failed(e, IsPermanent(o))

RecordFetchFailure(j, e) ==
    /\ Land(j, e)
    /\ \E o \in FetchArticle(FirstLink(e)) :
          /\ ~ Succeeds(o)
          /\ article' = Charged(e, o)
    /\ UNCHANGED <<log, cluster, build, queue, lock, faults, exposed, overlapped>>

\* The write fails, or the task panics: logged, and the attempt is not counted.
LoseResult(j, e) ==
    /\ Land(j, e)
    /\ faults < MaxFaults
    /\ faults' = faults + 1
    /\ UNCHANGED <<log, article, cluster, build, queue, lock, exposed, overlapped>>

-----------------------------------------------------------------------------
(***************************************************************************)
(* The end of a sweep, and the faults of its session.                      *)
(***************************************************************************)
Joined(j) == sweep[j].pc = "fetching" /\ sweep[j].todo = {} /\ sweep[j].flying = {}

\* pg_advisory_unlock does nothing on a session that has lost the lock.
Release(c) == IF lock.conn = c THEN Unlocked ELSE lock

EndSweep(j) ==
    /\ Joined(j)
    /\ lock' = Release(sweep[j].conn)
    /\ sweep' = [sweep EXCEPT ![j] = NoSweep]
    /\ UNCHANGED <<log, article, cluster, build, queue, faults, exposed, overlapped>>

\* The queue cannot be read, or no HTTP client built: an early end.
FailSweep(j) ==
    /\ sweep[j].pc \in {"loading", "walking"}
    /\ sweep[j].due = {}
    /\ faults < MaxFaults
    /\ faults' = faults + 1
    /\ lock' = Release(sweep[j].conn)
    /\ sweep' = [sweep EXCEPT ![j] = NoSweep]
    /\ UNCHANGED <<log, article, cluster, build, queue, exposed, overlapped>>

\* A panic of the body or a failed unlock: the session goes back to its pool
\* and keeps the lock; the tasks of the sweep are aborted.
LeakLock(j) ==
    /\ sweep[j].pc # "idle"
    /\ faults < MaxFaults
    /\ faults' = faults + 1
    /\ sweep' = [sweep EXCEPT ![j] = NoSweep]
    /\ UNCHANGED <<log, article, cluster, build, queue, lock, exposed, overlapped>>

SessionEnds(c) == lock' = IF lock.conn = c THEN [conn |-> NoConn, count |-> 0] ELSE lock

\* The worker process dies, and its sessions with it.
Crash(j) ==
    /\ sweep[j].pc # "idle"
    /\ faults < MaxFaults
    /\ faults' = faults + 1
    /\ SessionEnds(sweep[j].conn)
    /\ sweep' = [sweep EXCEPT ![j] = NoSweep]
    /\ UNCHANGED <<log, article, cluster, build, queue, exposed, overlapped>>

\* The server drops the session of a sweep that goes on without noticing.
LoseSession(j) ==
    /\ sweep[j].pc # "idle"
    /\ lock.conn = sweep[j].conn
    /\ faults < MaxFaults
    /\ faults' = faults + 1
    /\ SessionEnds(sweep[j].conn)
    /\ exposed' = TRUE
    /\ UNCHANGED <<log, article, cluster, build, queue, sweep, overlapped>>

\* The pool closes a connection that is idle or past its lifetime.
Recycle(c) ==
    /\ c \in Free
    /\ lock.conn = c
    /\ SessionEnds(c)
    /\ UNCHANGED <<log, article, cluster, build, queue, sweep, faults, exposed, overlapped>>

-----------------------------------------------------------------------------
Walk(j, e) == NoLink(j, e) \/ Skip(j, e) \/ Admit(j, e)

Result(j, e) == StoreFullText(j, e) \/ RecordFetchFailure(j, e)

Job(j) ==
    \/ \E c \in Conns : StartSweep(j, c)
    \/ Load(j) \/ StartFetching(j) \/ Spawn(j) \/ EndSweep(j)
    \/ \E e \in Events : Walk(j, e) \/ Result(j, e)

Fault(j) ==
    \/ FailSweep(j) \/ LeakLock(j) \/ Crash(j) \/ LoseSession(j)
    \/ \E e \in Events : LoseResult(j, e)

Build == UpsertCluster \/ \E g \in Groups : LoadGroup(g)

Next ==
    \/ Arrive \/ Build \/ Tick \/ NextMinute
    \/ \E j \in Jobs : Job(j) \/ Fault(j)
    \/ \E c \in Conns : Recycle(c)

Spec == Init /\ [][Next]_vars

\* Ticks keep coming, jobs run to their end, requests time out, and a pool
\* closes every idle connection in the end.
Fairness ==
    /\ WF_vars(Build) /\ WF_vars(Tick) /\ WF_vars(NextMinute)
    /\ \A j \in Jobs : WF_vars(Job(j))
    /\ \A c \in Conns : WF_vars(Recycle(c))

FairSpec == Spec /\ Fairness
-----------------------------------------------------------------------------
\* The type of every variable; the history variables are
\*   exposed     whether a sweep has lost the session of its lock,
\*   overlapped  groups whose last build was open when a text was stored.
TypeOK ==
    /\ log \in SUBSET Events
    /\ article \in [Events -> Article]
    /\ cluster \in [Groups -> Cluster]
    /\ build \in [due : SUBSET Groups, at : [open : BOOLEAN, group : Groups, longform : BOOLEAN]]
    /\ queue \in [jobs : Nat, used : BOOLEAN]
    /\ lock \in [conn : Conns \cup {NoConn}, count : Nat]
    /\ (lock.conn = NoConn) <=> (lock.count = 0)
    /\ sweep \in [Jobs -> SweepRecord]
    /\ faults \in Nat
    /\ exposed \in BOOLEAN
    /\ overlapped \in SUBSET Groups

\* sweep_article_fetch promises neither to double-fetch nor to double-spend
\* the budget: while no sweep has lost its session, two sweeps never hold the
\* same event, whatever leaked lock they met, and no event spends more than
\* MAX_FETCH_ATTEMPTS.
Claimed(j) == sweep[j].due \cup sweep[j].todo \cup sweep[j].flying
NoDoubleFetch ==
    exposed \/
        /\ \A j, k \in Jobs : j # k => Claimed(j) \cap Claimed(k) = {}
        /\ \A e \in Events : article[e].attempts <= MaxAttempts

\* Once an article is stored as longform, the cluster of its event is
\* longform as soon as it is built, unless the text was stored between the
\* read and the write of the group's last build.
DepthKeepsUpUnlessOverlapped ==
    \A g \in Groups \ overlapped :
        cluster[g].built /\ ~ (build.at.open /\ build.at.group = g) /\ g \notin build.due
            => (Deep(g) => cluster[g].longform)

\* touch_group is documented as monotonic, and as needless before the first
\* build: with no build under way or due, a cluster with a longform event is
\* longform.  It is not, when the two transactions cross.
DepthKeepsUp ==
    \A g \in Groups :
        cluster[g].built /\ ~ (build.at.open /\ build.at.group = g) /\ g \notin build.due
            => (Deep(g) => cluster[g].longform)

\* The work queue runs empty again and again: every event is fetched or
\* spends its budget in the end.  The per-domain cap comes after the
\* newest-first limit, results and jobs get lost, and a leaked lock blocks
\* every sweep but those of its own session; none of it holds an event back
\* for ever.
QueueDrains == []<>(WantsFetch = {})
=============================================================================
