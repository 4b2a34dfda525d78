---------------------------- MODULE ClusterBuild ----------------------------
(***************************************************************************)
(* From the event log to the cluster cache: ingest transactions append     *)
(* events, the PublicBuild job enriches the pending ones and folds the     *)
(* groups they dirty into clusters, and the build watermark records how    *)
(* far the log has been drained.                                           *)
(*                                                                         *)
(* `ingest_time` defaults to the database's now(), which is the START of   *)
(* the inserting transaction, while a build sees an event only once that   *)
(* transaction has committed.  The model keeps the two instants apart, and *)
(* splits a build at every statement of its read-committed transaction.    *)
(*                                                                         *)
(* With Enrich = FALSE the module is also the private build of one         *)
(* subscriber: no grace, no enrichment, a lock and a watermark of its own. *)
(***************************************************************************)
EXTENDS Integers, FiniteSets

CONSTANTS
    Events,      \* the events that may be ingested
    Groups,      \* the within-source groups (source, group_key) of a scope
    GroupOf,     \* the group each event falls into
    Workers,     \* the public-build workers, over all replicas
    NoWorker,    \* the lock has no holder
    Enrich,      \* cfg.enrich: whether the enrichment sweep is on
    Grace,       \* cfg.enrich_grace, the cluster-eligibility deadline
    EnrichLimit, \* cfg.enrich_max_per_sweep
    MaxTx,       \* how long an ingest transaction may stay open
    MaxQueue,    \* PublicBuild jobs queued at once (bounds the model only)
    MaxCrashes,  \* builds that fail or die (bounds the model only)
    Horizon      \* the last instant of the clock (bounds the model only)

ASSUME BuildAssumption ==
    /\ IsFiniteSet(Events) /\ IsFiniteSet(Groups) /\ IsFiniteSet(Workers)
    /\ GroupOf \in [Events -> Groups]
    /\ NoWorker \notin Workers /\ Enrich \in BOOLEAN
    /\ Grace \in Nat /\ EnrichLimit \in Nat /\ MaxTx \in Nat
    /\ MaxQueue \in Nat /\ MaxCrashes \in Nat /\ Horizon \in Nat

VARIABLES
    clock,         \* the database's now()
    event,         \* the event log: a row per event
    cluster,       \* the cluster cache: a row per group
    builtThrough,  \* build_watermark.built_through
    lock,          \* holder of the build advisory lock, NoWorker when free
    queue,         \* PublicBuild jobs waiting
    job,           \* the job each worker runs
    crashes,       \* builds that failed or died so far
    overlapped     \* history: two jobs have been at work at once

logVars == <<clock, event>>
vars == <<clock, event, cluster, builtThrough, lock, queue, job, crashes, overlapped>>

Instants == 0 .. Horizon
Epoch == -1

EventRow == [status : {"unborn", "open", "committed"}, ingest : Instants, enriched : BOOLEAN]
ClusterRow == [events : SUBSET Events, tokens : SUBSET Events]
Phase == {"idle", "enriching", "begun", "locked", "folding"}
JobRecord == [pc : Phase, todo : SUBSET Events, hwm : Int, lo : Int,
              dirty : SUBSET Groups, folded : [Groups -> ClusterRow]]

UnbornEvent == [status |-> "unborn", ingest |-> 0, enriched |-> FALSE]
NoRow == [events |-> {}, tokens |-> {}]
IdleJob == [pc |-> "idle", todo |-> {}, hwm |-> 0, lo |-> Epoch,
            dirty |-> {}, folded |-> [g \in Groups |-> NoRow]]

NoGrace == 0  \* mutant: build up to now()
\* effective_enrich_grace: disabling enrichment restores hwm = now().
EffectiveGrace == IF Enrich THEN Grace ELSE 0

Committed == {e \in Events : event[e].status = "committed"}
GroupEvents(g) == {e \in Committed : GroupOf[e] = g}

Greatest(a, b) == IF a < b THEN b ELSE a

-----------------------------------------------------------------------------
Init ==
    /\ clock = 0
    /\ event = [e \in Events |-> UnbornEvent]
    /\ cluster = [g \in Groups |-> NoRow]
    /\ builtThrough = Epoch
    /\ lock = NoWorker
    /\ queue = 0
    /\ job = [w \in Workers |-> IdleJob]
    /\ crashes = 0
    /\ overlapped = FALSE

\* Time passes; an ingest transaction is not open for longer than MaxTx.
Advance ==
    /\ clock < Horizon
    /\ \A e \in Events : event[e].status = "open" => clock < event[e].ingest + MaxTx
    /\ clock' = clock + 1
    /\ UNCHANGED <<event, cluster, builtThrough, lock, queue, job, crashes, overlapped>>

\* append_scoped: the transaction starts, and fixes the ingest_time.  An event
\* of a source that does not benefit from enrichment is stamped at once.
OpenInsert(e) ==
    /\ event[e].status = "unborn"
    /\ clock + EffectiveGrace <= Horizon
    /\ \E stamped \in BOOLEAN :
          event' = [event EXCEPT ![e] = [status |-> "open", ingest |-> clock, enriched |-> stamped]]
    /\ UNCHANGED <<clock, cluster, builtThrough, lock, queue, job, crashes, overlapped>>

CommitInsert(e) ==
    /\ event[e].status = "open"
    /\ event' = [event EXCEPT ![e].status = "committed"]
    /\ UNCHANGED <<clock, cluster, builtThrough, lock, queue, job, crashes, overlapped>>

\* A rolled back poll: a later one appends the event again.
RollbackInsert(e) ==
    /\ event[e].status = "open"
    /\ event' = [event EXCEPT ![e] = UnbornEvent]
    /\ UNCHANGED <<clock, cluster, builtThrough, lock, queue, job, crashes, overlapped>>

UnenrichedDue ==  \* mutant: an enriched event is due no more
    \E e \in Committed : event[e].ingest > builtThrough /\ ~ event[e].enriched

\* public_build_due: an unbuilt event is aged past the grace, or not enriched.
PublicBuildDue ==
    \E e \in Committed :
        /\ event[e].ingest > builtThrough
        /\ event[e].ingest <= clock - EffectiveGrace \/ ~ event[e].enriched

Tick ==
    /\ PublicBuildDue
    /\ queue < MaxQueue
    /\ queue' = queue + 1
    /\ UNCHANGED <<logVars, cluster, builtThrough, lock, job, crashes, overlapped>>

-----------------------------------------------------------------------------
(***************************************************************************)
(* The public_build job: enrich::sweep_public, then cluster::build.        *)
(***************************************************************************)
AnyUnenriched == {e \in Committed : ~ event[e].enriched}  \* mutant: built events too
PendingFrontier == {e \in Committed : ~ event[e].enriched /\ event[e].ingest > builtThrough}

\* pending_public_events: the oldest EnrichLimit events of the frontier.
Snapshots ==
    {S \in SUBSET PendingFrontier :
        /\ Cardinality(S) = IF Cardinality(PendingFrontier) < EnrichLimit
                            THEN Cardinality(PendingFrontier) ELSE EnrichLimit
        /\ \A e \in S, f \in PendingFrontier \ S : event[e].ingest <= event[f].ingest}

StartJob(w) ==
    /\ job[w].pc = "idle"
    /\ queue > 0
    /\ queue' = queue - 1
    /\ \E S \in IF Enrich THEN Snapshots ELSE {{}} :
          job' = [job EXCEPT ![w] = [IdleJob EXCEPT !.pc = "enriching", !.todo = S]]
    /\ overlapped' = (overlapped \/ \E v \in Workers : job[v].pc # "idle")
    /\ UNCHANGED <<logVars, cluster, builtThrough, lock, crashes>>

\* One model call and its write, oldest event first.  The call may fail, and
\* then the event stays pending; the write does not look at the watermark.
EnrichNext(w) ==
    /\ job[w].pc = "enriching"
    /\ \E e \in job[w].todo :
          /\ \A f \in job[w].todo : event[e].ingest <= event[f].ingest
          /\ job' = [job EXCEPT ![w].todo = @ \ {e}]
          /\ \/ event' = [event EXCEPT ![e].enriched = TRUE]
             \/ UNCHANGED event
    /\ UNCHANGED <<clock, cluster, builtThrough, lock, queue, crashes, overlapped>>

\* The build transaction starts: now() is fixed here for all it writes.
BeginBuild(w) ==
    /\ job[w].pc = "enriching"
    /\ job[w].todo = {}
    /\ job' = [job EXCEPT ![w].pc = "begun", ![w].hwm = clock - EffectiveGrace]
    /\ UNCHANGED <<logVars, cluster, builtThrough, lock, queue, crashes, overlapped>>

Unserialized == TRUE  \* mutant: the advisory lock is not taken
LockFree == lock = NoWorker

\* try_build_lock and build_bounds: the loser ends with Ok(None).
LockAndBounds(w) ==
    /\ job[w].pc = "begun"
    /\ LockFree
    /\ lock' = w
    /\ job' = [job EXCEPT ![w].pc = "locked", ![w].lo = builtThrough]
    /\ UNCHANGED <<logVars, cluster, builtThrough, queue, crashes, overlapped>>

LockHeld(w) ==
    /\ job[w].pc = "begun"
    /\ ~ LockFree
    /\ job' = [job EXCEPT ![w] = IdleJob]
    /\ UNCHANGED <<logVars, cluster, builtThrough, lock, queue, crashes, overlapped>>

\* dirty_groups: the groups with a committed event in (lo, hwm].
DirtyGroups(w) ==
    {g \in Groups : \E e \in GroupEvents(g) :
        event[e].ingest > job[w].lo /\ event[e].ingest <= job[w].hwm}

ScanDirty(w) ==
    /\ job[w].pc = "locked"
    /\ job' = [job EXCEPT ![w].pc = "folding", ![w].dirty = DirtyGroups(w)]
    /\ UNCHANGED <<logVars, cluster, builtThrough, lock, queue, crashes, overlapped>>

\* list_group_events and rollup: all of the group's events, whatever their
\* age, with the entities they carry at this instant.
Rollup(g) == [events |-> GroupEvents(g), tokens |-> {e \in GroupEvents(g) : event[e].enriched}]

FoldGroup(w, g) ==
    /\ job[w].pc = "folding"
    /\ g \in job[w].dirty
    /\ job' = [job EXCEPT ![w].dirty = @ \ {g}, ![w].folded[g] = Rollup(g)]
    /\ UNCHANGED <<logVars, cluster, builtThrough, lock, queue, crashes, overlapped>>

\* upsert_cluster: the folded groups' rows are overwritten in place.
Upserted(w) == [g \in Groups |-> IF job[w].folded[g] = NoRow THEN cluster[g] ELSE job[w].folded[g]]

\* The upserted clusters and the watermark commit together.
CommitBuild(w) ==
    /\ job[w].pc = "folding"
    /\ job[w].dirty = {}
    /\ cluster' = Upserted(w)
    /\ builtThrough' = Greatest(builtThrough, job[w].hwm)
    /\ lock' = NoWorker
    /\ job' = [job EXCEPT ![w] = IdleJob]
    /\ UNCHANGED <<logVars, queue, crashes, overlapped>>

\* A statement fails or the worker dies: the transaction and its lock are gone.
Crash(w) ==
    /\ crashes < MaxCrashes
    /\ job[w].pc # "idle"
    /\ lock' = IF lock = w THEN NoWorker ELSE lock
    /\ job' = [job EXCEPT ![w] = IdleJob]
    /\ crashes' = crashes + 1
    /\ UNCHANGED <<logVars, cluster, builtThrough, queue, overlapped>>

Work(w) ==
    \/ StartJob(w) \/ EnrichNext(w)
    \/ BeginBuild(w) \/ LockAndBounds(w) \/ LockHeld(w)
    \/ ScanDirty(w) \/ (\E g \in Groups : FoldGroup(w, g)) \/ CommitBuild(w)

Next ==
    \/ Advance
    \/ \E e \in Events : OpenInsert(e) \/ CommitInsert(e) \/ RollbackInsert(e)
    \/ Tick
    \/ \E w \in Workers : Work(w) \/ Crash(w)

Spec == Init /\ [][Next]_vars

\* The tick fires every minute, workers poll the queue, and time passes.
Fairness ==
    /\ WF_vars(Advance)
    /\ WF_vars(Tick)
    /\ \A e \in Events : WF_vars(CommitInsert(e))
    /\ \A w \in Workers : WF_vars(Work(w))

FairSpec == Spec /\ Fairness

-----------------------------------------------------------------------------
TypeOK ==
    /\ clock \in Instants
    /\ event \in [Events -> EventRow]
    /\ cluster \in [Groups -> ClusterRow]
    /\ builtThrough \in Int
    /\ lock \in Workers \cup {NoWorker}
    /\ queue \in 0 .. MaxQueue
    /\ job \in [Workers -> JobRecord]
    /\ crashes \in 0 .. MaxCrashes
    /\ overlapped \in BOOLEAN
    /\ \A w \in Workers : lock = w <=> job[w].pc \in {"locked", "folding"}

(***************************************************************************)
(* The meaning of the watermark (migration 0005): every event at or below  *)
(* it is in its cluster, so an event that is passed over is lost until its *)
(* group happens to be dirtied again.                                      *)
(***************************************************************************)
NoEventStranded ==
    \A e \in Committed : event[e].ingest <= builtThrough => e \in cluster[GroupOf[e]].events

(***************************************************************************)
(* Enrichment precedes clustering: as long as one job works at a time, the *)
(* tokens the sweep wrote on an event behind the watermark are in its      *)
(* cluster's entities.  A build of another job may overtake the model call *)
(* of a sweep, whose write then comes too late (enrich/mod.rs:315).        *)
(***************************************************************************)
TokensRolledUp ==
    ~ overlapped => \A e \in Committed :
        event[e].enriched /\ event[e].ingest <= builtThrough
        => e \in cluster[GroupOf[e]].tokens

(***************************************************************************)
(* Concurrent builds serialize: a rebuild never drops an event, or an      *)
(* event's tokens, that an earlier build had folded into the cluster.      *)
(***************************************************************************)
ClusterNeverForgets ==
    [][\A g \in Groups : /\ cluster[g].events \subseteq cluster'[g].events
                         /\ cluster[g].tokens \subseteq cluster'[g].tokens]_vars

(***************************************************************************)
(* The watermark is monotonic, though a build fixes its target before it   *)
(* takes the lock.                                                         *)
(***************************************************************************)
WatermarkMonotonic == [][builtThrough <= builtThrough']_vars

(***************************************************************************)
(* Every ingested event is eventually clustered, whatever the enrichment   *)
(* model does and though builds may fail.                                  *)
(***************************************************************************)
EventClustered ==
    \A e \in Events :
        event[e].status = "committed" ~> e \in cluster[GroupOf[e]].events

-----------------------------------------------------------------------------
(***************************************************************************)
(* The inductive strengthening of NoEventStranded and ClusterNeverForgets. *)
(* With MaxTx < EffectiveGrace, LogInv and DeadlineInv put the watermark,  *)
(* and the target of a build in progress, behind every open transaction.   *)
(***************************************************************************)
Within(r, s) == r.events \subseteq s.events /\ r.tokens \subseteq s.tokens

\* An ingest time is in the past, and an open transaction is young.
LogInv ==
    \A e \in Events :
        /\ event[e].status # "unborn" => event[e].ingest <= clock
        /\ event[e].status = "open" => clock <= event[e].ingest + MaxTx

\* Folding a group again never yields less than what is cached, or folded.
CacheInv ==
    \A g \in Groups :
        /\ Within(cluster[g], Rollup(g))
        /\ \A w \in Workers :
              \/ job[w].folded[g] = NoRow
              \/ /\ job[w].pc = "folding"
                 /\ Within(cluster[g], job[w].folded[g])
                 /\ Within(job[w].folded[g], Rollup(g))

DeadlineInv ==
    /\ builtThrough = Epoch \/ builtThrough <= clock - EffectiveGrace
    /\ \A w \in Workers : job[w].pc \in {"begun", "locked", "folding"}
                          => job[w].hwm <= clock - EffectiveGrace

\* The holder of the lock knows the watermark, and has folded, or is about to
\* fold, every group with an event in (lo, hwm].
FoldInv ==
    \A w \in Workers :
        /\ job[w].pc \in {"locked", "folding"} => job[w].lo = builtThrough
        /\ job[w].pc = "folding" =>
              \A e \in Committed :
                  builtThrough < event[e].ingest /\ event[e].ingest <= job[w].hwm
                  => \/ GroupOf[e] \in job[w].dirty
                     \/ e \in job[w].folded[GroupOf[e]].events

BuildInv == LogInv /\ CacheInv /\ DeadlineInv /\ FoldInv /\ NoEventStranded
=============================================================================
