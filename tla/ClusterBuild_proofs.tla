------------------------ MODULE ClusterBuild_proofs ------------------------
(***************************************************************************)
(* Proofs about ClusterBuild, for every value of its constants.            *)
(***************************************************************************)
EXTENDS ClusterBuild, TLAPS

\* The rows a step writes keep their shape.
LEMMA RowTypes ==
    /\ UnbornEvent \in EventRow
    /\ NoRow \in ClusterRow
    /\ IdleJob \in JobRecord
BY BuildAssumption
DEF UnbornEvent, EventRow, Instants, NoRow, ClusterRow, IdleJob, JobRecord, Phase, Epoch

LEMMA EventFields ==
    ASSUME NEW r \in EventRow
    PROVE  /\ r.status \in {"unborn", "open", "committed"}
           /\ r.ingest \in Nat /\ r.enriched \in BOOLEAN
BY BuildAssumption DEF EventRow, Instants

LEMMA EventUpdate ==
    ASSUME NEW r \in EventRow
    PROVE  /\ [r EXCEPT !.status = "committed"] \in EventRow
           /\ [r EXCEPT !.enriched = TRUE] \in EventRow
BY DEF EventRow

LEMMA JobFields ==
    ASSUME NEW r \in JobRecord
    PROVE  /\ r.pc \in Phase /\ r.todo \subseteq Events /\ r.hwm \in Int /\ r.lo \in Int
           /\ r.dirty \subseteq Groups /\ r.folded \in [Groups -> ClusterRow]
BY DEF JobRecord

LEMMA GraceType == EffectiveGrace \in Nat
BY BuildAssumption DEF EffectiveGrace

LEMMA RollupType ==
    ASSUME NEW g \in Groups
    PROVE  Rollup(g) \in ClusterRow
BY DEF Rollup, GroupEvents, Committed, ClusterRow

LEMMA InitTypeOK == Init => TypeOK
<1> SUFFICES ASSUME Init PROVE TypeOK
  OBVIOUS
<1>1. overlapped \in BOOLEAN
  BY Zenon DEF Init
<1> QED
  BY <1>1, BuildAssumption, RowTypes DEF Init, TypeOK, Instants, Epoch, IdleJob

LEMMA LogTypeOK ==
    ASSUME TypeOK, NEW e \in Events, OpenInsert(e) \/ CommitInsert(e) \/ RollbackInsert(e)
    PROVE  TypeOK'
<1>1. event' \in [Events -> EventRow]
  <2>1. CASE OpenInsert(e)
    <3>1. PICK stamped \in BOOLEAN :
            event' = [event EXCEPT ![e] = [status |-> "open", ingest |-> clock, enriched |-> stamped]]
      BY <2>1 DEF OpenInsert
    <3>2. [status |-> "open", ingest |-> clock, enriched |-> stamped] \in EventRow
      BY DEF TypeOK, EventRow
    <3> QED
      BY <3>1, <3>2 DEF TypeOK
  <2>2. CASE CommitInsert(e)
    BY <2>2, EventUpdate DEF TypeOK, CommitInsert
  <2>3. CASE RollbackInsert(e)
    BY <2>3, RowTypes DEF TypeOK, RollbackInsert
  <2> QED
    BY <2>1, <2>2, <2>3
<1> QED
  BY <1>1 DEF TypeOK, OpenInsert, CommitInsert, RollbackInsert

LEMMA WorkTypeOK ==
    ASSUME TypeOK, NEW w \in Workers, Work(w) \/ Crash(w)
    PROVE  TypeOK'
<1>1. job[w] \in JobRecord /\ clock \in Int /\ builtThrough \in Int /\ EffectiveGrace \in Int
  BY BuildAssumption, GraceType DEF TypeOK, Instants
<1>2. NoWorker # w
  BY BuildAssumption
<1>3. CASE StartJob(w)
  <2>1. PICK S \in IF Enrich THEN Snapshots ELSE {{}} :
          job' = [job EXCEPT ![w] = [IdleJob EXCEPT !.pc = "enriching", !.todo = S]]
    BY <1>3 DEF StartJob
  <2>2. S \subseteq Events
    BY DEF Snapshots, PendingFrontier, Committed
  <2>3. [IdleJob EXCEPT !.pc = "enriching", !.todo = S] \in JobRecord
    BY <2>2, RowTypes DEF JobRecord, Phase
  <2>4. [IdleJob EXCEPT !.pc = "enriching", !.todo = S].pc = "enriching"
    BY DEF IdleJob
  <2>5. queue' \in 0 .. MaxQueue
    BY <1>3, BuildAssumption DEF TypeOK, StartJob
  <2> QED
    BY <1>3, <2>1, <2>3, <2>4, <2>5 DEF TypeOK, StartJob, logVars
<1>4. CASE EnrichNext(w)
  <2>1. PICK e \in job[w].todo :
          /\ job' = [job EXCEPT ![w].todo = @ \ {e}]
          /\ \/ event' = [event EXCEPT ![e].enriched = TRUE]
             \/ UNCHANGED event
    BY <1>4 DEF EnrichNext
  <2>2. e \in Events
    BY <1>1, <2>1, JobFields
  <2>3. event' \in [Events -> EventRow]
    <3>1. event \in [Events -> EventRow]
      BY DEF TypeOK
    <3>2. [event EXCEPT ![e].enriched = TRUE] \in [Events -> EventRow]
      BY <2>2, <3>1 DEF EventRow
    <3> QED
      BY <2>1, <3>1, <3>2
  <2>4. [job[w] EXCEPT !.todo = @ \ {e}] \in JobRecord
    BY <1>1 DEF JobRecord
  <2>5. [job[w] EXCEPT !.todo = @ \ {e}].pc = job[w].pc
    BY <1>1 DEF JobRecord
  <2> QED
    BY <1>4, <2>1, <2>3, <2>4, <2>5 DEF TypeOK, EnrichNext
<1>5. CASE BeginBuild(w)
  <2>1. [job[w] EXCEPT !.pc = "begun", !.hwm = clock - EffectiveGrace] \in JobRecord
    <3>1. clock - EffectiveGrace \in Int
      BY <1>1
    <3> QED
      BY <1>1, <3>1 DEF JobRecord, Phase
  <2>2. [job[w] EXCEPT !.pc = "begun", !.hwm = clock - EffectiveGrace].pc = "begun"
    BY <1>1 DEF JobRecord
  <2> QED
    BY <1>5, <2>1, <2>2 DEF TypeOK, BeginBuild, logVars
<1>6. CASE LockAndBounds(w)
  <2>1. [job[w] EXCEPT !.pc = "locked", !.lo = builtThrough] \in JobRecord
    BY <1>1 DEF JobRecord, Phase
  <2>2. [job[w] EXCEPT !.pc = "locked", !.lo = builtThrough].pc = "locked"
    BY <1>1 DEF JobRecord
  <2> QED
    BY <1>2, <1>6, <2>1, <2>2, BuildAssumption DEF TypeOK, LockAndBounds, LockFree, logVars
<1>7. CASE LockHeld(w)
  BY <1>7, RowTypes DEF TypeOK, LockHeld, logVars, IdleJob
<1>8. CASE ScanDirty(w)
  <2>1. [job[w] EXCEPT !.pc = "folding", !.dirty = DirtyGroups(w)] \in JobRecord
    BY <1>1 DEF JobRecord, Phase, DirtyGroups
  <2>2. [job[w] EXCEPT !.pc = "folding", !.dirty = DirtyGroups(w)].pc = "folding"
    BY <1>1 DEF JobRecord
  <2> QED
    BY <1>8, <2>1, <2>2 DEF TypeOK, ScanDirty, logVars
<1>9. ASSUME NEW g \in Groups, FoldGroup(w, g)
      PROVE  TypeOK'
  <2>1. [job[w] EXCEPT !.dirty = @ \ {g}, !.folded[g] = Rollup(g)] \in JobRecord
    BY <1>1, RollupType DEF JobRecord
  <2>2. [job[w] EXCEPT !.dirty = @ \ {g}, !.folded[g] = Rollup(g)].pc = job[w].pc
    BY <1>1 DEF JobRecord
  <2>3. job' = [job EXCEPT ![w] = [job[w] EXCEPT !.dirty = @ \ {g}, !.folded[g] = Rollup(g)]]
    BY <1>9 DEF FoldGroup, TypeOK
  <2> QED
    BY <1>9, <2>1, <2>2, <2>3 DEF TypeOK, FoldGroup, logVars
<1>10. CASE CommitBuild(w)
  <2>1. cluster' \in [Groups -> ClusterRow]
    BY <1>1, <1>10, JobFields DEF TypeOK, CommitBuild, Upserted
  <2>2. builtThrough' \in Int
    BY <1>1, <1>10, JobFields DEF CommitBuild, Greatest
  <2> QED
    BY <1>2, <1>10, <2>1, <2>2, RowTypes, BuildAssumption
    DEF TypeOK, CommitBuild, logVars, IdleJob
<1>11. CASE Crash(w)
  <2>1. crashes' \in 0 .. MaxCrashes
    BY <1>11, BuildAssumption DEF TypeOK, Crash
  <2> QED
    BY <1>2, <1>11, <2>1, RowTypes, BuildAssumption DEF TypeOK, Crash, logVars, IdleJob
<1> QED
  BY <1>3, <1>4, <1>5, <1>6, <1>7, <1>8, <1>9, <1>10, <1>11 DEF Work

LEMMA NextTypeOK == TypeOK /\ [Next]_vars => TypeOK'
<1> SUFFICES ASSUME TypeOK, [Next]_vars PROVE TypeOK'
  OBVIOUS
<1>1. CASE Advance
  BY <1>1, BuildAssumption DEF TypeOK, Advance, Instants
<1>2. ASSUME NEW e \in Events, OpenInsert(e) \/ CommitInsert(e) \/ RollbackInsert(e)
      PROVE  TypeOK'
  BY <1>2, LogTypeOK
<1>3. CASE Tick
  BY <1>3, BuildAssumption DEF TypeOK, Tick, logVars
<1>4. ASSUME NEW w \in Workers, Work(w) \/ Crash(w)
      PROVE  TypeOK'
  BY <1>4, WorkTypeOK
<1>5. CASE UNCHANGED vars
  BY <1>5 DEF TypeOK, vars, logVars
<1> QED
  BY <1>1, <1>2, <1>3, <1>4, <1>5 DEF Next

(***************************************************************************)
(* The rows of the log, the cache and the jobs keep their types, and the   *)
(* build lock has exactly the holder whose transaction is past it.         *)
(***************************************************************************)
THEOREM TypeCorrect == Spec => []TypeOK
<1>1. Init => TypeOK
  BY InitTypeOK
<1>2. TypeOK /\ [Next]_vars => TypeOK'
  BY NextTypeOK
<1> QED
  BY <1>1, <1>2, PTL DEF Spec

-----------------------------------------------------------------------------
(***************************************************************************)
(* The log only grows: a committed event keeps its time and its tokens.    *)
(***************************************************************************)
LEMMA LogGrows ==
    ASSUME TypeOK, [Next]_vars,
           NEW e \in Events, event[e].status = "committed"
    PROVE  /\ event'[e].status = "committed"
           /\ event'[e].ingest = event[e].ingest
           /\ event[e].enriched => event'[e].enriched
<1>1. ASSUME NEW f \in Events, OpenInsert(f) \/ CommitInsert(f) \/ RollbackInsert(f)
      PROVE  event'[e] = event[e]
  <2>1. e # f
    BY <1>1 DEF OpenInsert, CommitInsert, RollbackInsert
  <2> QED
    BY <1>1, <2>1 DEF TypeOK, OpenInsert, CommitInsert, RollbackInsert
<1>2. ASSUME NEW w \in Workers, EnrichNext(w)
      PROVE  \/ event'[e] = event[e]
             \/ event'[e] = [event[e] EXCEPT !.enriched = TRUE]
  <2>1. \/ \E f \in job[w].todo : event' = [event EXCEPT ![f].enriched = TRUE]
        \/ UNCHANGED event
    BY <1>2 DEF EnrichNext
  <2>2. job[w].todo \subseteq Events
    BY JobFields DEF TypeOK
  <2> QED
    BY <2>1, <2>2 DEF TypeOK
<1>3. event[e] \in EventRow
  BY DEF TypeOK
<1>4. [event[e] EXCEPT !.enriched = TRUE].status = event[e].status
      /\ [event[e] EXCEPT !.enriched = TRUE].ingest = event[e].ingest
      /\ [event[e] EXCEPT !.enriched = TRUE].enriched = TRUE
  BY <1>3 DEF EventRow
<1>5. ASSUME NEW w \in Workers, Work(w) \/ Crash(w), ~ EnrichNext(w)
      PROVE  UNCHANGED event
  BY <1>5 DEF Work, StartJob, BeginBuild, LockAndBounds, LockHeld, ScanDirty,
              FoldGroup, CommitBuild, Crash, logVars
<1>6. CASE Advance \/ Tick \/ UNCHANGED vars
  BY <1>6 DEF Advance, Tick, vars, logVars
<1> QED
  BY <1>1, <1>2, <1>4, <1>5, <1>6 DEF Next

LEMMA RollupGrows ==
    ASSUME TypeOK, [Next]_vars, NEW g \in Groups
    PROVE  Within(Rollup(g), Rollup(g)')
<1>1. ASSUME NEW e \in GroupEvents(g)
      PROVE  e \in GroupEvents(g)' /\ (event[e].enriched => event'[e].enriched)
  BY <1>1, LogGrows DEF GroupEvents, Committed
<1> QED
  BY <1>1 DEF Rollup, Within

LEMMA WithinTransitive ==
    ASSUME NEW r, NEW s, NEW t, Within(r, s), Within(s, t)
    PROVE  Within(r, t)
BY DEF Within

LEMMA NoRowWithin == \A r : Within(NoRow, r)
BY DEF Within, NoRow

\* What a step does to the rows a build has folded and to the cache.
LEMMA FoldedSteps ==
    ASSUME TypeOK, [Next]_vars, NEW w \in Workers, NEW g \in Groups
    PROVE  \/ job'[w].folded[g] = NoRow
           \/ job'[w].pc = job[w].pc /\ job'[w].folded[g] = job[w].folded[g]
           \/ job[w].pc = "folding" /\ job'[w].pc = "folding" /\ job'[w].folded[g] = Rollup(g)
           \/ job[w].pc # "folding" /\ job'[w].folded[g] = job[w].folded[g]
<1> USE DEF TypeOK
<1>1. job[w] \in JobRecord
  OBVIOUS
<1>2. IdleJob.folded[g] = NoRow
  BY DEF IdleJob
<1>3. ASSUME NEW v \in Workers, Work(v) \/ Crash(v), v # w
      PROVE  job'[w] = job[w]
  BY <1>3 DEF Work, StartJob, EnrichNext, BeginBuild, LockAndBounds, LockHeld, ScanDirty,
              FoldGroup, CommitBuild, Crash
<1>4. CASE StartJob(w)
  <2>1. PICK S : job' = [job EXCEPT ![w] = [IdleJob EXCEPT !.pc = "enriching", !.todo = S]]
    BY <1>4 DEF StartJob
  <2>2. [IdleJob EXCEPT !.pc = "enriching", !.todo = S].folded = IdleJob.folded
    BY DEF IdleJob
  <2> QED
    BY <1>2, <2>1, <2>2
<1>5. CASE EnrichNext(w)
  <2>1. PICK e : job' = [job EXCEPT ![w].todo = @ \ {e}]
    BY <1>5 DEF EnrichNext
  <2> QED
    BY <1>1, <2>1 DEF JobRecord
<1>6. CASE BeginBuild(w) \/ LockAndBounds(w) \/ ScanDirty(w)
  BY <1>1, <1>6 DEF JobRecord, BeginBuild, LockAndBounds, ScanDirty
<1>7. CASE LockHeld(w) \/ CommitBuild(w) \/ Crash(w)
  BY <1>2, <1>7 DEF LockHeld, CommitBuild, Crash
<1>8. ASSUME NEW h \in Groups, FoldGroup(w, h)
      PROVE  \/ job'[w].pc = job[w].pc /\ job'[w].folded[g] = job[w].folded[g]
             \/ job[w].pc = "folding" /\ job'[w].pc = "folding" /\ job'[w].folded[g] = Rollup(g)
  <2>1. job'[w] = [job[w] EXCEPT !.dirty = @ \ {h}, !.folded[h] = Rollup(h)]
    BY <1>8 DEF FoldGroup
  <2>2. job[w].pc = "folding"
    BY <1>8 DEF FoldGroup
  <2>3. job'[w].pc = job[w].pc /\ job'[w].folded = [job[w].folded EXCEPT ![h] = Rollup(h)]
    BY <1>1, <2>1 DEF JobRecord
  <2>4. job[w].folded \in [Groups -> ClusterRow]
    BY <1>1, JobFields
  <2> QED
    BY <2>2, <2>3, <2>4
<1>9. CASE Advance \/ Tick \/ UNCHANGED vars
  BY <1>9 DEF Advance, Tick, vars, logVars
<1>10. ASSUME NEW e \in Events, OpenInsert(e) \/ CommitInsert(e) \/ RollbackInsert(e)
       PROVE  job' = job
  BY <1>10 DEF OpenInsert, CommitInsert, RollbackInsert
<1> QED
  BY <1>3, <1>4, <1>5, <1>6, <1>7, <1>8, <1>9, <1>10 DEF Next, Work

LEMMA OneCommits ==
    ASSUME TypeOK, NEW v \in Workers, CommitBuild(v),
           NEW w \in Workers, job[w].pc = "folding"
    PROVE  w = v /\ job'[w].pc = "idle"
<1>1. lock = w /\ lock = v
  BY DEF TypeOK, CommitBuild
<1>2. job'[v] = IdleJob
  BY DEF TypeOK, CommitBuild
<1> QED
  BY <1>1, <1>2 DEF IdleJob

LEMMA ClusterSteps ==
    ASSUME [Next]_vars
    PROVE  UNCHANGED cluster \/ \E v \in Workers : CommitBuild(v)
BY DEF Next, vars, logVars, Advance, OpenInsert, CommitInsert, RollbackInsert, Tick, Work,
       StartJob, EnrichNext, BeginBuild, LockAndBounds, LockHeld, ScanDirty, FoldGroup, Crash

LEMMA CommitKeeps ==
    ASSUME TypeOK, CacheInv, NEW v \in Workers, CommitBuild(v), NEW g \in Groups
    PROVE  /\ Within(cluster[g], cluster'[g])
           /\ Within(cluster'[g], Rollup(g))
<1>1. cluster'[g] = IF job[v].folded[g] = NoRow THEN cluster[g] ELSE job[v].folded[g]
  BY DEF CommitBuild, Upserted
<1>2. Within(cluster[g], cluster[g])
  BY DEF Within
<1> QED
  BY <1>1, <1>2 DEF CacheInv

LEMMA InitCacheInv == Init => CacheInv
<1> SUFFICES ASSUME Init, NEW g \in Groups
             PROVE  /\ Within(cluster[g], Rollup(g))
                    /\ \A w \in Workers : job[w].folded[g] = NoRow
  BY DEF CacheInv
<1>1. cluster[g] = NoRow
  BY DEF Init
<1>2. \A w \in Workers : job[w].folded[g] = NoRow
  BY DEF Init, IdleJob
<1> QED
  BY <1>1, <1>2, NoRowWithin

LEMMA NextCacheInv == TypeOK /\ CacheInv /\ [Next]_vars => CacheInv'
<1> SUFFICES ASSUME TypeOK, CacheInv, [Next]_vars, NEW g \in Groups
             PROVE  /\ Within(cluster'[g], Rollup(g)')
                    /\ \A w \in Workers :
                          \/ job'[w].folded[g] = NoRow
                          \/ /\ job'[w].pc = "folding"
                             /\ Within(cluster'[g], job'[w].folded[g])
                             /\ Within(job'[w].folded[g], Rollup(g)')
  BY DEF CacheInv
<1>1. Within(Rollup(g), Rollup(g)')
  BY RollupGrows
<1>2. Within(cluster'[g], Rollup(g))
  BY ClusterSteps, CommitKeeps DEF CacheInv
<1>3. Within(cluster'[g], Rollup(g)')
  BY <1>1, <1>2, WithinTransitive
<1>4. ASSUME NEW w \in Workers, job'[w].folded[g] # NoRow
      PROVE  /\ job'[w].pc = "folding"
             /\ Within(cluster'[g], job'[w].folded[g])
             /\ Within(job'[w].folded[g], Rollup(g)')
  <2>1. job[w].folded[g] = NoRow
        \/ /\ job[w].pc = "folding"
           /\ Within(cluster[g], job[w].folded[g])
           /\ Within(job[w].folded[g], Rollup(g))
    BY DEF CacheInv
  <2>2. CASE job'[w].pc = job[w].pc /\ job'[w].folded[g] = job[w].folded[g]
    <3>1. job[w].pc = "folding" /\ job'[w].pc = "folding"
      BY <1>4, <2>1, <2>2
    <3>2. cluster' = cluster
      BY <3>1, ClusterSteps, OneCommits
    <3> QED
      BY <1>1, <1>4, <2>1, <2>2, <3>1, <3>2, WithinTransitive
  <2>3. CASE job[w].pc = "folding" /\ job'[w].pc = "folding" /\ job'[w].folded[g] = Rollup(g)
    BY <1>1, <1>2, <2>3
  <2>4. CASE job[w].pc # "folding" /\ job'[w].folded[g] = job[w].folded[g]
    BY <1>4, <2>1, <2>4
  <2> QED
    BY <1>4, <2>2, <2>3, <2>4, FoldedSteps
<1> QED
  BY <1>3, <1>4

(***************************************************************************)
(* Concurrent builds serialize on the advisory lock, so a rebuild never    *)
(* drops an event, or an event's tokens, that the cluster already carries: *)
(* the group was folded after the last commit, and the log only grows.     *)
(***************************************************************************)
THEOREM ClusterNeverForgetsCorrect == Spec => ClusterNeverForgets
<1>1. Init => TypeOK /\ CacheInv
  BY InitTypeOK, InitCacheInv
<1>2. TypeOK /\ CacheInv /\ [Next]_vars => (TypeOK /\ CacheInv)'
  BY NextTypeOK, NextCacheInv
<1>3. TypeOK /\ CacheInv /\ [Next]_vars
      => [\A g \in Groups : /\ cluster[g].events \subseteq cluster'[g].events
                            /\ cluster[g].tokens \subseteq cluster'[g].tokens]_vars
  BY ClusterSteps, CommitKeeps DEF Within
<1> QED
  BY <1>1, <1>2, <1>3, PTL DEF Spec, ClusterNeverForgets

(***************************************************************************)
(* The watermark never moves back, though a build fixes its target before  *)
(* it takes the lock and may hold it after a build with a later one.       *)
(***************************************************************************)
THEOREM WatermarkMonotonicCorrect == Spec => WatermarkMonotonic
<1>1. TypeOK /\ [Next]_vars => [builtThrough <= builtThrough']_vars
  <2> SUFFICES ASSUME TypeOK, Next PROVE builtThrough <= builtThrough'
    OBVIOUS
  <2>1. ASSUME NEW w \in Workers, CommitBuild(w)
        PROVE  builtThrough <= builtThrough'
    <3>1. job[w].hwm \in Int /\ builtThrough \in Int
      BY JobFields DEF TypeOK
    <3> QED
      BY <2>1, <3>1 DEF CommitBuild, Greatest
  <2>2. CASE UNCHANGED builtThrough
    BY <2>2 DEF TypeOK
  <2> QED
    BY <2>1, <2>2 DEF Next, logVars, Advance, OpenInsert, CommitInsert, RollbackInsert, Tick,
       Work, StartJob, EnrichNext, BeginBuild, LockAndBounds, LockHeld, ScanDirty, FoldGroup, Crash
<1>2. Spec => []TypeOK
  BY TypeCorrect
<1> QED
  BY <1>1, <1>2, PTL DEF Spec, WatermarkMonotonic

-----------------------------------------------------------------------------
\* What a step does to the event log, seen from one event.
LEMMA EventSteps ==
    ASSUME TypeOK, [Next]_vars, NEW e \in Events
    PROVE  \/ event'[e].status = event[e].status /\ event'[e].ingest = event[e].ingest
           \/ OpenInsert(e) \/ CommitInsert(e) \/ RollbackInsert(e)
<1>1. ASSUME NEW f \in Events, f # e, OpenInsert(f) \/ CommitInsert(f) \/ RollbackInsert(f)
      PROVE  event'[e] = event[e]
  BY <1>1 DEF TypeOK, OpenInsert, CommitInsert, RollbackInsert
<1>2. ASSUME NEW w \in Workers, EnrichNext(w)
      PROVE  event'[e].status = event[e].status /\ event'[e].ingest = event[e].ingest
  <2>1. \/ \E f \in job[w].todo : event' = [event EXCEPT ![f].enriched = TRUE]
        \/ UNCHANGED event
    BY <1>2 DEF EnrichNext
  <2>2. job[w].todo \subseteq Events
    BY JobFields DEF TypeOK
  <2>3. event[e] \in EventRow
    BY DEF TypeOK
  <2>4. \/ event'[e] = event[e]
        \/ event'[e] = [event[e] EXCEPT !.enriched = TRUE]
    BY <2>1, <2>2 DEF TypeOK
  <2> QED
    BY <2>3, <2>4 DEF EventRow
<1>3. ASSUME NEW w \in Workers, Work(w) \/ Crash(w), ~ EnrichNext(w)
      PROVE  UNCHANGED event
  BY <1>3 DEF Work, StartJob, BeginBuild, LockAndBounds, LockHeld, ScanDirty,
              FoldGroup, CommitBuild, Crash, logVars
<1>4. CASE Advance \/ Tick \/ UNCHANGED vars
  BY <1>4 DEF Advance, Tick, vars, logVars
<1> QED
  BY <1>1, <1>2, <1>3, <1>4 DEF Next

LEMMA ClockSteps ==
    ASSUME TypeOK, [Next]_vars
    PROVE  /\ clock \in Nat /\ clock' \in Nat /\ clock <= clock'
           /\ clock' = clock \/ Advance
<1>1. clock \in Nat
  BY BuildAssumption DEF TypeOK, Instants
<1>2. clock' = clock \/ (Advance /\ clock' = clock + 1)
  BY DEF Next, vars, logVars, Advance, OpenInsert, CommitInsert, RollbackInsert, Tick, Work,
         StartJob, EnrichNext, BeginBuild, LockAndBounds, LockHeld, ScanDirty, FoldGroup,
         CommitBuild, Crash
<1> QED
  BY <1>1, <1>2

LEMMA InitLogInv == Init => LogInv
BY DEF Init, LogInv, UnbornEvent

LEMMA NextLogInv == TypeOK /\ LogInv /\ [Next]_vars => LogInv'
<1> SUFFICES ASSUME TypeOK, LogInv, [Next]_vars, NEW e \in Events
             PROVE  /\ event'[e].status # "unborn" => event'[e].ingest <= clock'
                    /\ event'[e].status = "open" => clock' <= event'[e].ingest + MaxTx
  BY DEF LogInv
<1>1. event[e].ingest \in Nat /\ MaxTx \in Nat
  BY EventFields, BuildAssumption DEF TypeOK
<1>2. CASE event'[e].status = event[e].status /\ event'[e].ingest = event[e].ingest
  <2>1. CASE clock' = clock
    BY <1>2, <2>1 DEF LogInv
  <2>2. CASE Advance
    BY <1>1, <1>2, <2>2, ClockSteps DEF LogInv, Advance
  <2> QED
    BY <2>1, <2>2, ClockSteps
<1>3. CASE OpenInsert(e)
  <2>1. event'[e].ingest = clock
    BY <1>3 DEF TypeOK, OpenInsert
  <2>2. clock' = clock
    BY <1>3 DEF OpenInsert
  <2> QED
    BY <1>1, <2>1, <2>2, ClockSteps
<1>4. CASE CommitInsert(e)
  <2>1. event'[e].status = "committed" /\ event'[e].ingest = event[e].ingest
    BY <1>4 DEF TypeOK, EventRow, CommitInsert
  <2>2. event[e].status = "open" /\ clock' = clock
    BY <1>4 DEF CommitInsert
  <2> QED
    BY <2>1, <2>2 DEF LogInv
<1>5. CASE RollbackInsert(e)
  <2>1. event'[e].status = "unborn"
    BY <1>5 DEF TypeOK, RollbackInsert, UnbornEvent
  <2> QED
    BY <2>1
<1> QED
  BY <1>2, <1>3, <1>4, <1>5, EventSteps

\* What a step does to the target of a build.
LEMMA TargetSteps ==
    ASSUME TypeOK, [Next]_vars, NEW w \in Workers,
           job'[w].pc \in {"begun", "locked", "folding"}
    PROVE  \/ job[w].pc \in {"begun", "locked", "folding"} /\ job'[w].hwm = job[w].hwm
           \/ BeginBuild(w) /\ job'[w].hwm = clock - EffectiveGrace
<1> USE DEF TypeOK
<1>1. job[w] \in JobRecord
  OBVIOUS
<1>2. ASSUME NEW v \in Workers, Work(v) \/ Crash(v), v # w
      PROVE  job'[w] = job[w]
  BY <1>2 DEF Work, StartJob, EnrichNext, BeginBuild, LockAndBounds, LockHeld, ScanDirty,
              FoldGroup, CommitBuild, Crash
<1>3. CASE StartJob(w)
  <2>1. PICK S : job' = [job EXCEPT ![w] = [IdleJob EXCEPT !.pc = "enriching", !.todo = S]]
    BY <1>3 DEF StartJob
  <2>2. job'[w].pc = "enriching"
    BY <2>1 DEF IdleJob
  <2> QED
    BY <2>2
<1>4. CASE EnrichNext(w)
  <2>1. PICK e : job' = [job EXCEPT ![w].todo = @ \ {e}]
    BY <1>4 DEF EnrichNext
  <2>2. job'[w].pc = job[w].pc /\ job[w].pc = "enriching"
    BY <1>1, <1>4, <2>1 DEF JobRecord, EnrichNext
  <2> QED
    BY <2>2
<1>5. CASE BeginBuild(w)
  BY <1>1, <1>5 DEF JobRecord, BeginBuild
<1>6. CASE LockAndBounds(w) \/ ScanDirty(w)
  BY <1>1, <1>6 DEF JobRecord, LockAndBounds, ScanDirty
<1>7. CASE LockHeld(w) \/ CommitBuild(w) \/ Crash(w)
  BY <1>7 DEF LockHeld, CommitBuild, Crash, IdleJob
<1>8. ASSUME NEW g \in Groups, FoldGroup(w, g)
      PROVE  job[w].pc = "folding" /\ job'[w].hwm = job[w].hwm
  BY <1>1, <1>8 DEF JobRecord, FoldGroup
<1>9. CASE Advance \/ Tick \/ UNCHANGED vars
  BY <1>9 DEF Advance, Tick, vars, logVars
<1>10. ASSUME NEW e \in Events, OpenInsert(e) \/ CommitInsert(e) \/ RollbackInsert(e)
       PROVE  job' = job
  BY <1>10 DEF OpenInsert, CommitInsert, RollbackInsert
<1> QED
  BY <1>2, <1>3, <1>4, <1>5, <1>6, <1>7, <1>8, <1>9, <1>10 DEF Next, Work

LEMMA WatermarkSteps ==
    ASSUME [Next]_vars
    PROVE  \/ UNCHANGED <<cluster, builtThrough>>
           \/ \E v \in Workers : CommitBuild(v)
BY DEF Next, vars, logVars, Advance, OpenInsert, CommitInsert, RollbackInsert, Tick, Work,
       StartJob, EnrichNext, BeginBuild, LockAndBounds, LockHeld, ScanDirty, FoldGroup, Crash

LEMMA InitDeadlineInv == Init => DeadlineInv
BY DEF Init, DeadlineInv, IdleJob

LEMMA NextDeadlineInv == TypeOK /\ DeadlineInv /\ [Next]_vars => DeadlineInv'
<1> SUFFICES ASSUME TypeOK, DeadlineInv, [Next]_vars
             PROVE  DeadlineInv'
  OBVIOUS
<1> USE GraceType, ClockSteps
<1>1. EffectiveGrace' = EffectiveGrace
  BY DEF EffectiveGrace
<1>2. builtThrough' = Epoch \/ builtThrough' <= clock' - EffectiveGrace
  <2>1. CASE UNCHANGED builtThrough
    BY <2>1 DEF DeadlineInv, TypeOK, Epoch
  <2>2. ASSUME NEW v \in Workers, CommitBuild(v)
        PROVE  builtThrough' = Epoch \/ builtThrough' <= clock' - EffectiveGrace
    <3>1. job[v].hwm <= clock - EffectiveGrace /\ job[v].hwm \in Int
      BY <2>2, JobFields DEF DeadlineInv, CommitBuild, TypeOK
    <3>2. builtThrough' = builtThrough \/ builtThrough' = job[v].hwm
      BY <2>2 DEF CommitBuild, Greatest
    <3> QED
      BY <3>1, <3>2 DEF DeadlineInv, TypeOK
  <2> QED
    BY <2>1, <2>2, WatermarkSteps
<1>3. ASSUME NEW w \in Workers, job'[w].pc \in {"begun", "locked", "folding"}
      PROVE  job'[w].hwm <= clock' - EffectiveGrace
  <2>1. CASE job[w].pc \in {"begun", "locked", "folding"} /\ job'[w].hwm = job[w].hwm
    <3>1. job[w].hwm \in Int /\ job[w].hwm <= clock - EffectiveGrace
      BY <2>1, JobFields DEF TypeOK, DeadlineInv
    <3> QED
      BY <2>1, <3>1
  <2>2. CASE job'[w].hwm = clock - EffectiveGrace
    BY <2>2
  <2> QED
    BY <1>3, <2>1, <2>2, TargetSteps
<1> QED
  BY <1>1, <1>2, <1>3 DEF DeadlineInv

-----------------------------------------------------------------------------
(***************************************************************************)
(* The point of the grace: an event that commits does so ahead of the      *)
(* watermark, and of the target of every build in progress.                *)
(***************************************************************************)
LEMMA CommitsAhead ==
    ASSUME TypeOK, LogInv, DeadlineInv, MaxTx < EffectiveGrace,
           NEW e \in Events, CommitInsert(e)
    PROVE  /\ builtThrough < event[e].ingest
           /\ \A w \in Workers : job[w].pc \in {"begun", "locked", "folding"}
                                 => job[w].hwm < event[e].ingest
<1>1. event[e].ingest \in Nat /\ clock \in Nat /\ builtThrough \in Int
      /\ MaxTx \in Nat /\ EffectiveGrace \in Nat
  BY EventFields, GraceType, BuildAssumption DEF TypeOK, Instants
<1>2. clock <= event[e].ingest + MaxTx
  BY DEF CommitInsert, LogInv
<1>3. clock - EffectiveGrace < event[e].ingest
  BY <1>1, <1>2
<1>4. builtThrough < event[e].ingest
  BY <1>1, <1>3 DEF DeadlineInv, Epoch
<1>5. ASSUME NEW w \in Workers, job[w].pc \in {"begun", "locked", "folding"}
      PROVE  job[w].hwm < event[e].ingest
  <2>1. job[w].hwm \in Int /\ job[w].hwm <= clock - EffectiveGrace
    BY <1>5, JobFields DEF TypeOK, DeadlineInv
  <2> QED
    BY <1>1, <1>3, <2>1
<1> QED
  BY <1>4, <1>5

\* A committed event was committed before, with the same time, or commits now.
LEMMA CommittedSteps ==
    ASSUME TypeOK, [Next]_vars, NEW e \in Events, event'[e].status = "committed"
    PROVE  /\ event'[e].ingest = event[e].ingest
           /\ event[e].status = "committed" \/ CommitInsert(e)
<1>1. ~ OpenInsert(e) /\ ~ RollbackInsert(e)
  BY DEF TypeOK, OpenInsert, RollbackInsert, UnbornEvent
<1>2. CommitInsert(e) => event'[e].ingest = event[e].ingest
  BY DEF TypeOK, EventRow, CommitInsert
<1> QED
  BY <1>1, <1>2, EventSteps

LEMMA InitFoldInv == Init => FoldInv /\ NoEventStranded
BY DEF Init, FoldInv, NoEventStranded, Committed, UnbornEvent, IdleJob

LEMMA NextNoEventStranded ==
    ASSUME MaxTx < EffectiveGrace, TypeOK, BuildInv, [Next]_vars
    PROVE  NoEventStranded'
<1> SUFFICES ASSUME NEW e \in Events, event'[e].status = "committed",
                    event'[e].ingest <= builtThrough'
             PROVE  e \in cluster'[GroupOf[e]].events
  BY DEF NoEventStranded, Committed
<1> USE DEF BuildInv
<1> DEFINE g == GroupOf[e]
<1>1. g \in Groups
  BY BuildAssumption
<1>2. event'[e].ingest = event[e].ingest /\ event[e].ingest \in Nat
  BY CommittedSteps, EventFields DEF TypeOK
<1>3. CASE UNCHANGED <<cluster, builtThrough>>
  <2>1. event[e].status = "committed"
    BY <1>2, <1>3, CommittedSteps, CommitsAhead DEF TypeOK
  <2> QED
    BY <1>2, <1>3, <2>1 DEF NoEventStranded, Committed
<1>4. ASSUME NEW v \in Workers, CommitBuild(v)
      PROVE  e \in cluster'[g].events
  <2>1. event' = event /\ job[v].pc = "folding" /\ job[v].dirty = {}
    BY <1>4 DEF CommitBuild, logVars
  <2>2. e \in Committed
    BY <2>1 DEF Committed
  <2>3. builtThrough' = builtThrough \/ builtThrough' = job[v].hwm
    BY <1>4 DEF CommitBuild, Greatest
  <2>4. CASE event[e].ingest <= builtThrough
    BY <1>1, <1>4, <2>2, <2>4, CommitKeeps DEF NoEventStranded, Within
  <2>5. CASE ~ (event[e].ingest <= builtThrough)
    <3>1. builtThrough < event[e].ingest /\ event[e].ingest <= job[v].hwm
      BY <1>2, <2>3, <2>5 DEF TypeOK
    <3>2. e \in job[v].folded[g].events
      BY <2>1, <2>2, <3>1 DEF FoldInv
    <3>3. cluster'[g] = job[v].folded[g]
      BY <1>1, <1>4, <3>2 DEF CommitBuild, Upserted, NoRow
    <3> QED
      BY <3>2, <3>3
  <2> QED
    BY <2>4, <2>5
<1> QED
  BY <1>3, <1>4, WatermarkSteps

\* What a step does to a build that holds, or takes, the lock.
LEMMA HolderSteps ==
    ASSUME TypeOK, [Next]_vars, NEW w \in Workers,
           job'[w].pc \in {"locked", "folding"}
    PROVE  \/ job'[w] = job[w] /\ ~ \E g \in Groups : FoldGroup(w, g)
           \/ LockAndBounds(w)
           \/ ScanDirty(w)
           \/ \E g \in Groups : FoldGroup(w, g)
<1> USE DEF TypeOK
<1>1. job[w] \in JobRecord
  OBVIOUS
<1>2. ASSUME NEW v \in Workers, Work(v) \/ Crash(v), v # w
      PROVE  job'[w] = job[w]
  BY <1>2 DEF Work, StartJob, EnrichNext, BeginBuild, LockAndBounds, LockHeld, ScanDirty,
              FoldGroup, CommitBuild, Crash
<1>3. ~ StartJob(w)
  <2> SUFFICES ASSUME StartJob(w) PROVE FALSE
    OBVIOUS
  <2>1. PICK S : job' = [job EXCEPT ![w] = [IdleJob EXCEPT !.pc = "enriching", !.todo = S]]
    BY DEF StartJob
  <2>2. job'[w].pc = "enriching"
    BY <2>1 DEF IdleJob
  <2> QED
    BY <2>2
<1>4. ~ EnrichNext(w)
  <2> SUFFICES ASSUME EnrichNext(w) PROVE FALSE
    OBVIOUS
  <2>1. PICK e : job' = [job EXCEPT ![w].todo = @ \ {e}]
    BY DEF EnrichNext
  <2>2. job'[w].pc = "enriching"
    BY <1>1, <2>1 DEF JobRecord, EnrichNext
  <2> QED
    BY <2>2
<1>5. ~ BeginBuild(w)
  BY <1>1 DEF JobRecord, BeginBuild
<1>6. ~ LockHeld(w) /\ ~ CommitBuild(w) /\ ~ Crash(w)
  BY DEF LockHeld, CommitBuild, Crash, IdleJob
<1>7. CASE Advance \/ Tick \/ UNCHANGED vars
  BY <1>7 DEF Advance, Tick, vars, logVars
<1>8. ASSUME NEW e \in Events, OpenInsert(e) \/ CommitInsert(e) \/ RollbackInsert(e)
      PROVE  job' = job
  BY <1>8 DEF OpenInsert, CommitInsert, RollbackInsert
<1> QED
  BY <1>2, <1>3, <1>4, <1>5, <1>6, <1>7, <1>8 DEF Next, Work

\* While a build holds the lock, nobody else moves the watermark.
LEMMA HolderKeepsWatermark ==
    ASSUME TypeOK, [Next]_vars, NEW w \in Workers,
           job'[w].pc \in {"locked", "folding"}
    PROVE  builtThrough' = builtThrough
<1>1. ASSUME NEW v \in Workers, CommitBuild(v)
      PROVE  FALSE
  <2>1. lock = v /\ lock' = NoWorker
    BY <1>1 DEF TypeOK, CommitBuild
  <2>2. TypeOK'
    BY NextTypeOK
  <2>3. lock' = w
    BY <2>2 DEF TypeOK
  <2> QED
    BY <2>1, <2>3, BuildAssumption
<1> QED
  BY <1>1, WatermarkSteps

LEMMA NextFoldInv ==
    ASSUME MaxTx < EffectiveGrace, TypeOK, BuildInv, [Next]_vars
    PROVE  FoldInv'
<1> USE DEF BuildInv
<1>1. ASSUME NEW w \in Workers, job'[w].pc \in {"locked", "folding"}
      PROVE  job'[w].lo = builtThrough'
  <2>0. job[w] \in JobRecord
    BY DEF TypeOK
  <2>1. CASE job'[w] = job[w]
    BY <1>1, <2>1, HolderKeepsWatermark DEF FoldInv
  <2>2. CASE LockAndBounds(w)
    BY <2>0, <2>2 DEF TypeOK, JobRecord, LockAndBounds
  <2>3. CASE ScanDirty(w)
    <3>1. job'[w].lo = job[w].lo /\ job[w].pc = "locked" /\ builtThrough' = builtThrough
      BY <2>0, <2>3 DEF TypeOK, JobRecord, ScanDirty
    <3> QED
      BY <3>1 DEF FoldInv
  <2>4. ASSUME NEW g \in Groups, FoldGroup(w, g)
        PROVE  job'[w].lo = builtThrough'
    <3>1. job'[w].lo = job[w].lo /\ job[w].pc = "folding" /\ builtThrough' = builtThrough
      BY <2>0, <2>4 DEF TypeOK, JobRecord, FoldGroup
    <3> QED
      BY <3>1 DEF FoldInv
  <2> QED
    BY <1>1, <2>1, <2>2, <2>3, <2>4, HolderSteps
<1>2. ASSUME NEW w \in Workers, job'[w].pc = "folding",
             NEW e \in Events, event'[e].status = "committed",
             builtThrough' < event'[e].ingest, event'[e].ingest <= job'[w].hwm
      PROVE  \/ GroupOf[e] \in job'[w].dirty
             \/ e \in job'[w].folded[GroupOf[e]].events
  <2> DEFINE g == GroupOf[e]
  <2>0. job[w] \in JobRecord /\ g \in Groups
    BY BuildAssumption DEF TypeOK
  <2>1. builtThrough' = builtThrough /\ event'[e].ingest = event[e].ingest
    BY <1>2, HolderKeepsWatermark, CommittedSteps
  <2>2. CASE job'[w] = job[w]
    <3>1. ~ CommitInsert(e)
      <4>1. event[e].ingest \in Nat /\ job[w].hwm \in Int
        BY <2>0, EventFields, JobFields DEF TypeOK
      <4> QED
        BY <1>2, <2>1, <2>2, <4>1, CommitsAhead
    <3>2. e \in Committed
      BY <1>2, <3>1, CommittedSteps DEF Committed
    <3> QED
      BY <1>2, <2>1, <2>2, <3>2 DEF FoldInv
  <2>3. CASE ScanDirty(w)
    <3>1. /\ job'[w].dirty = DirtyGroups(w) /\ job'[w].hwm = job[w].hwm
          /\ job[w].pc = "locked" /\ event' = event
      BY <2>0, <2>3 DEF TypeOK, JobRecord, ScanDirty, logVars
    <3>2. job[w].lo = builtThrough
      BY <3>1 DEF FoldInv
    <3>3. e \in GroupEvents(g)
      BY <1>2, <3>1 DEF GroupEvents, Committed
    <3> QED
      BY <1>2, <2>0, <2>1, <3>1, <3>2, <3>3 DEF DirtyGroups
  <2>4. ASSUME NEW h \in Groups, FoldGroup(w, h)
        PROVE  g \in job'[w].dirty \/ e \in job'[w].folded[g].events
    <3>1. /\ job'[w].dirty = job[w].dirty \ {h} /\ job'[w].hwm = job[w].hwm
          /\ job'[w].folded = [job[w].folded EXCEPT ![h] = Rollup(h)]
          /\ job[w].pc = "folding" /\ event' = event
      BY <2>0, <2>4 DEF TypeOK, JobRecord, FoldGroup, logVars
    <3>2. e \in Committed
      BY <1>2, <3>1 DEF Committed
    <3>3. job[w].folded \in [Groups -> ClusterRow]
      BY <2>0, JobFields
    <3>4. CASE g = h
      <4>1. e \in Rollup(g).events
        BY <3>2 DEF Rollup, GroupEvents
      <4>2. job'[w].folded[g] = Rollup(g)
        BY <2>0, <3>1, <3>3, <3>4
      <4> QED
        BY <4>1, <4>2
    <3>5. CASE g # h
      <4>1. g \in job[w].dirty \/ e \in job[w].folded[g].events
        BY <1>2, <2>1, <3>1, <3>2 DEF FoldInv
      <4> QED
        BY <2>0, <3>1, <3>3, <3>5, <4>1
    <3> QED
      BY <3>4, <3>5
  <2>5. CASE LockAndBounds(w)
    BY <1>2, <2>0, <2>5 DEF TypeOK, JobRecord, LockAndBounds
  <2> QED
    BY <1>2, <2>2, <2>3, <2>4, <2>5, HolderSteps
<1> QED
  BY <1>1, <1>2 DEF FoldInv, Committed

(***************************************************************************)
(* Every public event at or below build_watermark.built_through is in its  *)
(* cluster, provided that no ingest transaction stays open for as long as  *)
(* the grace.  (With a grace of zero the proviso cannot hold: that is the  *)
(* build with enrichment off, and every private build.)                    *)
(***************************************************************************)
THEOREM NoEventStrandedCorrect ==
    ASSUME MaxTx < EffectiveGrace
    PROVE  Spec => []NoEventStranded
<1>1. Init => TypeOK /\ BuildInv
  BY InitTypeOK, InitLogInv, InitCacheInv, InitDeadlineInv, InitFoldInv DEF BuildInv
<1>2. TypeOK /\ BuildInv /\ [Next]_vars => TypeOK' /\ BuildInv'
  BY NextTypeOK, NextLogInv, NextCacheInv, NextDeadlineInv, NextFoldInv, NextNoEventStranded
  DEF BuildInv
<1>3. BuildInv => NoEventStranded
  BY DEF BuildInv
<1> QED
  BY <1>1, <1>2, <1>3, PTL DEF Spec

-----------------------------------------------------------------------------
(***************************************************************************)
(* Tokens behind the watermark.  As long as no two jobs were at work       *)
(* together, whoever enriches an event does so before the build that takes *)
(* the watermark past it folds its group.                                  *)
(***************************************************************************)
OneJob ==
    \A v, w \in Workers : job[v].pc # "idle" /\ job[w].pc # "idle" => v = w

\* What a sweep has still to enrich is ahead of the watermark.
SweepAhead ==
    \A w \in Workers :
        /\ job[w].pc = "idle" => job[w].todo = {}
        /\ \A e \in job[w].todo : e \in Committed /\ builtThrough < event[e].ingest

\* FoldInv, for the tokens.
FoldTokens ==
    \A w \in Workers : job[w].pc = "folding" =>
        \A e \in Committed :
            event[e].enriched /\ builtThrough < event[e].ingest /\ event[e].ingest <= job[w].hwm
            => \/ GroupOf[e] \in job[w].dirty
               \/ e \in job[w].folded[GroupOf[e]].tokens

TokenInv == overlapped \/ (OneJob /\ SweepAhead /\ FoldTokens /\ TokensRolledUp)

\* Two jobs at work are remembered, and a job that starts beside another is.
LEMMA OverlapSteps ==
    ASSUME TypeOK, [Next]_vars, ~ overlapped'
    PROVE  /\ ~ overlapped
           /\ \A w, v \in Workers : StartJob(w) => job[v].pc = "idle"
<1>1. (overlapped' = overlapped) \/ \E w \in Workers : StartJob(w)
  BY DEF Next, vars, logVars, Advance, OpenInsert, CommitInsert, RollbackInsert, Tick, Work,
         EnrichNext, BeginBuild, LockAndBounds, LockHeld, ScanDirty, FoldGroup, CommitBuild, Crash
<1>2. ASSUME NEW w \in Workers, StartJob(w)
      PROVE  ~ overlapped /\ \A v \in Workers : job[v].pc = "idle"
  BY <1>2, Zenon DEF StartJob
<1>3. ASSUME overlapped' = overlapped
      PROVE  ~ overlapped
  BY <1>3
<1>4. ~ overlapped
  BY <1>1, <1>2, <1>3
<1> QED
  BY <1>2, <1>4

\* What a step does to the events a job has still to enrich.
LEMMA TodoSteps ==
    ASSUME TypeOK, [Next]_vars, NEW w \in Workers
    PROVE  \/ StartJob(w) /\ job'[w].todo \subseteq PendingFrontier /\ job'[w].pc = "enriching"
           \/ job'[w].todo = {} /\ job'[w].pc = "idle"
           \/ /\ job'[w].todo \subseteq job[w].todo
              /\ job'[w].pc = "idle" <=> job[w].pc = "idle"
<1>1. job[w] \in JobRecord
  BY DEF TypeOK
<1>2. ASSUME NEW v \in Workers, Work(v) \/ Crash(v), v # w
      PROVE  job'[w] = job[w]
  BY <1>2 DEF TypeOK, Work, StartJob, EnrichNext, BeginBuild, LockAndBounds, LockHeld, ScanDirty,
              FoldGroup, CommitBuild, Crash
<1>3. CASE StartJob(w)
  <2>1. PICK S \in IF Enrich THEN Snapshots ELSE {{}} :
          job' = [job EXCEPT ![w] = [IdleJob EXCEPT !.pc = "enriching", !.todo = S]]
    BY <1>3 DEF StartJob
  <2>2. S \subseteq PendingFrontier
    BY DEF Snapshots
  <2>3. job'[w].todo = S /\ job'[w].pc = "enriching"
    BY <2>1 DEF IdleJob, TypeOK
  <2> QED
    BY <1>3, <2>2, <2>3
<1>4. CASE EnrichNext(w)
  <2>1. PICK e : job' = [job EXCEPT ![w].todo = @ \ {e}]
    BY <1>4 DEF EnrichNext
  <2> QED
    BY <1>1, <2>1 DEF JobRecord, TypeOK
<1>5. CASE BeginBuild(w) \/ LockAndBounds(w) \/ ScanDirty(w)
  BY <1>1, <1>5 DEF JobRecord, BeginBuild, LockAndBounds, ScanDirty, TypeOK
<1>6. ASSUME NEW g \in Groups, FoldGroup(w, g)
      PROVE  job'[w].todo = job[w].todo /\ job'[w].pc = job[w].pc
  BY <1>1, <1>6 DEF JobRecord, FoldGroup, TypeOK
<1>7. CASE LockHeld(w) \/ CommitBuild(w) \/ Crash(w)
  BY <1>7 DEF LockHeld, CommitBuild, Crash, IdleJob, TypeOK
<1>8. CASE Advance \/ Tick \/ UNCHANGED vars
  BY <1>8 DEF Advance, Tick, vars, logVars
<1>9. ASSUME NEW e \in Events, OpenInsert(e) \/ CommitInsert(e) \/ RollbackInsert(e)
      PROVE  job' = job
  BY <1>9 DEF OpenInsert, CommitInsert, RollbackInsert
<1> QED
  BY <1>2, <1>3, <1>4, <1>5, <1>6, <1>7, <1>8, <1>9 DEF Next, Work

\* A committed event that carries tokens carried them before, or commits with
\* them, or is the one a job at work has just enriched.
LEMMA TokenSteps ==
    ASSUME TypeOK, [Next]_vars, NEW e \in Events,
           event'[e].status = "committed", event'[e].enriched
    PROVE  \/ event[e].status = "committed" /\ event[e].enriched
           \/ CommitInsert(e)
           \/ \E w \in Workers : EnrichNext(w) /\ e \in job[w].todo
<1>1. event[e].status = "committed" \/ CommitInsert(e)
  BY CommittedSteps
<1>2. CASE event'[e] = event[e]
  BY <1>1, <1>2
<1>3. CASE event'[e] # event[e] /\ ~ CommitInsert(e)
  <2>1. ASSUME NEW f \in Events, OpenInsert(f) \/ CommitInsert(f) \/ RollbackInsert(f)
        PROVE  FALSE
    <3>1. e # f
      BY <1>1, <1>3, <2>1 DEF OpenInsert, RollbackInsert
    <3> QED
      BY <1>3, <2>1, <3>1 DEF TypeOK, OpenInsert, CommitInsert, RollbackInsert
  <2>2. PICK w \in Workers : EnrichNext(w)
    BY <1>3, <2>1 DEF Next, vars, logVars, Advance, Tick, Work, StartJob, BeginBuild, LockAndBounds,
                      LockHeld, ScanDirty, FoldGroup, CommitBuild, Crash
  <2>3. PICK f \in job[w].todo : \/ event' = [event EXCEPT ![f].enriched = TRUE]
                                  \/ UNCHANGED event
    BY <2>2 DEF EnrichNext
  <2>4. e = f
    BY <1>3, <2>3 DEF TypeOK
  <2> QED
    BY <2>2, <2>4
<1> QED
  BY <1>2, <1>3

LEMMA OneJobKept ==
    ASSUME TypeOK, OneJob, [Next]_vars, ~ overlapped'
    PROVE  OneJob'
<1> SUFFICES ASSUME NEW v \in Workers, NEW w \in Workers,
                    job'[v].pc # "idle", job'[w].pc # "idle"
             PROVE  v = w
  BY DEF OneJob
<1>1. \A u \in {v, w} : StartJob(u) \/ job[u].pc # "idle"
  BY TodoSteps
<1>2. ASSUME NEW u \in Workers, NEW t \in Workers, StartJob(u), StartJob(t)
      PROVE  u = t
  <2>1. job[t].pc = "idle" /\ job \in [Workers -> JobRecord]
    BY <1>2 DEF StartJob, TypeOK
  <2>2. PICK S : job' = [job EXCEPT ![u] = [IdleJob EXCEPT !.pc = "enriching", !.todo = S]]
    BY <1>2 DEF StartJob
  <2>3. PICK T : job' = [job EXCEPT ![t] = [IdleJob EXCEPT !.pc = "enriching", !.todo = T]]
    BY <1>2 DEF StartJob
  <2>4. job'[t].pc = "enriching"
    BY <2>1, <2>3 DEF IdleJob
  <2> QED
    BY <2>1, <2>2, <2>4
<1> QED
  BY <1>1, <1>2, OverlapSteps DEF OneJob

LEMMA SweepAheadKept ==
    ASSUME TypeOK, OneJob, SweepAhead, [Next]_vars, ~ overlapped'
    PROVE  SweepAhead'
<1>1. ASSUME NEW e \in Events, event[e].status = "committed"
      PROVE  event'[e].status = "committed" /\ event'[e].ingest = event[e].ingest
  BY <1>1, LogGrows
<1>2. ASSUME NEW w \in Workers
      PROVE  job'[w].pc = "idle" => job'[w].todo = {}
  BY TodoSteps DEF SweepAhead
<1>3. ASSUME NEW w \in Workers, NEW e \in job'[w].todo
      PROVE  e \in Committed' /\ builtThrough' < event'[e].ingest
  <2>1. e \in Committed /\ builtThrough < event[e].ingest
    BY <1>3, TodoSteps DEF SweepAhead, PendingFrontier
  <2>2. e \in Committed' /\ event'[e].ingest = event[e].ingest
    BY <1>1, <2>1 DEF Committed
  <2>3. ASSUME NEW v \in Workers, CommitBuild(v)
        PROVE  FALSE
    <3>1. job[v].pc # "idle" /\ job' = [job EXCEPT ![v] = IdleJob]
      BY <2>3 DEF CommitBuild
    <3>2. v # w
      BY <1>3, <3>1 DEF TypeOK, IdleJob
    <3>3. job'[w] = job[w]
      BY <3>1, <3>2 DEF TypeOK
    <3> QED
      BY <1>3, <3>1, <3>2, <3>3 DEF OneJob, SweepAhead
  <2> QED
    BY <2>1, <2>2, <2>3, WatermarkSteps
<1> QED
  BY <1>2, <1>3 DEF SweepAhead

LEMMA FoldTokensKept ==
    ASSUME MaxTx < EffectiveGrace, TypeOK, BuildInv, OneJob, FoldTokens, [Next]_vars,
           ~ overlapped'
    PROVE  FoldTokens'
<1> USE DEF BuildInv
<1> SUFFICES ASSUME NEW w \in Workers, job'[w].pc = "folding",
                    NEW e \in Events, event'[e].status = "committed", event'[e].enriched,
                    builtThrough' < event'[e].ingest, event'[e].ingest <= job'[w].hwm
             PROVE  \/ GroupOf[e] \in job'[w].dirty
                    \/ e \in job'[w].folded[GroupOf[e]].tokens
  BY DEF FoldTokens, Committed
<1> DEFINE g == GroupOf[e]
<1>1. job[w] \in JobRecord /\ g \in Groups
  BY BuildAssumption DEF TypeOK
<1>2. builtThrough' = builtThrough /\ event'[e].ingest = event[e].ingest
  BY HolderKeepsWatermark, CommittedSteps
<1>3. CASE job'[w] = job[w]
  <2>1. ~ CommitInsert(e)
    <3>1. event[e].ingest \in Nat /\ job[w].hwm \in Int
      BY <1>1, EventFields, JobFields DEF TypeOK
    <3> QED
      BY <1>2, <1>3, <3>1, CommitsAhead
  <2>2. ASSUME NEW v \in Workers, EnrichNext(v)
        PROVE  FALSE
    BY <1>3, <2>2 DEF EnrichNext, OneJob
  <2>3. event[e].status = "committed" /\ event[e].enriched
    BY <2>1, <2>2, TokenSteps
  <2> QED
    BY <1>2, <1>3, <2>3 DEF FoldTokens, Committed
<1>4. CASE ScanDirty(w)
  <2>1. /\ job'[w].dirty = DirtyGroups(w) /\ job'[w].hwm = job[w].hwm
        /\ job[w].pc = "locked" /\ event' = event
    BY <1>1, <1>4 DEF TypeOK, JobRecord, ScanDirty, logVars
  <2>2. job[w].lo = builtThrough
    BY <2>1 DEF FoldInv
  <2>3. e \in GroupEvents(g)
    BY <2>1 DEF GroupEvents, Committed
  <2> QED
    BY <1>1, <1>2, <2>1, <2>2, <2>3 DEF DirtyGroups
<1>5. ASSUME NEW h \in Groups, FoldGroup(w, h)
      PROVE  g \in job'[w].dirty \/ e \in job'[w].folded[g].tokens
  <2>1. /\ job'[w].dirty = job[w].dirty \ {h} /\ job'[w].hwm = job[w].hwm
        /\ job'[w].folded = [job[w].folded EXCEPT ![h] = Rollup(h)]
        /\ job[w].pc = "folding" /\ event' = event
    BY <1>1, <1>5 DEF TypeOK, JobRecord, FoldGroup, logVars
  <2>2. e \in Committed /\ event[e].enriched
    BY <2>1 DEF Committed
  <2>3. job[w].folded \in [Groups -> ClusterRow]
    BY <1>1, JobFields
  <2>4. CASE g = h
    <3>1. e \in Rollup(g).tokens
      BY <2>2 DEF Rollup, GroupEvents
    <3>2. job'[w].folded[g] = Rollup(g)
      BY <1>1, <2>1, <2>3, <2>4
    <3> QED
      BY <3>1, <3>2
  <2>5. CASE g # h
    <3>1. g \in job[w].dirty \/ e \in job[w].folded[g].tokens
      BY <1>2, <2>1, <2>2 DEF FoldTokens
    <3> QED
      BY <1>1, <2>1, <2>3, <2>5, <3>1
  <2> QED
    BY <2>4, <2>5
<1>6. CASE LockAndBounds(w)
  BY <1>1, <1>6 DEF TypeOK, JobRecord, LockAndBounds
<1> QED
  BY <1>3, <1>4, <1>5, <1>6, HolderSteps

LEMMA RolledUpKept ==
    ASSUME MaxTx < EffectiveGrace, TypeOK, BuildInv, SweepAhead, FoldTokens, TokensRolledUp,
           [Next]_vars, ~ overlapped, ~ overlapped'
    PROVE  TokensRolledUp'
<1> SUFFICES ASSUME NEW e \in Events, event'[e].status = "committed", event'[e].enriched,
                    event'[e].ingest <= builtThrough'
             PROVE  e \in cluster'[GroupOf[e]].tokens
  BY DEF TokensRolledUp, Committed
<1> USE DEF BuildInv
<1> DEFINE g == GroupOf[e]
<1>1. g \in Groups
  BY BuildAssumption
<1>2. event'[e].ingest = event[e].ingest /\ event[e].ingest \in Nat
  BY CommittedSteps, EventFields DEF TypeOK
<1>3. CASE UNCHANGED <<cluster, builtThrough>>
  <2>1. ~ CommitInsert(e)
    BY <1>2, <1>3, CommitsAhead DEF TypeOK
  <2>2. ASSUME NEW w \in Workers, EnrichNext(w), e \in job[w].todo
        PROVE  FALSE
    BY <1>2, <1>3, <2>2 DEF SweepAhead, TypeOK
  <2>3. event[e].status = "committed" /\ event[e].enriched
    BY <2>1, <2>2, TokenSteps
  <2> QED
    BY <1>2, <1>3, <2>3 DEF TokensRolledUp, Committed
<1>4. ASSUME NEW v \in Workers, CommitBuild(v)
      PROVE  e \in cluster'[g].tokens
  <2>1. event' = event /\ job[v].pc = "folding" /\ job[v].dirty = {}
    BY <1>4 DEF CommitBuild, logVars
  <2>2. e \in Committed /\ event[e].enriched
    BY <2>1 DEF Committed
  <2>3. builtThrough' = builtThrough \/ builtThrough' = job[v].hwm
    BY <1>4 DEF CommitBuild, Greatest
  <2>4. CASE event[e].ingest <= builtThrough
    BY <1>1, <1>4, <2>2, <2>4, CommitKeeps DEF TokensRolledUp, Within
  <2>5. CASE ~ (event[e].ingest <= builtThrough)
    <3>1. builtThrough < event[e].ingest /\ event[e].ingest <= job[v].hwm
      BY <1>2, <2>3, <2>5 DEF TypeOK
    <3>2. e \in job[v].folded[g].tokens
      BY <2>1, <2>2, <3>1 DEF FoldTokens
    <3>3. cluster'[g] = job[v].folded[g]
      BY <1>1, <1>4, <3>2 DEF CommitBuild, Upserted, NoRow
    <3> QED
      BY <3>2, <3>3
  <2> QED
    BY <2>4, <2>5
<1> QED
  BY <1>3, <1>4, WatermarkSteps

(***************************************************************************)
(* The tokens of an event behind the watermark are in its cluster, for any *)
(* number of workers, until two of them were at work at once; under the    *)
(* same proviso on the grace as NoEventStrandedCorrect.                    *)
(***************************************************************************)
THEOREM TokensRolledUpCorrect ==
    ASSUME MaxTx < EffectiveGrace
    PROVE  Spec => []TokensRolledUp
<1>1. Init => TypeOK /\ BuildInv /\ TokenInv
  <2>1. Init => TokenInv
    BY DEF Init, TokenInv, OneJob, SweepAhead, FoldTokens, TokensRolledUp, Committed,
           UnbornEvent, IdleJob
  <2> QED
    BY <2>1, InitTypeOK, InitLogInv, InitCacheInv, InitDeadlineInv, InitFoldInv DEF BuildInv
<1>2. TypeOK /\ BuildInv /\ TokenInv /\ [Next]_vars => TypeOK' /\ BuildInv' /\ TokenInv'
  <2> SUFFICES ASSUME TypeOK, BuildInv, TokenInv, [Next]_vars
               PROVE  BuildInv' /\ TokenInv'
    BY NextTypeOK
  <2>1. BuildInv'
    BY NextLogInv, NextCacheInv, NextDeadlineInv, NextFoldInv, NextNoEventStranded DEF BuildInv
  <2>2. ASSUME ~ overlapped'
        PROVE  OneJob' /\ SweepAhead' /\ FoldTokens' /\ TokensRolledUp'
    <3>1. ~ overlapped
      BY <2>2, OverlapSteps
    <3>2. OneJob /\ SweepAhead /\ FoldTokens /\ TokensRolledUp
      BY <3>1 DEF TokenInv
    <3> QED
      BY <2>2, <3>1, <3>2, OneJobKept, SweepAheadKept, FoldTokensKept, RolledUpKept
  <2> QED
    BY <2>1, <2>2 DEF TokenInv
<1>3. TokenInv => TokensRolledUp
  BY DEF TokenInv, TokensRolledUp
<1> QED
  BY <1>1, <1>2, <1>3, PTL DEF Spec
=============================================================================
