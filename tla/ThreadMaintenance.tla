-------------------------- MODULE ThreadMaintenance --------------------------
(***************************************************************************)
(* The thread layer of one subscriber: feedback on threads, the hourly     *)
(* thread_maintenance job, and `thread::maintain`, one read-committed      *)
(* transaction that reads the feedback cursor, the stories, the feedback   *)
(* and the prior threads in statements of their own, maps the communities  *)
(* it detects onto the prior threads and writes every thread back, with    *)
(* absolute values, together with the cursor.                              *)
(*                                                                         *)
(* A thread's affinity is modelled by what has been added into it: how     *)
(* often each feedback row and each story counts.  Decay and the bounds of *)
(* the sum are left out.  Which communities label propagation finds in the *)
(* stories of the day is not determined; what a pass does with them is the *)
(* code's.  No operation of the code pins a thread, so pinned threads are  *)
(* left out.                                                               *)
(***************************************************************************)
EXTENDS Integers, Sequences, FiniteSetsExt

CONSTANTS
    Feedback,       \* the thread-level feedback rows that may be submitted
    Stories,        \* the stories the subscriber may get
    Entities,       \* the spine entities
    StoryEntities,  \* the entities of each story
    Detected,       \* the results of community detection, each a sequence
    Cadence,        \* MAINTENANCE_CADENCE_HOURS, the due cadence and the key's bucket
    MaxAttempts,    \* the queue's retry budget of a job
    MaxThreads,     \* threads ever minted (bounds the model only)
    MaxItems,       \* items that come in (bounds the model only)
    MaxFaults,      \* passes that fail or die (bounds the model only)
    Horizon         \* the last instant of the clock (bounds the model only)

ASSUME ThreadAssumption ==
    /\ Feedback \cap Stories = {}
    /\ StoryEntities \in [Stories -> SUBSET Entities]
    /\ Detected \subseteq Seq(SUBSET Entities)
    /\ \A d \in Detected : \A i, j \in DOMAIN d :
          d[i] \subseteq Entities /\ (i # j => d[i] \cap d[j] = {})
    /\ Cadence \in Nat \ {0} /\ MaxAttempts \in Nat \ {0} /\ MaxThreads \in Nat
    /\ MaxItems \in Nat /\ MaxFaults \in Nat /\ Horizon \in Nat

VARIABLES
    clock,        \* now(), shared by the database and the workers
    item,         \* a row per feedback and per story
    thread,       \* the thread table
    cursor,       \* thread_maintenance_watermark: built_through and ran_at
    job,          \* the job of each hourly bucket
    pass,         \* the attempt of each job in progress
    faults,
    disturbed     \* history, see below

vars == <<clock, item, thread, cursor, job, pass, faults, disturbed>>

Instants == 0 .. Horizon
Buckets == 0 .. Horizon \div Cadence
Ids == 1 .. MaxThreads  \* uuidv7: a younger thread has a greater id
NoThread == 0
Items == Feedback \cup Stories
\* A feedback row is open until its transaction commits; a story is open
\* until a digest's recompute links it.  `at` is created_at, last_event_time.
ItemRow == [status : {"unborn", "open", "visible"}, at : Instants, target : Ids \cup {NoThread}]
ThreadRow == [born : BOOLEAN, into : Ids \cup {NoThread}, entities : SUBSET Entities,
              count : [Items -> 0 .. 2]]
Cursor == [through : Instants, ran : Int]
JobRow == [status : {"Absent", "Pending", "Running", "Failed", "Killed", "Done"}, attempts : Nat]
Pass == [pc : {"idle", "started", "begun", "loaded"},
         now : Instants, since : Instants, ran : Instants, detected : Detected \cup {<<>>},
         stories : SUBSET Stories, care : SUBSET Feedback, prior : [Ids -> ThreadRow]]

UnbornThread == [born |-> FALSE, into |-> NoThread, entities |-> {}, count |-> [c \in Items |-> 0]]
IdlePass == [pc |-> "idle", now |-> 0, since |-> 0, ran |-> 0, detected |-> <<>>,
             stories |-> {}, care |-> {}, prior |-> [t \in Ids |-> UnbornThread]]

Bucket(t) == t \div Cadence
Live(table, t) == table[t].born /\ table[t].into = NoThread
Active(b) == pass[b].pc # "idle"
Greatest(a, b) == IF a < b THEN b ELSE a

-----------------------------------------------------------------------------
Init ==
    /\ clock = 0
    /\ item = [c \in Items |-> [status |-> "unborn", at |-> 0, target |-> NoThread]]
    /\ thread = [t \in Ids |-> UnbornThread]
    /\ cursor = [through |-> 0, ran |-> - Cadence]
    /\ job = [b \in Buckets |-> [status |-> "Absent", attempts |-> 0]]
    /\ pass = [b \in Buckets |-> IdlePass]
    /\ faults = 0
    /\ disturbed = [c \in Items |-> FALSE]

Advance ==
    /\ clock < Horizon
    /\ clock' = clock + 1
    /\ UNCHANGED <<item, thread, cursor, job, pass, faults, disturbed>>

\* An item enters at a new instant; history: not while a pass is at work.
Enter(c, t) ==
    /\ item[c].status = "unborn"
    /\ Cardinality({i \in Items : item[i].status # "unborn"}) < MaxItems
    /\ clock < Horizon
    /\ clock' = clock + 1
    /\ item' = [item EXCEPT ![c] = [status |-> "open", at |-> clock + 1, target |-> t]]
    /\ disturbed' = [disturbed EXCEPT ![c] = (\E b \in Buckets : Active(b))
                                           \/ (t # NoThread /\ ~ Live(thread, t))]
    /\ UNCHANGED <<thread, cursor, job, pass, faults>>

\* feedback::submit, on a thread that some digest has shown.
BeginSubmit(f) == \E t \in Ids : thread[t].born /\ Enter(f, t)

\* An event of a story happens; the story is linked later.
StoryHappens(s) == Enter(s, NoThread)

\* The feedback's transaction commits; a digest's recompute links the story.
Appear(c) ==
    /\ item[c].status = "open"
    /\ item' = [item EXCEPT ![c].status = "visible"]
    /\ UNCHANGED <<clock, thread, cursor, job, pass, faults, disturbed>>

-----------------------------------------------------------------------------
\* due_for_maintenance
Due == cursor.ran <= clock - Cadence

\* enqueue_due_maintenance: once per subscriber and hourly bucket.
Tick ==
    /\ Due
    /\ job[Bucket(clock)].status = "Absent"
    /\ job' = [job EXCEPT ![Bucket(clock)].status = "Pending"]
    /\ UNCHANGED <<clock, item, thread, cursor, pass, faults, disturbed>>

Runnable(b) ==
    \/ job[b].status = "Pending"
    \/ job[b].status = "Failed" /\ job[b].attempts < MaxAttempts

\* The handler fixes `now` before the pass has a connection.  History: a pass
\* disturbs what is in flight, and the second of two what is not settled.
Start(b) ==
    /\ Runnable(b)
    /\ job' = [job EXCEPT ![b].status = "Running", ![b].attempts = @ + 1]
    /\ pass' = [pass EXCEPT ![b] = [IdlePass EXCEPT !.pc = "started", !.now = clock]]
    /\ disturbed' = [c \in Items |->
          \/ disturbed[c]
          \/ item[c].status = "open" /\ c \in Feedback
          \/ item[c].at > cursor.through /\ \E a \in Buckets : Active(a)]
    /\ UNCHANGED <<clock, item, thread, cursor, faults>>

\* A read of the pass's transaction.  Reads whose order no other step can
\* tell apart are one action.
Read(b, from, next) ==
    /\ pass[b].pc = from
    /\ pass' = [pass EXCEPT ![b] = next]
    /\ UNCHANGED <<clock, item, thread, cursor, job, faults, disturbed>>

\* The transaction begins (its now() stamps ran_at): feedback_cursor, then
\* co_occurrence_sources and the communities of their graph.
ReadSources(b) ==
    \E communities \in Detected :
        Read(b, "started", [pass[b] EXCEPT !.pc = "begun", !.ran = clock, !.since = cursor.through,
                              !.detected = communities,
                              !.stories = {s \in Stories : item[s].status = "visible"}])

\* thread_care_since, then load_threads.
ReadCare(b) ==
    Read(b, "begun", [pass[b] EXCEPT !.pc = "loaded", !.prior = thread,
                        !.care = {f \in Feedback : item[f].status = "visible"
                                                    /\ item[f].at > pass[b].since}])

-----------------------------------------------------------------------------
(***************************************************************************)
(* map_communities_to_threads: candidate by candidate, the prior threads   *)
(* whose spine overlaps it and which no earlier candidate has claimed.     *)
(***************************************************************************)
\* communities_to_candidates drops what is smaller than min_community_size;
\* a Jaccard index of at least match_threshold, 0.3, is a match.
Candidates(p) == {i \in DOMAIN p.detected : Cardinality(p.detected[i]) >= 2}
Similar(a, b) == 10 * Cardinality(a \cap b) >= 3 * Cardinality(a \cup b)

Prior(p) == {t \in Ids : Live(p.prior, t)}

\* A prior thread is claimed by the first candidate that matches it.
Claims(p, i) ==
    {t \in Prior(p) :
        /\ Similar(p.detected[i], p.prior[t].entities)
        /\ \A j \in Candidates(p) : j < i => ~ Similar(p.detected[j], p.prior[t].entities)}

Oldest(S) == Min(S)

\* The plan of one thread: its spine, and the threads whose care it gets.
Planned(spine, absorbs) == [spine |-> spine, absorbs |-> absorbs]

\* New: a candidate that claims no prior thread.  Keep and Merge: the oldest
\* id wins, the rest are absorbed.  A thread that no candidate claims is
\* carried forward with its spine.
Minted(p) == {i \in Candidates(p) : Claims(p, i) = {}}
Matched(p) == Candidates(p) \ Minted(p)
Carried(p) == Prior(p) \ UNION {Claims(p, i) : i \in Matched(p)}

Upserts(p) ==
    [t \in {Oldest(Claims(p, i)) : i \in Matched(p)} \cup Carried(p) |->
        IF t \in Carried(p) THEN Planned(p.prior[t].entities, {t})
        ELSE LET i == CHOOSE i \in Matched(p) : t = Oldest(Claims(p, i))
             IN  Planned(p.detected[i], Claims(p, i))]

AnyTime(p, s) == TRUE  \* mutant: every story of the window is new
NewStory(p, s) == item[s].at > p.since

OwnCare(f, absorbs, t) == item[f].target = t  \* mutant: absorbed care is dropped
CareCounts(f, absorbs, t) == item[f].target \in absorbs

\* build_upsert: what the pass adds to the affinity it has loaded.
Folded(p, t, plan, c) ==
    LET added == \/ c \in p.care /\ CareCounts(c, plan.absorbs, t)
                 \/ c \in p.stories /\ NewStory(p, c) /\ StoryEntities[c] \cap plan.spine # {}
    IN  IF added /\ p.prior[t].count[c] < 2 THEN p.prior[t].count[c] + 1 ELSE p.prior[t].count[c]

Rescored(p, t, plan) == [c \in Items |-> Folded(p, t, plan, c)]

\* The ids of the new threads, in the order of their candidates.
FirstFree == Cardinality({t \in Ids : thread[t].born}) + 1
NewId(p, i) == FirstFree + Cardinality({j \in Minted(p) : j < i})

\* save_threads: absolute values for the upserted, `merged_into` for the
\* absorbed; a row another pass has forwarded meanwhile stays forwarded.
Saved(p) ==
    LET upserts == Upserts(p)
        absorbers(t) == {w \in DOMAIN upserts : t \in upserts[w].absorbs}
        fresh(t) == {Planned(p.detected[i], {}) : i \in {j \in Minted(p) : NewId(p, j) = t}}
        Scored(row, t, plan) == [row EXCEPT !.born = TRUE, !.entities = plan.spine,
                                            !.count = Rescored(p, t, plan)]
    IN  [t \in Ids |->
            IF t \in DOMAIN upserts THEN Scored(thread[t], t, upserts[t])
            ELSE IF absorbers(t) # {}
            THEN [thread[t] EXCEPT !.into = CHOOSE w \in absorbers(t) : TRUE]
            ELSE IF fresh(t) # {}
            THEN Scored(UnbornThread, t, CHOOSE plan \in fresh(t) : TRUE)
            ELSE thread[t]]

\* The threads and the cursor commit together.
Commit(b) ==
    LET p == pass[b] IN
    /\ p.pc = "loaded"
    /\ FirstFree + Cardinality(Minted(p)) - 1 <= MaxThreads
    /\ thread' = Saved(p)
    /\ cursor' = [through |-> Greatest(cursor.through, p.now), ran |-> p.ran]
    /\ job' = [job EXCEPT ![b].status = "Done"]
    /\ pass' = [pass EXCEPT ![b] = IdlePass]
    /\ UNCHANGED <<clock, item, faults, disturbed>>

\* A statement fails, or the worker dies: the transaction is rolled back.
\* The last hour has no faults, for the model has no hour after it.
End(b, status) ==
    /\ Active(b)
    /\ faults < MaxFaults
    /\ Bucket(clock) < Bucket(Horizon)
    /\ faults' = faults + 1
    /\ job' = [job EXCEPT ![b].status = status]
    /\ pass' = [pass EXCEPT ![b] = IdlePass]
    /\ UNCHANGED <<clock, item, thread, cursor, disturbed>>

Fail(b) == End(b, IF job[b].attempts < MaxAttempts THEN "Failed" ELSE "Killed")
Crash(b) == End(b, "Pending")

Maintain(b) ==
    Start(b) \/ ReadSources(b) \/ ReadCare(b) \/ Commit(b)

Next ==
    \/ Advance
    \/ \E f \in Feedback : BeginSubmit(f)
    \/ \E s \in Stories : StoryHappens(s)
    \/ \E c \in Items : Appear(c)
    \/ Tick
    \/ \E b \in Buckets : Maintain(b) \/ Fail(b) \/ Crash(b)

Spec == Init /\ [][Next]_vars

-----------------------------------------------------------------------------
\* The type of every variable.  `disturbed` is history: the items that came
\* in while a pass was at work, or that two passes at once had yet to fold.
TypeOK ==
    /\ clock \in Instants
    /\ item \in [Items -> ItemRow]
    /\ thread \in [Ids -> ThreadRow]
    /\ cursor \in Cursor
    /\ job \in [Buckets -> JobRow]
    /\ pass \in [Buckets -> Pass]
    /\ disturbed \in [Items -> BOOLEAN]
    /\ \A t \in Ids : t < FirstFree <=> thread[t].born
    /\ \A b \in Buckets : Active(b) <=> job[b].status = "Running"

\* How often a feedback row counts, over all threads, the forwarded included.
FoldedOnce(f) ==
    \E t \in Ids : thread[t].count[f] = 1 /\ \A u \in Ids \ {t} : thread[u].count[f] = 0
NotFolded(f) == \A t \in Ids : thread[t].count[f] = 0

\* "Each correction folds into affinity exactly once", in the thread that
\* survives when the pass that folds it merges its thread away, as long as no
\* pass was at work while it was submitted; before the cursor is past it, no
\* thread has it.
CareFoldedOnce ==
    \A f \in Feedback :
        item[f].status = "visible" /\ ~ disturbed[f] =>
            IF item[f].at <= cursor.through THEN FoldedOnce(f) ELSE NotFolded(f)

\* A story adds to a thread's affinity once, though every pass of ninety days
\* reads it again.
StoryNeverTwice ==
    \A s \in Stories, t \in Ids : ~ disturbed[s] => thread[t].count[s] <= 1

=============================================================================
