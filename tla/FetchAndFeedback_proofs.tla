----------------------- MODULE FetchAndFeedback_proofs -----------------------
(***************************************************************************)
(* Proofs about two loops of the system, for every value of their          *)
(* constants: ArticleFetch, the sweep that spends a budget on links, and   *)
(* FeedbackLoop, what a reader's corrections do to identities, threads and *)
(* weights.  They share no state and no name: neither part uses the other. *)
(***************************************************************************)
EXTENDS ArticleFetch, FeedbackLoop, FunctionTheorems, FiniteSetTheorems, SequenceTheorems,
    WellFoundedInduction, TLAPS

(***************************************************************************)
(* The fetch of articles (ArticleFetch).                                   *)
(***************************************************************************)
\* The records that stand for nothing are of their types.
LEMMA EmptyRecords ==
    /\ NoBuild \in [open : {FALSE}, group : Groups, longform : {FALSE}]
    /\ NoSweep \in SweepRecord
    /\ NoConn \notin Conns
<1>1. Groups # {}
  BY FetchAssumption DEF Groups
<1> QED
  BY <1>1, FetchAssumption DEF NoBuild, NoSweep, SweepRecord, NoConn

LEMMA GroupType ==
    ASSUME NEW e \in Events
    PROVE  Group[e] \in Groups
BY DEF Groups

LEMMA ArticleFields ==
    ASSUME TypeOK, NEW e \in Events
    PROVE  /\ article[e] \in Article
           /\ article[e].text \in BOOLEAN /\ article[e].attempts \in Nat
           /\ article[e].longform \in BOOLEAN
BY DEF TypeOK, Article

LEMMA SweepFields ==
    ASSUME TypeOK, NEW j \in Jobs
    PROVE  /\ sweep[j] \in SweepRecord
           /\ sweep[j].pc \in {"idle", "loading", "walking", "fetching"}
           /\ sweep[j].conn \in Conns \cup {NoConn}
           /\ sweep[j].due \subseteq Events /\ sweep[j].todo \subseteq Events
           /\ sweep[j].flying \subseteq Events
BY DEF TypeOK, SweepRecord

\* What a failure does to the row of its event: the text and the depth stay,
\* the attempts become the budget or one more.
LEMMA FailedRow ==
    ASSUME TypeOK, NEW e \in Events, NEW permanent \in BOOLEAN
    PROVE  /\ Failed(e, permanent) \in [Events -> Article]
           /\ \A f \in Events : Failed(e, permanent)[f].longform = article[f].longform
           /\ \A f \in Events : f # e => Failed(e, permanent)[f] = article[f]
           /\ Failed(e, permanent)[e].attempts \in {MaxAttempts, article[e].attempts + 1}
BY FetchAssumption DEF TypeOK, Failed, Article

LEMMA LockTypes ==
    ASSUME TypeOK, NEW c \in Conns \cup {NoConn}
    PROVE  /\ Release(c) \in [conn : Conns \cup {NoConn}, count : Nat]
           /\ (Release(c).conn = NoConn) <=> (Release(c).count = 0)
           /\ Release(c).conn \in {lock.conn, NoConn}
           /\ lock.conn # c => Release(c) = lock
<1>1. lock = [conn |-> lock.conn, count |-> lock.count] /\ lock.count \in Nat
  BY DEF TypeOK
<1>2. Unlocked = IF lock.count <= 1 THEN [conn |-> NoConn, count |-> 0]
                                    ELSE [conn |-> lock.conn, count |-> lock.count - 1]
  BY <1>1 DEF Unlocked
<1> QED
  BY <1>1, <1>2 DEF TypeOK, Release

LEMMA InitTypeOK == Init => TypeOK
<1> SUFFICES ASSUME Init PROVE TypeOK
  OBVIOUS
<1>1. exposed \in BOOLEAN
  BY Zenon DEF Init
<1>2. build \in [due : SUBSET Groups, at : [open : BOOLEAN, group : Groups, longform : BOOLEAN]]
  BY EmptyRecords DEF Init
<1> QED
  BY <1>1, <1>2, EmptyRecords DEF Init, TypeOK, Article, Cluster

\* What each step of a sweep leaves of its record.
LEMMA SweepSteps ==
    ASSUME TypeOK, NEW j \in Jobs, Job(j) \/ Fault(j)
    PROVE  /\ sweep' \in [Jobs -> SweepRecord]
           /\ \A k \in Jobs : k # j => sweep'[k] = sweep[k]
<1>1. /\ sweep[j] \in SweepRecord /\ NoSweep \in SweepRecord
      /\ sweep \in [Jobs -> SweepRecord]
  BY SweepFields, EmptyRecords DEF TypeOK
<1> DEFINE Moves(r) == r \in SweepRecord /\ sweep' = [sweep EXCEPT ![j] = r]
<1>2. SUFFICES ASSUME sweep' # sweep
               PROVE  \E r : Moves(r)
  BY <1>1
<1>3. ASSUME NEW c \in Conns, StartSweep(j, c)
      PROVE  \E r : Moves(r)
  <2>1. [NoSweep EXCEPT !.pc = "loading", !.conn = c] \in SweepRecord
    BY DEF NoSweep, SweepRecord
  <2> QED
    BY <1>2, <1>3, <2>1 DEF StartSweep
<1>4. CASE Load(j)
  <2>1. Newest(WantsFetch) \subseteq Events
    BY DEF TypeOK, Newest, WantsFetch
  <2>2. Moves([sweep[j] EXCEPT !.pc = "walking", !.due = Newest(WantsFetch)])
    BY <1>1, <1>4, <2>1 DEF Load, SweepRecord
  <2> QED
    BY <2>2
<1>5. CASE StartFetching(j)
  <2>1. Moves([sweep[j] EXCEPT !.pc = "fetching"])
    BY <1>1, <1>5 DEF StartFetching, SweepRecord
  <2> QED
    BY <2>1
<1>6. CASE Spawn(j)
  <2>1. PICK e \in sweep[j].todo :
          sweep' = [sweep EXCEPT ![j].todo = @ \ {e}, ![j].flying = @ \cup {e}]
    BY <1>6 DEF Spawn
  <2>2. Moves([sweep[j] EXCEPT !.todo = @ \ {e}, !.flying = @ \cup {e}])
    BY <1>1, <2>1 DEF SweepRecord
  <2> QED
    BY <2>2
<1>7. ASSUME NEW e \in Events, Walk(j, e)
      PROVE  \E r : Moves(r)
  <2>1. CASE Admit(j, e)
    <3>1. Moves([sweep[j] EXCEPT !.due = @ \ {e}, !.todo = @ \cup {e}])
      BY <1>1, <2>1 DEF Admit, SweepRecord
    <3> QED
      BY <3>1
  <2>2. CASE NoLink(j, e) \/ Skip(j, e)
    <3>1. Moves([sweep[j] EXCEPT !.due = @ \ {e}])
      BY <1>1, <2>2 DEF NoLink, Skip, SweepRecord
    <3> QED
      BY <3>1
  <2> QED
    BY <1>7, <2>1, <2>2 DEF Walk
<1>8. ASSUME NEW e \in Events, Result(j, e) \/ LoseResult(j, e)
      PROVE  \E r : Moves(r)
  <2>1. Moves([sweep[j] EXCEPT !.flying = @ \ {e}])
    BY <1>1, <1>8 DEF Result, StoreFullText, RecordFetchFailure, LoseResult, Land, SweepRecord
  <2> QED
    BY <2>1
<1>9. CASE EndSweep(j) \/ FailSweep(j) \/ LeakLock(j) \/ Crash(j)
  BY <1>1, <1>9 DEF EndSweep, FailSweep, LeakLock, Crash
<1>10. ~ LoseSession(j)
  BY <1>2 DEF LoseSession
<1> QED
  BY <1>3, <1>4, <1>5, <1>6, <1>7, <1>8, <1>9, <1>10 DEF Job, Fault

\* Who writes the rows of the events and of the clusters.
LEMMA ArticleWriters ==
    ASSUME [Next]_vars
    PROVE  \/ UNCHANGED <<article, cluster>>
           \/ UpsertCluster
           \/ \E j \in Jobs, e \in Events :
                 StoreFullText(j, e) \/ RecordFetchFailure(j, e) \/ NoLink(j, e)
<1>1. ASSUME NEW j \in Jobs, Job(j)
      PROVE  \/ UNCHANGED <<article, cluster>>
             \/ \E e \in Events : StoreFullText(j, e) \/ RecordFetchFailure(j, e) \/ NoLink(j, e)
  BY <1>1 DEF Job, StartSweep, Load, StartFetching, Spawn, EndSweep, Walk, Skip, Admit, Result
<1>2. ASSUME NEW j \in Jobs, Fault(j)
      PROVE  UNCHANGED <<article, cluster>>
  BY <1>2 DEF Fault, FailSweep, LeakLock, Crash, LoseSession, LoseResult
<1>3. CASE Arrive \/ Build \/ Tick \/ NextMinute \/ UNCHANGED vars \/ \E c \in Conns : Recycle(c)
  BY <1>3 DEF vars, Arrive, Build, LoadGroup, Tick, NextMinute, Recycle
<1> QED
  BY <1>1, <1>2, <1>3 DEF Next

\* What each step of a sweep leaves of the event it is about.
LEMMA ArticleSteps ==
    ASSUME TypeOK, [Next]_vars
    PROVE  /\ article' \in [Events -> Article]
           /\ cluster' \in [Groups -> Cluster]
<1>1. ASSUME NEW j \in Jobs, NEW e \in Events, StoreFullText(j, e)
      PROVE  /\ article' \in [Events -> Article]
             /\ cluster' \in [Groups -> Cluster]
  <2>1. PICK o \in FetchArticle(FirstLink(e)) :
          /\ article' = [article EXCEPT ![e] =
                [text |-> TRUE, attempts |-> @.attempts + 1, longform |-> @.longform \/ o = "long"]]
          /\ cluster' = TouchGroup(Group[e], o = "long")
    BY <1>1 DEF StoreFullText
  <2>2. PICK r : r = [text |-> TRUE, attempts |-> article[e].attempts + 1,
                      longform |-> article[e].longform \/ o = "long"]
    OBVIOUS
  <2>3. r \in Article
    BY <2>2, ArticleFields DEF Article
  <2>4. article' = [article EXCEPT ![e] = r] /\ article \in [Events -> Article]
    BY <2>1, <2>2 DEF TypeOK
  <2>5. cluster' \in [Groups -> Cluster]
    <3>1. PICK g \in Groups : g = Group[e]
      BY GroupType
    <3>2. [cluster[g] EXCEPT !.longform = @ \/ (cluster[g].built /\ o = "long")] \in Cluster
      BY DEF TypeOK, Cluster
    <3> QED
      BY <2>1, <3>1, <3>2 DEF TypeOK, TouchGroup
  <2> QED
    BY <2>3, <2>4, <2>5
<1>2. ASSUME NEW j \in Jobs, NEW e \in Events, RecordFetchFailure(j, e)
      PROVE  article' \in [Events -> Article]
  <2>1. PICK o : article' = Failed(e, IsPermanent(o))
    BY <1>2 DEF RecordFetchFailure, Charged
  <2>2. IsPermanent(o) \in BOOLEAN
    BY DEF IsPermanent
  <2> QED
    BY <2>1, <2>2, FailedRow
<1>3. ASSUME NEW j \in Jobs, NEW e \in Events, NoLink(j, e)
      PROVE  article' \in [Events -> Article]
  <2>1. Failed(e, TRUE) \in [Events -> Article]
    BY FailedRow, Zenon
  <2> QED
    BY <1>3, <2>1 DEF TypeOK, NoLink, DropUnusable
<1>4. CASE UpsertCluster
  <2>1. build.at.longform \in BOOLEAN
    BY DEF TypeOK
  <2> QED
    BY <1>4, <2>1 DEF TypeOK, UpsertCluster, Cluster
<1>5. CASE UNCHANGED <<article, cluster>>
  BY <1>5 DEF TypeOK
<1>6. ASSUME NEW j \in Jobs, NEW e \in Events, RecordFetchFailure(j, e) \/ NoLink(j, e)
      PROVE  cluster' \in [Groups -> Cluster]
  BY <1>6 DEF TypeOK, RecordFetchFailure, NoLink
<1>7. UpsertCluster => UNCHANGED article
  BY DEF UpsertCluster
<1>8. \/ UNCHANGED <<article, cluster>>
      \/ UpsertCluster
      \/ \E j \in Jobs, e \in Events :
            StoreFullText(j, e) \/ RecordFetchFailure(j, e) \/ NoLink(j, e)
  BY ArticleWriters
<1> QED
  BY <1>1, <1>2, <1>3, <1>4, <1>5, <1>6, <1>7, <1>8 DEF TypeOK

LEMMA NextTypeOK == TypeOK /\ [Next]_vars => TypeOK'
<1> SUFFICES ASSUME TypeOK, [Next]_vars PROVE TypeOK'
  OBVIOUS
<1>1. article' \in [Events -> Article] /\ cluster' \in [Groups -> Cluster]
  BY ArticleSteps
<1>2. CASE Arrive
  BY <1>1, <1>2, GroupType DEF TypeOK, Arrive
<1>3. ASSUME NEW g \in Groups, LoadGroup(g)
      PROVE  TypeOK'
  <2>1. Deep(g) \in BOOLEAN
    BY DEF Deep
  <2> QED
    BY <1>1, <1>3, <2>1 DEF TypeOK, LoadGroup
<1>4. CASE UpsertCluster
  BY <1>1, <1>4, EmptyRecords DEF TypeOK, UpsertCluster
<1>5. CASE Tick \/ NextMinute
  <2>1. queue' \in [jobs : Nat, used : BOOLEAN]
    <3>1. /\ queue \in [jobs : Nat, used : BOOLEAN]
          /\ queue.jobs + 1 \in Nat /\ TRUE \in BOOLEAN /\ FALSE \in BOOLEAN
      BY DEF TypeOK
    <3>2. CASE Tick
      BY <3>1, <3>2 DEF Tick
    <3>3. CASE NextMinute
      BY <3>1, <3>3 DEF NextMinute
    <3> QED
      BY <1>5, <3>2, <3>3
  <2> QED
    BY <1>1, <1>5, <2>1 DEF TypeOK, Tick, NextMinute
<1>6. ASSUME NEW c \in Conns, Recycle(c)
      PROVE  TypeOK'
  BY <1>1, <1>6 DEF TypeOK, Recycle, SessionEnds
<1>7. ASSUME NEW j \in Jobs, Job(j) \/ Fault(j)
      PROVE  TypeOK'
  <2>1. sweep' \in [Jobs -> SweepRecord]
    BY <1>7, SweepSteps
  <2>2. ASSUME NEW c \in Conns, StartSweep(j, c)
        PROVE  TypeOK'
    <3>1. /\ lock' \in [conn : Conns \cup {NoConn}, count : Nat]
          /\ (lock'.conn = NoConn) <=> (lock'.count = 0)
      BY <2>2, EmptyRecords DEF TypeOK, StartSweep
    <3> QED
      BY <1>1, <2>1, <2>2, <3>1 DEF TypeOK, StartSweep
  <2>3. CASE EndSweep(j) \/ FailSweep(j)
    <3>1. lock' = Release(sweep[j].conn)
      BY <2>3 DEF EndSweep, FailSweep
    <3>2. /\ lock' \in [conn : Conns \cup {NoConn}, count : Nat]
          /\ (lock'.conn = NoConn) <=> (lock'.count = 0)
      BY <3>1, SweepFields, LockTypes
    <3> QED
      BY <1>1, <2>1, <2>3, <3>2 DEF TypeOK, EndSweep, FailSweep
  <2>4. CASE LeakLock(j) \/ Crash(j) \/ LoseSession(j)
    <3>1. exposed' \in BOOLEAN
      BY <2>4, Zenon DEF TypeOK, LeakLock, Crash, LoseSession
    <3>2. faults' \in Nat
      BY <2>4 DEF TypeOK, LeakLock, Crash, LoseSession
    <3>3. /\ lock' \in [conn : Conns \cup {NoConn}, count : Nat]
          /\ (lock'.conn = NoConn) <=> (lock'.count = 0)
      BY <2>4 DEF TypeOK, LeakLock, Crash, LoseSession, SessionEnds
    <3> QED
      BY <1>1, <2>1, <2>4, <3>1, <3>2, <3>3 DEF TypeOK, LeakLock, Crash, LoseSession
  <2>5. CASE Load(j) \/ StartFetching(j) \/ Spawn(j)
    BY <1>1, <2>1, <2>5 DEF TypeOK, Load, StartFetching, Spawn
  <2>6. ASSUME NEW e \in Events, StoreFullText(j, e)
        PROVE  TypeOK'
    BY <1>1, <2>1, <2>6, GroupType DEF TypeOK, StoreFullText
  <2>7. ASSUME NEW e \in Events, Walk(j, e) \/ RecordFetchFailure(j, e) \/ LoseResult(j, e)
        PROVE  TypeOK'
    BY <1>1, <2>1, <2>7
    DEF TypeOK, Walk, NoLink, Skip, Admit, RecordFetchFailure, LoseResult
  <2> QED
    BY <1>7, <2>2, <2>3, <2>4, <2>5, <2>6, <2>7 DEF Job, Fault, Result
<1>8. CASE UNCHANGED vars
  BY <1>8 DEF TypeOK, vars
<1> QED
  BY <1>2, <1>3, <1>4, <1>5, <1>6, <1>7, <1>8 DEF Next, Build

(***************************************************************************)
(* The rows, the sweeps and the lock keep their types, and the lock has a  *)
(* session exactly as long as it is held once or more.                     *)
(***************************************************************************)
THEOREM TypeCorrect == Spec => []TypeOK
<1>1. Init => TypeOK
  BY InitTypeOK
<1>2. TypeOK /\ [Next]_vars => TypeOK'
  BY NextTypeOK
<1> QED
  BY <1>1, <1>2, PTL DEF Spec

-----------------------------------------------------------------------------
(***************************************************************************)
(* The sweep lock.  NoDoubleFetch is not inductive: a sweep could start    *)
(* beside another, or take up an event whose budget is already spent.      *)
(* LockInv says what the lock, the queue read and the order of the moves   *)
(* keep true: while no session was lost the lock is the session of the one *)
(* sweep there is, its three sets are disjoint, and every event in them    *)
(* has an attempt left.                                                    *)
(***************************************************************************)
SweepShape ==
    \A j \in Jobs :
        /\ sweep[j].pc = "idle" => sweep[j] = NoSweep
        /\ sweep[j].pc = "loading" => Claimed(j) = {}
        /\ sweep[j].due \cap sweep[j].todo = {}
        /\ sweep[j].due \cap sweep[j].flying = {}
        /\ sweep[j].todo \cap sweep[j].flying = {}
        /\ Claimed(j) \subseteq log

Running(j) == sweep[j].pc # "idle"

OneSweep ==
    exposed \/
        \A j \in Jobs : Running(j) =>
            /\ sweep[j].conn # NoConn /\ lock.conn = sweep[j].conn
            /\ \A k \in Jobs : Running(k) => k = j

BudgetLeft ==
    exposed \/
        /\ \A e \in Events : article[e].attempts <= MaxAttempts
        /\ \A j \in Jobs, e \in Events : e \in Claimed(j) => article[e].attempts < MaxAttempts

LockInv == TypeOK /\ SweepShape /\ OneSweep /\ BudgetLeft

LEMMA SweepUpdate ==
    ASSUME TypeOK, NEW j \in Jobs, NEW r, sweep' = [sweep EXCEPT ![j] = r]
    PROVE  sweep'[j] = r
BY DEF TypeOK

LEMMA LoadStep ==
    ASSUME TypeOK, NEW j \in Jobs, Load(j)
    PROVE  /\ sweep[j].pc = "loading" /\ sweep'[j].pc = "walking"
           /\ sweep'[j].conn = sweep[j].conn
           /\ sweep'[j].due = Newest(WantsFetch) /\ sweep'[j].due \subseteq WantsFetch
           /\ sweep'[j].todo = sweep[j].todo /\ sweep'[j].flying = sweep[j].flying
           /\ article' = article /\ lock' = lock
<1>1. sweep'[j] = [sweep[j] EXCEPT !.pc = "walking", !.due = Newest(WantsFetch)]
  BY SweepFields DEF Load, TypeOK
<1>2. sweep[j].pc = "loading" /\ article' = article /\ lock' = lock
  BY DEF Load
<1>3. Newest(WantsFetch) \subseteq WantsFetch
  BY DEF Newest
<1> QED
  BY <1>1, <1>2, <1>3, SweepFields DEF SweepRecord

\* A running sweep moves events from the queue read to the tasks and drops
\* them; it takes up none but those it loads.
LEMMA SweepMoves ==
    ASSUME TypeOK, SweepShape, NEW j \in Jobs, Job(j) \/ Fault(j)
    PROVE  /\ sweep'[j].pc = "idle" => sweep'[j] = NoSweep
           /\ sweep'[j].pc = "loading" => Claimed(j)' = {}
           /\ sweep'[j].due \cap sweep'[j].todo = {}
           /\ sweep'[j].due \cap sweep'[j].flying = {}
           /\ sweep'[j].todo \cap sweep'[j].flying = {}
           /\ Load(j) \/ Claimed(j)' \subseteq Claimed(j)
<1> USE DEF SweepShape, Claimed
<1>1. sweep[j] \in SweepRecord /\ sweep \in [Jobs -> SweepRecord]
  BY SweepFields DEF TypeOK
<1>2. CASE sweep' = sweep
  BY <1>2
<1>3. ASSUME NEW c \in Conns, StartSweep(j, c), sweep' # sweep
      PROVE  sweep'[j] = [NoSweep EXCEPT !.pc = "loading", !.conn = c]
  BY <1>1, <1>3, SweepUpdate DEF StartSweep
<1>4. ASSUME NEW c \in Conns, sweep'[j] = [NoSweep EXCEPT !.pc = "loading", !.conn = c]
      PROVE  Claimed(j)' = {} /\ sweep'[j].pc = "loading"
  BY <1>4 DEF NoSweep
<1>5. CASE Load(j)
  <2>1. sweep[j].due = {} /\ sweep[j].todo = {} /\ sweep[j].flying = {}
    BY <1>5 DEF Load
  <2>2. sweep'[j] = [sweep[j] EXCEPT !.pc = "walking", !.due = Newest(WantsFetch)]
    BY <1>1, <1>5, SweepUpdate DEF Load
  <2> QED
    BY <1>1, <1>5, <2>1, <2>2 DEF SweepRecord
<1>6. CASE StartFetching(j)
  <2>1. sweep'[j] = [sweep[j] EXCEPT !.pc = "fetching"]
    BY <1>1, <1>6, SweepUpdate DEF StartFetching
  <2> QED
    BY <1>1, <2>1 DEF SweepRecord
<1>7. CASE Spawn(j)
  <2>1. PICK e \in sweep[j].todo :
          sweep' = [sweep EXCEPT ![j].todo = @ \ {e}, ![j].flying = @ \cup {e}]
    BY <1>7 DEF Spawn
  <2>2. sweep'[j] = [sweep[j] EXCEPT !.todo = @ \ {e}, !.flying = @ \cup {e}]
    BY <1>1, <2>1
  <2> QED
    BY <1>1, <1>7, <2>2 DEF SweepRecord, Spawn
<1>8. ASSUME NEW e \in Events, Walk(j, e)
      PROVE  /\ sweep'[j].pc = "walking"
             /\ sweep'[j].due = sweep[j].due \ {e} /\ sweep'[j].flying = sweep[j].flying
             /\ sweep'[j].todo \in {sweep[j].todo, sweep[j].todo \cup {e}}
             /\ e \in sweep[j].due
  <2>1. e \in sweep[j].due /\ sweep[j].pc = "walking"
    BY <1>8 DEF Walk, NoLink, Skip, Admit, Target, IsNewest
  <2>2. CASE Admit(j, e)
    <3>1. sweep'[j] = [sweep[j] EXCEPT !.due = @ \ {e}, !.todo = @ \cup {e}]
      BY <1>1, <2>2 DEF Admit
    <3> QED
      BY <1>1, <2>1, <3>1 DEF SweepRecord
  <2>3. CASE NoLink(j, e) \/ Skip(j, e)
    <3>1. sweep'[j] = [sweep[j] EXCEPT !.due = @ \ {e}]
      BY <1>1, <2>3 DEF NoLink, Skip
    <3> QED
      BY <1>1, <2>1, <3>1 DEF SweepRecord
  <2> QED
    BY <1>8, <2>2, <2>3 DEF Walk
<1>9. ASSUME NEW e \in Events, Result(j, e) \/ LoseResult(j, e)
       PROVE  /\ sweep'[j].pc = sweep[j].pc /\ sweep'[j].flying = sweep[j].flying \ {e}
              /\ sweep'[j].due = sweep[j].due /\ sweep'[j].todo = sweep[j].todo
              /\ e \in sweep[j].flying
  <2>1. sweep' = [sweep EXCEPT ![j].flying = @ \ {e}] /\ e \in sweep[j].flying
    BY <1>9 DEF Result, StoreFullText, RecordFetchFailure, LoseResult, Land
  <2>2. sweep'[j] = [sweep[j] EXCEPT !.flying = @ \ {e}]
    BY <1>1, <2>1
  <2> QED
    BY <1>1, <2>1, <2>2 DEF SweepRecord
<1>10. CASE EndSweep(j) \/ FailSweep(j) \/ LeakLock(j) \/ Crash(j)
  <2>1. sweep'[j] = NoSweep
    BY <1>10, SweepUpdate DEF EndSweep, FailSweep, LeakLock, Crash
  <2> QED
    BY <2>1 DEF NoSweep
<1>11. LoseSession(j) => sweep' = sweep
  BY DEF LoseSession
<1>12. ASSUME NEW e \in Events, Walk(j, e)
       PROVE  /\ sweep'[j].pc # "idle" /\ sweep'[j].pc # "loading"
              /\ sweep'[j].due \cap sweep'[j].todo = {}
              /\ sweep'[j].due \cap sweep'[j].flying = {}
              /\ sweep'[j].todo \cap sweep'[j].flying = {}
              /\ Claimed(j)' \subseteq Claimed(j)
  BY <1>8, <1>12
<1>13. ASSUME NEW e \in Events, Result(j, e) \/ LoseResult(j, e)
       PROVE  /\ sweep'[j].pc # "idle" /\ sweep'[j].pc # "loading"
              /\ sweep'[j].due \cap sweep'[j].todo = {}
              /\ sweep'[j].due \cap sweep'[j].flying = {}
              /\ sweep'[j].todo \cap sweep'[j].flying = {}
              /\ Claimed(j)' \subseteq Claimed(j)
  <2>1. e \in sweep[j].flying
    BY <1>9, <1>13
  <2>2. sweep[j].pc # "loading"
    BY <2>1
  <2>3. sweep[j].pc # "idle"
    BY <2>1 DEF NoSweep
  <2> QED
    BY <1>9, <1>13, <2>2, <2>3
<1>14. ASSUME NEW c \in Conns, StartSweep(j, c), sweep' # sweep
       PROVE  /\ Claimed(j)' = {} /\ sweep'[j].pc # "idle"
              /\ sweep'[j].due = {} /\ sweep'[j].todo = {} /\ sweep'[j].flying = {}
  BY <1>3, <1>4, <1>14
<1> QED
  BY <1>2, <1>5, <1>6, <1>7, <1>10, <1>11, <1>12, <1>13, <1>14 DEF Job, Fault

\* A step is of one sweep, or of none.
LEMMA StepOwner ==
    ASSUME TypeOK, [Next]_vars
    PROVE  \/ \E j \in Jobs : (Job(j) \/ Fault(j)) /\ \A k \in Jobs : k # j => sweep'[k] = sweep[k]
           \/ sweep' = sweep /\ article' = article /\ exposed' = exposed
<1>1. ASSUME NEW j \in Jobs, Job(j) \/ Fault(j)
      PROVE  \A k \in Jobs : k # j => sweep'[k] = sweep[k]
  BY <1>1, SweepSteps
<1> QED
  BY <1>1 DEF Next, vars, Arrive, Build, LoadGroup, UpsertCluster, Tick, NextMinute, Recycle

LEMMA LogSteps ==
    ASSUME [Next]_vars
    PROVE  log \subseteq log'
<1>1. ASSUME NEW j \in Jobs, Job(j) \/ Fault(j)
      PROVE  log' = log
  BY <1>1 DEF Job, StartSweep, Load, StartFetching, Spawn, EndSweep, Walk, NoLink, Skip, Admit,
              Result, StoreFullText, RecordFetchFailure, Fault, FailSweep, LeakLock, Crash,
              LoseSession, LoseResult
<1> QED
  BY <1>1 DEF Next, vars, Arrive, Build, LoadGroup, UpsertCluster, Tick, NextMinute, Recycle

LEMMA ShapeKept ==
    ASSUME TypeOK, SweepShape, [Next]_vars
    PROVE  SweepShape'
<1>1. log \subseteq log'
  BY LogSteps
<1>2. CASE sweep' = sweep
  BY <1>1, <1>2 DEF SweepShape, Claimed
<1>3. ASSUME NEW j \in Jobs, Job(j) \/ Fault(j)
      PROVE  Claimed(j)' \subseteq log'
  <2>1. CASE Load(j)
    <3>1. sweep[j].todo = {} /\ sweep[j].flying = {}
      BY <2>1 DEF SweepShape, Claimed, Load
    <3>2. Newest(WantsFetch) \subseteq log
      BY DEF Newest, WantsFetch
    <3>3. /\ sweep'[j].due = Newest(WantsFetch)
          /\ sweep'[j].todo = {} /\ sweep'[j].flying = {}
      BY <2>1, <3>1, SweepFields DEF Load, TypeOK, SweepRecord
    <3> QED
      BY <1>1, <3>2, <3>3 DEF Claimed
  <2>2. Claimed(j) \subseteq log
    BY DEF SweepShape
  <2> QED
    BY <1>1, <1>3, <2>1, <2>2, SweepMoves
<1>4. ASSUME NEW j \in Jobs, Job(j) \/ Fault(j), \A k \in Jobs : k # j => sweep'[k] = sweep[k]
      PROVE  SweepShape'
  <2> SUFFICES ASSUME NEW k \in Jobs
               PROVE  /\ sweep'[k].pc = "idle" => sweep'[k] = NoSweep
                      /\ sweep'[k].pc = "loading" => Claimed(k)' = {}
                      /\ sweep'[k].due \cap sweep'[k].todo = {}
                      /\ sweep'[k].due \cap sweep'[k].flying = {}
                      /\ sweep'[k].todo \cap sweep'[k].flying = {}
                      /\ Claimed(k)' \subseteq log'
    BY DEF SweepShape
  <2>1. CASE k = j
    BY <1>3, <1>4, <2>1, SweepMoves
  <2>2. CASE k # j
    <3>1. sweep'[k] = sweep[k] /\ Claimed(k)' = Claimed(k)
      BY <1>4, <2>2 DEF Claimed
    <3> QED
      BY <1>1, <3>1 DEF SweepShape
  <2> QED
    BY <2>1, <2>2
<1> QED
  BY <1>2, <1>4, StepOwner

LEMMA ExposedStays == [Next]_vars => (exposed' <=> exposed) \/ exposed'
<1> SUFFICES ASSUME [Next]_vars PROVE (exposed' <=> exposed) \/ exposed'
  OBVIOUS
<1>1. exposed' = exposed \/ exposed' = TRUE
  <2>1. ASSUME NEW j \in Jobs, Job(j) PROVE exposed' = exposed
    BY <2>1 DEF Job, StartSweep, Load, StartFetching, Spawn, EndSweep, Walk, NoLink, Skip, Admit,
                Result, StoreFullText, RecordFetchFailure
  <2>2. ASSUME NEW j \in Jobs, Fault(j) PROVE exposed' = exposed \/ exposed' = TRUE
    BY <2>2 DEF Fault, FailSweep, LeakLock, Crash, LoseSession, LoseResult
  <2>3. CASE Arrive \/ Build \/ Tick \/ NextMinute \/ UNCHANGED vars \/ \E c \in Conns : Recycle(c)
    BY <2>3 DEF vars, Arrive, Build, LoadGroup, UpsertCluster, Tick, NextMinute, Recycle
  <2> QED
    BY <2>1, <2>2, <2>3 DEF Next
<1> QED
  BY <1>1, Zenon

\* A sweep starts only with the lock, which a running sweep keeps from every
\* other session, and frees or leaves it only as it stops.
LEMMA OneSweepKept ==
    ASSUME TypeOK, SweepShape, OneSweep, [Next]_vars
    PROVE  OneSweep'
<1>1. SUFFICES ASSUME ~ exposed, ~ exposed'
               PROVE  OneSweep'
  BY ExposedStays DEF OneSweep
<1> DEFINE Safe(j) ==
      Running(j) => /\ sweep[j].conn # NoConn /\ lock.conn = sweep[j].conn
                    /\ \A k \in Jobs : Running(k) => k = j
<1>2. \A j \in Jobs : Safe(j)
  BY <1>1 DEF OneSweep
<1>3. SUFFICES \A j \in Jobs : Safe(j)'
  BY DEF OneSweep
<1>4. CASE sweep' = sweep /\ lock' = lock
  BY <1>2, <1>4 DEF Running
<1>5. ASSUME NEW c \in Conns, Recycle(c)
      PROVE  \A j \in Jobs : Safe(j)'
  <2>1. \A j \in Jobs : sweep[j].conn # c
    BY <1>5 DEF Recycle, Free
  <2>2. sweep' = sweep /\ lock.conn = c
    BY <1>5 DEF Recycle
  <2> QED
    BY <1>2, <2>1, <2>2 DEF Running
<1>6. ASSUME NEW j \in Jobs, NEW c \in Conns, StartSweep(j, c), sweep' # sweep
      PROVE  \A k \in Jobs : Safe(k)'
  <2>1. /\ lock.conn \in {NoConn, c} /\ lock'.conn = c
        /\ sweep' = [sweep EXCEPT ![j] = [NoSweep EXCEPT !.pc = "loading", !.conn = c]]
        /\ \A k \in Jobs : sweep[k].conn # c
    BY <1>6 DEF StartSweep, TryLock, Free
  <2>2. \A k \in Jobs : ~ Running(k)
    BY <1>2, <2>1
  <2>3. \A k \in Jobs : k # j => sweep'[k] = sweep[k]
    BY <2>1
  <2>4. sweep'[j] = [NoSweep EXCEPT !.pc = "loading", !.conn = c]
    BY <2>1, SweepUpdate
  <2>5. sweep'[j].conn = c
    BY <2>4 DEF NoSweep
  <2>6. \A k \in Jobs : Running(k)' => k = j
    BY <2>2, <2>3 DEF Running
  <2> QED
    BY <2>1, <2>5, <2>6, EmptyRecords
<1>7. ASSUME NEW j \in Jobs, EndSweep(j) \/ FailSweep(j) \/ LeakLock(j) \/ Crash(j)
      PROVE  \A k \in Jobs : Safe(k)'
  <2>1. sweep' = [sweep EXCEPT ![j] = NoSweep] /\ Running(j)
    BY <1>7 DEF EndSweep, FailSweep, LeakLock, Crash, Joined, Running
  <2>2. \A k \in Jobs : k # j => ~ Running(k) /\ sweep'[k] = sweep[k]
    BY <1>2, <2>1
  <2>3. sweep'[j] = NoSweep
    BY <2>1, SweepUpdate
  <2>4. sweep'[j].pc = "idle"
    BY <2>3 DEF NoSweep
  <2>5. \A k \in Jobs : ~ Running(k)'
    BY <2>2, <2>4 DEF Running
  <2> QED
    BY <2>5
<1>8. ASSUME NEW j \in Jobs, NEW pc \in {"walking", "fetching"}, Running(j), sweep'[j].pc = pc,
             sweep'[j].conn = sweep[j].conn, lock' = lock,
             \A k \in Jobs : k # j => sweep'[k] = sweep[k]
      PROVE  \A k \in Jobs : Safe(k)'
  <2>1. \A k \in Jobs : sweep'[k].conn = sweep[k].conn /\ (Running(k)' <=> Running(k))
    BY <1>8 DEF Running
  <2> QED
    BY <1>2, <1>8, <2>1
<1>9. ASSUME NEW j \in Jobs, Load(j) \/ StartFetching(j) \/ Spawn(j)
      PROVE  \A k \in Jobs : Safe(k)'
  <2>1. /\ Running(j) /\ lock' = lock /\ sweep'[j].conn = sweep[j].conn
        /\ sweep'[j].pc \in {"walking", "fetching"}
    <3>1. CASE Load(j)
      BY <3>1, LoadStep DEF Running
    <3>2. CASE StartFetching(j)
      <4>1. sweep'[j] = [sweep[j] EXCEPT !.pc = "fetching"]
        BY <3>2, SweepFields DEF StartFetching, TypeOK
      <4> QED
        BY <3>2, <4>1, SweepFields DEF StartFetching, Running, SweepRecord
    <3>3. CASE Spawn(j)
      <4>1. PICK e \in sweep[j].todo :
              sweep' = [sweep EXCEPT ![j].todo = @ \ {e}, ![j].flying = @ \cup {e}]
        BY <3>3 DEF Spawn
      <4>2. sweep'[j] = [sweep[j] EXCEPT !.todo = @ \ {e}, !.flying = @ \cup {e}]
        BY <4>1, SweepFields DEF TypeOK
      <4> QED
        BY <3>3, <4>2, SweepFields DEF Spawn, Running, SweepRecord
    <3> QED
      BY <1>9, <3>1, <3>2, <3>3
  <2> QED
    BY <1>8, <1>9, <2>1, SweepSteps DEF Job
<1>10. ASSUME NEW j \in Jobs, NEW e \in Events, Walk(j, e) \/ Result(j, e) \/ LoseResult(j, e)
       PROVE  \A k \in Jobs : Safe(k)'
  <2>1. /\ lock' = lock /\ sweep'[j].conn = sweep[j].conn /\ sweep'[j].pc = sweep[j].pc
    BY <1>10, SweepFields
    DEF Walk, NoLink, Skip, Admit, Result, StoreFullText, RecordFetchFailure, LoseResult, Land,
        TypeOK, SweepRecord
  <2>2. \A k \in Jobs : k # j => sweep'[k] = sweep[k]
    BY <1>10, SweepSteps DEF Job, Fault
  <2>3. \A k \in Jobs : sweep'[k].conn = sweep[k].conn /\ (Running(k)' <=> Running(k))
    BY <2>1, <2>2 DEF Running
  <2> QED
    BY <1>2, <2>1, <2>3
<1>11. ASSUME NEW j \in Jobs, LoseSession(j)
       PROVE  FALSE
  BY <1>1, <1>11 DEF LoseSession
<1>12. ASSUME NEW j \in Jobs, NEW c \in Conns, StartSweep(j, c), sweep' = sweep
       PROVE  \A k \in Jobs : Safe(k)'
  <2>1. sweep[j].pc = "idle"
    BY <1>12 DEF StartSweep
  <2>2. ~ TryLock(c)
    <3>1. [NoSweep EXCEPT !.pc = "loading", !.conn = c].pc = "loading"
      BY DEF NoSweep
    <3> QED
      BY <1>12, <2>1, <3>1, SweepUpdate DEF StartSweep
  <2> QED
    BY <1>4, <1>12, <2>2 DEF StartSweep
<1>13. CASE Arrive \/ Build \/ Tick \/ NextMinute \/ UNCHANGED vars
  BY <1>4, <1>13 DEF vars, Arrive, Build, LoadGroup, UpsertCluster, Tick, NextMinute
<1> QED
  BY <1>5, <1>6, <1>7, <1>9, <1>10, <1>11, <1>12, <1>13 DEF Next, Job, Fault

\* What a step charges: at most one attempt to an event the sweep has taken
\* up and lets go of, or the whole budget.
LEMMA ChargedEvents ==
    ASSUME TypeOK, SweepShape, [Next]_vars, NEW e \in Events,
           article'[e].attempts # article[e].attempts
    PROVE  /\ article'[e].attempts \in {MaxAttempts, article[e].attempts + 1}
           /\ \E j \in Jobs : e \in Claimed(j) /\ e \notin Claimed(j)' /\ (Job(j) \/ Fault(j))
<1>1. PICK j \in Jobs, f \in Events : StoreFullText(j, f) \/ RecordFetchFailure(j, f) \/ NoLink(j, f)
  BY ArticleWriters DEF UpsertCluster
<1>2. sweep[j] \in SweepRecord /\ sweep \in [Jobs -> SweepRecord]
  BY SweepFields DEF TypeOK
<1>3. CASE StoreFullText(j, f)
  <2>1. PICK long \in BOOLEAN : article' = [article EXCEPT ![f] =
                [text |-> TRUE, attempts |-> @.attempts + 1, longform |-> long]]
    BY <1>3, ArticleFields DEF StoreFullText
  <2>2. e = f /\ article'[e].attempts = article[e].attempts + 1
    BY <2>1 DEF TypeOK
  <2> QED
    BY <1>2, <1>3, <2>2 DEF StoreFullText, Land, Claimed, SweepShape, SweepRecord, Job, Result
<1>4. CASE RecordFetchFailure(j, f)
  <2>1. PICK o : article' = Failed(f, IsPermanent(o))
    BY <1>4 DEF RecordFetchFailure, Charged
  <2>2. IsPermanent(o) \in BOOLEAN
    BY DEF IsPermanent
  <2>3. e = f /\ article'[e].attempts \in {MaxAttempts, article[e].attempts + 1}
    BY <2>1, <2>2, FailedRow
  <2> QED
    BY <1>2, <1>4, <2>3 DEF RecordFetchFailure, Land, Claimed, SweepShape, SweepRecord, Job, Result
<1>5. CASE NoLink(j, f)
  <2>1. article' = Failed(f, TRUE)
    BY <1>5 DEF NoLink, DropUnusable
  <2>2. /\ \A g \in Events : g # f => Failed(f, TRUE)[g] = article[g]
        /\ Failed(f, TRUE)[f].attempts \in {MaxAttempts, article[f].attempts + 1}
    BY FailedRow, Zenon
  <2>3. e = f /\ article'[e].attempts \in {MaxAttempts, article[e].attempts + 1}
    BY <2>1, <2>2
  <2>4. e \in sweep[j].due /\ sweep'[j] = [sweep[j] EXCEPT !.due = @ \ {e}]
    BY <1>2, <1>5, <2>3 DEF NoLink, Target, IsNewest
  <2>5. e \in Claimed(j) /\ e \notin Claimed(j)'
    BY <1>2, <2>4 DEF Claimed, SweepShape, SweepRecord
  <2> QED
    BY <1>5, <2>3, <2>5 DEF Job, Walk
<1> QED
  BY <1>1, <1>3, <1>4, <1>5

LEMMA BudgetKept ==
    ASSUME TypeOK, SweepShape, OneSweep, BudgetLeft, [Next]_vars
    PROVE  BudgetLeft'
<1>1. SUFFICES ASSUME ~ exposed, ~ exposed'
               PROVE  BudgetLeft'
  BY ExposedStays DEF BudgetLeft
<1>2. /\ \A e \in Events : article[e].attempts <= MaxAttempts
      /\ \A j \in Jobs, e \in Events : e \in Claimed(j) => article[e].attempts < MaxAttempts
  BY <1>1 DEF BudgetLeft
<1>3. ASSUME NEW e \in Events
      PROVE  article'[e].attempts <= MaxAttempts
  <2>1. article[e].attempts \in Nat /\ MaxAttempts \in Nat
    BY ArticleFields, FetchAssumption
  <2>2. CASE article'[e].attempts # article[e].attempts
    <3>1. PICK j \in Jobs : e \in Claimed(j)
      BY <2>2, ChargedEvents
    <3> QED
      BY <1>2, <2>1, <2>2, <3>1, ChargedEvents
  <2> QED
    BY <1>2, <2>2
<1>4. ASSUME NEW j \in Jobs, NEW e \in Events, e \in Claimed(j)'
      PROVE  article'[e].attempts < MaxAttempts
  <2>1. CASE Load(j) /\ e \notin Claimed(j)
    <3>1. sweep'[j].due \subseteq WantsFetch /\ article' = article
      BY <2>1, LoadStep
    <3>2. sweep'[j].todo = sweep[j].todo /\ sweep'[j].flying = sweep[j].flying
      BY <2>1, LoadStep
    <3>3. e \in WantsFetch
      BY <1>4, <2>1, <3>1, <3>2 DEF Claimed
    <3> QED
      BY <3>1, <3>3, ArticleFields, FetchAssumption DEF WantsFetch, Settled
  <2>2. CASE e \in Claimed(j)
    <3>1. ASSUME article'[e].attempts # article[e].attempts
          PROVE  FALSE
      <4>1. PICK k \in Jobs : e \in Claimed(k) /\ e \notin Claimed(k)' /\ (Job(k) \/ Fault(k))
        BY <3>1, ChargedEvents
      <4>2. Running(k) /\ Running(j)
        BY <2>2, <4>1 DEF Running, Claimed, SweepShape, NoSweep
      <4> QED
        BY <1>1, <1>4, <4>1, <4>2 DEF OneSweep
    <3> QED
      BY <1>2, <2>2, <3>1
  <2>3. e \in Claimed(j) \/ Load(j)
    BY <1>4, StepOwner, SweepMoves DEF Claimed
  <2> QED
    BY <2>1, <2>2, <2>3
<1> QED
  BY <1>3, <1>4 DEF BudgetLeft

LEMMA InitLockInv == Init => LockInv
<1> SUFFICES ASSUME Init PROVE LockInv
  OBVIOUS
<1>1. SweepShape /\ OneSweep
  BY DEF Init, SweepShape, OneSweep, Running, Claimed, NoSweep
<1>2. BudgetLeft
  BY FetchAssumption DEF Init, BudgetLeft, Claimed, NoSweep
<1> QED
  BY <1>1, <1>2, InitTypeOK DEF LockInv

LEMMA LockInvIsDouble == LockInv => NoDoubleFetch
<1> SUFFICES ASSUME LockInv, ~ exposed PROVE NoDoubleFetch
  BY DEF NoDoubleFetch
<1>1. ASSUME NEW j \in Jobs, NEW k \in Jobs, j # k
      PROVE  Claimed(j) \cap Claimed(k) = {}
  <2>1. \A i \in Jobs : ~ Running(i) => Claimed(i) = {}
    BY DEF LockInv, SweepShape, Running, Claimed, NoSweep
  <2> QED
    BY <1>1, <2>1 DEF LockInv, OneSweep
<1> QED
  BY <1>1 DEF LockInv, BudgetLeft, NoDoubleFetch

(***************************************************************************)
(* The sweep lock does what it is there for: as long as no sweep has lost  *)
(* the session of its lock, no event is in two sweeps at once and none     *)
(* spends more than its budget, whatever leaked lock or fault they met.    *)
(***************************************************************************)
THEOREM NoDoubleFetchCorrect == Spec => []NoDoubleFetch
<1>1. Init => LockInv
  BY InitLockInv
<1>2. LockInv /\ [Next]_vars => LockInv'
  BY NextTypeOK, ShapeKept, OneSweepKept, BudgetKept DEF LockInv
<1>3. LockInv => NoDoubleFetch
  BY LockInvIsDouble
<1> QED
  BY <1>1, <1>2, <1>3, PTL DEF Spec

-----------------------------------------------------------------------------
(***************************************************************************)
(* The depth of the clusters.  DepthKeepsUpUnlessOverlapped says nothing   *)
(* of a group whose build is open: what keeps it true when that build      *)
(* writes is that the depth it has read is still the depth of the group,   *)
(* unless a text was stored meanwhile, and that an event has no text       *)
(* before it is in the log.                                                *)
(***************************************************************************)
SnippetsFirst == \A e \in Events \ log : ~ article[e].longform

OpenBuildReads ==
    build.at.open /\ build.at.group \notin overlapped
        => (Deep(build.at.group) => build.at.longform)

DepthInv == LockInv /\ SnippetsFirst /\ OpenBuildReads /\ DepthKeepsUpUnlessOverlapped

\* A step deepens the events it stores the text of, and no others; it raises
\* the rows of their clusters with them.
LEMMA DepthSteps ==
    ASSUME TypeOK, SweepShape, [Next]_vars, NEW e \in Events,
           article'[e].longform # article[e].longform
    PROVE  /\ e \in log /\ log' = log /\ build' = build
           /\ \A f \in Events : f # e => article'[f] = article[f]
           /\ cluster[Group[e]].built => cluster'[Group[e]].longform
           /\ \A g \in Groups : g # Group[e] => cluster'[g] = cluster[g]
           /\ cluster'[Group[e]].built = cluster[Group[e]].built
           /\ IF build.at.open /\ build.at.group = Group[e]
              THEN overlapped' = overlapped \cup {Group[e]}
              ELSE overlapped' = overlapped
<1>1. PICK j \in Jobs, f \in Events : StoreFullText(j, f) \/ RecordFetchFailure(j, f) \/ NoLink(j, f)
  BY ArticleWriters DEF UpsertCluster
<1>2. ~ RecordFetchFailure(j, f)
  <2>1. SUFFICES ASSUME RecordFetchFailure(j, f) PROVE FALSE
    OBVIOUS
  <2>2. PICK o : article' = Failed(f, IsPermanent(o))
    BY <2>1 DEF RecordFetchFailure, Charged
  <2>3. IsPermanent(o) \in BOOLEAN
    BY DEF IsPermanent
  <2> QED
    BY <2>2, <2>3, FailedRow
<1>3. ~ NoLink(j, f)
  <2>1. \A g \in Events : Failed(f, TRUE)[g].longform = article[g].longform
    BY FailedRow, Zenon
  <2> QED
    BY <2>1 DEF NoLink, DropUnusable
<1>4. StoreFullText(j, f)
  BY <1>1, <1>2, <1>3
<1>5. PICK o \in FetchArticle(FirstLink(f)) :
        /\ article' = [article EXCEPT ![f] =
              [text |-> TRUE, attempts |-> @.attempts + 1, longform |-> @.longform \/ o = "long"]]
        /\ cluster' = TouchGroup(Group[f], o = "long")
  BY <1>4 DEF StoreFullText
<1>6. e = f /\ \A g \in Events : g # e => article'[g] = article[g]
  BY <1>5 DEF TypeOK
<1>7. o = "long"
  <2>1. SUFFICES ASSUME o # "long" PROVE article'[e].longform = article[e].longform
    OBVIOUS
  <2>2. article'[e].longform = (article[e].longform \/ o = "long")
    BY <1>5, <1>6 DEF TypeOK
  <2> QED
    BY <2>1, <2>2, ArticleFields
<1>8. e \in log
  BY <1>4, <1>6 DEF StoreFullText, Land, SweepShape, Claimed
<1>9. cluster' = [cluster EXCEPT ![Group[e]].longform = @ \/ (cluster[Group[e]].built /\ TRUE)]
  BY <1>5, <1>6, <1>7 DEF TouchGroup
<1>10. cluster[Group[e]] \in Cluster
  BY GroupType DEF TypeOK
<1>11. /\ cluster'[Group[e]].built = cluster[Group[e]].built
       /\ cluster[Group[e]].built => cluster'[Group[e]].longform
       /\ \A g \in Groups : g # Group[e] => cluster'[g] = cluster[g]
  BY <1>9, <1>10, GroupType DEF TypeOK, Cluster
<1> QED
  BY <1>4, <1>6, <1>8, <1>11 DEF StoreFullText

\* A step adds to the log one snippet, which has no depth yet.
LEMMA DeepSame ==
    ASSUME TypeOK, SnippetsFirst, [Next]_vars,
           \A e \in Events : article'[e].longform = article[e].longform
    PROVE  \A g \in Groups : Deep(g)' <=> Deep(g)
<1>1. log \subseteq log' /\ log' \subseteq Events
  BY LogSteps, NextTypeOK DEF TypeOK
<1> QED
  BY <1>1 DEF Deep, SnippetsFirst, TypeOK

LEMMA SnippetsKept ==
    ASSUME TypeOK, SweepShape, SnippetsFirst, [Next]_vars
    PROVE  SnippetsFirst'
<1>1. log \subseteq log'
  BY LogSteps
<1>2. ASSUME NEW e \in Events \ log'
      PROVE  article'[e].longform = article[e].longform
  BY <1>1, DepthSteps
<1> QED
  BY <1>1, <1>2 DEF SnippetsFirst

\* Beside the builds, a step at most raises the rows and adds to the groups
\* overlapped; all but the arrival of a snippet leave the builds alone.
LEMMA RowsRise ==
    ASSUME TypeOK, [Next]_vars
    PROVE  \/ UpsertCluster
           \/ \E g \in Groups : LoadGroup(g)
           \/ /\ build'.at = build.at /\ build.due \subseteq build'.due
              /\ overlapped \subseteq overlapped'
              /\ \A g \in Groups : /\ cluster'[g].built = cluster[g].built
                                   /\ cluster[g].longform => cluster'[g].longform
<1>1. CASE Arrive
  <2>1. PICK e \in Events \ log : build' = [build EXCEPT !.due = @ \cup {Group[e]}]
    BY <1>1 DEF Arrive
  <2> QED
    BY <1>1, <2>1 DEF Arrive, TypeOK
<1>2. ASSUME NEW j \in Jobs, NEW e \in Events, StoreFullText(j, e)
      PROVE  \A g \in Groups : /\ cluster'[g].built = cluster[g].built
                               /\ cluster[g].longform => cluster'[g].longform
  <2>1. PICK long \in BOOLEAN : cluster' = TouchGroup(Group[e], long)
    BY <1>2 DEF StoreFullText
  <2>2. cluster[Group[e]] \in Cluster
    BY GroupType DEF TypeOK
  <2> QED
    BY <2>1, <2>2, GroupType DEF TouchGroup, TypeOK, Cluster
<1>3. CASE UNCHANGED <<cluster, build, overlapped>>
  BY <1>3
<1>4. ASSUME NEW j \in Jobs, NEW e \in Events, StoreFullText(j, e)
      PROVE  build' = build /\ overlapped \subseteq overlapped'
  BY <1>4 DEF StoreFullText
<1>5. \/ Arrive \/ UpsertCluster \/ UNCHANGED <<cluster, build, overlapped>>
      \/ \E g \in Groups : LoadGroup(g)
      \/ \E j \in Jobs, e \in Events : StoreFullText(j, e)
  <2>1. ASSUME NEW j \in Jobs, Job(j) \/ Fault(j)
        PROVE  \/ UNCHANGED <<cluster, build, overlapped>>
               \/ \E e \in Events : StoreFullText(j, e)
    BY <2>1
    DEF Job, StartSweep, Load, StartFetching, Spawn, EndSweep, Walk, NoLink, Skip, Admit, Result,
        RecordFetchFailure, Fault, FailSweep, LeakLock, Crash, LoseSession, LoseResult
  <2> QED
    BY <2>1 DEF Next, vars, Build, Tick, NextMinute, Recycle
<1> QED
  BY <1>1, <1>2, <1>3, <1>4, <1>5

LEMMA BuildDepthKept ==
    ASSUME TypeOK, SnippetsFirst, OpenBuildReads, DepthKeepsUpUnlessOverlapped, [Next]_vars,
           \A e \in Events : article'[e].longform = article[e].longform
    PROVE  OpenBuildReads' /\ DepthKeepsUpUnlessOverlapped'
<1>1. \A g \in Groups : Deep(g)' <=> Deep(g)
  BY DeepSame
<1>2. /\ build \in [due : SUBSET Groups, at : [open : BOOLEAN, group : Groups, longform : BOOLEAN]]
      /\ build.at.group \in Groups
  BY DEF TypeOK
<1>3. CASE UpsertCluster
  <2>1. /\ build' = [build EXCEPT !.at = NoBuild] /\ overlapped' = overlapped
        /\ cluster' = [cluster EXCEPT ![build.at.group] =
                          [built |-> TRUE, longform |-> build.at.longform]]
        /\ build.at.open
    BY <1>3 DEF UpsertCluster
  <2>2. build'.at = NoBuild /\ build'.due = build.due /\ ~ NoBuild.open
    BY <1>2, <2>1 DEF NoBuild
  <2>3. cluster'[build.at.group].longform = build.at.longform
    BY <1>2, <2>1 DEF TypeOK
  <2>4. \A g \in Groups : g # build.at.group => cluster'[g] = cluster[g]
    BY <1>2, <2>1 DEF TypeOK
  <2>5. OpenBuildReads'
    BY <2>2 DEF OpenBuildReads
  <2>6. ASSUME NEW g \in Groups, g \notin overlapped, g \notin build.due, Deep(g),
               cluster'[g].built
        PROVE  cluster'[g].longform
    BY <2>1, <2>3, <2>4, <2>6 DEF OpenBuildReads, DepthKeepsUpUnlessOverlapped
  <2> QED
    BY <1>1, <2>1, <2>2, <2>5, <2>6 DEF DepthKeepsUpUnlessOverlapped
<1>4. ASSUME NEW g \in Groups, LoadGroup(g)
      PROVE  OpenBuildReads' /\ DepthKeepsUpUnlessOverlapped'
  <2>1. /\ build'.at = [open |-> TRUE, group |-> g, longform |-> Deep(g)]
        /\ build'.due = build.due \ {g} /\ overlapped' = overlapped \ {g}
        /\ cluster' = cluster /\ ~ build.at.open
    BY <1>4 DEF LoadGroup
  <2>2. build'.at.open /\ build'.at.group = g /\ (build'.at.longform <=> Deep(g))
    <3>1. CASE Deep(g)
      <4>1. build'.at = [open |-> TRUE, group |-> g, longform |-> TRUE]
        BY <2>1, <3>1
      <4> QED
        BY <3>1, <4>1
    <3>2. CASE ~ Deep(g)
      <4>1. Deep(g) = FALSE
        BY <3>2 DEF Deep
      <4>2. build'.at = [open |-> TRUE, group |-> g, longform |-> FALSE]
        BY <2>1, <4>1
      <4> QED
        BY <3>2, <4>2
    <3> QED
      BY <3>1, <3>2
  <2>3. OpenBuildReads'
    BY <1>1, <2>2 DEF OpenBuildReads
  <2>4. ASSUME NEW h \in Groups \ overlapped', cluster'[h].built,
               ~ (build'.at.open /\ build'.at.group = h), h \notin build'.due, Deep(h)'
        PROVE  cluster'[h].longform
    <3>1. h # g
      BY <2>2, <2>4
    <3>2. h \notin overlapped /\ h \notin build.due /\ cluster[h].built /\ Deep(h)
      BY <1>1, <2>1, <2>4, <3>1
    <3> QED
      BY <2>1, <3>2 DEF DepthKeepsUpUnlessOverlapped
  <2> QED
    BY <2>3, <2>4 DEF DepthKeepsUpUnlessOverlapped
<1>5. CASE /\ build'.at = build.at /\ build.due \subseteq build'.due
           /\ overlapped \subseteq overlapped'
           /\ \A g \in Groups : /\ cluster'[g].built = cluster[g].built
                                /\ cluster[g].longform => cluster'[g].longform
  <2>1. OpenBuildReads'
    BY <1>1, <1>2, <1>5 DEF OpenBuildReads
  <2>2. ASSUME NEW g \in Groups \ overlapped', cluster'[g].built, ~ (build'.at.open /\ build'.at.group = g),
               g \notin build'.due, Deep(g)'
        PROVE  cluster'[g].longform
    BY <1>1, <1>5, <2>2 DEF DepthKeepsUpUnlessOverlapped
  <2> QED
    BY <2>1, <2>2 DEF DepthKeepsUpUnlessOverlapped
<1> QED
  BY <1>3, <1>4, <1>5, RowsRise

\* A stored article deepens its group: the row follows, or a build is open
\* on it and the group is overlapped.
LEMMA StoredDepthKept ==
    ASSUME TypeOK, SweepShape, OpenBuildReads, DepthKeepsUpUnlessOverlapped, [Next]_vars,
           NEW e \in Events, article'[e].longform # article[e].longform
    PROVE  OpenBuildReads' /\ DepthKeepsUpUnlessOverlapped'
<1>1. /\ log' = log /\ build' = build
      /\ \A f \in Events : f # e => article'[f] = article[f]
      /\ cluster[Group[e]].built => cluster'[Group[e]].longform
      /\ \A g \in Groups : g # Group[e] => cluster'[g] = cluster[g]
      /\ cluster'[Group[e]].built = cluster[Group[e]].built
      /\ IF build.at.open /\ build.at.group = Group[e]
         THEN overlapped' = overlapped \cup {Group[e]}
         ELSE overlapped' = overlapped
  BY DepthSteps
<1>2. \A g \in Groups : g # Group[e] => (Deep(g)' <=> Deep(g))
  BY <1>1 DEF Deep, TypeOK
<1>3. build.at.group \in Groups
  BY DEF TypeOK
<1>4. OpenBuildReads'
  BY <1>1, <1>2, <1>3 DEF OpenBuildReads
<1>5. ASSUME NEW g \in Groups \ overlapped', cluster'[g].built, ~ (build'.at.open /\ build'.at.group = g),
             g \notin build'.due, Deep(g)'
      PROVE  cluster'[g].longform
  <2>1. CASE g = Group[e]
    BY <1>1, <1>5, <2>1
  <2>2. CASE g # Group[e]
    BY <1>1, <1>2, <1>5, <2>2 DEF DepthKeepsUpUnlessOverlapped
  <2> QED
    BY <2>1, <2>2
<1> QED
  BY <1>4, <1>5 DEF DepthKeepsUpUnlessOverlapped

(***************************************************************************)
(* touch_group and the build together keep the cluster as deep as its      *)
(* events, but for the build whose read and write a store crossed.         *)
(***************************************************************************)
THEOREM DepthKeepsUpCorrect == Spec => []DepthKeepsUpUnlessOverlapped
<1>1. Init => DepthInv
  <2>1. Init => SnippetsFirst /\ OpenBuildReads /\ DepthKeepsUpUnlessOverlapped
    BY DEF Init, SnippetsFirst, OpenBuildReads, NoBuild, DepthKeepsUpUnlessOverlapped
  <2> QED
    BY <2>1, InitLockInv DEF DepthInv
<1>2. DepthInv /\ [Next]_vars => DepthInv'
  <2> SUFFICES ASSUME DepthInv, [Next]_vars PROVE DepthInv'
    OBVIOUS
  <2>1. LockInv'
    BY NextTypeOK, ShapeKept, OneSweepKept, BudgetKept DEF DepthInv, LockInv
  <2>2. SnippetsFirst'
    BY SnippetsKept DEF DepthInv, LockInv
  <2>3. OpenBuildReads' /\ DepthKeepsUpUnlessOverlapped'
    BY BuildDepthKept, StoredDepthKept DEF DepthInv, LockInv
  <2> QED
    BY <2>1, <2>2, <2>3 DEF DepthInv
<1>3. DepthInv => DepthKeepsUpUnlessOverlapped
  BY DEF DepthInv
<1> QED
  BY <1>1, <1>2, <1>3, PTL DEF Spec

(***************************************************************************)
(* Corrections and maintenance passes (FeedbackLoop).                      *)
(***************************************************************************)
(* A finite set of naturals that is not empty has a least element.         *)
LEMMA LeastElement ==
    ASSUME NEW S, IsFiniteSet(S), S \subseteq Nat, S # {}
    PROVE  Min(S) \in S /\ \A y \in S : Min(S) <= y
<1> DEFINE Has(T) == \E x \in T : \A y \in T : x =< y
           Bad == {T \in SUBSET S : T # {} /\ ~ Has(T)}
<1>1. SUFFICES Has(S)
  BY DEF Min
<1>2. SUFFICES ASSUME Bad # {} PROVE FALSE
  OBVIOUS
<1>3. IsWellFoundedOn(StrictSubsetOrdering(S), SUBSET S)
  BY FS_StrictSubsetOrderingWellFounded, FS_FiniteSubsetsOfFinite
<1>4. PICK T \in Bad : \A V \in Bad : <<V, T>> \notin StrictSubsetOrdering(S)
  BY <1>2, <1>3, WFMin
<1>5. PICK x \in T : TRUE
  OBVIOUS
<1>6. T \ {x} \notin Bad
  BY <1>4, <1>5 DEF StrictSubsetOrdering
<1>7. CASE T \ {x} = {}
  BY <1>5, <1>7
<1>8. CASE Has(T \ {x})
  <2>1. PICK m \in T \ {x} : \A y \in T \ {x} : m =< y
    BY <1>8
  <2>2. T \subseteq Nat
    OBVIOUS
  <2>3. Has(T)
    <3>1. CASE m =< x
      BY <2>1, <3>1
    <3>2. CASE ~ (m =< x)
      BY <2>1, <2>2, <3>2, <1>5
    <3> QED BY <3>1, <3>2
  <2> QED BY <2>3
<1> QED BY <1>6, <1>7, <1>8

(* What holds of 0, and of the next number whenever it holds of a number,  *)
(* holds of every number up to a bound.                                    *)
LEMMA NumberByNumber ==
    ASSUME NEW n \in Nat, NEW G, 0 \in G, \A i \in Nat : i < n /\ i \in G => i + 1 \in G
    PROVE  0 .. n \subseteq G
<1> DEFINE Bad == (0 .. n) \ G
<1>1. SUFFICES ASSUME Bad # {} PROVE FALSE
  OBVIOUS
<1>2. IsFiniteSet(Bad) /\ Bad \subseteq Nat
  <2>1. PICK k \in Int : k = n
    OBVIOUS
  <2>2. IsFiniteSet(0 .. n)
    BY <2>1, FS_Interval
  <2> QED
    BY <2>2, FS_Subset
<1>3. PICK m \in Bad : \A y \in Bad : m <= y
  BY <1>1, <1>2, LeastElement
<1>4. m # 0 /\ m - 1 \in Nat /\ m - 1 < n /\ m - 1 \notin Bad
  BY <1>3
<1> QED
  BY <1>4

\* A function that starts with base and takes its i-th value from the one
\* before by F[i].
Walks(f, n, S, base, F) ==
    f \in [0 .. n -> S] /\ f[0] = base /\ \A i \in 1 .. n : f[i] = F[i][f[i - 1]]

(* Such a function exists, whatever F is.                                  *)
LEMMA StepsExist ==
    ASSUME NEW n \in Nat, NEW S, NEW base \in S, NEW F \in [1 .. n -> [S -> S]]
    PROVE  \E f : Walks(f, n, S, base, F)
<1> DEFINE Steps(h, k) == h \in [0 .. k -> S] /\ h[0] = base /\ \A i \in 1 .. k : h[i] = F[i][h[i - 1]]
           G == {k \in Nat : k <= n => \E h : Steps(h, k)}
<1>1. 0 \in G
  <2> DEFINE f == [i \in 0 .. 0 |-> base]
  <2>1. Steps(f, 0)
    OBVIOUS
  <2> QED
    BY <2>1
<1>2. ASSUME NEW k \in Nat, k < n, k \in G PROVE k + 1 \in G
  <2>1. PICK f : Steps(f, k)
    BY <1>2
  <2> DEFINE g == [i \in 0 .. k + 1 |-> IF i <= k THEN f[i] ELSE F[k + 1][f[k]]]
  <2>2. f[k] \in S /\ k + 1 \in 1 .. n
    BY <1>2, <2>1
  <2>3. F[k + 1] \in [S -> S]
    BY <2>2
  <2>4. F[k + 1][f[k]] \in S
    BY <2>2, <2>3
  <2>5. \A i \in 0 .. k : f[i] \in S
    BY <2>1
  <2>6. g \in [0 .. k + 1 -> S]
    BY <2>4, <2>5
  <2>7. \A i \in 1 .. k + 1 : g[i] = F[i][g[i - 1]]
    <3> TAKE i \in 1 .. k + 1
    <3>1. CASE i <= k
      <4>1. i \in 1 .. k /\ i \in 0 .. k + 1 /\ i - 1 \in 0 .. k + 1 /\ i - 1 <= k
        BY <3>1
      <4>2. g[i] = f[i] /\ g[i - 1] = f[i - 1]
        BY <3>1, <4>1
      <4> QED
        BY <2>1, <4>1, <4>2
    <3>2. CASE i = k + 1
      <4>1. g[k + 1] = F[k + 1][f[k]] /\ g[k] = f[k]
        OBVIOUS
      <4> QED
        BY <3>2, <4>1
    <3> QED
      BY <3>1, <3>2
  <2>8. g[0] = base
    BY <2>1
  <2>9. Steps(g, k + 1)
    BY <2>6, <2>7, <2>8
  <2>10. \E h : Steps(h, k + 1)
    BY <2>9
  <2> HIDE DEF Steps
  <2> QED
    BY <2>10
<1>3. 0 .. n \subseteq G
  <2> HIDE DEF G
  <2> QED
    BY <1>1, <1>2, NumberByNumber
<1>4. n \in G
  BY <1>3
<1> QED
  BY <1>4 DEF Walks

-----------------------------------------------------------------------------
(* Reachability.                                                           *)
\* One step of `Reach`, and what no step leaves.
Widened(E, S) == S \cup {e.a : e \in {f \in E : f.b \in S}} \cup {e.b : e \in {f \in E : f.a \in S}}
ClosedUnder(E, S) == \A e \in E : e.a \in S <=> e.b \in S
IsReach(E, t, f, n) == f = [i \in 0 .. n |-> IF i = 0 THEN {t} ELSE Widened(E, f[i - 1])]

(* The recursive function of `Reach` exists, and its last value is Reach.  *)
LEMMA ReachIsLast ==
    ASSUME NEW E, Cardinality(E) \in Nat, NEW t
    PROVE  \E f : IsReach(E, t, f, Cardinality(E)) /\ Reach(E, t) = f[Cardinality(E)]
<1>1. PICK n \in Nat : n = Cardinality(E)
  OBVIOUS
<1> DEFINE U == {t} \cup {e.a : e \in E} \cup {e.b : e \in E}
           F == [i \in 1 .. n |-> [S \in SUBSET U |-> Widened(E, S)]]
<1>2. \A S \in SUBSET U : Widened(E, S) \in SUBSET U
  BY DEF Widened
<1>3. F \in [1 .. n -> [SUBSET U -> SUBSET U]] /\ {t} \in SUBSET U
  BY <1>2
<1>4. PICK g : Walks(g, n, SUBSET U, {t}, F)
  <2> HIDE DEF F, U
  <2> QED
    BY <1>3, StepsExist
<1>4a. g \in [0 .. n -> SUBSET U] /\ g[0] = {t} /\ \A i \in 1 .. n : g[i] = F[i][g[i - 1]]
  BY <1>4 DEF Walks
<1>5. \A i \in 0 .. n : g[i] = IF i = 0 THEN {t} ELSE Widened(E, g[i - 1])
  <2> TAKE i \in 0 .. n
  <2>1. CASE i = 0
    BY <1>4a, <2>1
  <2>2. CASE i # 0
    <3>1. i \in 1 .. n /\ i - 1 \in 0 .. n
      BY <2>2
    <3>2. g[i - 1] \in SUBSET U
      BY <1>4a, <3>1
    <3>3. F[i][g[i - 1]] = Widened(E, g[i - 1])
      BY <3>1, <3>2
    <3> QED
      BY <1>4a, <2>2, <3>1, <3>3
  <2> QED
    BY <2>1, <2>2
<1>6. IsReach(E, t, g, n)
  <2>1. g = [i \in 0 .. n |-> g[i]]
    BY <1>4a
  <2> QED
    BY <1>5, <2>1 DEF IsReach
<1> DEFINE h == CHOOSE f : f = [i \in 0 .. n |-> IF i = 0 THEN {t} ELSE Widened(E, f[i - 1])]
<1>7. IsReach(E, t, h, n)
  BY <1>6, Zenon DEF IsReach
<1>8. Reach(E, t) = h[n]
  BY <1>1 DEF Reach, Widened
<1> QED
  BY <1>1, <1>7, <1>8

(* What t reaches is the least set with t that no edge leaves.             *)
LEMMA ReachIsLeast ==
    ASSUME NEW E, IsFiniteSet(E), NEW t
    PROVE  /\ t \in Reach(E, t)
           /\ ClosedUnder(E, Reach(E, t))
           /\ \A T : t \in T /\ ClosedUnder(E, T) => Reach(E, t) \subseteq T
<1>1. PICK n \in Nat : n = Cardinality(E)
  BY FS_CardinalityType
<1>2. PICK f : IsReach(E, t, f, n) /\ Reach(E, t) = f[n]
  BY <1>1, ReachIsLast
<1>3. f[0] = {t} /\ \A i \in 0 .. n - 1 : f[i + 1] = Widened(E, f[i])
  <2>1. \A i \in 0 .. n : f[i] = IF i = 0 THEN {t} ELSE Widened(E, f[i - 1])
    BY <1>2, Zenon DEF IsReach
  <2>2. f[0] = {t}
    BY <2>1
  <2>3. ASSUME NEW i \in 0 .. n - 1 PROVE f[i + 1] = Widened(E, f[i])
    <3>1. i + 1 \in 0 .. n /\ i + 1 # 0 /\ (i + 1) - 1 = i
      OBVIOUS
    <3> QED
      BY <2>1, <3>1
  <2> QED
    BY <2>2, <2>3
<1> DEFINE In(i) == {e \in E : e.a \in f[i] /\ e.b \in f[i]}
<1>4. \A i \in 0 .. n : t \in f[i]
  <2> DEFINE G == {i \in Nat : i <= n => t \in f[i]}
  <2>1. 0 \in G
    BY <1>3
  <2>2. ASSUME NEW i \in Nat, i < n, i \in G PROVE i + 1 \in G
    BY <1>3, <2>2 DEF Widened
  <2> HIDE DEF G
  <2>3. 0 .. n \subseteq G
    BY <2>1, <2>2, NumberByNumber
  <2> QED
    BY <2>3 DEF G
<1>5. ASSUME NEW T, t \in T, ClosedUnder(E, T) PROVE f[n] \subseteq T
  <2> DEFINE G == {i \in Nat : i <= n => f[i] \subseteq T}
  <2>1. 0 \in G
    BY <1>3, <1>5
  <2>2. ASSUME NEW i \in Nat, i < n, i \in G PROVE i + 1 \in G
    <3>1. f[i + 1] = Widened(E, f[i]) /\ f[i] \subseteq T
      BY <1>3, <2>2
    <3>2. Widened(E, f[i]) \subseteq T
      BY <1>5, <3>1 DEF Widened, ClosedUnder
    <3> QED
      BY <3>1, <3>2
  <2> HIDE DEF G
  <2>3. 0 .. n \subseteq G
    BY <2>1, <2>2, NumberByNumber
  <2>4. n \in G
    BY <2>3
  <2> QED
    BY <2>4 DEF G
<1>6. \A i \in 0 .. n : IsFiniteSet(In(i)) /\ Cardinality(In(i)) \in Nat /\ Cardinality(In(i)) <= n
  BY <1>1, FS_Subset, FS_CardinalityType
\* As long as the set is not closed, a step takes in one more edge at least.
<1>7. \A i \in 0 .. n : ClosedUnder(E, f[i]) \/ Cardinality(In(i)) >= i
  <2> DEFINE G == {i \in Nat : i <= n => ClosedUnder(E, f[i]) \/ Cardinality(In(i)) >= i}
  <2>1. 0 \in G
    BY <1>6
  <2>2. ASSUME NEW i \in Nat, i < n, i \in G PROVE i + 1 \in G
    <3>0. i \in 0 .. n - 1 /\ i \in 0 .. n /\ i + 1 \in 0 .. n
      BY <2>2
    <3>1. f[i + 1] = Widened(E, f[i])
      BY <1>3, <3>0
    <3>2. CASE ClosedUnder(E, f[i])
      <4>1. Widened(E, f[i]) = f[i]
        BY <3>2 DEF Widened, ClosedUnder
      <4> QED
        BY <3>1, <3>2, <4>1
    <3>3. CASE ~ ClosedUnder(E, f[i])
      <4>1. PICK e \in E : ~ (e.a \in f[i] <=> e.b \in f[i])
        BY <3>3 DEF ClosedUnder
      <4>2. e \in In(i + 1) /\ e \notin In(i)
        BY <3>1, <4>1 DEF Widened
      <4>3. In(i) \subseteq In(i + 1) /\ In(i) # In(i + 1)
        BY <3>1, <4>2 DEF Widened
      <4>4. Cardinality(In(i)) < Cardinality(In(i + 1))
        BY <1>6, <3>0, <4>3, FS_Subset
      <4>5. Cardinality(In(i)) >= i
        BY <2>2, <3>3
      <4> HIDE DEF In
      <4>6. Cardinality(In(i + 1)) >= i + 1
        BY <1>6, <3>0, <4>4, <4>5
      <4> QED
        BY <4>6
    <3> QED
      BY <3>2, <3>3
  <2> HIDE DEF G
  <2>3. 0 .. n \subseteq G
    BY <2>1, <2>2, NumberByNumber
  <2> QED
    BY <2>3 DEF G
<1>8. ClosedUnder(E, f[n])
  <2>1. CASE Cardinality(In(n)) >= n
    <3>1. Cardinality(In(n)) = Cardinality(E)
      BY <1>1, <1>6, <2>1
    <3>2. In(n) = E
      BY <3>1, FS_Subset
    <3> QED
      BY <3>2 DEF ClosedUnder
  <2> QED
    BY <1>7, <2>1
<1> QED
  BY <1>2, <1>4, <1>5, <1>8

(* So reaching is symmetric, and fewer edges reach less.                   *)
LEMMA ReachSame ==
    ASSUME NEW E, IsFiniteSet(E), NEW x, NEW y \in Reach(E, x)
    PROVE  Reach(E, y) = Reach(E, x)
<1>1. Reach(E, y) \subseteq Reach(E, x)
  BY ReachIsLeast
<1>2. x \in Reach(E, y)
  <2> SUFFICES ASSUME x \notin Reach(E, y) PROVE FALSE
    OBVIOUS
  <2> DEFINE T == Reach(E, x) \ Reach(E, y)
  <2>1. x \in T
    BY ReachIsLeast
  <2>2. ClosedUnder(E, T)
    BY ReachIsLeast DEF ClosedUnder
  <2>3. Reach(E, x) \subseteq T
    BY <2>1, <2>2, ReachIsLeast
  <2> QED
    BY <2>3, ReachIsLeast
<1> QED
  BY <1>1, <1>2, ReachIsLeast

LEMMA ReachLess ==
    ASSUME NEW E, IsFiniteSet(E), NEW D, D \subseteq E, NEW x
    PROVE  Reach(D, x) \subseteq Reach(E, x)
<1>1. IsFiniteSet(D)
  BY FS_Subset
<1>2. ClosedUnder(D, Reach(E, x)) /\ x \in Reach(E, x)
  BY ReachIsLeast DEF ClosedUnder
<1> QED
  BY <1>1, <1>2, ReachIsLeast

-----------------------------------------------------------------------------
(* The order in which the edges are merged.                                *)
\* The edges of a pass: finitely many, between numbers, in percent.
EdgeSet(E) ==
    IsFiniteSet(E) /\ E \subseteq [a : Nat, b : Nat, confidence : 0 .. FeedbackConfidence]
EdgeRank(E, e) == Cardinality({f \in E : StrongerFirst(f, e)})

(* Stronger first is a total order of the edges.                           *)
LEMMA StrongerOrder ==
    ASSUME NEW E, EdgeSet(E)
    PROVE  /\ \A e, f, g \in E : StrongerFirst(e, f) /\ StrongerFirst(f, g) => StrongerFirst(e, g)
           /\ \A e \in E : ~ StrongerFirst(e, e)
           /\ \A e, f \in E : e = f \/ StrongerFirst(e, f) \/ StrongerFirst(f, e)
           /\ \A e, f \in E : StrongerFirst(e, f) => e.confidence >= f.confidence
<1>1. \A e \in E : /\ e.a \in Nat /\ e.b \in Nat /\ e.confidence \in Nat
                   /\ e = [a |-> e.a, b |-> e.b, confidence |-> e.confidence]
  BY DEF EdgeSet, FeedbackConfidence
<1>2. \A e, f \in E : e.a = f.a /\ e.b = f.b /\ e.confidence = f.confidence => e = f
  BY <1>1, Zenon
<1> QED
  BY <1>1, <1>2 DEF StrongerFirst

(* So the ranks are 0, 1, 2 and so on, and no two are equal.               *)
LEMMA EdgeRanks ==
    ASSUME NEW E, EdgeSet(E)
    PROVE  /\ Cardinality(E) \in Nat
           /\ \A e \in E : EdgeRank(E, e) \in 0 .. Cardinality(E) - 1
           /\ \A e, f \in E : StrongerFirst(e, f) => EdgeRank(E, e) < EdgeRank(E, f)
           /\ \A e, f \in E : EdgeRank(E, e) = EdgeRank(E, f) => e = f
           /\ \A k \in 0 .. Cardinality(E) - 1 : \E e \in E : EdgeRank(E, e) = k
<1> DEFINE Ahead(e) == {f \in E : StrongerFirst(f, e)}
           rank == [e \in E |-> Cardinality(Ahead(e))]
           K == 0 .. Cardinality(E) - 1
<1>0. IsFiniteSet(E) /\ Cardinality(E) \in Nat
  BY FS_CardinalityType DEF EdgeSet
<1>1. \A e \in E : IsFiniteSet(Ahead(e)) /\ Cardinality(Ahead(e)) \in Nat
  BY <1>0, FS_Subset, FS_CardinalityType
<1>2. \A e, f \in E : StrongerFirst(e, f) => Cardinality(Ahead(e)) < Cardinality(Ahead(f))
  <2> TAKE e, f \in E
  <2> HAVE StrongerFirst(e, f)
  <2>1. Ahead(e) \subseteq Ahead(f) /\ e \in Ahead(f) /\ e \notin Ahead(e)
    BY StrongerOrder
  <2>2. Ahead(e) # Ahead(f)
    BY <2>1
  <2> QED
    BY <1>1, <2>1, <2>2, FS_Subset
<1>3. \A e \in E : Cardinality(Ahead(e)) < Cardinality(E)
  <2> TAKE e \in E
  <2>1. Ahead(e) \subseteq E /\ Ahead(e) # E
    BY StrongerOrder
  <2> QED
    BY <2>1, FS_Subset, <1>0, <1>1
<1>4. rank \in [E -> K]
  BY <1>0, <1>1, <1>3
<1>5. \A e, f \in E : e # f => rank[e] # rank[f]
  <2> TAKE e, f \in E
  <2> HAVE e # f
  <2>1. StrongerFirst(e, f) \/ StrongerFirst(f, e)
    BY StrongerOrder
  <2>2. CASE StrongerFirst(e, f)
    BY <1>1, <1>2, <2>2
  <2>3. CASE StrongerFirst(f, e)
    BY <1>1, <1>2, <2>3
  <2> QED
    BY <2>1, <2>2, <2>3
<1>6. rank \in Injection(E, K)
  BY <1>4, <1>5 DEF Injection, IsInjective
<1>7. IsFiniteSet(K) /\ Cardinality(K) = Cardinality(E)
  <2>1. PICK n \in Int : n = Cardinality(E) - 1
    BY <1>0
  <2>2. IsFiniteSet(0 .. n) /\ Cardinality(0 .. n) = IF 0 > n THEN 0 ELSE n - 0 + 1
    BY FS_Interval
  <2> QED
    BY <1>0, <2>1, <2>2
<1>8. rank \in Surjection(E, K)
  BY <1>6, <1>7, FS_Injection
<1>9. \A e \in E : EdgeRank(E, e) = rank[e]
  BY DEF EdgeRank
<1>10. \A e, f \in E : StrongerFirst(e, f) => rank[e] < rank[f]
  BY <1>2
<1> HIDE DEF rank, K
<1>11. \A k \in K : \E e \in E : rank[e] = k
  BY <1>8 DEF Surjection
<1> QED
  BY <1>0, <1>4, <1>5, <1>9, <1>10, <1>11 DEF K

(* So every edge is merged, each at its place, stronger ones first.        *)
LEMMA InOrderLists ==
    ASSUME NEW E, EdgeSet(E)
    PROVE  /\ \A i \in 1 .. Cardinality(E) : InOrder(E)[i] \in E
           /\ \A e \in E : \E i \in 1 .. Cardinality(E) : InOrder(E)[i] = e
           /\ \A i, j \in 1 .. Cardinality(E) : i <= j => InOrder(E)[i].confidence >= InOrder(E)[j].confidence
<1>0. Cardinality(E) \in Nat
  BY EdgeRanks
<1>1. \A i \in 1 .. Cardinality(E) : InOrder(E)[i] \in E /\ EdgeRank(E, InOrder(E)[i]) = i - 1
  <2> TAKE i \in 1 .. Cardinality(E)
  <2>1. i - 1 \in 0 .. Cardinality(E) - 1
    BY <1>0
  <2>2. \E e \in E : EdgeRank(E, e) = i - 1
    BY <2>1, EdgeRanks
  <2>3. InOrder(E)[i] = CHOOSE e \in E : EdgeRank(E, e) = i - 1
    BY DEF InOrder, EdgeRank
  <2> QED
    BY <2>2, <2>3, Zenon
<1>2. ASSUME NEW e \in E PROVE \E i \in 1 .. Cardinality(E) : InOrder(E)[i] = e
  <2>1. PICK k \in 0 .. Cardinality(E) - 1 : k = EdgeRank(E, e)
    BY EdgeRanks
  <2>2. k + 1 \in 1 .. Cardinality(E) /\ (k + 1) - 1 = k
    BY <1>0
  <2>3. InOrder(E)[k + 1] \in E /\ EdgeRank(E, InOrder(E)[k + 1]) = EdgeRank(E, e)
    BY <1>1, <2>1, <2>2
  <2> QED
    BY <2>2, <2>3, EdgeRanks
<1>3. ASSUME NEW i \in 1 .. Cardinality(E), NEW j \in 1 .. Cardinality(E), i <= j
      PROVE  InOrder(E)[i].confidence >= InOrder(E)[j].confidence
  <2> DEFINE e == InOrder(E)[i]
             f == InOrder(E)[j]
  <2>1. e \in E /\ f \in E /\ EdgeRank(E, e) = i - 1 /\ EdgeRank(E, f) = j - 1
    BY <1>1
  <2> HIDE DEF e, f
  <2>2. ~ StrongerFirst(f, e)
    BY <1>3, <2>1, EdgeRanks
  <2>3. e.confidence \in Nat
    BY <2>1 DEF EdgeSet, FeedbackConfidence
  <2>4. e.confidence >= f.confidence
    BY <2>1, <2>2, <2>3, StrongerOrder
  <2> QED
    BY <2>4 DEF e, f
<1> QED
  BY <1>1, <1>2, <1>3

-----------------------------------------------------------------------------
(* Merging.                                                                *)
\* The components of some tokens: every token is in exactly one.
Component(T) == [members : SUBSET T, weakest : 0 .. FeedbackConfidence]
Parted(C, T) ==
    /\ C \subseteq Component(T)
    /\ \A c \in C : c.members # {}
    /\ \A t \in T : \E c \in C : t \in c.members
    /\ \A c, d \in C : c # d => c.members \cap d.members = {}
Alone(T) == {[members |-> {t}, weakest |-> FeedbackConfidence] : t \in T}
TokensOf(N, E) == N \cup {e.a : e \in E} \cup {e.b : e \in E}
AtLeast(E, k) == {e \in E : e.confidence >= k}

LEMMA LeastOfThree ==
    ASSUME NEW x \in Nat, NEW y \in Nat, NEW z \in Nat
    PROVE  /\ Least({x, y, z}) \in {x, y, z}
           /\ Least({x, y, z}) <= x /\ Least({x, y, z}) <= y /\ Least({x, y, z}) <= z
<1>1. \E m \in {x, y, z} : \A n \in {x, y, z} : m <= n
  <2>1. CASE x <= y /\ x <= z
    BY <2>1
  <2>2. CASE y <= x /\ y <= z
    BY <2>2
  <2>3. CASE z <= x /\ z <= y
    BY <2>3
  <2> QED
    BY <2>1, <2>2, <2>3
<1> DEFINE S == {x, y, z}
           m == CHOOSE l \in S : \A n \in S : l <= n
<1>2. m \in S /\ \A n \in S : m <= n
  BY <1>1
<1>3. Least(S) = m
  BY DEF Least
<1> QED
  BY <1>2, <1>3

(* The component of a token.                                               *)
LEMMA ComponentOfToken ==
    ASSUME NEW T, NEW C, Parted(C, T), NEW t \in T
    PROVE  /\ ComponentOf(C, t) \in C /\ t \in ComponentOf(C, t).members
           /\ \A c \in C : t \in c.members => c = ComponentOf(C, t)
<1>1. \E c \in C : t \in c.members
  BY DEF Parted
<1>2. ComponentOf(C, t) \in C /\ t \in ComponentOf(C, t).members
  BY <1>1 DEF ComponentOf
<1> QED
  BY <1>2 DEF Parted

\* What merging the ends of an edge makes of two components.
Merged(x, y, e) ==
    [members |-> x.members \cup y.members, weakest |-> Least({x.weakest, y.weakest, e.confidence})]

LEMMA UnionParts ==
    ASSUME NEW T, NEW C, Parted(C, T), NEW e, e.a \in T, e.b \in T, e.confidence \in 0 .. FeedbackConfidence
    PROVE  /\ Parted(Union(C, e), T)
           /\ LET x == ComponentOf(C, e.a)
                  y == ComponentOf(C, e.b)
              IN  \/ x = y /\ Union(C, e) = C
                  \/ x # y /\ Union(C, e) = (C \ {x, y}) \cup {Merged(x, y, e)}
<1> DEFINE x == ComponentOf(C, e.a)
           y == ComponentOf(C, e.b)
           z == Merged(x, y, e)
<1>1. x \in C /\ y \in C /\ e.a \in x.members /\ e.b \in y.members
  BY ComponentOfToken
<1>2. x = y => Union(C, e) = C
  BY DEF Union
<1>3. x # y => Union(C, e) = (C \ {x, y}) \cup {z}
  BY DEF Union, Merged
<1> HIDE DEF x, y
<1>4. /\ x.members \subseteq T /\ y.members \subseteq T
      /\ x.weakest \in 0 .. FeedbackConfidence /\ y.weakest \in 0 .. FeedbackConfidence
  BY <1>1 DEF Parted, Component
<1>5. Least({x.weakest, y.weakest, e.confidence}) \in 0 .. FeedbackConfidence
  <2>1. x.weakest \in Nat /\ y.weakest \in Nat /\ e.confidence \in Nat /\ FeedbackConfidence \in Nat
    BY <1>4 DEF FeedbackConfidence
  <2> DEFINE m == Least({x.weakest, y.weakest, e.confidence})
  <2>2. m \in {x.weakest, y.weakest, e.confidence}
    BY <2>1, LeastOfThree
  <2> HIDE DEF m
  <2>3. m \in 0 .. FeedbackConfidence
    BY <1>4, <2>2
  <2> QED
    BY <2>3 DEF m
<1>6. z \in Component(T) /\ z.members = x.members \cup y.members
  BY <1>4, <1>5 DEF Merged, Component
<1> HIDE DEF z
<1>7. ASSUME x # y PROVE Parted((C \ {x, y}) \cup {z}, T)
  <2> DEFINE D == (C \ {x, y}) \cup {z}
  <2>1. D \subseteq Component(T)
    BY <1>6 DEF Parted
  <2>2. \A c \in D : c.members # {}
    BY <1>1, <1>6 DEF Parted
  <2>3. \A t \in T : \E c \in D : t \in c.members
    <3> TAKE t \in T
    <3>1. PICK c \in C : t \in c.members
      BY DEF Parted
    <3> QED
      BY <1>6, <3>1
  <2>4. \A c \in C \ {x, y} : c.members \cap z.members = {}
    BY <1>1, <1>6 DEF Parted
  <2>5. \A c, d \in D : c # d => c.members \cap d.members = {}
    BY <2>4 DEF Parted
  <2> QED
    BY <2>1, <2>2, <2>3, <2>5 DEF Parted
<1> QED
  BY <1>2, <1>3, <1>7 DEF x, y, z

\* The states of the union-find, one edge at a time.
IsMerging(E, T, f, n) ==
    f = [i \in 0 .. n |-> IF i = 0 THEN Alone(T) ELSE Union(f[i - 1], InOrder(E)[i])]

LEMMA AloneParts == \A T : Parted(Alone(T), T)
<1> TAKE T
<1>1. FeedbackConfidence \in 0 .. FeedbackConfidence
  BY DEF FeedbackConfidence
<1>2. Alone(T) \subseteq Component(T)
  BY <1>1 DEF Alone, Component
<1>3. \A c \in Alone(T) : \E t \in T : c.members = {t}
  BY DEF Alone
<1>4. \A t \in T : \E c \in Alone(T) : t \in c.members
  <2> TAKE t \in T
  <2> DEFINE c == [members |-> {t}, weakest |-> FeedbackConfidence]
  <2>1. c \in Alone(T) /\ t \in c.members
    BY DEF Alone
  <2> QED
    BY <2>1
<1>5. \A c, d \in Alone(T) : c # d => c.members \cap d.members = {}
  BY DEF Alone
<1> QED
  BY <1>2, <1>3, <1>4, <1>5 DEF Parted

(* The components of a pass are the last of them.                          *)
LEMMA ComponentsAreLast ==
    ASSUME NEW E, EdgeSet(E), NEW N
    PROVE  \E f : /\ IsMerging(E, TokensOf(N, E), f, Cardinality(E))
                  /\ \A i \in 0 .. Cardinality(E) : Parted(f[i], TokensOf(N, E))
                  /\ Components(N, E) = f[Cardinality(E)]
<1>1. PICK n \in Nat : n = Cardinality(E)
  BY EdgeRanks
<1>2. PICK T : T = TokensOf(N, E)
  OBVIOUS
<1> DEFINE S == {C \in SUBSET Component(T) : Parted(C, T)}
           F == [i \in 1 .. n |-> [C \in S |-> Union(C, InOrder(E)[i])]]
<1>3. \A i \in 1 .. n : /\ InOrder(E)[i] \in E /\ InOrder(E)[i].confidence \in 0 .. FeedbackConfidence
                        /\ InOrder(E)[i].a \in T /\ InOrder(E)[i].b \in T
  <2>1. \A i \in 1 .. n : InOrder(E)[i] \in E
    BY <1>1, InOrderLists
  <2> QED
    BY <1>2, <2>1 DEF EdgeSet, TokensOf
<1>4. \A i \in 1 .. n : \A C \in S : Union(C, InOrder(E)[i]) \in S
  <2> TAKE i \in 1 .. n
  <2> TAKE C \in S
  <2>1. Parted(Union(C, InOrder(E)[i]), T)
    BY <1>3, UnionParts
  <2> QED
    BY <2>1 DEF Parted
<1>5. Alone(T) \in S
  BY AloneParts DEF Parted
<1>6. F \in [1 .. n -> [S -> S]]
  BY <1>4
<1>7. PICK g : Walks(g, n, S, Alone(T), F)
  <2> HIDE DEF F, S
  <2> QED
    BY <1>5, <1>6, StepsExist
<1>8. g \in [0 .. n -> S] /\ g[0] = Alone(T) /\ \A i \in 1 .. n : g[i] = F[i][g[i - 1]]
  BY <1>7 DEF Walks
<1>9. \A i \in 0 .. n : g[i] = IF i = 0 THEN Alone(T) ELSE Union(g[i - 1], InOrder(E)[i])
  <2> TAKE i \in 0 .. n
  <2>1. CASE i = 0
    BY <1>8, <2>1
  <2>2. CASE i # 0
    <3>1. i \in 1 .. n /\ i - 1 \in 0 .. n
      BY <2>2
    <3>2. g[i - 1] \in S
      BY <1>8, <3>1
    <3>3. F[i][g[i - 1]] = Union(g[i - 1], InOrder(E)[i])
      BY <3>1, <3>2
    <3> QED
      BY <1>8, <2>2, <3>1, <3>3
  <2> QED
    BY <2>1, <2>2
<1>10. IsMerging(E, T, g, n)
  <2>1. g = [i \in 0 .. n |-> g[i]]
    BY <1>8
  <2> QED
    BY <1>9, <2>1 DEF IsMerging
<1> DEFINE h == CHOOSE f : f = [i \in 0 .. n |-> IF i = 0 THEN Alone(T) ELSE Union(f[i - 1], InOrder(E)[i])]
<1>11. IsMerging(E, T, h, n)
  BY <1>10, Zenon DEF IsMerging
<1>12. Components(N, E) = h[n]
  BY <1>1, <1>2 DEF Components, TokensOf, Alone
<1> HIDE DEF h
<1>13. \A i \in 0 .. n : h[i] = IF i = 0 THEN Alone(T) ELSE Union(h[i - 1], InOrder(E)[i])
  BY <1>11, Zenon DEF IsMerging
<1>14. \A i \in 0 .. n : Parted(h[i], T)
  <2> DEFINE G == {i \in Nat : i <= n => Parted(h[i], T)}
  <2>1. 0 \in G
    <3>1. h[0] = Alone(T)
      BY <1>13
    <3> QED
      BY <3>1, AloneParts
  <2>2. ASSUME NEW i \in Nat, i < n, i \in G PROVE i + 1 \in G
    <3>1. i + 1 \in 0 .. n /\ i + 1 \in 1 .. n /\ i + 1 # 0 /\ (i + 1) - 1 = i
      BY <2>2
    <3>2. h[i + 1] = Union(h[i], InOrder(E)[i + 1])
      BY <1>13, <3>1
    <3>3. Parted(h[i], T)
      BY <2>2
    <3> QED
      BY <1>3, <3>1, <3>2, <3>3, UnionParts
  <2> HIDE DEF G
  <2>3. 0 .. n \subseteq G
    BY <2>1, <2>2, NumberByNumber
  <2> QED
    BY <2>3 DEF G
<1> QED
  BY <1>1, <1>2, <1>11, <1>12, <1>14

\* After i edges their ends are together; a component holds together by edges
\* no weaker than its weakest, and falls apart without that one.
Bound(E, c) == \A t \in c.members : c.members \subseteq Reach(AtLeast(E, c.weakest), t)
Lone(c) == c.weakest = FeedbackConfidence /\ \E t : c.members = {t}
FallsApart(E, c) ==
    \A k \in Nat : k > c.weakest => \A t \in c.members : ~ (c.members \subseteq Reach(AtLeast(E, k), t))
Tied(E, c, i) ==
    /\ \E s, t \in c.members : s # t
    /\ \E j \in 1 .. i : c.weakest = InOrder(E)[j].confidence
    /\ FallsApart(E, c)
EndsTogether(E, C, i) ==
    \A j \in 1 .. i : \E c \in C : InOrder(E)[j].a \in c.members /\ InOrder(E)[j].b \in c.members
Stage(E, C, i) ==
    /\ EndsTogether(E, C, i)
    /\ \A c \in C : Bound(E, c) /\ (Lone(c) \/ Tied(E, c, i))

(* What two components are made of when the ends of the next edge are in   *)
(* them: the edge is their weakest, and only it joins them.                *)
LEMMA MergedIsTied ==
    ASSUME NEW E, EdgeSet(E), NEW T, NEW C, Parted(C, T),
           NEW i \in 0 .. Cardinality(E) - 1, Stage(E, C, i),
           NEW x \in C, NEW y \in C, x # y,
           InOrder(E)[i + 1].a \in x.members, InOrder(E)[i + 1].b \in y.members
    PROVE  LET z == Merged(x, y, InOrder(E)[i + 1]) IN Bound(E, z) /\ Tied(E, z, i + 1)
<1> DEFINE e == InOrder(E)[i + 1]
           w == e.confidence
           z == Merged(x, y, e)
<1>0. Cardinality(E) \in Nat /\ i + 1 \in 1 .. Cardinality(E) /\ IsFiniteSet(E)
  BY EdgeRanks DEF EdgeSet
<1>1. e \in E /\ w \in Nat /\ w <= FeedbackConfidence
  BY <1>0, InOrderLists DEF EdgeSet, FeedbackConfidence
<1>2. \A c \in C : c.weakest \in Nat /\ w <= c.weakest
  <2> TAKE c \in C
  <2>1. CASE Lone(c)
    BY <1>1, <2>1 DEF Lone, FeedbackConfidence
  <2>2. CASE Tied(E, c, i)
    <3>1. PICK j \in 1 .. i : c.weakest = InOrder(E)[j].confidence
      BY <2>2 DEF Tied
    <3>2. j \in 1 .. Cardinality(E) /\ j <= i + 1
      BY <1>0
    <3>3. InOrder(E)[j].confidence >= w
      BY <1>0, <3>2, InOrderLists
    <3>4. c.weakest \in Nat
      BY DEF Parted, Component
    <3> QED
      BY <1>1, <3>1, <3>3, <3>4
  <2> QED
    BY <2>1, <2>2 DEF Stage
<1> HIDE DEF w
<1>3. z.members = x.members \cup y.members /\ z.weakest = w
  <2>1. x.weakest \in Nat /\ y.weakest \in Nat /\ w <= x.weakest /\ w <= y.weakest
    BY <1>2
  <2> DEFINE m == Least({x.weakest, y.weakest, w})
  <2>2. m \in {x.weakest, y.weakest, w} /\ m <= w
    BY <1>1, <2>1, LeastOfThree
  <2> HIDE DEF m
  <2>3. m = w
    BY <1>1, <2>1, <2>2
  <2> QED
    BY <2>3 DEF Merged, m, w
<1>4. \A k : IsFiniteSet(AtLeast(E, k)) /\ AtLeast(E, k) \subseteq E
  BY <1>0, FS_Subset DEF AtLeast
<1>5. \A c \in C : AtLeast(E, c.weakest) \subseteq AtLeast(E, w)
  <2> TAKE c \in C
  <2>1. \A f \in E : f.confidence \in Nat
    BY DEF EdgeSet, FeedbackConfidence
  <2> QED
    BY <1>1, <1>2, <2>1 DEF AtLeast
<1>6. e \in AtLeast(E, w)
  BY <1>1 DEF AtLeast, w
<1> HIDE DEF z, e
<1>7. e.a \in x.members /\ e.b \in y.members
  BY DEF e
<1>8. \A c \in C : \A t \in c.members : c.members \subseteq Reach(AtLeast(E, w), t)
  <2> TAKE c \in C
  <2> TAKE t \in c.members
  <2>1. c.members \subseteq Reach(AtLeast(E, c.weakest), t)
    BY DEF Stage, Bound
  <2>2. Reach(AtLeast(E, c.weakest), t) \subseteq Reach(AtLeast(E, w), t)
    BY <1>4, <1>5, ReachLess
  <2> QED
    BY <2>1, <2>2
<1>9. \A t \in x.members \cup y.members : x.members \cup y.members \subseteq Reach(AtLeast(E, w), t)
  <2> DEFINE R(t) == Reach(AtLeast(E, w), t)
  <2>1. e.b \in R(e.a)
    BY <1>4, <1>6, ReachIsLeast DEF ClosedUnder
  <2>2. x.members \subseteq R(e.a) /\ y.members \subseteq R(e.b)
    BY <1>7, <1>8
  <2>3. R(e.b) = R(e.a)
    BY <1>4, <2>1, ReachSame
  <2>4. \A t \in x.members \cup y.members : R(t) = R(e.a)
    <3> TAKE t \in x.members \cup y.members
    <3>1. t \in R(e.a)
      BY <2>2, <2>3
    <3> QED
      BY <1>4, <3>1, ReachSame
  <2> QED
    BY <2>2, <2>3, <2>4
<1>10. Bound(E, z)
  BY <1>3, <1>9 DEF Bound
\* The edges stronger than this one have all been merged, within components.
<1>11. ASSUME NEW k \in Nat, k > w, NEW c \in C, NEW t \in c.members
       PROVE  Reach(AtLeast(E, k), t) \subseteq c.members
  <2>1. ClosedUnder(AtLeast(E, k), c.members)
    <3> SUFFICES ASSUME NEW f \in AtLeast(E, k) PROVE f.a \in c.members <=> f.b \in c.members
      BY DEF ClosedUnder
    <3>1. f \in E /\ f.confidence \in Nat /\ f.confidence > w
      BY <1>1, <1>11 DEF AtLeast, EdgeSet, FeedbackConfidence
    <3>2. PICK j \in 1 .. Cardinality(E) : InOrder(E)[j] = f
      BY <3>1, InOrderLists
    <3>3. j <= i
      <4> SUFFICES ASSUME ~ (j <= i) PROVE FALSE
        OBVIOUS
      <4>1. i + 1 <= j
        BY <1>0
      <4>2. w >= f.confidence
        BY <1>0, <3>2, <4>1, InOrderLists DEF e, w
      <4> QED
        BY <1>1, <3>1, <4>2
    <3>4. j \in 1 .. i
      BY <1>0, <3>3
    <3>5. PICK d \in C : f.a \in d.members /\ f.b \in d.members
      BY <3>2, <3>4 DEF Stage, EndsTogether
    <3> QED
      BY <3>5 DEF Parted
  <2> QED
    BY <1>4, <2>1, ReachIsLeast
<1>12. x.members # {} /\ y.members # {} /\ x.members \cap y.members = {}
  BY DEF Parted
<1>13. FallsApart(E, z)
  <2> SUFFICES ASSUME NEW k \in Nat, k > w, NEW t \in x.members \cup y.members
               PROVE  ~ (x.members \cup y.members \subseteq Reach(AtLeast(E, k), t))
    BY <1>3 DEF FallsApart
  <2>1. CASE t \in x.members
    BY <1>11, <1>12, <2>1
  <2>2. CASE t \in y.members
    BY <1>11, <1>12, <2>2
  <2> QED
    BY <2>1, <2>2
<1>14. \E s, t \in z.members : s # t
  BY <1>3, <1>7, <1>12
<1>15. \E j \in 1 .. i + 1 : z.weakest = InOrder(E)[j].confidence
  <2>1. i + 1 \in 1 .. i + 1
    BY <1>0
  <2> QED
    BY <1>3, <2>1 DEF e, w
<1> QED
  BY <1>10, <1>13, <1>14, <1>15 DEF Tied, z, e

(* So the next edge takes one stage to the next.                           *)
LEMMA StageStep ==
    ASSUME NEW E, EdgeSet(E), NEW T, NEW C, Parted(C, T),
           NEW i \in 0 .. Cardinality(E) - 1, Stage(E, C, i),
           InOrder(E)[i + 1].a \in T, InOrder(E)[i + 1].b \in T
    PROVE  Stage(E, Union(C, InOrder(E)[i + 1]), i + 1)
<1> DEFINE e == InOrder(E)[i + 1]
           x == ComponentOf(C, e.a)
           y == ComponentOf(C, e.b)
           z == Merged(x, y, e)
           D == Union(C, e)
<1>0. Cardinality(E) \in Nat /\ i + 1 \in 1 .. Cardinality(E) /\ i \in Nat
  BY EdgeRanks
<1>1. e.confidence \in 0 .. FeedbackConfidence
  BY <1>0, InOrderLists DEF EdgeSet
<1>2. \/ x = y /\ D = C
      \/ x # y /\ D = (C \ {x, y}) \cup {z}
  BY <1>1, UnionParts
<1>3. x \in C /\ y \in C /\ e.a \in x.members /\ e.b \in y.members
  BY ComponentOfToken
<1>4. x # y => Bound(E, z) /\ Tied(E, z, i + 1)
  <2> HIDE DEF x, y
  <2> QED
    BY <1>3, MergedIsTied
<1>5. \A c \in C : Tied(E, c, i) => Tied(E, c, i + 1)
  <2>1. \A j \in 1 .. i : j \in 1 .. i + 1
    BY <1>0
  <2> QED
    BY <2>1 DEF Tied
<1>6. z.members = x.members \cup y.members
  BY DEF Merged
<1> HIDE DEF x, y, z, D
<1>7. \A c \in D : Bound(E, c) /\ (Lone(c) \/ Tied(E, c, i + 1))
  BY <1>2, <1>4, <1>5 DEF Stage
<1>8. \A c \in C : \E d \in D : c.members \subseteq d.members
  BY <1>2, <1>6
<1>9. \E d \in D : e.a \in d.members /\ e.b \in d.members
  BY <1>2, <1>3, <1>6
<1>10. EndsTogether(E, D, i + 1)
  <2> SUFFICES ASSUME NEW j \in 1 .. i + 1
               PROVE  \E d \in D : InOrder(E)[j].a \in d.members /\ InOrder(E)[j].b \in d.members
    BY DEF EndsTogether
  <2>1. CASE j = i + 1
    BY <1>9, <2>1
  <2>2. CASE j # i + 1
    <3>1. j \in 1 .. i
      BY <1>0, <2>2
    <3>2. PICK c \in C : InOrder(E)[j].a \in c.members /\ InOrder(E)[j].b \in c.members
      BY <3>1 DEF Stage, EndsTogether
    <3> QED
      BY <1>8, <3>2
  <2> QED
    BY <2>1, <2>2
<1> QED
  BY <1>7, <1>10 DEF Stage, D

(* When all edges are merged, a component is what its tokens reach, also   *)
(* with the edges as strong as its weakest only, and with none stronger.   *)
LEMMA ComponentsAreReach ==
    ASSUME NEW E, EdgeSet(E), NEW N
    PROVE  /\ Parted(Components(N, E), TokensOf(N, E))
           /\ \A c \in Components(N, E) : \A t \in c.members :
                /\ c.members = Reach(E, t)
                /\ \/ c.members = {t} /\ c.weakest = FeedbackConfidence
                   \/ /\ c.members # {t}
                      /\ c.weakest \in {e.confidence : e \in E} /\ Holds(E, t, c.weakest)
                      /\ \A k \in Nat : k > c.weakest => ~ Holds(E, t, k)
<1> DEFINE T == TokensOf(N, E)
<1>1. PICK n \in Nat : n = Cardinality(E)
  BY EdgeRanks
<1>2. PICK f : /\ IsMerging(E, T, f, n)
               /\ \A i \in 0 .. n : Parted(f[i], T)
               /\ Components(N, E) = f[n]
  BY <1>1, ComponentsAreLast
<1>3. \A i \in 0 .. n : f[i] = IF i = 0 THEN Alone(T) ELSE Union(f[i - 1], InOrder(E)[i])
  BY <1>2, Zenon DEF IsMerging
<1>4. IsFiniteSet(E) /\ \A k : IsFiniteSet(AtLeast(E, k)) /\ AtLeast(E, k) \subseteq E
  BY FS_Subset DEF EdgeSet, AtLeast
<1>5. \A i \in 0 .. n : Stage(E, f[i], i)
  <2> DEFINE G == {i \in Nat : i <= n => Stage(E, f[i], i)}
  <2>1. 0 \in G
    <3>1. f[0] = Alone(T)
      BY <1>3
    <3>2. EndsTogether(E, Alone(T), 0)
      BY DEF EndsTogether
    <3>3. ASSUME NEW c \in Alone(T) PROVE Bound(E, c) /\ Lone(c)
      <4>1. PICK t \in T : c = [members |-> {t}, weakest |-> FeedbackConfidence]
        BY DEF Alone
      <4>2. c.members = {t} /\ c.weakest = FeedbackConfidence
        BY <4>1
      <4>3. t \in Reach(AtLeast(E, c.weakest), t)
        BY <1>4, ReachIsLeast
      <4> QED
        BY <4>2, <4>3 DEF Bound, Lone
    <3> QED
      BY <3>1, <3>2, <3>3 DEF Stage
  <2>2. ASSUME NEW i \in Nat, i < n, i \in G PROVE i + 1 \in G
    <3>1. i + 1 \in 0 .. n /\ i + 1 \in 1 .. n /\ i + 1 # 0 /\ (i + 1) - 1 = i /\ i \in 0 .. n /\ i \in 0 .. n - 1
      BY <2>2
    <3>2. f[i + 1] = Union(f[i], InOrder(E)[i + 1])
      BY <1>3, <3>1
    <3>3. Parted(f[i], T) /\ Stage(E, f[i], i)
      BY <1>2, <2>2, <3>1
    <3>4. InOrder(E)[i + 1] \in E
      BY <1>1, <3>1, InOrderLists
    <3>5. InOrder(E)[i + 1].a \in T /\ InOrder(E)[i + 1].b \in T
      BY <3>4 DEF TokensOf
    <3> HIDE DEF T
    <3>6. Stage(E, f[i + 1], i + 1)
      BY <1>1, <3>1, <3>2, <3>3, <3>5, StageStep
    <3> QED
      BY <3>6
  <2> HIDE DEF G
  <2>3. 0 .. n \subseteq G
    BY <2>1, <2>2, NumberByNumber
  <2> QED
    BY <2>3 DEF G
<1> DEFINE C == Components(N, E)
<1>6. Parted(C, T) /\ Stage(E, C, n)
  BY <1>2, <1>5
<1> HIDE DEF C
<1>7. \A e \in E : \E c \in C : e.a \in c.members /\ e.b \in c.members
  <2> TAKE e \in E
  <2>1. PICK j \in 1 .. n : InOrder(E)[j] = e
    BY <1>1, InOrderLists
  <2> QED
    BY <1>6, <2>1 DEF Stage, EndsTogether
<1>8. \A c \in C : ClosedUnder(E, c.members)
  <2> TAKE c \in C
  <2> SUFFICES ASSUME NEW e \in E PROVE e.a \in c.members <=> e.b \in c.members
    BY DEF ClosedUnder
  <2>1. PICK d \in C : e.a \in d.members /\ e.b \in d.members
    BY <1>7
  <2> QED
    BY <1>6, <2>1 DEF Parted
<1>9. ASSUME NEW c \in C, NEW t \in c.members
      PROVE  c.members = Reach(E, t) /\ c.members = Reach(AtLeast(E, c.weakest), t)
  <2>1. c.members \subseteq Reach(AtLeast(E, c.weakest), t)
    BY <1>6 DEF Stage, Bound
  <2>2. Reach(AtLeast(E, c.weakest), t) \subseteq Reach(E, t)
    BY <1>4, ReachLess
  <2>3. Reach(E, t) \subseteq c.members
    BY <1>4, <1>8, ReachIsLeast
  <2> QED
    BY <2>1, <2>2, <2>3
<1>10. ASSUME NEW c \in C, NEW t \in c.members
       PROVE  \/ c.members = {t} /\ c.weakest = FeedbackConfidence
              \/ /\ c.members # {t}
                 /\ c.weakest \in {e.confidence : e \in E} /\ Holds(E, t, c.weakest)
                 /\ \A k \in Nat : k > c.weakest => ~ Holds(E, t, k)
  <2>1. CASE Lone(c)
    BY <1>10, <2>1 DEF Lone
  <2>2. CASE Tied(E, c, n)
    <3>1. c.members # {t}
      BY <2>2 DEF Tied
    <3>2. c.weakest \in {e.confidence : e \in E}
      <4>1. PICK j \in 1 .. n : c.weakest = InOrder(E)[j].confidence
        BY <2>2 DEF Tied
      <4>2. InOrder(E)[j] \in E
        BY <1>1, InOrderLists
      <4> QED
        BY <4>1, <4>2
    <3>3. Holds(E, t, c.weakest)
      BY <1>9 DEF Holds, AtLeast
    <3>4. ASSUME NEW k \in Nat, k > c.weakest PROVE ~ Holds(E, t, k)
      <4>1. ~ (c.members \subseteq Reach(AtLeast(E, k), t))
        BY <1>10, <2>2, <3>4 DEF Tied, FallsApart
      <4> QED
        BY <1>9, <4>1 DEF Holds, AtLeast
    <3> QED
      BY <3>1, <3>2, <3>3, <3>4
  <2> QED
    BY <1>6, <2>1, <2>2 DEF Stage
<1> QED
  BY <1>6, <1>9, <1>10 DEF C

-----------------------------------------------------------------------------
(* Identities.                                                             *)
\* What `Resolve` makes of the components when no prior is passed on.
Resolved(N, E) ==
    {[members |-> c.members, rep |-> Representative(c.members, {}), band |-> FromScore(c.weakest)] :
        c \in Components(N, E)}

(* A token stands under the least of its component, banded by its weakest. *)
LEMMA ResolvedToken ==
    ASSUME NEW E, EdgeSet(E), NEW N, NEW t \in TokensOf(N, E)
    PROVE  \E c \in Components(N, E) :
              /\ t \in c.members
              /\ RepresentativeOf(Resolved(N, E), t) = Least(c.members)
              /\ BandOf(Resolved(N, E), t) = FromScore(c.weakest)
<1> DEFINE R == Resolved(N, E)
           id(c) == [members |-> c.members, rep |-> Representative(c.members, {}), band |-> FromScore(c.weakest)]
<1>1. Parted(Components(N, E), TokensOf(N, E))
  BY ComponentsAreReach
<1>2. PICK c \in Components(N, E) : t \in c.members
  BY <1>1 DEF Parted
<1>3. \A d \in Components(N, E) : t \in d.members => d = c
  BY <1>1, <1>2 DEF Parted
<1>4. \A r \in R : \E d \in Components(N, E) : r = id(d)
  BY DEF Resolved
<1>5. id(c) \in R /\ t \in id(c).members
  BY <1>2 DEF Resolved
<1>6. \A r \in R : t \in r.members => r = id(c)
  <2> TAKE r \in R
  <2> HAVE t \in r.members
  <2>1. PICK d \in Components(N, E) : r = id(d)
    BY <1>4
  <2>2. t \in d.members
    BY <2>1
  <2> QED
    BY <1>3, <2>1, <2>2
<1> HIDE DEF R
<1>7. Seen(R, t) /\ IdentityOf(R, t) = id(c)
  <2>1. Seen(R, t)
    BY <1>5 DEF Seen
  <2>2. IdentityOf(R, t) \in R /\ t \in IdentityOf(R, t).members
    BY <1>5 DEF IdentityOf
  <2> QED
    BY <1>6, <2>1, <2>2
<1>8. RepresentativeOf(R, t) = Least(c.members)
  BY <1>7 DEF RepresentativeOf, Representative
<1>9. BandOf(R, t) = FromScore(c.weakest)
  BY <1>7 DEF BandOf
<1> QED
  BY <1>2, <1>8, <1>9 DEF R

(* Single linkage is reachability: the code's resolver and the reference   *)
(* definition agree on every set of edges.                                 *)
LEMMA ResolvedIsReach ==
    ASSUME NEW E, EdgeSet(E), NEW N, NEW t \in TokensOf(N, E)
    PROVE  /\ RepresentativeOf(Resolved(N, E), t) = Min(Reach(E, t))
           /\ BandOf(Resolved(N, E), t) = WidestBand(E, t)
<1>1. PICK c \in Components(N, E) :
        /\ t \in c.members
        /\ RepresentativeOf(Resolved(N, E), t) = Least(c.members)
        /\ BandOf(Resolved(N, E), t) = FromScore(c.weakest)
  BY ResolvedToken
<1>2. c.members = Reach(E, t)
  BY <1>1, ComponentsAreReach
<1>3. Least(c.members) = Min(Reach(E, t))
  BY <1>2 DEF Least, Min
<1>4. CASE c.members = {t} /\ c.weakest = FeedbackConfidence
  BY <1>1, <1>2, <1>3, <1>4 DEF WidestBand, FromScore, FeedbackConfidence
<1>5. CASE /\ c.members # {t}
           /\ c.weakest \in {e.confidence : e \in E} /\ Holds(E, t, c.weakest)
           /\ \A k \in Nat : k > c.weakest => ~ Holds(E, t, k)
  <2> DEFINE K == {k \in {e.confidence : e \in E} : Holds(E, t, k)}
  <2>1. K \subseteq Nat /\ c.weakest \in K
    BY <1>5 DEF EdgeSet, FeedbackConfidence
  <2>2. \A k \in K : ~ (k > c.weakest)
    BY <1>5, <2>1
  <2>3. PICK w : w = c.weakest
    OBVIOUS
  <2> HIDE DEF K
  <2>4. w \in Nat /\ w \in K /\ \A k \in K : k \in Nat /\ ~ (k > w)
    BY <2>1, <2>2, <2>3
  <2>5. \A k \in K : w >= k
    BY <2>4
  <2>6. \A m \in K : (\A k \in K : m >= k) => m = w
    BY <2>4, <2>5
  <2>7. Greatest(K) = c.weakest
    BY <2>3, <2>4, <2>5, <2>6 DEF Greatest
  <2>8. WidestBand(E, t) = FromScore(Greatest(K))
    BY <1>2, <1>5 DEF WidestBand, K
  <2> QED
    BY <1>1, <1>3, <2>7, <2>8
<1> QED
  BY <1>1, <1>4, <1>5, ComponentsAreReach

(* Tokens that an edge ties are one identity.                              *)
LEMMA EndsAreOne ==
    ASSUME NEW E, EdgeSet(E), NEW N, NEW e \in E
    PROVE  RepresentativeOf(Resolved(N, E), e.a) = RepresentativeOf(Resolved(N, E), e.b)
<1>1. e.a \in TokensOf(N, E) /\ e.b \in TokensOf(N, E)
  BY DEF TokensOf
<1>2. Reach(E, e.a) = Reach(E, e.b)
  <2>1. IsFiniteSet(E)
    BY DEF EdgeSet
  <2>2. e.b \in Reach(E, e.a)
    BY <2>1, ReachIsLeast DEF ClosedUnder
  <2> QED
    BY <2>1, <2>2, ReachSame
<1> QED
  BY <1>1, <1>2, ResolvedIsReach

-----------------------------------------------------------------------------
(* The edges of a pass.                                                    *)
LEMMA TokenPairs ==
    /\ IsFiniteSet(Tokens \X Tokens)
    /\ \A p \in Tokens \X Tokens : p = <<p[1], p[2]>> /\ p[1] \in Tokens /\ p[2] \in Tokens
    /\ \A x \in Tokens : x \in Nat
BY FS_Product, LoopAssumption

\* A finite set has a finite image.
LEMMA FiniteImage ==
    ASSUME NEW S, IsFiniteSet(S), NEW f
    PROVE  IsFiniteSet({f[x] : x \in S})
<1> DEFINE T == {f[x] : x \in S}
           g == [x \in S |-> f[x]]
<1>1. g \in Surjection(S, T)
  BY DEF Surjection
<1> HIDE DEF T, g
<1>2. IsFiniteSet(T)
  BY <1>1, FS_Surjection
<1> QED
  BY <1>2 DEF T

LEMMA NodesAreTokens == Nodes \subseteq Tokens
<1>1. \A s \in Sources : Mentions[s] \subseteq Tokens
  BY LoopAssumption DEF Sources
<1> QED
  BY <1>1 DEF Nodes

LEMMA EligibleIsEdgeSet == EdgeSet(Eligible(Edges, Vetoes, Theta))
<1> DEFINE M == {Edge(p[1], p[2], FeedbackConfidence) : p \in MustLinks}
           Q == {q \in Nodes \X Nodes : /\ q[1] < q[2] /\ q \notin Vetoes
                                        /\ Kind[q[1]] = Kind[q[2]]
                                        /\ Similarity[q] >= Theta}
           L == {Edge(p[1], p[2], LexicalConfidence(Similarity[p])) : p \in Q}
<1>1. MustLinks \subseteq Tokens \X Tokens /\ Q \subseteq Tokens \X Tokens
  BY NodesAreTokens DEF MustLinks
<1>2. IsFiniteSet(M)
  <2> DEFINE f == [p \in Tokens \X Tokens |-> Edge(p[1], p[2], FeedbackConfidence)]
  <2>1. IsFiniteSet(MustLinks)
    BY <1>1, TokenPairs, FS_Subset
  <2>2. M = {f[p] : p \in MustLinks}
    BY <1>1
  <2> HIDE DEF M, f
  <2> QED
    BY <2>1, <2>2, FiniteImage
<1>3. IsFiniteSet(L)
  <2> DEFINE f == [p \in Tokens \X Tokens |-> Edge(p[1], p[2], LexicalConfidence(Similarity[p]))]
  <2> HIDE DEF Q
  <2>1. IsFiniteSet(Q)
    BY <1>1, TokenPairs, FS_Subset
  <2>2. L = {f[p] : p \in Q}
    BY <1>1
  <2> HIDE DEF L, f
  <2> QED
    BY <2>1, <2>2, FiniteImage
<1>4. Edges = M \cup L
  BY DEF Edges, LexicalEdges
<1>5. IsFiniteSet(Eligible(Edges, Vetoes, Theta))
  <2>1. IsFiniteSet(Edges)
    <3> HIDE DEF M, L
    <3> QED
      BY <1>2, <1>3, <1>4, FS_Union
  <2> QED
    BY <2>1, FS_Subset DEF Eligible
<1> DEFINE Typed == [a : Nat, b : Nat, confidence : 0 .. FeedbackConfidence]
<1>6. M \subseteq Typed
  <2> SUFFICES ASSUME NEW p \in MustLinks PROVE Edge(p[1], p[2], FeedbackConfidence) \in Typed
    OBVIOUS
  <2>1. p[1] \in Nat /\ p[2] \in Nat
    BY <1>1, TokenPairs
  <2> QED
    BY <2>1 DEF Edge, FeedbackConfidence
<1>7. L \subseteq Typed
  <2> SUFFICES ASSUME NEW p \in Q PROVE Edge(p[1], p[2], LexicalConfidence(Similarity[p])) \in Typed
    OBVIOUS
  <2>1. p \in Tokens \X Tokens
    BY <1>1
  <2> HIDE DEF Q
  <2>2. p[1] \in Nat /\ p[2] \in Nat
    BY <2>1, TokenPairs
  <2>3. Similarity[p] \in 0 .. 100
    BY <2>1, LoopAssumption
  <2>4. LexicalConfidence(Similarity[p]) \in 0 .. FeedbackConfidence
    BY <2>3 DEF LexicalConfidence, FeedbackConfidence
  <2> QED
    BY <2>2, <2>4 DEF Edge
<1>8. Eligible(Edges, Vetoes, Theta) \subseteq Typed
  BY <1>4, <1>6, <1>7 DEF Eligible
<1> QED
  BY <1>5, <1>8 DEF EdgeSet

(* Identities are the components under the eligible edges.                 *)
LEMMA IdentitiesResolved == Identities = Resolved(Nodes, Eligible(Edges, Vetoes, Theta))
BY DEF Identities, Resolve, Resolved

(* IdentityIsReachability holds in every state: whatever was asserted and  *)
(* whatever stories are live, the resolver computes connectivity.          *)
THEOREM IdentityIsReachabilityCorrect == LoopSpec => []IdentityIsReachability
<1>1. IdentityIsReachability
  <2> DEFINE E == Eligible(Edges, Vetoes, Theta)
  <2>1. EdgeSet(E)
    BY EligibleIsEdgeSet
  <2>2. ASSUME NEW x \in Nodes
        PROVE  RepresentativeOf(Identities, x) = Min(Reach(E, x)) /\ BandOf(Identities, x) = WidestBand(E, x)
    <3>1. x \in TokensOf(Nodes, E)
      BY DEF TokensOf
    <3>2. Identities = Resolved(Nodes, E)
      BY IdentitiesResolved
    <3> HIDE DEF E
    <3> QED
      BY <2>1, <3>1, <3>2, ResolvedIsReach
  <2> QED
    BY <2>2 DEF IdentityIsReachability
<1> QED
  BY <1>1, PTL

-----------------------------------------------------------------------------
(* What the reader said last of a pair is in the row of one of its orders. *)
HeardInv ==
    /\ assertion \in [Tokens \X Tokens -> Assertions] /\ said \in [Pairs -> Assertions]
    /\ \A p \in Pairs : said[p] # "none" =>
          \E q \in Tokens \X Tokens : Pair(q[1], q[2]) = p /\ assertion[q] = said[p]

LEMMA HeardStarts == LoopInit => HeardInv
BY DEF LoopInit, HeardInv, Assertions

LEMMA HeardKept == HeardInv /\ [LoopNext]_loopVars => HeardInv'
<1> SUFFICES ASSUME HeardInv, [LoopNext]_loopVars PROVE HeardInv'
  OBVIOUS
<1>1. ASSUME NEW p \in Correctable, NEW sign \in {"must", "cannot"}, CorrectEntity(p, sign)
      PROVE  HeardInv'
  <2>1. p \in Tokens \X Tokens
    BY LoopAssumption
  <2>2. assertion' = [assertion EXCEPT ![p] = sign] /\ said' = [said EXCEPT ![Pair(p[1], p[2])] = sign]
    BY <1>1 DEF CorrectEntity, Upserted
  <2>3. assertion' \in [Tokens \X Tokens -> Assertions] /\ said' \in [Pairs -> Assertions]
    BY <2>2 DEF HeardInv, Assertions
  <2>4. ASSUME NEW r \in Pairs, said'[r] # "none"
        PROVE  \E q \in Tokens \X Tokens : Pair(q[1], q[2]) = r /\ assertion'[q] = said'[r]
    <3>1. CASE r = Pair(p[1], p[2])
      <4>1. said'[r] = sign /\ assertion'[p] = sign
        BY <2>1, <2>2, <3>1 DEF HeardInv
      <4> QED
        BY <2>1, <3>1, <4>1
    <3>2. CASE r # Pair(p[1], p[2])
      <4>1. said'[r] = said[r]
        BY <2>2, <3>2 DEF HeardInv
      <4>2. PICK q \in Tokens \X Tokens : Pair(q[1], q[2]) = r /\ assertion[q] = said[r]
        BY <2>4, <4>1 DEF HeardInv
      <4>3. q # p
        BY <3>2, <4>2
      <4>4. assertion'[q] = assertion[q]
        BY <2>2, <4>3 DEF HeardInv
      <4> QED
        BY <4>1, <4>2, <4>4
    <3> QED
      BY <3>1, <3>2
  <2> QED
    BY <2>3, <2>4 DEF HeardInv
<1>2. ASSUME UNCHANGED <<assertion, said>> PROVE HeardInv'
  BY <1>2 DEF HeardInv
<1>3. CASE Advance
  BY <1>2, <1>3 DEF Advance
<1>4. ASSUME NEW s \in Stories, StoryHappens(s) PROVE HeardInv'
  BY <1>2, <1>4 DEF StoryHappens
<1>5. ASSUME NEW t \in Ids, NEW signal \in {"care_more", "care_less", "done"}, CorrectThread(t, signal)
      PROVE  HeardInv'
  BY <1>2, <1>5 DEF CorrectThread
<1>6. CASE Maintain
  BY <1>2, <1>6 DEF Maintain
<1>7. CASE UNCHANGED loopVars
  BY <1>2, <1>7 DEF loopVars
<1> QED
  BY <1>1, <1>3, <1>4, <1>5, <1>6, <1>7 DEF LoopNext

(* The last correction of a pair takes effect: parted, no edge of its own  *)
(* is left; joined, the two are one identity.                              *)
LEMMA HeardTakesEffect == HeardInv => CorrectionTakesEffect
<1> SUFFICES ASSUME HeardInv, NEW p \in Pairs
             PROVE  LET eligible == Eligible(Edges, Vetoes, Theta)
                    IN  /\ said[p] = "cannot" => \A e \in eligible : Pair(e.a, e.b) # p
                        /\ said[p] = "must" /\ p \notin Vetoes
                           => RepresentativeOf(Identities, p[1]) = RepresentativeOf(Identities, p[2])
  BY DEF CorrectionTakesEffect
<1> DEFINE E == Eligible(Edges, Vetoes, Theta)
<1>1. ASSUME said[p] = "cannot" PROVE \A e \in E : Pair(e.a, e.b) # p
  <2>1. PICK q \in Tokens \X Tokens : Pair(q[1], q[2]) = p /\ assertion[q] = "cannot"
    BY <1>1 DEF HeardInv
  <2>2. p \in Vetoes
    BY <2>1 DEF Vetoes
  <2> QED
    BY <2>2 DEF Eligible
<1>2. ASSUME said[p] = "must", p \notin Vetoes
      PROVE  RepresentativeOf(Identities, p[1]) = RepresentativeOf(Identities, p[2])
  <2>1. PICK q \in Tokens \X Tokens : Pair(q[1], q[2]) = p /\ assertion[q] = "must"
    BY <1>2 DEF HeardInv
  <2> DEFINE e == Edge(q[1], q[2], FeedbackConfidence)
  <2>2. e \in Edges
    BY <2>1 DEF Edges, MustLinks
  <2>3. e.a = q[1] /\ e.b = q[2] /\ e.confidence = FeedbackConfidence
    BY DEF Edge
  <2> HIDE DEF e
  <2>4. e \in E
    <3>1. FeedbackConfidence >= Theta
      BY LoopAssumption DEF FeedbackConfidence
    <3> QED
      BY <1>2, <2>1, <2>2, <2>3, <3>1 DEF Eligible
  <2>5. RepresentativeOf(Identities, q[1]) = RepresentativeOf(Identities, q[2])
    <3>1. EdgeSet(E)
      BY EligibleIsEdgeSet
    <3>2. Identities = Resolved(Nodes, E)
      BY IdentitiesResolved
    <3> HIDE DEF E
    <3> QED
      BY <2>3, <2>4, <3>1, <3>2, EndsAreOne
  <2>6. \/ p[1] = q[1] /\ p[2] = q[2]
        \/ p[1] = q[2] /\ p[2] = q[1]
    BY <2>1 DEF Pair
  <2> QED
    BY <2>5, <2>6
<1> QED
  BY <1>1, <1>2

THEOREM CorrectionTakesEffectCorrect == LoopSpec => []CorrectionTakesEffect
<1>1. LoopSpec => []HeardInv
  BY HeardStarts, HeardKept, PTL DEF LoopSpec
<1> QED
  BY <1>1, HeardTakesEffect, PTL

-----------------------------------------------------------------------------
(* Communities: a pass finds a finite sequence of them.                    *)
LEMMA SequenceOf ==
    ASSUME NEW n \in Nat, NEW f, f = [i \in 1 .. n |-> f[i]]
    PROVE  Len(f) = n /\ DOMAIN f = 1 .. n
<1> DEFINE S == {f[i] : i \in 1 .. n}
<1>1. f \in [1 .. n -> S]
  <2>1. [i \in 1 .. n |-> f[i]] \in [1 .. n -> S]
    OBVIOUS
  <2> QED
    BY <2>1
<1>2. f \in Seq(S)
  BY <1>1, SeqDef
<1>3. DOMAIN f = 1 .. n
  OBVIOUS
<1> HIDE DEF S
<1>4. Len(f) \in Nat /\ DOMAIN f = 1 .. Len(f)
  BY <1>2, LenProperties
<1>5. Len(f) = n
  BY <1>3, <1>4
<1> QED
  BY <1>3, <1>5

LEMMA AscendingLength ==
    ASSUME NEW S, IsFiniteSet(S)
    PROVE  Cardinality(S) \in Nat /\ Len(Ascending(S)) = Cardinality(S) /\ DOMAIN Ascending(S) = 1 .. Cardinality(S)
<1>1. Cardinality(S) \in Nat
  BY FS_CardinalityType
<1>2. Ascending(S) = [i \in 1 .. Cardinality(S) |-> Ascending(S)[i]]
  <2> DEFINE at(i) == CHOOSE x \in S : Cardinality({y \in S : y < x}) = i - 1
  <2>1. Ascending(S) = [i \in 1 .. Cardinality(S) |-> at(i)]
    BY DEF Ascending
  <2> HIDE DEF at
  <2>2. \A i \in 1 .. Cardinality(S) : Ascending(S)[i] = at(i)
    BY <2>1
  <2> QED
    BY <2>1, <2>2
<1> QED
  BY <1>1, <1>2, SequenceOf

\* The steps of label propagation.
IsLabelling(graph, start, nodes, f, n) ==
    f = [i \in 0 .. n |-> IF i = 0 THEN start ELSE Adopt(graph, f[i - 1], nodes[((i - 1) % Len(nodes)) + 1])]

LEMMA LabellingExists ==
    ASSUME NEW graph, NEW start, NEW nodes
    PROVE  \A n \in Nat : \E f : IsLabelling(graph, start, nodes, f, n)
<1> TAKE n \in Nat
<1> DEFINE at(i) == nodes[((i - 1) % Len(nodes)) + 1]
           G == {k \in Nat : \E f : IsLabelling(graph, start, nodes, f, k)}
<1>1. 0 \in G
  <2> DEFINE g == [i \in 0 .. 0 |-> start]
  <2>1. IsLabelling(graph, start, nodes, g, 0)
    BY DEF IsLabelling
  <2> QED
    BY <2>1
<1>2. ASSUME NEW k \in Nat, k \in G PROVE k + 1 \in G
  <2>1. PICK h : IsLabelling(graph, start, nodes, h, k)
    BY <1>2
  <2>2. \A i \in 0 .. k : h[i] = IF i = 0 THEN start ELSE Adopt(graph, h[i - 1], at(i))
    BY <2>1, Zenon DEF IsLabelling
  <2> HIDE DEF at
  <2> DEFINE g == [i \in 0 .. k + 1 |-> IF i <= k THEN h[i] ELSE Adopt(graph, h[k], at(k + 1))]
  <2>3. \A i \in 0 .. k + 1 : g[i] = IF i = 0 THEN start ELSE Adopt(graph, g[i - 1], at(i))
    <3> TAKE i \in 0 .. k + 1
    <3>1. CASE i = 0
      <4>1. 0 \in 0 .. k /\ 0 <= k /\ 0 \in 0 .. k + 1
        OBVIOUS
      <4>2. g[0] = h[0]
        BY <4>1
      <4>3. h[0] = start
        BY <2>2, <4>1
      <4> HIDE DEF g
      <4> QED
        BY <3>1, <4>2, <4>3
    <3>2. CASE i # 0 /\ i <= k
      <4>1. i \in 0 .. k /\ i - 1 \in 0 .. k
        BY <3>2
      <4>2. g[i] = h[i] /\ g[i - 1] = h[i - 1]
        BY <4>1
      <4> HIDE DEF g
      <4> QED
        BY <2>2, <3>2, <4>1, <4>2
    <3>3. CASE i = k + 1
      BY <3>3
    <3> QED
      BY <3>1, <3>2, <3>3
  <2> HIDE DEF g
  <2>4. g = [i \in 0 .. k + 1 |-> g[i]]
    BY DEF g
  <2>5. IsLabelling(graph, start, nodes, g, k + 1)
    BY <2>3, <2>4 DEF IsLabelling, at
  <2> QED
    BY <2>5
<1>3. 0 .. n \subseteq G
  <2> HIDE DEF G
  <2> QED
    BY <1>1, <1>2, NumberByNumber
<1> QED
  BY <1>3

(* Adopting a label leaves the nodes as they are, so every node has one.   *)
LEMMA LabelsNodes ==
    ASSUME NEW graph, IsFiniteSet(graph.nodes)
    PROVE  DOMAIN LabelPropagation(graph) = graph.nodes
<1> DEFINE nodes == Ascending(graph.nodes)
           start == CHOOSE label \in [graph.nodes -> graph.nodes] : \A n \in graph.nodes : label[n] = n
           Labels(l) == l = [x \in graph.nodes |-> l[x]]
<1>1. PICK m \in Nat : m = MaxIters * Len(nodes)
  <2>1. Len(nodes) \in Nat /\ MaxIters \in Nat
    BY AscendingLength, GraphAssumption
  <2> QED
    BY <2>1
<1>2. Labels(start)
  <2> DEFINE self == [x \in graph.nodes |-> x]
  <2>1. self \in [graph.nodes -> graph.nodes] /\ \A n \in graph.nodes : self[n] = n
    OBVIOUS
  <2> HIDE DEF self
  <2>2. start \in [graph.nodes -> graph.nodes]
    BY <2>1
  <2> HIDE DEF start
  <2> QED
    BY <2>2
<1>3. ASSUME NEW l, Labels(l), NEW n PROVE Labels(Adopt(graph, l, n))
  <2>1. Adopt(graph, l, n) = l \/ \E v : Adopt(graph, l, n) = [l EXCEPT ![n] = v]
    BY DEF Adopt
  <2> QED
    BY <1>3, <2>1
<1> HIDE DEF start, nodes
<1> DEFINE h == CHOOSE f : f = [i \in 0 .. m |->
                    IF i = 0 THEN start ELSE Adopt(graph, f[i - 1], nodes[((i - 1) % Len(nodes)) + 1])]
<1>4. IsLabelling(graph, start, nodes, h, m)
  <2>1. \E f : IsLabelling(graph, start, nodes, f, m)
    BY LabellingExists
  <2> QED
    BY <2>1, Zenon DEF IsLabelling
<1>5. LabelPropagation(graph) = h[m]
  BY <1>1 DEF LabelPropagation, start, nodes
<1> HIDE DEF h
<1>6. \A i \in 0 .. m : h[i] = IF i = 0 THEN start ELSE Adopt(graph, h[i - 1], nodes[((i - 1) % Len(nodes)) + 1])
  BY <1>4, Zenon DEF IsLabelling
<1>7. Labels(h[m])
  <2> DEFINE G == {i \in Nat : i <= m => Labels(h[i])}
  <2> HIDE DEF Labels
  <2>1. 0 \in G
    BY <1>2, <1>6
  <2>2. ASSUME NEW i \in Nat, i < m, i \in G PROVE i + 1 \in G
    <3>1. i + 1 \in 0 .. m /\ i + 1 # 0 /\ (i + 1) - 1 = i
      BY <2>2
    <3>2. PICK n : h[i + 1] = Adopt(graph, h[i], n)
      BY <1>6, <3>1
    <3>3. Labels(h[i])
      BY <2>2
    <3>4. Labels(h[i + 1])
      BY <1>3, <3>2, <3>3
    <3> QED
      BY <3>4
  <2> HIDE DEF G
  <2>3. 0 .. m \subseteq G
    BY <2>1, <2>2, NumberByNumber
  <2>4. m \in G
    BY <2>3
  <2> QED
    BY <2>4 DEF G
<1> QED
  BY <1>5, <1>7

LEMMA CandidatesSequence ==
    ASSUME NEW label, IsFiniteSet(DOMAIN label), NEW k
    PROVE  \E n \in Nat : Len(Candidates(label, k)) = n /\ DOMAIN Candidates(label, k) = 1 .. n
<1> DEFINE large == {l \in {label[x] : x \in DOMAIN label} : Cardinality(Community(label, l)) >= k}
<1>1. IsFiniteSet(large)
  <2>1. IsFiniteSet({label[x] : x \in DOMAIN label})
    BY FiniteImage
  <2> QED
    BY <2>1, FS_Subset
<1> DEFINE c == [i \in DOMAIN Ascending(large) |-> Community(label, Ascending(large)[i])]
<1>2. Candidates(label, k) = c
  BY DEF Candidates
<1> HIDE DEF large
<1>3. PICK n \in Nat : DOMAIN Ascending(large) = 1 .. n
  BY <1>1, AscendingLength
<1>4. c = [i \in 1 .. n |-> c[i]]
  BY <1>3
<1> HIDE DEF c
<1>5. Len(c) = n /\ DOMAIN c = 1 .. n
  BY <1>4, SequenceOf
<1> QED
  BY <1>2, <1>5

(* The nodes of the graph are the representatives of what live stories     *)
(* mention.                                                                *)
EntitiesOf(identities, s) == {RepresentativeOf(identities, e) : e \in Mentions[s]}

LEMMA GraphNodes ==
    ASSUME NEW identities
    PROVE  CoOccurrence(Items(identities)).nodes = UNION {EntitiesOf(identities, s) : s \in Sources}
<1> DEFINE entities(s) == EntitiesOf(identities, s)
<1>1. CoOccurrence(Items(identities)).nodes = UNION {i.entities : i \in Items(identities)}
  BY DEF CoOccurrence
<1>2. {i.entities : i \in Items(identities)} = {entities(s) : s \in Sources}
  <2> DEFINE item(s) == [story |-> s, entities |-> entities(s), age |-> Age(event[s])]
  <2>1. Items(identities) = {item(s) : s \in Sources}
    BY DEF Items, EntitiesOf
  <2>2. \A s \in Sources : item(s).entities = entities(s)
    OBVIOUS
  <2> HIDE DEF item, entities
  <2> QED
    BY <2>1, <2>2
<1> QED
  BY <1>1, <1>2

LEMMA GraphIsFinite ==
    ASSUME NEW identities
    PROVE  IsFiniteSet(CoOccurrence(Items(identities)).nodes)
<1> DEFINE entities(s) == EntitiesOf(identities, s)
<1>1. IsFiniteSet(Sources)
  BY LoopAssumption, FS_Subset DEF Sources
<1>2. \A s \in Sources : IsFiniteSet(entities(s))
  <2> TAKE s \in Sources
  <2> DEFINE f == [e \in Mentions[s] |-> RepresentativeOf(identities, e)]
  <2>1. Mentions[s] \subseteq Tokens
    BY LoopAssumption DEF Sources
  <2>2. IsFiniteSet(Mentions[s])
    BY <2>1, LoopAssumption, FS_Subset
  <2>3. entities(s) = {f[e] : e \in Mentions[s]}
    BY DEF EntitiesOf
  <2> HIDE DEF f, entities
  <2> QED
    BY <2>2, <2>3, FiniteImage
<1> DEFINE f == [s \in Sources |-> entities(s)]
           W == {f[s] : s \in Sources}
<1>3. IsFiniteSet(W)
  <2> HIDE DEF f
  <2> QED
    BY <1>1, FiniteImage
<1>4. \A T \in W : IsFiniteSet(T)
  BY <1>2
<1>5. W = {entities(s) : s \in Sources}
  OBVIOUS
<1> HIDE DEF W, entities
<1>6. IsFiniteSet(UNION W)
  BY <1>3, <1>4, FS_UNION
<1> QED
  BY <1>5, <1>6, GraphNodes DEF entities

LEMMA CommunitiesSequence ==
    ASSUME NEW identities
    PROVE  \E n \in Nat : Len(Communities(identities)) = n /\ DOMAIN Communities(identities) = 1 .. n
<1>1. PICK graph : graph = CoOccurrence(Items(identities))
  OBVIOUS
<1>2. IsFiniteSet(DOMAIN LabelPropagation(graph))
  BY <1>1, GraphIsFinite, LabelsNodes
<1> QED
  BY <1>1, <1>2, CandidatesSequence DEF Communities

-----------------------------------------------------------------------------
(* Matching: no prior thread is claimed by two communities.                *)
Claimable(communities, i, taken) ==
    {t \in LiveThreads \ taken : Overlaps(communities[i], thread[t].entities)}

LEMMA MatchesApart ==
    ASSUME NEW communities, NEW n \in Nat, Len(communities) = n, DOMAIN communities = 1 .. n
    PROVE  LET M == Matches(communities)
           IN  /\ DOMAIN M = 1 .. n
               /\ \A i \in 1 .. n : M[i] \subseteq LiveThreads
               /\ \A i, j \in 1 .. n : i # j => M[i] \cap M[j] = {}
<1> DEFINE S == SUBSET LiveThreads
           F == [i \in 1 .. n |-> [T \in S |-> T \cup Claimable(communities, i, T)]]
           M == Matches(communities)
<1>1. F \in [1 .. n -> [S -> S]] /\ {} \in S
  BY DEF Claimable
<1>2. PICK g : Walks(g, n, S, {}, F)
  <2> HIDE DEF F, S
  <2> QED
    BY <1>1, StepsExist
<1>3. g \in [0 .. n -> S] /\ g[0] = {} /\ \A i \in 1 .. n : g[i] = F[i][g[i - 1]]
  BY <1>2 DEF Walks
<1> DEFINE IsClaimed(f) == f = [i \in 0 .. n |-> IF i = 0 THEN {} ELSE f[i - 1] \cup Claimable(communities, i, f[i - 1])]
<1>4. IsClaimed(g)
  <2>1. \A i \in 0 .. n : g[i] = IF i = 0 THEN {} ELSE g[i - 1] \cup Claimable(communities, i, g[i - 1])
    <3> TAKE i \in 0 .. n
    <3>1. CASE i = 0
      BY <1>3, <3>1
    <3>2. CASE i # 0
      <4>1. i \in 1 .. n /\ i - 1 \in 0 .. n
        BY <3>2
      <4>2. g[i - 1] \in S
        BY <1>3, <4>1
      <4>3. F[i][g[i - 1]] = g[i - 1] \cup Claimable(communities, i, g[i - 1])
        BY <4>1, <4>2
      <4> QED
        BY <1>3, <3>2, <4>1, <4>3
    <3> QED
      BY <3>1, <3>2
  <2>2. g = [i \in 0 .. n |-> g[i]]
    BY <1>3
  <2> QED
    BY <2>1, <2>2
<1> DEFINE c == CHOOSE f : f = [i \in 0 .. n |-> IF i = 0 THEN {} ELSE f[i - 1] \cup Claimable(communities, i, f[i - 1])]
<1>5. IsClaimed(c)
  BY <1>4, Zenon
<1>6. M = [i \in 1 .. n |-> Claimable(communities, i, c[i - 1])]
  BY DEF Matches, Claimable
<1> HIDE DEF c
<1>7. \A i \in 0 .. n : c[i] = IF i = 0 THEN {} ELSE c[i - 1] \cup Claimable(communities, i, c[i - 1])
  BY <1>5, Zenon
<1>8. \A i \in 1 .. n : M[i] = Claimable(communities, i, c[i - 1]) /\ c[i] = c[i - 1] \cup M[i]
  <2> TAKE i \in 1 .. n
  <2>1. i \in 0 .. n /\ i # 0
    OBVIOUS
  <2>2. M[i] = Claimable(communities, i, c[i - 1])
    BY <1>6
  <2> QED
    BY <1>7, <2>1, <2>2
<1> HIDE DEF M
<1>9. ASSUME NEW i \in 1 .. n, NEW j \in 1 .. n, i < j PROVE M[i] \cap M[j] = {}
  <2> DEFINE G == {k \in Nat : i <= k /\ k <= n => M[i] \subseteq c[k]}
  <2>1. 0 \in G
    OBVIOUS
  <2>2. ASSUME NEW k \in Nat, k < n, k \in G PROVE k + 1 \in G
    <3>1. k + 1 \in 1 .. n /\ (k + 1) - 1 = k
      BY <2>2
    <3>2. c[k + 1] = c[k] \cup M[k + 1]
      BY <1>8, <3>1
    <3>3. CASE i <= k
      BY <2>2, <3>2, <3>3
    <3>4. CASE i = k + 1
      BY <3>2, <3>4
    <3>5. CASE i > k + 1
      BY <3>5
    <3> QED
      BY <3>3, <3>4, <3>5
  <2> HIDE DEF G
  <2>3. 0 .. n \subseteq G
    BY <2>1, <2>2, NumberByNumber
  <2>4. j - 1 \in 0 .. n /\ i <= j - 1
    BY <1>9
  <2>5. M[i] \subseteq c[j - 1]
    BY <2>3, <2>4 DEF G
  <2>6. M[j] \cap c[j - 1] = {}
    BY <1>8 DEF Claimable
  <2> QED
    BY <2>5, <2>6
<1>10. \A i, j \in 1 .. n : i # j => M[i] \cap M[j] = {}
  <2> TAKE i, j \in 1 .. n
  <2> HAVE i # j
  <2>1. i < j \/ j < i
    OBVIOUS
  <2> QED
    BY <1>9, <2>1
<1>11. \A i \in 1 .. n : M[i] \subseteq LiveThreads
  BY <1>8 DEF Claimable
<1>12. DOMAIN M = 1 .. n
  BY <1>6
<1> QED
  BY <1>10, <1>11, <1>12 DEF M

(* The communities that claim none are numbered from 0 without a gap.      *)
LEMMA PlacesOf ==
    ASSUME NEW A, IsFiniteSet(A), A \subseteq Nat
    PROVE  /\ Cardinality(A) \in Nat
           /\ \A i \in A : Cardinality({j \in A : j < i}) \in 0 .. Cardinality(A) - 1
           /\ \A i, h \in A : Cardinality({j \in A : j < i}) = Cardinality({j \in A : j < h}) => i = h
           /\ \A k \in 0 .. Cardinality(A) - 1 : \E i \in A : Cardinality({j \in A : j < i}) = k
<1>0. Cardinality(A) \in Nat
  BY FS_CardinalityType
<1> DEFINE Below(i) == {j \in A : j < i}
           rank == [i \in A |-> Cardinality(Below(i))]
           K == 0 .. Cardinality(A) - 1
<1>1. \A i \in A : IsFiniteSet(Below(i)) /\ Cardinality(Below(i)) \in Nat
  BY FS_Subset, FS_CardinalityType
<1>2. \A i, h \in A : i < h => Cardinality(Below(i)) < Cardinality(Below(h))
  <2> TAKE i, h \in A
  <2> HAVE i < h
  <2>0. \A j \in A : j \in Nat
    OBVIOUS
  <2>1. Below(i) \subseteq Below(h) /\ i \in Below(h) /\ i \notin Below(i)
    <3>1. \A j \in A : j < i => j < h
      BY <2>0
    <3>2. ~ (i < i)
      BY <2>0
    <3> QED
      BY <3>1, <3>2
  <2>2. Below(i) # Below(h)
    BY <2>1
  <2> QED
    BY <1>1, <2>1, <2>2, FS_Subset
<1>3. \A i \in A : Cardinality(Below(i)) < Cardinality(A)
  <2> TAKE i \in A
  <2>1. Below(i) \subseteq A /\ Below(i) # A
    OBVIOUS
  <2> QED
    BY <2>1, FS_Subset, <1>0, <1>1
<1>4. rank \in [A -> K]
  BY <1>0, <1>1, <1>3
<1>5. \A i, h \in A : i # h => rank[i] # rank[h]
  <2> TAKE i, h \in A
  <2> HAVE i # h
  <2>1. i < h \/ h < i
    OBVIOUS
  <2> QED
    BY <1>1, <1>2, <2>1
<1>6. rank \in Injection(A, K)
  BY <1>4, <1>5 DEF Injection, IsInjective
<1>7. IsFiniteSet(K) /\ Cardinality(K) = Cardinality(A)
  <2>1. PICK n \in Int : n = Cardinality(A) - 1
    BY <1>0
  <2>2. IsFiniteSet(0 .. n) /\ Cardinality(0 .. n) = IF 0 > n THEN 0 ELSE n - 0 + 1
    BY FS_Interval
  <2> QED
    BY <1>0, <2>1, <2>2
<1>8. rank \in Surjection(A, K)
  BY <1>6, <1>7, FS_Injection
<1>9. \A i \in A : rank[i] = Cardinality(Below(i))
  OBVIOUS
<1> HIDE DEF rank
<1>10. \A k \in K : \E i \in A : rank[i] = k
  BY <1>8 DEF Surjection
<1> QED
  BY <1>0, <1>4, <1>5, <1>9, <1>10

-----------------------------------------------------------------------------
(* The thread table: rows are numbered from 1 in the order they are born,  *)
(* a row that is not born forwards to none.                                *)
IsRow(r) ==
    /\ {"born", "into"} \subseteq DOMAIN r
    /\ r.born \in BOOLEAN /\ r.into \in Ids \cup {NoThread}
    /\ ~ r.born => r.into = NoThread
ThreadInv ==
    /\ thread = [t \in Ids |-> thread[t]]
    /\ \A t \in Ids : IsRow(thread[t]) /\ (t < FirstFree <=> thread[t].born)

LEMMA FirstFreeIsNumber == FirstFree \in Nat \ {0}
<1>1. IsFiniteSet(Ids)
  BY LoopAssumption, FS_Interval DEF Ids
<1>2. Cardinality({t \in Ids : thread[t].born}) \in Nat
  BY <1>1, FS_Subset, FS_CardinalityType
<1> QED
  BY <1>2 DEF FirstFree

LEMMA FreeFollowsUsed == \A t \in Nat \ {0} : t < FirstFree => t \in Ids
<1> DEFINE used == {t \in Ids : thread[t].born}
<1>1. IsFiniteSet(1 .. MaxThreads) /\ Cardinality(1 .. MaxThreads) = MaxThreads
  BY LoopAssumption, FS_Interval
<1>2. used \subseteq 1 .. MaxThreads
  BY DEF Ids
<1> HIDE DEF used
<1>3. Cardinality(used) \in Nat /\ Cardinality(used) <= MaxThreads
  BY <1>1, <1>2, FS_Subset, FS_CardinalityType
<1>4. FirstFree = Cardinality(used) + 1
  BY DEF FirstFree, used
<1> QED
  BY <1>3, <1>4, LoopAssumption DEF Ids

(* The thread a community goes to, and the live threads that no community  *)
(* claims.                                                                 *)
Unmatched(M) == {j \in DOMAIN M : M[j] = {}}
Minted(M, i) == FirstFree + Cardinality({j \in Unmatched(M) : j < i})
Owner(M, i) == IF M[i] = {} THEN Minted(M, i) ELSE Min(M[i])
Carried(M) == LiveThreads \ UNION {M[i] : i \in DOMAIN M}
IsMatching(M, n) ==
    /\ DOMAIN M = 1 .. n
    /\ \A i \in 1 .. n : M[i] \subseteq LiveThreads
    /\ \A i, j \in 1 .. n : i # j => M[i] \cap M[j] = {}

(* No two communities go to one thread, and the new threads take the free  *)
(* ids in order.                                                           *)
LEMMA OwnersApart ==
    ASSUME NEW n \in Nat, NEW M, IsMatching(M, n), ThreadInv
    PROVE  /\ \A i \in 1 .. n : M[i] # {} => Owner(M, i) \in M[i]
           /\ \A i \in Unmatched(M) : Owner(M, i) \in Nat /\ Owner(M, i) >= FirstFree
           /\ \A i, j \in 1 .. n : Owner(M, i) = Owner(M, j) => i = j
           /\ \A i \in 1 .. n : Owner(M, i) \notin Carried(M)
           /\ Cardinality(Unmatched(M)) \in Nat
           /\ \A k \in FirstFree .. FirstFree + Cardinality(Unmatched(M)) - 1 :
                 \E i \in Unmatched(M) : Owner(M, i) = k
           /\ \A i \in Unmatched(M) : Owner(M, i) < FirstFree + Cardinality(Unmatched(M))
<1> DEFINE A == Unmatched(M)
           rank(i) == Cardinality({j \in A : j < i})
<1>1. A \subseteq 1 .. n /\ A \subseteq Nat
  BY DEF Unmatched, IsMatching
<1>2. IsFiniteSet(A)
  BY <1>1, FS_Interval, FS_Subset
<1>3. /\ Cardinality(A) \in Nat
      /\ \A i \in A : rank(i) \in 0 .. Cardinality(A) - 1
      /\ \A i, h \in A : rank(i) = rank(h) => i = h
      /\ \A k \in 0 .. Cardinality(A) - 1 : \E i \in A : rank(i) = k
  <2> HIDE DEF A
  <2> QED
    BY <1>1, <1>2, PlacesOf
<1>4. \A i \in A : Owner(M, i) = FirstFree + rank(i)
  BY DEF Owner, Minted, Unmatched
<1>5. FirstFree \in Nat
  BY FirstFreeIsNumber
<1>6. ASSUME NEW i \in 1 .. n, M[i] # {} PROVE Owner(M, i) \in M[i]
  <2>1. M[i] \subseteq Ids
    BY DEF IsMatching, LiveThreads
  <2>2. IsFiniteSet(M[i]) /\ M[i] \subseteq Nat
    <3>1. IsFiniteSet(Ids) /\ Ids \subseteq Nat
      BY LoopAssumption, FS_Interval DEF Ids
    <3> QED
      BY <2>1, <3>1, FS_Subset
  <2>3. Min(M[i]) \in M[i]
    BY <1>6, <2>2, LeastElement
  <2> QED
    BY <1>6, <2>3 DEF Owner
<1>7. \A t \in LiveThreads : t \in Nat /\ t < FirstFree
  BY LoopAssumption DEF LiveThreads, Live, ThreadInv, Ids
<1>8. \A i \in 1 .. n : M[i] = {} <=> i \in A
  BY DEF IsMatching, Unmatched
<1> HIDE DEF A, rank
<1>9. \A i \in A : Owner(M, i) \in Nat /\ Owner(M, i) >= FirstFree /\ Owner(M, i) < FirstFree + Cardinality(A)
  BY <1>3, <1>4, <1>5
<1>10. ASSUME NEW i \in 1 .. n, NEW j \in 1 .. n, Owner(M, i) = Owner(M, j) PROVE i = j
  <2>1. CASE i \in A /\ j \in A
    BY <1>3, <1>4, <1>5, <1>10, <2>1
  <2>2. CASE i \notin A /\ j \notin A
    BY <1>6, <1>8, <1>10, <2>2 DEF IsMatching
  <2>3. CASE i \in A /\ j \notin A
    BY <1>6, <1>7, <1>8, <1>9, <1>5, <1>10, <2>3 DEF IsMatching
  <2>4. CASE i \notin A /\ j \in A
    BY <1>6, <1>7, <1>8, <1>9, <1>5, <1>10, <2>4 DEF IsMatching
  <2> QED
    BY <2>1, <2>2, <2>3, <2>4
<1>11. ASSUME NEW i \in 1 .. n PROVE Owner(M, i) \notin Carried(M)
  <2>1. CASE i \in A
    BY <1>5, <1>7, <1>9, <2>1 DEF Carried
  <2>2. CASE i \notin A
    BY <1>6, <1>8, <2>2 DEF Carried, IsMatching
  <2> QED
    BY <2>1, <2>2
<1>12. ASSUME NEW k \in FirstFree .. FirstFree + Cardinality(A) - 1 PROVE \E i \in A : Owner(M, i) = k
  <2>1. k - FirstFree \in 0 .. Cardinality(A) - 1 /\ k \in Int
    BY <1>3, <1>5
  <2>2. PICK i \in A : rank(i) = k - FirstFree
    BY <1>3, <2>1
  <2>3. FirstFree + (k - FirstFree) = k
    BY <1>5, <2>1
  <2> QED
    BY <1>4, <2>2, <2>3
<1> QED
  BY <1>3, <1>6, <1>9, <1>10, <1>11, <1>12 DEF A

(* Which rows a pass saves, and which of them absorb others.               *)
LEMMA AssignedRows ==
    ASSUME NEW n \in Nat, NEW M, IsMatching(M, n), ThreadInv, NEW communities
    PROVE  /\ \A t : t \in DOMAIN Assigned(communities, M)
                    <=> t \in Carried(M) \/ \E i \in 1 .. n : t = Owner(M, i)
           /\ \A t \in Carried(M) : Assigned(communities, M)[t].absorb = {}
           /\ \A i \in 1 .. n :
                 Assigned(communities, M)[Owner(M, i)].absorb = M[i] \ {Owner(M, i)}
           /\ \A t \in Carried(M) : Assigned(communities, M)[t].spine = thread[t].entities
           /\ \A i \in 1 .. n : Assigned(communities, M)[Owner(M, i)].spine = communities[i]
<1> DEFINE D == {Owner(M, i) : i \in DOMAIN M} \cup Carried(M)
           at(t) == CHOOSE i \in DOMAIN M : Owner(M, i) = t
           a == Assigned(communities, M)
<1>1. \A i \in DOMAIN M :
        {j \in DOMAIN M : j < i /\ M[j] = {}} = {j \in Unmatched(M) : j < i}
  BY DEF Unmatched
<1>2. \A i \in DOMAIN M :
        (IF M[i] = {} THEN FirstFree + Cardinality({j \in DOMAIN M : j < i /\ M[j] = {}}) ELSE Min(M[i]))
        = Owner(M, i)
  BY <1>1 DEF Owner, Minted
<1>3. UNION Range(M) = UNION {M[i] : i \in DOMAIN M}
  BY DEF Range
<1>4. a = [t \in D |-> IF t \in Carried(M) THEN [spine |-> thread[t].entities, absorb |-> {}]
                       ELSE [spine |-> communities[at(t)], absorb |-> M[at(t)] \ {t}]]
  BY <1>2, <1>3 DEF Assigned, Carried
<1>5. DOMAIN M = 1 .. n
  BY DEF IsMatching
<1> HIDE DEF a
<1>6. DOMAIN a = D
  BY <1>4
<1>7. ASSUME NEW t \in Carried(M) PROVE a[t].absorb = {} /\ a[t].spine = thread[t].entities
  BY <1>4, <1>7
<1>8. ASSUME NEW i \in 1 .. n
      PROVE  a[Owner(M, i)].absorb = M[i] \ {Owner(M, i)} /\ a[Owner(M, i)].spine = communities[i]
  <2>1. Owner(M, i) \notin Carried(M) /\ Owner(M, i) \in D
    BY <1>5, OwnersApart
  <2>2. at(Owner(M, i)) \in 1 .. n /\ Owner(M, at(Owner(M, i))) = Owner(M, i)
    BY <1>5
  <2>3. at(Owner(M, i)) = i
    BY <2>2, OwnersApart
  <2> QED
    BY <1>4, <2>1, <2>3
<1> QED
  BY <1>5, <1>6, <1>7, <1>8 DEF a

(* A maintenance pass keeps the numbering, and leaves live exactly the     *)
(* threads it saved: each community's and each that none claimed; every    *)
(* other live thread is forwarded to the one that absorbed it.             *)
LEMMA MaintainProjects == ThreadInv /\ Maintain => ThreadInv' /\ WeightsAreProjection'
<1> SUFFICES ASSUME ThreadInv, Maintain PROVE ThreadInv' /\ WeightsAreProjection'
  OBVIOUS
<1>1. PICK identities, communities, a :
        /\ communities = Communities(identities)
        /\ a = Assigned(communities, Matches(communities))
        /\ DOMAIN a \subseteq Ids
        /\ Save(identities, a)
  BY DEF Maintain
<1>2. PICK n \in Nat : Len(communities) = n /\ DOMAIN communities = 1 .. n
  BY <1>1, CommunitiesSequence
<1>3. PICK M : M = Matches(communities)
  OBVIOUS
<1>4. IsMatching(M, n)
  BY <1>2, <1>3, MatchesApart DEF IsMatching
<1>5. /\ \A i \in 1 .. n : M[i] # {} => Owner(M, i) \in M[i]
      /\ \A i \in Unmatched(M) : Owner(M, i) \in Nat /\ Owner(M, i) >= FirstFree
      /\ Cardinality(Unmatched(M)) \in Nat
      /\ \A k \in FirstFree .. FirstFree + Cardinality(Unmatched(M)) - 1 :
            \E i \in Unmatched(M) : Owner(M, i) = k
      /\ \A i \in Unmatched(M) : Owner(M, i) < FirstFree + Cardinality(Unmatched(M))
  BY <1>4, OwnersApart
<1>6. /\ \A t : t \in DOMAIN a <=> t \in Carried(M) \/ \E i \in 1 .. n : t = Owner(M, i)
      /\ \A t \in Carried(M) : a[t].absorb = {}
      /\ \A i \in 1 .. n : a[Owner(M, i)].absorb = M[i] \ {Owner(M, i)}
  <2>1. a = Assigned(communities, M)
    BY <1>1, <1>3
  <2> QED
    BY <1>4, <2>1, AssignedRows
<1> DEFINE saved == [t \in DOMAIN a |-> Rescored(identities, thread[t], a[t].spine, CareFor(t, a[t].absorb))]
           absorber(t) == {w \in DOMAIN a : t \in a[w].absorb}
<1>7. /\ thread' = [t \in Ids |->
              IF t \in DOMAIN a THEN saved[t]
              ELSE IF absorber(t) # {} THEN [thread[t] EXCEPT !.into = Min(absorber(t))]
              ELSE thread[t]]
      /\ weight' = ProjectWeights(saved, Tokens)
  BY <1>1 DEF Save, Projected
<1>8. FirstFree \in Nat \ {0}
  BY FirstFreeIsNumber
<1>9. Ids \subseteq Nat \ {0} /\ IsFiniteSet(Ids)
  BY LoopAssumption, FS_Interval DEF Ids
(* A saved row is born and keeps its forwarding, of which it has none.     *)
<1>10. ASSUME NEW t \in DOMAIN a
       PROVE  IsRow(saved[t]) /\ saved[t].born = TRUE /\ saved[t].into = NoThread
  <2>1. t \in Ids /\ IsRow(thread[t])
    BY <1>1 DEF ThreadInv
  <2>2. thread[t].into = NoThread
    <3>1. CASE t \in LiveThreads
      BY <3>1 DEF LiveThreads, Live
    <3>2. CASE t \notin LiveThreads
      <4>1. PICK i \in 1 .. n : t = Owner(M, i)
        BY <1>6, <3>2 DEF Carried
      <4>2. M[i] = {}
        BY <1>4, <1>5, <3>2, <4>1 DEF IsMatching
      <4>3. i \in Unmatched(M)
        BY <1>4, <4>2 DEF Unmatched, IsMatching
      <4>4. t >= FirstFree
        BY <1>5, <4>1, <4>3
      <4>5. ~ thread[t].born
        BY <1>8, <1>9, <2>1, <4>4 DEF ThreadInv, IsRow
      <4> QED
        BY <2>1, <4>5 DEF IsRow
    <3> QED
      BY <3>1, <3>2
  <2>3. saved[t] = Rescored(identities, thread[t], a[t].spine, CareFor(t, a[t].absorb))
    OBVIOUS
  <2>4. /\ DOMAIN saved[t] = DOMAIN thread[t]
        /\ saved[t].born = TRUE
        /\ saved[t].into = thread[t].into
    BY <2>1, <2>3 DEF Rescored, IsRow
  <2> QED
    BY <2>1, <2>2, <2>4 DEF IsRow
<1> HIDE DEF saved
<1>11. ASSUME NEW t \in Ids, absorber(t) # {} PROVE Min(absorber(t)) \in Ids
  <2>1. absorber(t) \subseteq Ids
    BY <1>1
  <2>2. IsFiniteSet(absorber(t)) /\ absorber(t) \subseteq Nat
    BY <1>9, <2>1, FS_Subset
  <2> QED
    BY <1>11, <2>1, <2>2, LeastElement
(* A live thread that is not saved was claimed by a community of another.  *)
<1>12. ASSUME NEW t \in LiveThreads, t \notin DOMAIN a PROVE absorber(t) # {}
  <2>1. PICK i \in 1 .. n : t \in M[i]
    BY <1>4, <1>6, <1>12 DEF Carried, IsMatching
  <2>2. Owner(M, i) \in DOMAIN a /\ t # Owner(M, i)
    BY <1>6, <1>12
  <2>3. t \in a[Owner(M, i)].absorb
    BY <1>6, <2>1, <2>2
  <2> QED
    BY <2>2, <2>3
(* Only live threads are absorbed.                                         *)
<1>13. ASSUME NEW t \in Ids, absorber(t) # {} PROVE t \in LiveThreads
  <2>1. PICK w \in DOMAIN a : t \in a[w].absorb
    BY <1>13
  <2>2. PICK i \in 1 .. n : w = Owner(M, i)
    BY <1>6, <2>1
  <2>3. t \in M[i]
    BY <1>6, <2>1, <2>2
  <2> QED
    BY <1>4, <2>3 DEF IsMatching
<1>14. ASSUME NEW t \in Ids
       PROVE  /\ IsRow(thread'[t])
              /\ t \in DOMAIN a => thread'[t] = saved[t]
              /\ thread'[t].born <=> thread[t].born \/ t \in DOMAIN a
              /\ thread'[t].born /\ thread'[t].into = NoThread <=> t \in DOMAIN a
  <2>0. IsRow(thread[t])
    BY DEF ThreadInv
  <2>1. CASE t \in DOMAIN a
    <3>1. thread'[t] = saved[t]
      BY <1>7, <2>1
    <3> QED
      BY <1>10, <2>1, <3>1
  <2>2. CASE t \notin DOMAIN a /\ absorber(t) # {}
    <3>1. thread'[t] = [thread[t] EXCEPT !.into = Min(absorber(t))]
      BY <1>7, <2>2
    <3>2. Min(absorber(t)) \in Ids /\ Min(absorber(t)) # NoThread
      BY <1>9, <1>11, <2>2 DEF NoThread
    <3>3. thread[t].born
      BY <1>13, <2>2 DEF LiveThreads, Live
    <3>4. /\ DOMAIN thread'[t] = DOMAIN thread[t]
          /\ thread'[t].into = Min(absorber(t))
          /\ thread'[t].born = thread[t].born
      BY <2>0, <3>1 DEF IsRow
    <3> QED
      BY <2>0, <2>2, <3>2, <3>3, <3>4 DEF IsRow
  <2>3. CASE t \notin DOMAIN a /\ absorber(t) = {}
    <3>1. thread'[t] = thread[t]
      BY <1>7, <2>3
    <3>2. t \notin LiveThreads
      BY <1>12, <2>3
    <3> QED
      BY <2>0, <2>3, <3>1, <3>2 DEF LiveThreads, Live
  <2> QED
    BY <2>1, <2>2, <2>3
<1>15. thread' = [t \in Ids |-> thread'[t]]
  BY <1>7
(* The ids in use are again the first ones.                                *)
<1>16. \A t \in Ids : t < FirstFree' <=> thread'[t].born
  <2> DEFINE k == Cardinality(Unmatched(M))
             top == FirstFree + k
  <2>1. top \in Nat \ {0}
    BY <1>5, <1>8
  <2>2. ASSUME NEW t \in Ids PROVE t \in DOMAIN a => t < top
    <3> HAVE t \in DOMAIN a
    <3>1. CASE t \in LiveThreads
      BY <1>5, <1>8, <1>9, <3>1 DEF LiveThreads, Live, ThreadInv
    <3>2. CASE t \notin LiveThreads
      <4>1. PICK i \in 1 .. n : t = Owner(M, i)
        BY <1>6, <3>2 DEF Carried
      <4>2. M[i] = {}
        BY <1>4, <1>5, <3>2, <4>1 DEF IsMatching
      <4>3. i \in Unmatched(M)
        BY <1>4, <4>2 DEF Unmatched, IsMatching
      <4> QED
        BY <1>5, <4>1, <4>3
    <3> QED
      BY <3>1, <3>2
  <2>3. ASSUME NEW k2 \in FirstFree .. top - 1 PROVE k2 \in DOMAIN a
    <3>1. k2 \in FirstFree .. FirstFree + Cardinality(Unmatched(M)) - 1
      BY <1>5, <1>8 DEF top
    <3>2. PICK i \in Unmatched(M) : Owner(M, i) = k2
      BY <1>5, <3>1
    <3>3. i \in 1 .. n
      BY <1>4 DEF Unmatched, IsMatching
    <3> QED
      BY <1>6, <3>2, <3>3
  <2>4. ASSUME NEW t \in Ids PROVE t < top <=> thread'[t].born
    <3>1. t < FirstFree <=> thread[t].born
      BY DEF ThreadInv
    <3>2. t \in Nat
      BY <1>9
    <3>3. CASE t < FirstFree
      BY <1>5, <1>8, <1>14, <3>1, <3>2, <3>3
    <3>4. CASE t >= FirstFree /\ t < top
      <4>1. t \in FirstFree .. top - 1
        BY <1>8, <2>1, <3>2, <3>4
      <4> QED
        BY <1>14, <2>3, <4>1, <3>4
    <3>5. CASE t >= top
      <4>1. t \notin DOMAIN a
        BY <2>1, <2>2, <3>2, <3>5
      <4>2. ~ (t < FirstFree) /\ ~ (t < top)
        BY <1>5, <1>8, <2>1, <3>2, <3>5
      <4>3. thread'[t].born <=> thread[t].born
        BY <1>14, <4>1
      <4> QED
        BY <3>1, <4>2, <4>3
    <3> HIDE DEF top
    <3> QED
      BY <1>8, <2>1, <3>2, <3>3, <3>4, <3>5
  <2>5. {t \in Ids : thread'[t].born} = 1 .. top - 1
    <3>1. ASSUME NEW t \in 1 .. top - 1 PROVE t \in Ids
      <4>1. t \in Nat \ {0}
        BY <2>1
      <4>2. CASE t >= FirstFree
        BY <1>1, <1>8, <2>1, <2>3, <4>1, <4>2
      <4>3. CASE t < FirstFree
        BY <4>1, <4>3, FreeFollowsUsed
      <4> HIDE DEF top
      <4> QED
        BY <1>8, <4>1, <4>2, <4>3
    <3> HIDE DEF top
    <3>2. \A t \in Ids : t \in 1 .. top - 1 <=> t < top
      BY <1>9, <2>1
    <3> QED
      BY <2>4, <3>1, <3>2
  <2>6. FirstFree' = top
    <3>1. FirstFree' = Cardinality({t \in Ids : thread'[t].born}) + 1
      BY DEF FirstFree, Ids
    <3> HIDE DEF top
    <3>2. PICK m \in Nat : m = top - 1
      BY <2>1
    <3>3. Cardinality(1 .. m) = m
      BY FS_Interval
    <3>4. {t \in Ids : thread'[t].born} = 1 .. m /\ m + 1 = top
      BY <2>1, <2>5, <3>2
    <3> QED
      BY <3>1, <3>3, <3>4
  <2> QED
    BY <2>4, <2>6
<1>17. LiveThreads' = DOMAIN a
  <2>1. LiveThreads' = {t \in Ids : thread'[t].born /\ thread'[t].into = NoThread}
    BY DEF LiveThreads, Live, Ids
  <2> QED
    BY <1>1, <1>14, <2>1
<1>18. WeightsAreProjection'
  <2>1. DOMAIN saved = DOMAIN a /\ saved = [t \in DOMAIN a |-> saved[t]]
    BY DEF saved
  <2>2. [t \in LiveThreads' |-> thread'[t]] = saved
    BY <1>1, <1>14, <1>17, <2>1
  <2> QED
    BY <1>7, <2>2 DEF WeightsAreProjection
<1> QED
  BY <1>14, <1>15, <1>16, <1>18 DEF ThreadInv, IsRow, Ids

-----------------------------------------------------------------------------
LEMMA ProjectionStarts == LoopInit => ThreadInv /\ WeightsAreProjection
<1> SUFFICES ASSUME LoopInit PROVE ThreadInv /\ WeightsAreProjection
  OBVIOUS
<1>1. thread = [t \in Ids |-> UnbornThread]
  BY DEF LoopInit
<1>2. \A t \in Ids : IsRow(thread[t]) /\ ~ thread[t].born
  BY <1>1 DEF IsRow, UnbornThread
<1>3. FirstFree = 1
  <2>1. {t \in Ids : thread[t].born} = {}
    BY <1>2
  <2> QED
    BY <2>1, FS_EmptySet DEF FirstFree
<1>4. ThreadInv
  <2>1. \A t \in Ids : ~ (t < 1)
    BY LoopAssumption DEF Ids
  <2> QED
    BY <1>1, <1>2, <1>3, <2>1 DEF ThreadInv
<1>5. LiveThreads = {}
  BY <1>2 DEF LiveThreads, Live
<1>6. ProjectWeights([t \in LiveThreads |-> thread[t]], Tokens) = [e \in Tokens |-> 0]
  <2> DEFINE threads == [t \in LiveThreads |-> thread[t]]
  <2>1. DOMAIN threads = {}
    BY <1>5
  <2> HIDE DEF threads
  <2>2. \A e \in Tokens : {t \in DOMAIN threads : e \in threads[t].entities} = {}
    BY <2>1
  <2>3. MapThenSumSet(LAMBDA t : ShareOf(threads[t]), {}) = 0
    <3> DEFINE Q(h) == [s \in SUBSET {} |->
                 IF s = {} THEN 0
                 ELSE ShareOf(threads[CHOOSE x \in s : TRUE]) + h[s \ {CHOOSE x \in s : TRUE}]]
               it == CHOOSE h : h = Q(h)
               zero == [s \in SUBSET {} |-> 0]
    <3>1. MapThenSumSet(LAMBDA t : ShareOf(threads[t]), {}) = it[{}]
      BY DEF MapThenSumSet, MapThenFoldSet
    <3>2. \A h : Q(h) = zero
      OBVIOUS
    <3>3. zero = Q(zero)
      BY <3>2
    <3> HIDE DEF Q
    <3>4. it = Q(it)
      BY <3>3, Zenon
    <3>5. it = zero
      BY <3>2, <3>4
    <3> QED
      BY <3>1, <3>5
  <2> DEFINE sum(S) == MapThenSumSet(LAMBDA t : ShareOf(threads[t]), S)
  <2>4. ProjectWeights(threads, Tokens)
        = [e \in Tokens |-> sum({t \in DOMAIN threads : e \in threads[t].entities})]
    BY DEF ProjectWeights
  <2>5. sum({}) = 0
    BY <2>3
  <2> HIDE DEF sum
  <2> QED
    BY <2>2, <2>4, <2>5 DEF threads
<1> QED
  BY <1>4, <1>6 DEF LoopInit, WeightsAreProjection

(* Only a pass writes the thread table, and no other step writes the       *)
(* weights: between two passes the projection stands.                      *)
LEMMA ProjectionKept ==
    ThreadInv /\ WeightsAreProjection /\ [LoopNext]_loopVars => ThreadInv' /\ WeightsAreProjection'
<1> SUFFICES ASSUME ThreadInv, WeightsAreProjection, [LoopNext]_loopVars
             PROVE  ThreadInv' /\ WeightsAreProjection'
  OBVIOUS
<1>1. CASE UNCHANGED <<thread, weight>>
  BY <1>1 DEF ThreadInv, WeightsAreProjection, IsRow, FirstFree, LiveThreads, Live, Ids
<1>2. CASE Advance
  BY <1>1, <1>2 DEF Advance
<1>3. ASSUME NEW s \in Stories, StoryHappens(s) PROVE ThreadInv' /\ WeightsAreProjection'
  BY <1>1, <1>3 DEF StoryHappens, Input
<1>4. ASSUME NEW p \in Correctable, NEW sign \in {"must", "cannot"}, CorrectEntity(p, sign)
      PROVE  ThreadInv' /\ WeightsAreProjection'
  BY <1>1, <1>4 DEF CorrectEntity, Input
<1>5. ASSUME NEW t \in Ids, NEW signal \in {"care_more", "care_less", "done"}, CorrectThread(t, signal)
      PROVE  ThreadInv' /\ WeightsAreProjection'
  BY <1>1, <1>5 DEF CorrectThread, Input
<1>6. CASE Maintain
  BY <1>6, MaintainProjects
<1>7. CASE UNCHANGED loopVars
  BY <1>1, <1>7 DEF loopVars
<1> QED
  BY <1>2, <1>3, <1>4, <1>5, <1>6, <1>7 DEF LoopNext

(* The weights a digest reads are always those of the live threads as they *)
(* stand: whatever communities a pass finds, it saves the rows, forwards   *)
(* what it absorbed and projects exactly the rows that are live afterwards *)
(* (thread::maintain).                                                     *)
THEOREM WeightsAreProjectionCorrect == LoopSpec => []WeightsAreProjection
<1>1. LoopInit => ThreadInv /\ WeightsAreProjection
  BY ProjectionStarts
<1>2. ThreadInv /\ WeightsAreProjection /\ [LoopNext]_loopVars => (ThreadInv /\ WeightsAreProjection)'
  BY ProjectionKept
<1> QED
  BY <1>1, <1>2, PTL DEF LoopSpec

-----------------------------------------------------------------------------
(***************************************************************************)
(* The types of what a pass computes.                                      *)
(***************************************************************************)
(* A power of two is a number of subsets.                                  *)
LEMMA PowerIsPositive == \A n \in Nat : 2 ^ n \in Nat \ {0}
<1> TAKE n \in Nat
<1>1. PICK k \in Int : k = n
  OBVIOUS
<1>2. IsFiniteSet(1 .. k) /\ Cardinality(1 .. k) = n
  BY <1>1, FS_Interval
<1>3. IsFiniteSet(SUBSET (1 .. k)) /\ Cardinality(SUBSET (1 .. k)) = 2 ^ n
  BY <1>2, FS_SUBSET
<1>4. Cardinality(SUBSET (1 .. k)) \in Nat /\ Cardinality(SUBSET (1 .. k)) # 0
  BY <1>3, FS_CardinalityType, FS_EmptySet
<1> QED
  BY <1>3, <1>4

LEMMA AffinityType ==
    ASSUME NEW prior \in Int, NEW elapsed \in Nat, NEW delta \in Int
    PROVE  DecayAffinity(prior, elapsed, delta) \in Int
<1>1. PICK p \in Nat \ {0} : p = 2 ^ elapsed
  BY PowerIsPositive
<1>2. prior \div p \in Int
  BY <1>1
<1>3. Halved(prior, elapsed) = prior \div p
  BY <1>1 DEF Halved
<1> QED
  BY <1>2, <1>3, GraphAssumption DEF DecayAffinity

(* A sum over a finite set, as FiniteSetsExt folds it, an element at a     *)
(* time, is where its terms are.                                           *)
First(s) == CHOOSE x \in s : TRUE
Sums(W, S, f) == f = [s \in SUBSET S |-> IF s = {} THEN 0 ELSE W[First(s)] + f[s \ {First(s)}]]

LEMMA SumsBySize ==
    ASSUME NEW S, IsFiniteSet(S)
    PROVE  /\ \A s \in SUBSET S : Cardinality(s) \in Nat /\ Cardinality(s) <= Cardinality(S)
           /\ \A s \in SUBSET S : Cardinality(s) = 0 <=> s = {}
           /\ \A s \in SUBSET S : s # {} => /\ First(s) \in s /\ s \ {First(s)} \in SUBSET S
                                            /\ Cardinality(s \ {First(s)}) = Cardinality(s) - 1
<1>1. \A s \in SUBSET S : IsFiniteSet(s) /\ Cardinality(s) \in Nat /\ Cardinality(s) <= Cardinality(S)
  BY FS_Subset, FS_CardinalityType
<1>2. \A s \in SUBSET S : s # {} => /\ First(s) \in s /\ s \ {First(s)} \in SUBSET S
                                    /\ Cardinality(s \ {First(s)}) = Cardinality(s) - 1
  <2> TAKE s \in SUBSET S
  <2> HAVE s # {}
  <2>1. First(s) \in s
    BY DEF First
  <2> QED
    BY <1>1, <2>1, FS_RemoveElement
<1>3. \A s \in SUBSET S : Cardinality(s) = 0 <=> s = {}
  BY <1>1, FS_EmptySet
<1> QED
  BY <1>1, <1>2, <1>3

LEMMA SumsExist ==
    ASSUME NEW S, IsFiniteSet(S), NEW W
    PROVE  \E f : Sums(W, S, f)
<1> DEFINE L(n) == {s \in SUBSET S : Cardinality(s) <= n}
           Upto(n, f) == f = [s \in L(n) |-> IF s = {} THEN 0 ELSE W[First(s)] + f[s \ {First(s)}]]
           G == {n \in Nat : \E f : Upto(n, f)}
<1>1. /\ \A s \in SUBSET S : Cardinality(s) \in Nat /\ Cardinality(s) <= Cardinality(S)
      /\ \A s \in SUBSET S : Cardinality(s) = 0 <=> s = {}
      /\ \A s \in SUBSET S : s # {} => /\ First(s) \in s /\ s \ {First(s)} \in SUBSET S
                                       /\ Cardinality(s \ {First(s)}) = Cardinality(s) - 1
  BY SumsBySize
<1>2. \A n \in Nat : {} \in L(n)
  BY <1>1
<1>3. 0 \in G
  <2> DEFINE z == [s \in L(0) |-> 0]
  <2>1. \A s \in L(0) : s = {}
    BY <1>1
  <2>2. Upto(0, z)
    BY <2>1
  <2> QED
    BY <2>2
<1>4. ASSUME NEW n \in Nat, n \in G PROVE n + 1 \in G
  <2>1. PICK f : Upto(n, f)
    BY <1>4
  <2> DEFINE g == [s \in L(n + 1) |-> IF s = {} THEN 0 ELSE W[First(s)] + f[s \ {First(s)}]]
  <2>2. \A s \in L(n) : f[s] = IF s = {} THEN 0 ELSE W[First(s)] + f[s \ {First(s)}]
    BY <2>1, Zenon
  <2>3. \A s \in L(n + 1) : s # {} => s \ {First(s)} \in L(n)
    BY <1>1
  <2>4. \A s \in L(n) : s \in L(n + 1)
    BY <1>1
  <2> HIDE DEF L
  <2>5. \A s \in L(n) : g[s] = f[s]
    BY <2>2, <2>4
  <2>6. \A s \in L(n + 1) : g[s] = IF s = {} THEN 0 ELSE W[First(s)] + g[s \ {First(s)}]
    BY <2>3, <2>5
  <2>7. g = [s \in L(n + 1) |-> g[s]]
    OBVIOUS
  <2> HIDE DEF g
  <2>8. Upto(n + 1, g)
    BY <2>6, <2>7
  <2> HIDE DEF Upto
  <2>9. \E h : Upto(n + 1, h)
    BY <2>8
  <2> QED
    BY <2>9
<1>5. PICK n \in Nat : n = Cardinality(S)
  BY FS_CardinalityType
<1>6. n \in G
  <2> HIDE DEF G
  <2>1. 0 .. n \subseteq G
    BY <1>3, <1>4, NumberByNumber
  <2> QED
    BY <2>1
<1>7. L(n) = SUBSET S
  BY <1>1, <1>5
<1> HIDE DEF L
<1>8. PICK f : Upto(n, f)
  BY <1>6
<1> QED
  BY <1>7, <1>8 DEF Sums

LEMMA SumStays ==
    ASSUME NEW S, IsFiniteSet(S), NEW W, NEW f, Sums(W, S, f),
           NEW V, 0 \in V, \A x, y \in V : x + y \in V, \A x \in S : W[x] \in V
    PROVE  f[S] \in V
<1> DEFINE G == {k \in Nat : \A s \in SUBSET S : Cardinality(s) = k => f[s] \in V}
<1>1. /\ \A s \in SUBSET S : Cardinality(s) \in Nat
      /\ \A s \in SUBSET S : Cardinality(s) = 0 <=> s = {}
      /\ \A s \in SUBSET S : s # {} => /\ First(s) \in s /\ s \ {First(s)} \in SUBSET S
                                       /\ Cardinality(s \ {First(s)}) = Cardinality(s) - 1
  BY SumsBySize
<1>2. \A s \in SUBSET S : f[s] = IF s = {} THEN 0 ELSE W[First(s)] + f[s \ {First(s)}]
  BY Zenon DEF Sums
<1>3. 0 \in G
  BY <1>1, <1>2
<1>4. ASSUME NEW k \in Nat, k \in G PROVE k + 1 \in G
  <2>1. ASSUME NEW s \in SUBSET S, Cardinality(s) = k + 1 PROVE f[s] \in V
    <3>1. s # {}
      BY <1>1, <2>1
    <3>2. PICK p, t : p = First(s) /\ t = s \ {First(s)}
      OBVIOUS
    <3>3. p \in S /\ t \in SUBSET S /\ Cardinality(t) = k
      BY <1>1, <2>1, <3>1, <3>2
    <3>4. f[s] = W[p] + f[t]
      BY <1>2, <3>1, <3>2
    <3>5. f[t] \in V /\ W[p] \in V
      BY <1>4, <3>3
    <3> QED
      BY <3>4, <3>5
  <2> QED
    BY <2>1
<1>5. PICK n \in Nat : n = Cardinality(S)
  BY FS_CardinalityType
<1> HIDE DEF G
<1>6. 0 .. n \subseteq G
  BY <1>3, <1>4, NumberByNumber
<1>7. n \in G
  BY <1>6
<1> QED
  BY <1>5, <1>7 DEF G

LEMMA CareType ==
    ASSUME care \in [Ids -> Int], NEW t \in Ids, NEW S \in SUBSET Ids
    PROVE  CareFor(t, S) \in Int
<1>1. IsFiniteSet(S)
  <2>1. IsFiniteSet(Ids)
    BY LoopAssumption, FS_Interval DEF Ids
  <2> QED
    BY <2>1, FS_Subset
<1> DEFINE it == CHOOSE g : g = [s \in SUBSET S |->
                     IF s = {} THEN 0 ELSE care[CHOOSE x \in s : TRUE] + g[s \ {CHOOSE x \in s : TRUE}]]
<1>2. MapThenSumSet(LAMBDA u : care[u], S) = it[S]
  BY DEF MapThenSumSet, MapThenFoldSet
<1>3. Sums(care, S, it)
  <2>1. \E g : Sums(care, S, g)
    BY <1>1, SumsExist
  <2> QED
    BY <2>1, Zenon DEF Sums, First
<1> HIDE DEF it
<1>4. it[S] \in Int
  <2>1. \A x \in S : care[x] \in Int
    OBVIOUS
  <2>2. \A x, y \in Int : x + y \in Int
    OBVIOUS
  <2> QED
    BY <1>1, <1>3, <2>1, <2>2, SumStays
<1> QED
  BY <1>2, <1>4 DEF CareFor

(* Whatever the live rows hold, a token's weight is a natural number.      *)
LEMMA ShareType ==
    ASSUME NEW r \in ThreadRow, IsFiniteSet(r.entities)
    PROVE  ShareOf(r) \in Nat
<1>1. CASE r.entities = {} \/ r.affinity <= 0
  BY <1>1 DEF ShareOf
<1>2. CASE ~ (r.entities = {} \/ r.affinity <= 0)
  <2>1. PICK k \in Nat \ {0} : k = Cardinality(r.entities)
    BY <1>2, FS_CardinalityType, FS_EmptySet
  <2>2. PICK n \in Nat : n = r.affinity
    BY <1>2 DEF ThreadRow
  <2>3. PICK m \in Nat : m = n * Rate(r.state) * Share
    BY DEF Rate, Share
  <2>4. m \div k \in Nat
    BY <2>1
  <2> QED
    BY <1>2, <2>1, <2>2, <2>3, <2>4 DEF ShareOf
<1> QED
  BY <1>1, <1>2

LEMMA WeightType ==
    ASSUME NEW threads, IsFiniteSet(DOMAIN threads), \A t \in DOMAIN threads : threads[t] \in ThreadRow
    PROVE  ProjectWeights(threads, Tokens) \in [Tokens -> Nat]
<1> DEFINE sum(S) == MapThenSumSet(LAMBDA t : ShareOf(threads[t]), S)
           holders(e) == {t \in DOMAIN threads : e \in threads[t].entities}
<1>1. ProjectWeights(threads, Tokens) = [e \in Tokens |-> sum(holders(e))]
  BY DEF ProjectWeights
<1>2. \A t \in DOMAIN threads : ShareOf(threads[t]) \in Nat
  <2> TAKE t \in DOMAIN threads
  <2>1. IsFiniteSet(threads[t].entities)
    BY LoopAssumption, FS_Subset DEF ThreadRow
  <2> QED
    BY <2>1, ShareType
<1>3. ASSUME NEW S \in SUBSET DOMAIN threads PROVE sum(S) \in Nat
  <2> DEFINE Q(h) == [s \in SUBSET S |->
                 IF s = {} THEN 0
                 ELSE ShareOf(threads[CHOOSE x \in s : TRUE]) + h[s \ {CHOOSE x \in s : TRUE}]]
             W == [t \in S |-> ShareOf(threads[t])]
             R(h) == [s \in SUBSET S |-> IF s = {} THEN 0 ELSE W[First(s)] + h[s \ {First(s)}]]
             it == CHOOSE h : h = Q(h)
  <2>1. sum(S) = it[S]
    BY DEF MapThenSumSet, MapThenFoldSet
  <2>2. IsFiniteSet(S)
    BY FS_Subset
  <2>3. \A s \in SUBSET S : s # {} => First(s) \in S /\ W[First(s)] = ShareOf(threads[CHOOSE x \in s : TRUE])
    BY DEF First
  <2>4. \A h : R(h) = Q(h)
    <3> TAKE h
    <3> HIDE DEF W
    <3>1. \A s \in SUBSET S : R(h)[s] = Q(h)[s]
      BY <2>3 DEF First
    <3> QED
      BY <3>1, Zenon
  <2>5. \A t \in S : W[t] \in Nat
    BY <1>2
  <2> HIDE DEF W
  <2>6. PICK g : Sums(W, S, g)
    BY <2>2, SumsExist
  <2>7. g = R(g)
    BY <2>6, Zenon DEF Sums
  <2> HIDE DEF Q, R
  <2>8. it = Q(it)
    BY <2>4, <2>7
  <2>9. it = R(it)
    BY <2>4, <2>8
  <2>10. Sums(W, S, it)
    BY <2>9, Zenon DEF Sums, R
  <2> HIDE DEF it
  <2>11. it[S] \in Nat
    <3>1. \A x, y \in Nat : x + y \in Nat
      OBVIOUS
    <3> QED
      BY <2>2, <2>5, <2>10, <3>1, SumStays
  <2> QED
    BY <2>1, <2>11
<1> HIDE DEF sum
<1>4. \A e \in Tokens : sum(holders(e)) \in Nat
  BY <1>3
<1> QED
  BY <1>1, <1>4

(* The greatest of finitely many instants is one of them.                  *)
LEMMA GreatestInstant ==
    ASSUME NEW S, IsFiniteSet(S), S # {}, S \subseteq Instants \cup {Never}
    PROVE  Max(S) \in S
<1> DEFINE f == [x \in S |-> Horizon - x]
           T == {f[x] : x \in S}
<1>1. \A x \in S : x \in Int /\ x <= Horizon
  BY LoopAssumption DEF Instants, Never
<1>2. \A x \in S : f[x] \in Nat /\ f[x] = Horizon - x
  BY <1>1, LoopAssumption
<1>3. IsFiniteSet(T)
  <2> HIDE DEF f
  <2> QED
    BY FiniteImage
<1>4. T # {} /\ T \subseteq Nat
  BY <1>2
<1> HIDE DEF f
<1>5. PICK x \in S : f[x] = Min(T) /\ \A y \in T : Min(T) <= y
  BY <1>3, <1>4, LeastElement
<1>6. \A y \in S : x >= y
  <2> TAKE y \in S
  <2>1. f[x] <= f[y]
    BY <1>5
  <2> QED
    BY <1>1, <1>2, <2>1, LoopAssumption
<1>7. \E z \in S : \A y \in S : z >= y
  BY <1>6
<1> QED
  BY <1>7 DEF Max

LEMMA RescoredType ==
    ASSUME NEW identities, NEW prior \in ThreadRow, NEW spine \in SUBSET Tokens, NEW delta \in Int,
           clock \in Instants, through \in Instants \cup {Never}, through <= clock,
           event \in [Stories -> Instants \cup {Never}]
    PROVE  Rescored(identities, prior, spine, delta) \in ThreadRow
<1> DEFINE engaged == {s \in Sources : Mentions[s] \cap spine # {}}
           last == Max({prior.last} \cup {event[s] : s \in engaged})
           elapsed == IF through = Never THEN 0 ELSE clock - through
           new == {s \in engaged : NewStory(s)}
           gain == delta + Unit * Cardinality(new)
           affinity == DecayAffinity(prior.affinity, elapsed, gain)
           state == IF last = Never THEN "active" ELSE Transition(Age(last))
           band == WeakestBand(identities, spine)
<1>1. Rescored(identities, prior, spine, delta)
      = [prior EXCEPT !.born = TRUE, !.entities = spine, !.last = last, !.affinity = affinity,
                      !.state = state, !.confidence = band]
  BY DEF Rescored
<1>2. engaged \subseteq Stories /\ IsFiniteSet(engaged) /\ IsFiniteSet(new)
  <2>1. engaged \subseteq Stories /\ new \subseteq Stories
    BY DEF Sources
  <2> QED
    BY <2>1, LoopAssumption, FS_Subset
<1>3. last \in Instants \cup {Never}
  <2> DEFINE E == {event[s] : s \in engaged}
  <2>1. IsFiniteSet(E)
    BY <1>2, FiniteImage
  <2>2. IsFiniteSet({prior.last} \cup E)
    BY <2>1, FS_Singleton, FS_Union
  <2>3. {prior.last} \cup E \subseteq Instants \cup {Never}
    BY <1>2 DEF ThreadRow
  <2> HIDE DEF E
  <2>4. Max({prior.last} \cup E) \in {prior.last} \cup E
    BY <2>2, <2>3, GreatestInstant
  <2> QED
    BY <2>3, <2>4 DEF E
<1>4. elapsed \in Nat
  BY LoopAssumption DEF Instants, Never
<1>5. gain \in Int
  <2>1. Cardinality(new) \in Nat
    BY <1>2, FS_CardinalityType
  <2> QED
    BY <2>1 DEF Unit
<1> HIDE DEF engaged, last, elapsed, new, gain
<1>6. affinity \in Int
  BY <1>4, <1>5, AffinityType DEF ThreadRow
<1>7. state \in {"active", "dormant", "archived"}
  BY DEF Transition
<1>8. band \in {"confirmed", "probable", "uncertain"}
  BY DEF WeakestBand
<1> HIDE DEF affinity, state, band
<1> QED
  BY <1>1, <1>3, <1>6, <1>7, <1>8 DEF ThreadRow

(* A community is a set of tokens: every node of the graph stands for the  *)
(* tokens of an identity, and the least of them is one.                    *)
LEMMA EndsAreTokens == \A e \in Eligible(Edges, Vetoes, Theta) : e.a \in Tokens /\ e.b \in Tokens
<1> DEFINE M == {Edge(p[1], p[2], FeedbackConfidence) : p \in MustLinks}
           Q == {q \in Nodes \X Nodes : /\ q[1] < q[2] /\ q \notin Vetoes
                                        /\ Kind[q[1]] = Kind[q[2]]
                                        /\ Similarity[q] >= Theta}
           L == {Edge(p[1], p[2], LexicalConfidence(Similarity[p])) : p \in Q}
<1>1. MustLinks \subseteq Tokens \X Tokens /\ Q \subseteq Tokens \X Tokens
  BY NodesAreTokens DEF MustLinks
<1>2. Edges = M \cup L
  BY DEF Edges, LexicalEdges
<1>3. \A e \in M \cup L : \E p \in Tokens \X Tokens : e.a = p[1] /\ e.b = p[2]
  <2> HIDE DEF Q
  <2> QED
    BY <1>1 DEF Edge
<1> QED
  BY <1>2, <1>3, TokenPairs DEF Eligible

LEMMA RepresentativesAreTokens == \A t \in Nodes : RepresentativeOf(Identities, t) \in Tokens
<1> TAKE t \in Nodes
<1> DEFINE E == Eligible(Edges, Vetoes, Theta)
<1>1. t \in TokensOf(Nodes, E)
  BY DEF TokensOf
<1>2. IsFiniteSet(E)
  BY EligibleIsEdgeSet DEF EdgeSet
<1>3. ClosedUnder(E, Tokens) /\ t \in Tokens
  BY EndsAreTokens, NodesAreTokens DEF ClosedUnder
<1>4. RepresentativeOf(Identities, t) = Min(Reach(E, t))
  BY <1>1, EligibleIsEdgeSet, IdentitiesResolved, ResolvedIsReach
<1> HIDE DEF E
<1>5. Reach(E, t) \subseteq Tokens /\ t \in Reach(E, t)
  BY <1>2, <1>3, ReachIsLeast
<1>6. Min(Reach(E, t)) \in Reach(E, t)
  BY <1>5, LoopAssumption, FS_Subset, LeastElement
<1> QED
  BY <1>4, <1>5, <1>6

LEMMA CommunitiesOfTokens == \A i \in DOMAIN Communities(Identities) : Communities(Identities)[i] \subseteq Tokens
<1>1. PICK graph : graph = CoOccurrence(Items(Identities))
  OBVIOUS
<1>2. graph.nodes \subseteq Tokens
  <2>1. \A s \in Sources : EntitiesOf(Identities, s) \subseteq Tokens
    BY RepresentativesAreTokens DEF EntitiesOf, Nodes
  <2> QED
    BY <1>1, <2>1, GraphNodes
<1>3. PICK label : label = LabelPropagation(graph)
  OBVIOUS
<1>4. DOMAIN label = graph.nodes
  BY <1>1, <1>3, GraphIsFinite, LabelsNodes
<1>5. \A l : Community(label, l) \subseteq Tokens
  BY <1>2, <1>4 DEF Community
<1>6. Communities(Identities) = Candidates(label, 2)
  BY <1>1, <1>3 DEF Communities
<1> DEFINE large == {l \in {label[x] : x \in DOMAIN label} : Cardinality(Community(label, l)) >= 2}
<1>7. Candidates(label, 2) = [i \in DOMAIN Ascending(large) |-> Community(label, Ascending(large)[i])]
  BY DEF Candidates
<1> HIDE DEF large
<1> QED
  BY <1>5, <1>6, <1>7

-----------------------------------------------------------------------------
(* The type invariant; `through` never passes the clock, so a pass decays  *)
(* over a time that is not negative.                                       *)
LoopTypeInv == LoopTypeOK /\ ThreadInv /\ through <= clock

LEMMA LoopTypeStarts == LoopInit => LoopTypeInv
<1> SUFFICES ASSUME LoopInit PROVE LoopTypeInv
  OBVIOUS
<1>1. ThreadInv
  BY ProjectionStarts
<1>2. UnbornThread \in ThreadRow
  BY DEF UnbornThread, ThreadRow
<1>3. thread \in [Ids -> ThreadRow]
  BY <1>2 DEF LoopInit
<1>4. \A t \in Ids : t < FirstFree <=> thread[t].born
  BY <1>1 DEF ThreadInv
<1>5. /\ clock \in Instants /\ through \in Instants \cup {Never} /\ through <= clock
      /\ inputs \in 0 .. MaxInputs /\ settled \in BOOLEAN
  <2>1. clock = 0 /\ through = -1 /\ inputs = 0 /\ settled = FALSE
    BY DEF LoopInit, Never
  <2>2. 0 \in 0 .. Horizon /\ 0 \in 0 .. MaxInputs
    BY LoopAssumption
  <2>3. clock \in Instants /\ inputs \in 0 .. MaxInputs
    BY <2>1, <2>2 DEF Instants
  <2>4. through \in Instants \cup {Never} /\ settled \in BOOLEAN
    BY <2>1 DEF Never
  <2>5. through <= clock
    BY <2>1
  <2> QED
    BY <2>3, <2>4, <2>5
<1>6. /\ event \in [Stories -> Instants \cup {Never}]
      /\ assertion \in [Tokens \X Tokens -> Assertions] /\ said \in [Pairs -> Assertions]
      /\ care \in [Ids -> Int] /\ weight \in [Tokens -> Nat]
  BY DEF LoopInit, Never, Assertions
<1> QED
  BY <1>1, <1>3, <1>4, <1>5, <1>6 DEF LoopTypeInv, LoopTypeOK

(* What a pass saves: every row has its type, whichever community it got.  *)
LEMMA SavedType ==
    ASSUME LoopTypeInv, NEW a, a = Assigned(Communities(Identities), Matches(Communities(Identities))),
           DOMAIN a \subseteq Ids, NEW t \in DOMAIN a
    PROVE  Rescored(Identities, thread[t], a[t].spine, CareFor(t, a[t].absorb)) \in ThreadRow
<1>1. PICK communities : communities = Communities(Identities)
  OBVIOUS
<1>2. PICK n \in Nat : Len(communities) = n /\ DOMAIN communities = 1 .. n
  BY <1>1, CommunitiesSequence
<1>3. PICK M : M = Matches(communities)
  OBVIOUS
<1>4. IsMatching(M, n)
  BY <1>2, <1>3, MatchesApart DEF IsMatching
<1>5. a = Assigned(communities, M) /\ ThreadInv
  BY <1>1, <1>3 DEF LoopTypeInv
<1>6. t \in Ids /\ thread[t] \in ThreadRow
  BY DEF LoopTypeInv, LoopTypeOK
<1>7. a[t].spine \subseteq Tokens /\ a[t].absorb \subseteq Ids
  <2>1. t \in Carried(M) \/ \E i \in 1 .. n : t = Owner(M, i)
    BY <1>4, <1>5, AssignedRows
  <2>2. CASE t \in Carried(M)
    <3>1. a[t].spine = thread[t].entities /\ a[t].absorb = {}
      BY <1>4, <1>5, <2>2, AssignedRows
    <3> QED
      BY <1>6, <3>1 DEF ThreadRow
  <2>3. ASSUME NEW i \in 1 .. n, t = Owner(M, i) PROVE a[t].spine \subseteq Tokens /\ a[t].absorb \subseteq Ids
    <3>1. a[t].spine = communities[i] /\ a[t].absorb = M[i] \ {t}
      BY <1>4, <1>5, <2>3, AssignedRows
    <3>2. communities[i] \subseteq Tokens
      BY <1>1, <1>2, CommunitiesOfTokens
    <3>3. M[i] \subseteq Ids
      BY <1>4 DEF IsMatching, LiveThreads
    <3> QED
      BY <3>1, <3>2, <3>3
  <2> QED
    BY <2>1, <2>2, <2>3
<1>8. CareFor(t, a[t].absorb) \in Int
  <2>1. care \in [Ids -> Int]
    BY DEF LoopTypeInv, LoopTypeOK
  <2> QED
    BY <1>6, <1>7, <2>1, CareType
<1> QED
  BY <1>6, <1>7, <1>8, RescoredType DEF LoopTypeInv, LoopTypeOK

LEMMA MaintainType == LoopTypeInv /\ Maintain => LoopTypeInv'
<1> SUFFICES ASSUME LoopTypeInv, Maintain PROVE LoopTypeInv'
  OBVIOUS
<1>1. PICK a :
        /\ a = Assigned(Communities(Identities), Matches(Communities(Identities)))
        /\ DOMAIN a \subseteq Ids
        /\ Save(Identities, a)
  BY DEF Maintain
<1>2. ThreadInv'
  BY MaintainProjects DEF LoopTypeInv
<1> DEFINE saved == [t \in DOMAIN a |-> Rescored(Identities, thread[t], a[t].spine, CareFor(t, a[t].absorb))]
           absorber(t) == {w \in DOMAIN a : t \in a[w].absorb}
<1>3. /\ thread' = [t \in Ids |->
              IF t \in DOMAIN a THEN saved[t]
              ELSE IF absorber(t) # {} THEN [thread[t] EXCEPT !.into = Min(absorber(t))]
              ELSE thread[t]]
      /\ weight' = ProjectWeights(saved, Tokens)
  BY <1>1 DEF Save, Projected
<1>4. \A t \in DOMAIN saved : saved[t] \in ThreadRow
  BY <1>1, SavedType
<1>5. IsFiniteSet(DOMAIN saved) /\ DOMAIN saved = DOMAIN a
  BY <1>1, LoopAssumption, FS_Interval, FS_Subset DEF Ids
<1> HIDE DEF saved
<1>6. weight' \in [Tokens -> Nat]
  BY <1>3, <1>4, <1>5, WeightType
<1>7. ASSUME NEW t \in Ids, absorber(t) # {} PROVE Min(absorber(t)) \in Ids
  <2>1. absorber(t) \subseteq Ids
    BY <1>1
  <2>2. IsFiniteSet(absorber(t)) /\ absorber(t) \subseteq Nat
    BY <2>1, LoopAssumption, FS_Interval, FS_Subset DEF Ids
  <2> QED
    BY <1>7, <2>1, <2>2, LeastElement
<1> HIDE DEF absorber
<1>8. thread' \in [Ids -> ThreadRow]
  <2>1. ASSUME NEW t \in Ids PROVE thread'[t] \in ThreadRow
    <3>1. thread[t] \in ThreadRow
      BY DEF LoopTypeInv, LoopTypeOK
    <3>2. CASE t \in DOMAIN a
      BY <1>3, <1>4, <1>5, <3>2
    <3>3. CASE t \notin DOMAIN a /\ absorber(t) # {}
      <4>1. thread'[t] = [thread[t] EXCEPT !.into = Min(absorber(t))]
        BY <1>3, <3>3
      <4> QED
        BY <1>7, <3>1, <3>3, <4>1 DEF ThreadRow
    <3>4. CASE t \notin DOMAIN a /\ absorber(t) = {}
      BY <1>3, <3>1, <3>4
    <3> QED
      BY <3>2, <3>3, <3>4
  <2> QED
    BY <1>3, <2>1
<1>9. /\ clock' = clock /\ event' = event /\ assertion' = assertion /\ said' = said
      /\ inputs' = inputs /\ settled' = TRUE /\ through' = clock /\ care' = [t \in Ids |-> 0]
  BY DEF Maintain
<1>10. \A t \in Ids : t < FirstFree' <=> thread'[t].born
  BY <1>2 DEF ThreadInv, Ids
<1>11. through' \in Instants \cup {Never} /\ through' <= clock' /\ care' \in [Ids -> Int]
  BY <1>9, LoopAssumption DEF LoopTypeInv, LoopTypeOK, Instants
<1> QED
  BY <1>2, <1>6, <1>8, <1>9, <1>10, <1>11 DEF LoopTypeInv, LoopTypeOK, Instants, Ids, ThreadRow

LEMMA LoopTypeKept == LoopTypeInv /\ [LoopNext]_loopVars => LoopTypeInv'
<1> SUFFICES ASSUME LoopTypeInv, [LoopNext]_loopVars PROVE LoopTypeInv'
  OBVIOUS
<1>1. /\ clock \in Instants /\ through \in Instants \cup {Never} /\ through <= clock
      /\ event \in [Stories -> Instants \cup {Never}]
      /\ assertion \in [Tokens \X Tokens -> Assertions] /\ said \in [Pairs -> Assertions]
      /\ care \in [Ids -> Int] /\ inputs \in 0 .. MaxInputs /\ settled \in BOOLEAN
  BY DEF LoopTypeInv, LoopTypeOK
(* No step but a pass writes the table, the weights or the cursor.         *)
<1>2. ASSUME UNCHANGED <<thread, weight, through>>,
             clock' \in Instants, clock <= clock',
             event' \in [Stories -> Instants \cup {Never}],
             assertion' \in [Tokens \X Tokens -> Assertions], said' \in [Pairs -> Assertions],
             care' \in [Ids -> Int], inputs' \in 0 .. MaxInputs, settled' \in BOOLEAN
      PROVE  LoopTypeInv'
  <2>1. ThreadInv' /\ \A t \in Ids : t < FirstFree' <=> thread'[t].born
    BY <1>2 DEF LoopTypeInv, ThreadInv, IsRow, FirstFree, Ids
  <2>2. through' <= clock' /\ through' \in Instants \cup {Never}
    BY <1>1, <1>2, LoopAssumption DEF Instants, Never
  <2>3. thread' \in [Ids -> ThreadRow] /\ weight' \in [Tokens -> Nat]
    BY <1>2 DEF LoopTypeInv, LoopTypeOK
  <2> QED
    BY <1>2, <2>1, <2>2, <2>3 DEF LoopTypeInv, LoopTypeOK, Ids, Instants, ThreadRow
<1>3. ASSUME Input PROVE /\ UNCHANGED <<clock, thread, weight, through>> /\ clock <= clock'
                         /\ inputs' \in 0 .. MaxInputs /\ settled' \in BOOLEAN /\ clock' \in Instants
  <2>1. UNCHANGED <<clock, thread, weight, through>> /\ settled' = FALSE
    BY <1>3 DEF Input
  <2>2. inputs' \in 0 .. MaxInputs
    BY <1>1, <1>3, LoopAssumption DEF Input
  <2>3. clock <= clock'
    BY <1>1, <2>1, LoopAssumption DEF Instants
  <2> QED
    BY <1>1, <2>1, <2>2, <2>3
<1>4. CASE Advance
  <2>1. clock' \in Instants /\ clock <= clock'
    BY <1>1, <1>4, LoopAssumption DEF Advance, Instants
  <2>2. settled' \in BOOLEAN
    BY <1>4 DEF Advance
  <2>3. UNCHANGED <<event, assertion, care, thread, weight, through, said, inputs>>
    BY <1>4 DEF Advance
  <2> QED
    BY <1>1, <1>2, <2>1, <2>2, <2>3
<1>5. ASSUME NEW s \in Stories, StoryHappens(s) PROVE LoopTypeInv'
  <2>1. Input /\ UNCHANGED <<assertion, care, said>> /\ event' = [event EXCEPT ![s] = clock]
    BY <1>5 DEF StoryHappens
  <2>2. event' \in [Stories -> Instants \cup {Never}]
    BY <1>1, <2>1
  <2> QED
    BY <1>1, <1>2, <1>3, <2>1, <2>2
<1>6. ASSUME NEW p \in Correctable, NEW sign \in {"must", "cannot"}, CorrectEntity(p, sign) PROVE LoopTypeInv'
  <2>1. /\ Input /\ UNCHANGED <<event, care>>
        /\ assertion' = [assertion EXCEPT ![p] = sign]
        /\ said' = [said EXCEPT ![Pair(p[1], p[2])] = sign]
    BY <1>6 DEF CorrectEntity, Upserted
  <2>2. assertion' \in [Tokens \X Tokens -> Assertions] /\ said' \in [Pairs -> Assertions]
    BY <1>1, <2>1 DEF Assertions
  <2> QED
    BY <1>1, <1>2, <1>3, <2>1, <2>2
<1>7. ASSUME NEW t \in Ids, NEW signal \in {"care_more", "care_less", "done"}, CorrectThread(t, signal)
      PROVE  LoopTypeInv'
  <2>1. /\ Input /\ UNCHANGED <<event, assertion, said>>
        /\ care' = [care EXCEPT ![t] = @ + AffinityDelta(signal)]
    BY <1>7 DEF CorrectThread
  <2>2. AffinityDelta(signal) \in Int
    BY DEF AffinityDelta, Unit
  <2>3. care' \in [Ids -> Int]
    BY <1>1, <2>1, <2>2
  <2> QED
    BY <1>1, <1>2, <1>3, <2>1, <2>3
<1>8. CASE Maintain
  BY <1>8, MaintainType
<1>9. CASE UNCHANGED loopVars
  <2>1. UNCHANGED <<clock, event, assertion, care, thread, weight, through, said, inputs, settled>>
    BY <1>9 DEF loopVars
  <2>2. clock <= clock'
    BY <1>1, <2>1, LoopAssumption DEF Instants
  <2> QED
    BY <1>1, <1>2, <2>1, <2>2
<1> QED
  BY <1>4, <1>5, <1>6, <1>7, <1>8, <1>9 DEF LoopNext

(* Every reachable state has its types: what a pass computes of spines,    *)
(* affinities, states and weights stays what the tables can hold           *)
(* (build_upsert, project_weights), and the ids in use are the first ones. *)
THEOREM LoopTypeCorrect == LoopSpec => []LoopTypeOK
<1>1. LoopInit => LoopTypeInv
  BY LoopTypeStarts
<1>2. LoopTypeInv /\ [LoopNext]_loopVars => LoopTypeInv'
  BY LoopTypeKept
<1>3. LoopTypeInv => LoopTypeOK
  BY DEF LoopTypeInv
<1> QED
  BY <1>1, <1>2, <1>3, PTL DEF LoopSpec

==============================================================================
