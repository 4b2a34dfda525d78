---------------------- MODULE ThreadMaintenance_proofs ----------------------
(***************************************************************************)
(* Proofs about ThreadMaintenance: the types, and that a correction or a   *)
(* story that no pass was racing counts once, in one thread.               *)
(***************************************************************************)
EXTENDS ThreadMaintenance, FiniteSetTheorems, WellFoundedInduction, TLAPS

-----------------------------------------------------------------------------
(* A finite set of naturals that is not empty has a least element.         *)
LEMMA MinOfNaturals ==
    ASSUME NEW S, IsFiniteSet(S), S \subseteq Nat, S # {}
    PROVE  Min(S) \in S
<1> DEFINE Has(T) == \E x \in T : \A y \in T : x =< y
           Bad == {T \in SUBSET S : T # {} /\ ~ Has(T)}
<1>1. SUFFICES Has(S)
  BY DEF Min
<1>2. SUFFICES ASSUME Bad # {} PROVE FALSE
  OBVIOUS
<1>3. IsWellFoundedOn(StrictSubsetOrdering(S), SUBSET S)
  BY FS_StrictSubsetOrderingWellFounded, FS_FiniteSubsetsOfFinite
<1>4. PICK T \in Bad : \A U \in Bad : <<U, T>> \notin StrictSubsetOrdering(S)
  BY <1>2, <1>3, WFMin
<1>5. PICK x \in T : TRUE
  OBVIOUS
<1>6. T \ {x} \notin Bad
  BY <1>4, <1>5 DEF StrictSubsetOrdering
<1>7. CASE T \ {x} = {}
  BY <1>5, <1>7
<1>8. CASE Has(T \ {x})
  <2>1. PICK m \in T \ {x} : \A y \in T \ {x} : m =< y
    BY <1>8
  <2>2. T \subseteq Nat
    OBVIOUS
  <2>3. Has(T)
    <3>1. CASE m =< x
      BY <2>1, <3>1
    <3>2. CASE ~ (m =< x)
      BY <2>1, <2>2, <3>2, <1>5
    <3> QED BY <3>1, <3>2
  <2> QED BY <2>3
<1> QED BY <1>6, <1>7, <1>8

(* The ids are finite, and so is every set of them.                        *)
LEMMA FiniteIds == \A S \in SUBSET Ids : IsFiniteSet(S) /\ Cardinality(S) \in Nat
<1>1. IsFiniteSet(Ids)
  BY FS_Interval, ThreadAssumption DEF Ids
<1> QED
  BY <1>1, FS_Subset, FS_CardinalityType

-----------------------------------------------------------------------------
(* What a pass plans.  The candidates claim sets of prior threads that     *)
(* have no thread in common, and every prior thread is absorbed by exactly *)
(* one thread that is saved.                                               *)
LEMMA DetectedSpines == \A p \in Pass : p.detected \in Seq(SUBSET Entities)
<1>1. <<>> \in Seq(SUBSET Entities)
  OBVIOUS
<1>2. \A p \in Pass : p.detected \in Detected \/ p.detected = <<>>
  BY DEF Pass
<1> QED
  BY <1>1, <1>2, ThreadAssumption

(* A prior thread is claimed by one candidate at most.                     *)
LEMMA ClaimsApart ==
    ASSUME NEW p \in Pass, NEW i \in Candidates(p), NEW j \in Candidates(p), i # j
    PROVE  Claims(p, i) \cap Claims(p, j) = {}
<1>1. p.detected \in Seq(SUBSET Entities)
  BY DetectedSpines
<1>2. i \in Nat /\ j \in Nat
  BY <1>1 DEF Candidates
<1>3. CASE i < j
  BY <1>3 DEF Claims
<1>4. CASE j < i
  BY <1>4 DEF Claims
<1> QED
  BY <1>2, <1>3, <1>4

(* What is saved under the id of a prior thread: its own spine if it is    *)
(* carried, the spine of the candidate it is the oldest claim of           *)
(* otherwise.                                                              *)
LEMMA UpsertPlans ==
    ASSUME NEW p \in Pass, NEW t \in DOMAIN Upserts(p)
    PROVE  /\ t \in Prior(p)
           /\ \/ t \in Carried(p) /\ Upserts(p)[t] = Planned(p.prior[t].entities, {t})
              \/ \E i \in Matched(p) : /\ t = Oldest(Claims(p, i)) /\ t \in Claims(p, i)
                                       /\ Upserts(p)[t] = Planned(p.detected[i], Claims(p, i))
           /\ Upserts(p)[t].spine \in SUBSET Entities
           /\ Upserts(p)[t].absorbs \in SUBSET Prior(p)
<1>1. \A i \in Matched(p) : Claims(p, i) # {} /\ Claims(p, i) \in SUBSET Ids
  BY DEF Matched, Minted, Claims, Prior
<1>2. \A i \in Matched(p) : Oldest(Claims(p, i)) \in Claims(p, i)
  <2> TAKE i \in Matched(p)
  <2>1. Claims(p, i) \in SUBSET Nat
    BY <1>1 DEF Ids
  <2> QED
    BY <1>1, <2>1, FiniteIds, MinOfNaturals DEF Oldest
<1>3. DOMAIN Upserts(p) = {Oldest(Claims(p, i)) : i \in Matched(p)} \cup Carried(p)
  BY DEF Upserts
<1>4. \A i \in Matched(p) : i \in DOMAIN p.detected /\ p.detected[i] \in SUBSET Entities
  <2>1. p.detected \in Seq(SUBSET Entities)
    BY DetectedSpines
  <2> QED
    BY <2>1 DEF Matched, Candidates
<1>5. CASE t \in Carried(p)
  <2>1. t \in Prior(p) /\ p.prior[t].entities \in SUBSET Entities
    BY <1>5 DEF Carried, Prior, Pass, ThreadRow
  <2>2. Upserts(p)[t] = Planned(p.prior[t].entities, {t})
    BY <1>3, <1>5 DEF Upserts
  <2> QED
    BY <1>5, <2>1, <2>2 DEF Planned
<1>6. CASE t \notin Carried(p)
  <2>1. \E i \in Matched(p) : t = Oldest(Claims(p, i))
    BY <1>3, <1>6
  <2>2. PICK i \in Matched(p) : /\ t = Oldest(Claims(p, i))
                                /\ Upserts(p)[t] = Planned(p.detected[i], Claims(p, i))
    BY <1>3, <1>6, <2>1 DEF Upserts
  <2>3. t \in Claims(p, i) /\ Claims(p, i) \in SUBSET Prior(p)
    BY <1>2, <2>2 DEF Claims
  <2> QED
    BY <1>4, <2>2, <2>3 DEF Planned
<1> QED
  BY <1>5, <1>6

(* Every prior thread is absorbed by one saved thread and by no other.     *)
LEMMA AbsorbedOnce ==
    ASSUME NEW p \in Pass, NEW u \in Prior(p)
    PROVE  \E t \in DOMAIN Upserts(p) :
              /\ u \in Upserts(p)[t].absorbs
              /\ \A v \in DOMAIN Upserts(p) \ {t} : u \notin Upserts(p)[v].absorbs
<1>1. \A i, j \in Matched(p) : u \in Claims(p, i) /\ u \in Claims(p, j) => i = j
  BY ClaimsApart DEF Matched
<1>2. DOMAIN Upserts(p) = {Oldest(Claims(p, i)) : i \in Matched(p)} \cup Carried(p)
  BY DEF Upserts
<1>3. CASE u \in Carried(p)
  <2>1. u \in DOMAIN Upserts(p)
    BY <1>2, <1>3
  <2>2. \A i \in Matched(p) : u \notin Claims(p, i)
    BY <1>3 DEF Carried
  <2>3. \A v \in DOMAIN Upserts(p) : u \in Upserts(p)[v].absorbs => v = u
    BY <2>2, UpsertPlans DEF Planned
  <2>4. u \in Upserts(p)[u].absorbs
    <3>1. Upserts(p)[u] = Planned(p.prior[u].entities, {u})
      BY <1>2, <1>3 DEF Upserts
    <3> QED
      BY <3>1 DEF Planned
  <2> QED
    BY <2>1, <2>3, <2>4
<1>4. CASE u \notin Carried(p)
  <2>1. PICK i \in Matched(p) : u \in Claims(p, i)
    BY <1>4 DEF Carried
  <2>2. PICK t : t = Oldest(Claims(p, i))
    OBVIOUS
  <2>3. t \in DOMAIN Upserts(p)
    BY <1>2, <2>2
  <2>4. t \in Claims(p, i)
    <3>1. Claims(p, i) \in SUBSET Ids /\ Claims(p, i) \in SUBSET Nat
      BY DEF Claims, Prior, Ids
    <3> QED
      BY <2>1, <2>2, <3>1, FiniteIds, MinOfNaturals DEF Oldest
  <2>5. \A v \in DOMAIN Upserts(p) : u \in Upserts(p)[v].absorbs => v = t
    <3> TAKE v \in DOMAIN Upserts(p)
    <3>1. CASE v \in Carried(p) /\ Upserts(p)[v] = Planned(p.prior[v].entities, {v})
      BY <1>4, <3>1 DEF Planned
    <3>2. ASSUME NEW j \in Matched(p), v = Oldest(Claims(p, j)),
                 Upserts(p)[v] = Planned(p.detected[j], Claims(p, j))
          PROVE  u \in Upserts(p)[v].absorbs => v = t
      BY <1>1, <2>1, <2>2, <3>2 DEF Planned
    <3> QED
      BY <3>1, <3>2, UpsertPlans
  <2>6. u \in Upserts(p)[t].absorbs
    <3>1. t \notin Carried(p)
      BY <2>4 DEF Carried
    <3>2. PICK j \in Matched(p) : t \in Claims(p, j) /\ Upserts(p)[t] = Planned(p.detected[j], Claims(p, j))
      BY <2>3, <3>1, UpsertPlans
    <3>3. i = j
      BY <2>4, <3>2, ClaimsApart DEF Matched
    <3> QED
      BY <2>1, <3>2, <3>3 DEF Planned
  <2> QED
    BY <2>3, <2>5, <2>6
<1> QED
  BY <1>3, <1>4

-----------------------------------------------------------------------------
(* What a pass saves.  A row keeps its counts, or gets those of its plan.  *)
LEMMA RescoredType ==
    ASSUME NEW p \in Pass, NEW t \in Ids, NEW plan
    PROVE  Rescored(p, t, plan) \in [Items -> 0 .. 2]
<1>1. \A c \in Items : p.prior[t].count[c] \in 0 .. 2
  BY DEF Pass, ThreadRow
<1>2. \A c \in Items : Folded(p, t, plan, c) \in 0 .. 2
  BY <1>1 DEF Folded
<1> QED
  BY <1>2 DEF Rescored

AbsorbersOf(p, t) == {w \in DOMAIN Upserts(p) : t \in Upserts(p)[w].absorbs}
FreshPlans(p, t) == {Planned(p.detected[i], {}) : i \in {j \in Minted(p) : NewId(p, j) = t}}
Unclaimed(p, t) == t \notin DOMAIN Upserts(p) /\ AbsorbersOf(p, t) = {}

(* The row a pass saves under an id, case by case.                         *)
LEMMA SavedRow ==
    ASSUME NEW p \in Pass, thread \in [Ids -> ThreadRow], NEW t \in Ids
    PROVE  /\ Saved(p)[t] \in ThreadRow
           /\ t \in DOMAIN Upserts(p) =>
                /\ Saved(p)[t].count = Rescored(p, t, Upserts(p)[t])
                /\ Saved(p)[t].into = thread[t].into /\ Saved(p)[t].born
           /\ t \notin DOMAIN Upserts(p) /\ ~ Unclaimed(p, t) =>
                Saved(p)[t].count = thread[t].count /\ Saved(p)[t].born = thread[t].born
           /\ Unclaimed(p, t) /\ FreshPlans(p, t) # {} =>
                /\ \E i \in Minted(p) : Saved(p)[t].count = Rescored(p, t, Planned(p.detected[i], {}))
                /\ Saved(p)[t].born
           /\ Unclaimed(p, t) /\ FreshPlans(p, t) = {} => Saved(p)[t] = thread[t]
<1> DEFINE Scored(row, plan) == [row EXCEPT !.born = TRUE, !.entities = plan.spine,
                                            !.count = Rescored(p, t, plan)]
<1>0. Saved(p)[t] =
        IF t \in DOMAIN Upserts(p) THEN Scored(thread[t], Upserts(p)[t])
        ELSE IF AbsorbersOf(p, t) # {}
        THEN [thread[t] EXCEPT !.into = CHOOSE w \in AbsorbersOf(p, t) : TRUE]
        ELSE IF FreshPlans(p, t) # {}
        THEN Scored(UnbornThread, CHOOSE plan \in FreshPlans(p, t) : TRUE)
        ELSE thread[t]
  BY DEF Saved, AbsorbersOf, FreshPlans
<1>1. thread[t] \in ThreadRow /\ UnbornThread \in ThreadRow
  BY DEF UnbornThread, ThreadRow
<1>2. \A row \in ThreadRow : \A plan : plan.spine \in SUBSET Entities =>
         /\ Scored(row, plan) \in ThreadRow
         /\ Scored(row, plan).count = Rescored(p, t, plan)
         /\ Scored(row, plan).into = row.into /\ Scored(row, plan).born
  BY RescoredType DEF ThreadRow
<1> HIDE DEF Scored
<1>3. CASE t \in DOMAIN Upserts(p)
  <2>1. Upserts(p)[t].spine \in SUBSET Entities
    BY <1>3, UpsertPlans
  <2> QED
    BY <1>0, <1>1, <1>2, <1>3, <2>1 DEF Unclaimed
<1>4. CASE t \notin DOMAIN Upserts(p) /\ AbsorbersOf(p, t) # {}
  <2>1. PICK w \in Ids : Saved(p)[t] = [thread[t] EXCEPT !.into = w]
    <3>1. AbsorbersOf(p, t) \in SUBSET Ids
      BY UpsertPlans DEF AbsorbersOf, Prior
    <3>2. (CHOOSE w \in AbsorbersOf(p, t) : TRUE) \in AbsorbersOf(p, t)
      BY <1>4
    <3> QED
      BY <1>0, <1>4, <3>1, <3>2
  <2> QED
    BY <1>1, <1>4, <2>1 DEF Unclaimed, ThreadRow
<1>5. CASE Unclaimed(p, t) /\ FreshPlans(p, t) # {}
  <2>1. PICK plan \in FreshPlans(p, t) : Saved(p)[t] = Scored(UnbornThread, plan)
    BY <1>0, <1>5 DEF Unclaimed
  <2>2. PICK i \in Minted(p) : plan = Planned(p.detected[i], {})
    BY <2>1 DEF FreshPlans
  <2>3. p.detected[i] \in SUBSET Entities
    BY DetectedSpines DEF Minted, Candidates
  <2>4. plan.spine \in SUBSET Entities
    BY <2>2, <2>3 DEF Planned
  <2> QED
    BY <1>1, <1>2, <1>5, <2>1, <2>2, <2>4 DEF Unclaimed
<1>6. CASE Unclaimed(p, t) /\ FreshPlans(p, t) = {}
  BY <1>0, <1>1, <1>6 DEF Unclaimed
<1> QED
  BY <1>3, <1>4, <1>5, <1>6 DEF Unclaimed

(* The ids of the new threads are the next ones, in the order of their     *)
(* candidates: of n of them, those from FirstFree to FirstFree + n - 1.    *)
LEMMA Ranks ==
    ASSUME NEW M, IsFiniteSet(M), M \subseteq Nat
    PROVE  \A k \in 0 .. Cardinality(M) - 1 : \E i \in M : Cardinality({j \in M : j < i}) = k
<1>0. Cardinality(M) \in Nat
  BY FS_CardinalityType
<1> DEFINE Below(i) == {j \in M : j < i}
           rank == [i \in M |-> Cardinality(Below(i))]
           K == 0 .. Cardinality(M) - 1
<1>1. \A i \in M : IsFiniteSet(Below(i)) /\ Cardinality(Below(i)) \in Nat
  BY FS_Subset, FS_CardinalityType
<1>2. \A i, h \in M : i < h => Cardinality(Below(i)) < Cardinality(Below(h))
  <2> TAKE i, h \in M
  <2> HAVE i < h
  <2>0. \A j \in M : j \in Nat
    OBVIOUS
  <2>1. Below(i) \subseteq Below(h) /\ i \in Below(h) /\ i \notin Below(i)
    <3>1. \A j \in M : j < i => j < h
      BY <2>0
    <3>2. ~ (i < i)
      BY <2>0
    <3> QED
      BY <3>1, <3>2
  <2>2. Below(i) # Below(h)
    BY <2>1
  <2> QED
    BY <1>1, <2>1, <2>2, FS_Subset
<1>3. \A i \in M : Cardinality(Below(i)) < Cardinality(M)
  <2> TAKE i \in M
  <2>1. Below(i) \subseteq M /\ Below(i) # M
    OBVIOUS
  <2> QED
    BY <2>1, FS_Subset, <1>0, <1>1
<1>4. rank \in [M -> K]
  BY <1>0, <1>1, <1>3
<1>5. \A i, h \in M : i # h => rank[i] # rank[h]
  <2> TAKE i, h \in M
  <2> HAVE i # h
  <2>1. i < h \/ h < i
    OBVIOUS
  <2> QED
    BY <1>1, <1>2, <2>1
<1>6. rank \in Injection(M, K)
  BY <1>4, <1>5 DEF Injection, IsInjective
<1>7. IsFiniteSet(K) /\ Cardinality(K) = Cardinality(M)
  <2>1. PICK n \in Int : n = Cardinality(M) - 1
    BY <1>0
  <2>2. IsFiniteSet(0 .. n) /\ Cardinality(0 .. n) = IF 0 > n THEN 0 ELSE n - 0 + 1
    BY FS_Interval
  <2> QED
    BY <1>0, <2>1, <2>2
<1>8. rank \in Surjection(M, K)
  BY <1>6, <1>7, FS_Injection
<1> QED
  BY <1>8 DEF Surjection

(* The candidates that claim no thread are finitely many.                  *)
LEMMA MintedFinite ==
    ASSUME NEW p \in Pass
    PROVE  IsFiniteSet(Minted(p)) /\ Minted(p) \subseteq Nat /\ Cardinality(Minted(p)) \in Nat
<1>1. IsFiniteSet(DOMAIN p.detected) /\ DOMAIN p.detected \subseteq Nat
  BY DetectedSpines, FS_Interval
<1> QED
  BY <1>1, FS_Subset, FS_CardinalityType DEF Minted, Candidates

(* The new threads take the ids that follow those taken.                   *)
LEMMA NewIdsFollow ==
    ASSUME NEW p \in Pass, NEW t \in Ids, FirstFree \in Nat
    PROVE  FreshPlans(p, t) # {} <=> t \in FirstFree .. FirstFree + Cardinality(Minted(p)) - 1
<1>1. IsFiniteSet(Minted(p)) /\ Minted(p) \subseteq Nat
  BY MintedFinite
<1>2. Cardinality(Minted(p)) \in Nat
  BY MintedFinite
<1>3. \A i \in Minted(p) : Cardinality({j \in Minted(p) : j < i}) \in 0 .. Cardinality(Minted(p)) - 1
  <2> TAKE i \in Minted(p)
  <2> DEFINE B == {j \in Minted(p) : j < i}
  <2>1. B \subseteq Minted(p) /\ B # Minted(p)
    BY <1>1
  <2>2. IsFiniteSet(B) /\ Cardinality(B) \in Nat /\ Cardinality(B) < Cardinality(Minted(p))
    BY <1>1, <2>1, FS_Subset, FS_CardinalityType
  <2> QED
    BY <1>2, <2>2
<1>4. FreshPlans(p, t) # {} <=> \E i \in Minted(p) : NewId(p, i) = t
  BY DEF FreshPlans
<1>5. ASSUME NEW i \in Minted(p), NewId(p, i) = t
      PROVE  t \in FirstFree .. FirstFree + Cardinality(Minted(p)) - 1
  BY <1>2, <1>3, <1>5 DEF NewId
<1>6. ASSUME t \in FirstFree .. FirstFree + Cardinality(Minted(p)) - 1
      PROVE  \E i \in Minted(p) : NewId(p, i) = t
  <2>1. t - FirstFree \in 0 .. Cardinality(Minted(p)) - 1
    BY <1>2, <1>6
  <2>2. PICK i \in Minted(p) : Cardinality({j \in Minted(p) : j < i}) = t - FirstFree
    BY <1>1, <2>1, Ranks
  <2>3. NewId(p, i) = t
    BY <1>6, <2>2 DEF NewId
  <2> QED
    BY <2>3
<1> QED
  BY <1>1, <1>2, <1>4, <1>5, <1>6

-----------------------------------------------------------------------------
(* Types.  The threads that are born are the first ones, so the ids a pass *)
(* mints are free; a thread a pass has read is born for good.              *)
PriorBorn == \A b \in Buckets, t \in Ids : pass[b].prior[t].born => thread[t].born
TypeInv == TypeOK /\ PriorBorn

(* The row of a thread not yet minted and the pass at rest.                *)
LEMMA IdleTypes ==
    /\ UnbornThread \in ThreadRow /\ IdlePass \in Pass /\ 0 \in Instants
    /\ \A t \in Ids : ~ IdlePass.prior[t].born
    /\ IdlePass.pc = "idle" /\ IdlePass.stories = {} /\ IdlePass.care = {}
    /\ \A t \in Ids, c \in Items : IdlePass.prior[t].count[c] = 0
<1>1. 0 \in Instants
  BY ThreadAssumption DEF Instants
<1>2. UnbornThread \in ThreadRow
  BY DEF UnbornThread, ThreadRow, NoThread
<1> QED
  BY <1>1, <1>2 DEF IdlePass, Pass, UnbornThread

(* The type invariant holds initially.                                     *)
LEMMA InitTypeInv == Init => TypeInv
<1> SUFFICES ASSUME Init PROVE TypeInv
  OBVIOUS
<1>1. FirstFree = 1
  <2>1. {t \in Ids : thread[t].born} = {}
    BY DEF Init, UnbornThread
  <2> QED
    BY <2>1, FS_EmptySet DEF FirstFree
<1>2. clock \in Instants /\ cursor \in Cursor /\ item \in [Items -> ItemRow]
  BY IdleTypes, ThreadAssumption DEF Init, Cursor, ItemRow
<1>3. /\ thread \in [Ids -> ThreadRow] /\ job \in [Buckets -> JobRow] /\ pass \in [Buckets -> Pass]
      /\ disturbed \in [Items -> BOOLEAN]
  BY IdleTypes DEF Init, JobRow
<1>4. \A t \in Ids : t < FirstFree <=> thread[t].born
  BY <1>1 DEF Init, UnbornThread, Ids
<1>5. \A b \in Buckets : Active(b) <=> job[b].status = "Running"
  BY IdleTypes DEF Init, Active
<1>6. PriorBorn
  BY IdleTypes DEF Init, PriorBorn
<1> QED
  BY <1>2, <1>3, <1>4, <1>5, <1>6 DEF TypeInv, TypeOK

(* A step that leaves the thread table alone.                              *)
LEMMA TypeFrame ==
    ASSUME TypeInv, thread' = thread,
           clock' \in Instants, item' \in [Items -> ItemRow], cursor' \in Cursor,
           disturbed' \in [Items -> BOOLEAN], job' \in [Buckets -> JobRow], pass' \in [Buckets -> Pass],
           \A b \in Buckets : pass'[b].pc # "idle" <=> job'[b].status = "Running",
           \A b \in Buckets : pass'[b].prior \in {pass[b].prior, IdlePass.prior, thread}
    PROVE  TypeInv'
<1>1. PriorBorn'
  BY IdleTypes DEF TypeInv, PriorBorn
<1>2. \A t \in Ids : (t < FirstFree)' <=> thread'[t].born
  BY DEF TypeInv, TypeOK, FirstFree
<1> QED
  BY <1>1, <1>2 DEF TypeInv, TypeOK, Active

(* Steps outside a pass keep the types.                                    *)
LEMMA OutsideType ==
    ASSUME TypeInv,
           \/ Advance \/ Tick
           \/ \E f \in Feedback : BeginSubmit(f)
           \/ \E s \in Stories : StoryHappens(s)
           \/ \E c \in Items : Appear(c)
    PROVE  TypeInv'
<1> USE DEF TypeInv
<1>0. /\ clock \in Instants /\ item \in [Items -> ItemRow] /\ cursor \in Cursor
      /\ disturbed \in [Items -> BOOLEAN] /\ job \in [Buckets -> JobRow] /\ pass \in [Buckets -> Pass]
      /\ \A b \in Buckets : pass[b].pc # "idle" <=> job[b].status = "Running"
  BY DEF TypeOK, Active
<1>1. clock < Horizon => clock + 1 \in Instants
  BY <1>0, ThreadAssumption DEF Instants
<1>2. CASE Advance
  BY <1>0, <1>1, <1>2, TypeFrame DEF Advance
<1>3. CASE Tick
  <2>1. job' \in [Buckets -> JobRow] /\ \A b \in Buckets : job'[b].status = "Running" <=> job[b].status = "Running"
    BY <1>0, <1>3 DEF Tick, JobRow
  <2> QED
    BY <1>0, <1>3, <2>1, TypeFrame DEF Tick
<1>4. ASSUME NEW c \in Items, NEW t \in Ids \cup {NoThread}, Enter(c, t) PROVE TypeInv'
  <2>1. item' \in [Items -> ItemRow]
    BY <1>0, <1>1, <1>4 DEF Enter, ItemRow
  <2>2. disturbed' \in [Items -> BOOLEAN]
    <3>1. PICK d \in BOOLEAN : disturbed' = [disturbed EXCEPT ![c] = d]
      BY <1>4 DEF Enter
    <3> QED
      BY <1>0, <3>1
  <2> QED
    BY <1>0, <1>1, <1>4, <2>1, <2>2, TypeFrame DEF Enter
<1>5. ASSUME NEW c \in Items, Appear(c) PROVE TypeInv'
  <2>1. item' \in [Items -> ItemRow]
    BY <1>0, <1>5 DEF Appear, ItemRow
  <2> QED
    BY <1>0, <1>5, <2>1, TypeFrame DEF Appear
<1> QED
  BY <1>2, <1>3, <1>4, <1>5 DEF BeginSubmit, StoryHappens, Items

(* The steps of a pass before its commit, and its failures, keep the       *)
(* types.                                                                  *)
LEMMA PassType ==
    ASSUME TypeInv, NEW b \in Buckets,
           \/ Start(b) \/ ReadSources(b) \/ ReadCare(b)
           \/ Fail(b) \/ Crash(b)
    PROVE  TypeInv'
<1> USE DEF TypeInv
<1>0. /\ clock \in Instants /\ item \in [Items -> ItemRow] /\ cursor \in Cursor
      /\ disturbed \in [Items -> BOOLEAN] /\ job \in [Buckets -> JobRow] /\ pass \in [Buckets -> Pass]
      /\ \A a \in Buckets : pass[a].pc # "idle" <=> job[a].status = "Running"
      /\ thread \in [Ids -> ThreadRow]
  BY DEF TypeOK, Active
<1>1. CASE Start(b)
  <2>1. /\ pass'[b] = [IdlePass EXCEPT !.pc = "started", !.now = clock]
        /\ \A a \in Buckets \ {b} : pass'[a] = pass[a] /\ job'[a] = job[a]
        /\ job'[b] = [job[b] EXCEPT !.status = "Running", !.attempts = @ + 1]
        /\ DOMAIN pass' = Buckets /\ DOMAIN job' = Buckets
        /\ pass' = [a \in Buckets |-> pass'[a]] /\ job' = [a \in Buckets |-> job'[a]]
    BY <1>0, <1>1 DEF Start
  <2>2. pass'[b] \in Pass /\ pass'[b].pc = "started" /\ pass'[b].prior = IdlePass.prior
    BY <1>0, <2>1, IdleTypes DEF Pass
  <2>3. job'[b] \in JobRow /\ job'[b].status = "Running"
    <3>1. job[b] \in JobRow
      BY <1>0
    <3>2. job[b].attempts + 1 \in Nat
      BY <3>1 DEF JobRow
    <3> QED
      BY <2>1, <3>1, <3>2 DEF JobRow
  <2>4. disturbed' \in [Items -> BOOLEAN]
    BY <1>0, <1>1 DEF Start
  <2>5. pass' \in [Buckets -> Pass] /\ job' \in [Buckets -> JobRow]
    BY <1>0, <2>1, <2>2, <2>3
  <2>6. \A a \in Buckets : pass'[a].pc # "idle" <=> job'[a].status = "Running"
    <3> TAKE a \in Buckets
    <3>1. CASE a = b
      BY <2>2, <2>3, <3>1
    <3>2. CASE a # b
      BY <1>0, <2>1, <3>2
    <3> QED
      BY <3>1, <3>2
  <2>7. UNCHANGED <<clock, item, thread, cursor>>
    BY <1>1 DEF Start
  <2> QED
    BY <1>0, <2>1, <2>2, <2>4, <2>5, <2>6, <2>7, TypeFrame
<1>2. CASE ReadSources(b) \/ ReadCare(b)
  <2>1. PICK p \in Pass : /\ pass' = [pass EXCEPT ![b] = p] /\ pass[b].pc # "idle" /\ p.pc # "idle"
                          /\ p.prior \in {pass[b].prior, thread}
                          /\ UNCHANGED <<clock, item, thread, cursor, job, disturbed>>
    <3>1. CASE ReadSources(b)
      <4>1. PICK communities \in Detected :
               Read(b, "started", [pass[b] EXCEPT !.pc = "begun", !.ran = clock, !.since = cursor.through,
                                     !.detected = communities,
                                     !.stories = {s \in Stories : item[s].status = "visible"}])
        BY <3>1 DEF ReadSources
      <4>2. cursor.through \in Instants
        BY <1>0 DEF Cursor
      <4>3. [pass[b] EXCEPT !.pc = "begun", !.ran = clock, !.since = cursor.through,
                            !.detected = communities,
                            !.stories = {s \in Stories : item[s].status = "visible"}] \in Pass
        BY <1>0, <4>2 DEF Pass
      <4> QED
        BY <1>0, <4>1, <4>3 DEF Read, Pass
    <3>2. CASE ReadCare(b)
      <4>1. Read(b, "begun", [pass[b] EXCEPT !.pc = "loaded", !.prior = thread,
                                !.care = {f \in Feedback : item[f].status = "visible"
                                                            /\ item[f].at > pass[b].since}])
        BY <3>2 DEF ReadCare
      <4>2. [pass[b] EXCEPT !.pc = "loaded", !.prior = thread,
                            !.care = {f \in Feedback : item[f].status = "visible"
                                                        /\ item[f].at > pass[b].since}] \in Pass
        BY <1>0 DEF Pass
      <4> QED
        BY <1>0, <4>1, <4>2 DEF Read, Pass
    <3> QED
      BY <1>2, <3>1, <3>2
  <2>2. pass' \in [Buckets -> Pass] /\ \A a \in Buckets : pass'[a] = IF a = b THEN p ELSE pass[a]
    BY <1>0, <2>1
  <2> QED
    BY <1>0, <2>1, <2>2, TypeFrame
<1>3. CASE Fail(b) \/ Crash(b)
  <2>1. PICK status \in {"Pending", "Failed", "Killed"} : End(b, status)
    BY <1>3 DEF Fail, Crash
  <2>2. pass' \in [Buckets -> Pass] /\ \A a \in Buckets : pass'[a] = IF a = b THEN IdlePass ELSE pass[a]
    BY <1>0, <2>1, IdleTypes DEF End
  <2>3. job' \in [Buckets -> JobRow] /\ job'[b].status = status /\ \A a \in Buckets \ {b} : job'[a] = job[a]
    BY <1>0, <2>1 DEF End, JobRow
  <2> QED
    BY <1>0, <2>1, <2>2, <2>3, IdleTypes, TypeFrame DEF End
<1> QED
  BY <1>1, <1>2, <1>3

(* The threads that are born are those with the first ids.                 *)
LEMMA BornFirst ==
    ASSUME TypeInv
    PROVE  /\ FirstFree \in Nat /\ FirstFree >= 1 /\ FirstFree <= MaxThreads + 1
           /\ {t \in Ids : thread[t].born} = 1 .. FirstFree - 1
<1> DEFINE B == {t \in Ids : thread[t].born}
<1>1. B \in SUBSET Ids
  OBVIOUS
<1>2. Cardinality(B) \in Nat /\ Cardinality(B) <= MaxThreads
  <2>1. IsFiniteSet(Ids) /\ Cardinality(Ids) = MaxThreads
    <3>1. PICK n \in Nat : n = MaxThreads
      BY ThreadAssumption
    <3>2. IsFiniteSet(1 .. n) /\ Cardinality(1 .. n) = n
      BY FS_Interval
    <3> QED
      BY <3>1, <3>2 DEF Ids
  <2> QED
    BY <1>1, <2>1, FS_Subset, FiniteIds
<1>3. FirstFree = Cardinality(B) + 1
  BY DEF FirstFree
<1>4. \A t \in Ids : t < FirstFree <=> t \in B
  BY DEF TypeInv, TypeOK
<1> HIDE DEF B
<1>5. B = 1 .. FirstFree - 1
  <2>1. \A t \in 1 .. FirstFree - 1 : t \in Ids
    BY <1>2, <1>3, ThreadAssumption DEF Ids
  <2>2. \A t \in Ids : t < FirstFree <=> t \in 1 .. FirstFree - 1
    BY <1>2, <1>3, ThreadAssumption DEF Ids
  <2> QED
    BY <1>1, <1>4, <2>1, <2>2
<1> QED
  BY <1>2, <1>3, <1>5, ThreadAssumption DEF B

(* A commit keeps the types, and takes ids without a gap.                  *)
LEMMA CommitType ==
    ASSUME TypeInv, NEW b \in Buckets, Commit(b)
    PROVE  TypeInv'
<1> USE DEF TypeInv
<1>0. /\ clock \in Instants /\ item \in [Items -> ItemRow] /\ cursor \in Cursor
      /\ disturbed \in [Items -> BOOLEAN] /\ job \in [Buckets -> JobRow] /\ pass \in [Buckets -> Pass]
      /\ \A a \in Buckets : pass[a].pc # "idle" <=> job[a].status = "Running"
      /\ thread \in [Ids -> ThreadRow]
  BY DEF TypeOK, Active
<1>1. PICK p \in Pass : p = pass[b]
  BY <1>0
<1>2. /\ thread' = Saved(p)
      /\ cursor' = [through |-> Greatest(cursor.through, p.now), ran |-> p.ran]
      /\ FirstFree + Cardinality(Minted(p)) - 1 <= MaxThreads
      /\ UNCHANGED <<clock, item, disturbed>>
  BY <1>1 DEF Commit
<1>3. pass' \in [Buckets -> Pass] /\ \A a \in Buckets : pass'[a] = IF a = b THEN IdlePass ELSE pass[a]
  BY <1>0, IdleTypes DEF Commit
<1>4. job' \in [Buckets -> JobRow] /\ job'[b].status = "Done" /\ \A a \in Buckets \ {b} : job'[a] = job[a]
  BY <1>0 DEF Commit, JobRow
<1>5. thread' \in [Ids -> ThreadRow]
  <2>1. DOMAIN Saved(p) = Ids /\ Saved(p) = [t \in Ids |-> Saved(p)[t]]
    BY DEF Saved
  <2>2. \A t \in Ids : Saved(p)[t] \in ThreadRow
    BY <1>0, SavedRow
  <2> QED
    BY <1>2, <2>1, <2>2
<1>6. cursor' \in Cursor
  <2>1. cursor.through \in Instants /\ p.now \in Instants /\ p.ran \in Instants
    BY <1>0 DEF Cursor, Pass
  <2> QED
    BY <1>2, <2>1 DEF Cursor, Greatest, Instants
<1>7. PICK n \in Nat : n = Cardinality(Minted(p))
  BY MintedFinite
<1>8. \A t \in Ids : thread'[t].born <=> t \in 1 .. FirstFree - 1 + n
  <2> TAKE t \in Ids
  <2>1. thread[t].born <=> t \in 1 .. FirstFree - 1
    BY BornFirst
  <2>2. FirstFree \in Nat /\ FirstFree >= 1 /\ t \in Nat /\ t >= 1
    BY BornFirst DEF Ids
  <2>3. FreshPlans(p, t) # {} <=> t \in FirstFree .. FirstFree + n - 1
    BY <1>7, <2>2, NewIdsFollow
  <2>4. t \in Prior(p) => thread[t].born
    BY <1>1 DEF Prior, Live, PriorBorn
  <2>5. ~ Unclaimed(p, t) => thread[t].born
    BY <2>4, UpsertPlans DEF Unclaimed, AbsorbersOf
  <2>6. thread'[t].born <=> thread[t].born \/ FreshPlans(p, t) # {}
    <3>1. CASE t \in DOMAIN Upserts(p)
      BY <1>0, <1>2, <2>5, <3>1, SavedRow DEF Unclaimed
    <3>2. CASE t \notin DOMAIN Upserts(p) /\ ~ Unclaimed(p, t)
      BY <1>0, <1>2, <2>5, <3>2, SavedRow
    <3>3. CASE Unclaimed(p, t)
      BY <1>0, <1>2, <3>3, SavedRow
    <3> QED
      BY <3>1, <3>2, <3>3
  <2> QED
    BY <2>1, <2>2, <2>3, <2>6
<1>9. FirstFree' = FirstFree + n
  <2>1. {t \in Ids : thread'[t].born} = 1 .. FirstFree - 1 + n
    BY <1>2, <1>7, <1>8, BornFirst, ThreadAssumption DEF Ids
  <2>2. PICK m \in Nat : m = FirstFree - 1 + n
    BY <1>7, BornFirst
  <2>3. Cardinality(1 .. m) = m
    BY FS_Interval
  <2>4. FirstFree' = Cardinality({t \in Ids : thread'[t].born}) + 1
    BY DEF FirstFree
  <2>5. {t \in Ids : thread'[t].born} = 1 .. m
    BY <2>1, <2>2
  <2>6. FirstFree' = m + 1
    BY <2>3, <2>4, <2>5
  <2>7. FirstFree \in Nat
    BY BornFirst
  <2> QED
    BY <2>2, <2>6, <2>7
<1>10. \A t \in Ids : t < FirstFree' <=> thread'[t].born
  BY <1>7, <1>8, <1>9, BornFirst DEF Ids
<1>11. PriorBorn'
  <2>1. \A t \in Ids : thread[t].born => thread'[t].born
    BY <1>7, <1>8, BornFirst
  <2> QED
    BY <1>3, <2>1, IdleTypes DEF PriorBorn
<1>12. \A a \in Buckets : pass'[a].pc # "idle" <=> job'[a].status = "Running"
  BY <1>0, <1>3, <1>4, IdleTypes
<1> QED
  BY <1>0, <1>2, <1>3, <1>4, <1>5, <1>6, <1>10, <1>11, <1>12 DEF TypeOK, Active

(* Every step keeps the type invariant.                                    *)
LEMMA NextTypeInv == TypeInv /\ [Next]_vars => TypeInv'
<1> SUFFICES ASSUME TypeInv, [Next]_vars PROVE TypeInv'
  OBVIOUS
<1>1. CASE UNCHANGED vars
  BY <1>1 DEF vars, TypeInv, TypeOK, PriorBorn, Active, FirstFree
<1> QED
  BY <1>1, OutsideType, PassType, CommitType DEF Next, Maintain

(* Type correctness: the clock, the items, the thread table, the cursor,   *)
(* the jobs and their passes; the threads that are born are the first      *)
(* ones, and a pass is at work exactly while its job is running.           *)
THEOREM TypeCorrect == Spec => []TypeOK
<1>1. TypeInv => TypeOK
  BY DEF TypeInv
<1> QED
  BY <1>1, InitTypeInv, NextTypeInv, PTL DEF Spec

-----------------------------------------------------------------------------
(***************************************************************************)
(* What counts.  An item no pass was racing is ahead of the cursor while   *)
(* nothing has counted it: then at most one pass is at work, which started *)
(* after the item came in and has read the threads as they are.  Once the  *)
(* cursor is past it, every pass has read a cursor past it, and has read   *)
(* the counts of the item as they are: they stay.                          *)
(***************************************************************************)
Begun(b) == pass[b].pc \in {"begun", "loaded"}
Loaded(b) == pass[b].pc = "loaded"
Born(c) == item[c].status # "unborn"

ClockLeads ==
    /\ cursor.through <= clock
    /\ \A c \in Items : item[c].at <= clock
    /\ \A b \in Buckets : pass[b].now <= clock
ReadsVisible ==
    \A b \in Buckets :
        /\ \A c \in pass[b].stories \cup pass[b].care : item[c].status = "visible"
        /\ \A f \in pass[b].care : item[f].at > pass[b].since
        /\ ~ Loaded(b) => pass[b].care = {}
        /\ pass[b].since <= cursor.through

Uncounted(c) ==
    /\ item[c].at = 0
    /\ \A t \in Ids : thread[t].count[c] = 0
    /\ \A b \in Buckets, t \in Ids : pass[b].prior[t].count[c] = 0

Ahead(c) == Born(c) /\ ~ disturbed[c] /\ item[c].at > cursor.through
OnePass(c) ==
    /\ \A a, b \in Buckets : Active(a) /\ Active(b) => a = b
    /\ \A b \in Buckets : Active(b) => item[c].at <= pass[b].now
    /\ \A b \in Buckets : Loaded(b) => pass[b].prior = thread
NotYet(c) ==
    /\ \A t \in Ids : thread[t].count[c] = 0
    /\ c \in Feedback =>
        /\ item[c].target \in Ids /\ Live(thread, item[c].target)
        /\ \A b \in Buckets : /\ Active(b) => item[c].status = "visible"
                              /\ Loaded(b) => c \in pass[b].care

Behind(c) == Born(c) /\ ~ disturbed[c] /\ item[c].at <= cursor.through
CountStays(c) ==
    /\ \A b \in Buckets : Begun(b) => item[c].at <= pass[b].since
    /\ \A b \in Buckets, t \in Ids : Loaded(b) => pass[b].prior[t].count[c] = thread[t].count[c]
CountedOnce(c) ==
    /\ c \in Feedback => FoldedOnce(c)
    /\ \A t \in Ids : thread[t].count[c] <= 1

ItemInv(c) ==
    /\ ~ Born(c) => Uncounted(c)
    /\ Ahead(c) => OnePass(c) /\ NotYet(c)
    /\ Behind(c) => CountStays(c) /\ CountedOnce(c)

CountInv == TypeInv /\ ClockLeads /\ ReadsVisible /\ \A c \in Items : ItemInv(c)

(* A pass adds an item to a row at most once, and only one it has read as  *)
(* new.                                                                    *)
LEMMA FoldedMore ==
    ASSUME NEW p \in Pass, NEW t \in Ids, NEW plan, NEW c \in Items
    PROVE  /\ Rescored(p, t, plan)[c] \in {p.prior[t].count[c], p.prior[t].count[c] + 1}
           /\ c \notin p.care /\ ~ (c \in p.stories /\ NewStory(p, c))
                 => Rescored(p, t, plan)[c] = p.prior[t].count[c]
BY DEF Rescored, Folded

(* A row that is saved has the count it had, the count the pass has read,  *)
(* or one more.                                                            *)
LEMMA SavedCount ==
    ASSUME NEW p \in Pass, thread \in [Ids -> ThreadRow], NEW t \in Ids, NEW c \in Items
    PROVE  /\ Saved(p)[t].count[c] \in {thread[t].count[c], p.prior[t].count[c], p.prior[t].count[c] + 1}
           /\ c \notin p.care /\ ~ (c \in p.stories /\ NewStory(p, c))
                 => Saved(p)[t].count[c] \in {thread[t].count[c], p.prior[t].count[c]}
<1>1. Saved(p)[t].count = thread[t].count \/ \E plan : Saved(p)[t].count = Rescored(p, t, plan)
  <2>1. CASE t \in DOMAIN Upserts(p)
    BY <2>1, SavedRow
  <2>2. CASE t \notin DOMAIN Upserts(p) /\ ~ Unclaimed(p, t)
    BY <2>2, SavedRow
  <2>3. CASE Unclaimed(p, t) /\ FreshPlans(p, t) # {}
    <3>1. PICK i \in Minted(p) : Saved(p)[t].count = Rescored(p, t, Planned(p.detected[i], {}))
      BY <2>3, SavedRow
    <3> QED
      BY <3>1
  <2>4. CASE Unclaimed(p, t) /\ FreshPlans(p, t) = {}
    BY <2>4, SavedRow
  <2> QED
    BY <2>1, <2>2, <2>3, <2>4
<1>2. CASE Saved(p)[t].count = thread[t].count
  BY <1>2
<1>3. ASSUME NEW plan, Saved(p)[t].count = Rescored(p, t, plan)
      PROVE  /\ Saved(p)[t].count[c] \in {p.prior[t].count[c], p.prior[t].count[c] + 1}
             /\ c \notin p.care /\ ~ (c \in p.stories /\ NewStory(p, c))
                   => Saved(p)[t].count[c] = p.prior[t].count[c]
  BY <1>3, FoldedMore
<1> QED
  BY <1>1, <1>2, <1>3

(* A correction nothing has counted that a pass reads, on a thread that is *)
(* live for it, counts in one thread after it.                             *)
LEMMA CareFolds ==
    ASSUME NEW p \in Pass, thread \in [Ids -> ThreadRow], NEW f \in Feedback,
           f \in p.care, item[f].target \in Prior(p),
           \A t \in Ids : thread[t].count[f] = 0 /\ p.prior[t].count[f] = 0
    PROVE  \E t \in Ids : Saved(p)[t].count[f] = 1 /\ \A u \in Ids \ {t} : Saved(p)[u].count[f] = 0
<1>0. f \in Items /\ f \notin p.stories
  BY ThreadAssumption DEF Items, Pass
<1>1. \A t \in Ids : \A plan :
         Rescored(p, t, plan)[f] = IF item[f].target \in plan.absorbs THEN 1 ELSE 0
  BY <1>0 DEF Rescored, Folded, CareCounts
<1>2. PICK u : u = item[f].target
  OBVIOUS
<1>3. PICK t \in DOMAIN Upserts(p) : /\ u \in Upserts(p)[t].absorbs
                                     /\ \A v \in DOMAIN Upserts(p) \ {t} : u \notin Upserts(p)[v].absorbs
  BY <1>2, AbsorbedOnce
<1>4. t \in Ids
  BY UpsertPlans DEF Prior
<1>5. Saved(p)[t].count[f] = 1
  <2>1. Saved(p)[t].count = Rescored(p, t, Upserts(p)[t])
    BY <1>4, SavedRow
  <2> QED
    BY <1>1, <1>2, <1>3, <1>4, <2>1
<1>6. ASSUME NEW v \in Ids, v # t PROVE Saved(p)[v].count[f] = 0
  <2>1. CASE v \in DOMAIN Upserts(p)
    <3>1. Saved(p)[v].count = Rescored(p, v, Upserts(p)[v])
      BY <2>1, SavedRow
    <3>2. u \notin Upserts(p)[v].absorbs
      BY <1>3, <1>6, <2>1
    <3> QED
      BY <1>1, <1>2, <3>1, <3>2
  <2>2. CASE v \notin DOMAIN Upserts(p) /\ ~ Unclaimed(p, v)
    BY <2>2, SavedRow
  <2>3. CASE Unclaimed(p, v) /\ FreshPlans(p, v) # {}
    <3>1. PICK i \in Minted(p) : Saved(p)[v].count = Rescored(p, v, Planned(p.detected[i], {}))
      BY <2>3, SavedRow
    <3>2. u \notin Planned(p.detected[i], {}).absorbs
      BY DEF Planned
    <3> QED
      BY <1>1, <1>2, <3>1, <3>2
  <2>4. CASE Unclaimed(p, v) /\ FreshPlans(p, v) = {}
    BY <2>4, SavedRow
  <2> QED
    BY <2>1, <2>2, <2>3, <2>4
<1> QED
  BY <1>4, <1>5, <1>6

(* A step that leaves an item, the threads and the cursor alone, and a     *)
(* pass where it is or drops it.                                           *)
LEMMA ItemStays ==
    ASSUME TypeInv, NEW c \in Items, ItemInv(c), thread' = thread, cursor'.through = cursor.through,
           item'[c] = item[c], disturbed[c] => disturbed'[c],
           \A b \in Buckets : pass'[b] \in {pass[b], IdlePass}
    PROVE  ItemInv(c)'
<1>1. \A b \in Buckets : Active(b)' \/ Begun(b)' \/ Loaded(b)' => pass'[b] = pass[b]
  BY IdleTypes DEF Active, Begun, Loaded
<1>2. Uncounted(c) => Uncounted(c)'
  BY IdleTypes DEF Uncounted
<1>3. OnePass(c) => OnePass(c)'
  BY <1>1 DEF OnePass, Active, Loaded
<1>4. NotYet(c) => NotYet(c)'
  BY <1>1 DEF NotYet, Active, Loaded, Live
<1>5. CountStays(c) => CountStays(c)'
  BY <1>1 DEF CountStays, Begun, Loaded
<1>6. CountedOnce(c) => CountedOnce(c)'
  BY DEF CountedOnce, FoldedOnce
<1> QED
  BY <1>2, <1>3, <1>4, <1>5, <1>6 DEF ItemInv, Born, Ahead, Behind

(* An item that comes in is ahead of the cursor, or raced by a pass.       *)
LEMMA EnterCounts ==
    ASSUME CountInv, NEW c \in Items, NEW t \in Ids \cup {NoThread}, c \in Feedback => t \in Ids, Enter(c, t)
    PROVE  ClockLeads' /\ ReadsVisible' /\ \A d \in Items : ItemInv(d)'
<1> USE DEF CountInv
<1>0. /\ clock \in Nat /\ cursor.through \in Nat /\ item \in [Items -> ItemRow]
      /\ disturbed \in [Items -> BOOLEAN] /\ pass \in [Buckets -> Pass]
      /\ \A d \in Items : item[d].at \in Nat
      /\ \A b \in Buckets : pass[b].now \in Nat /\ pass[b].since \in Nat
  BY ThreadAssumption DEF TypeInv, TypeOK, Instants, Cursor, ItemRow, Pass
<1>1. /\ item'[c] = [status |-> "open", at |-> clock + 1, target |-> t]
      /\ \A d \in Items \ {c} : item'[d] = item[d] /\ disturbed'[d] = disturbed[d]
      /\ disturbed'[c] = ((\E b \in Buckets : Active(b)) \/ (t # NoThread /\ ~ Live(thread, t)))
      /\ clock' = clock + 1 /\ UNCHANGED <<thread, cursor, pass>>
      /\ item[c].status = "unborn"
  BY <1>0 DEF Enter
<1>2. ClockLeads'
  BY <1>0, <1>1 DEF ClockLeads
<1>3. ReadsVisible'
  <2>1. \A b \in Buckets : pass[b].stories \cup pass[b].care \subseteq Items
    BY <1>0 DEF Pass, Items
  <2>2. \A b \in Buckets : c \notin pass[b].stories \cup pass[b].care
    BY <1>1 DEF ReadsVisible
  <2> QED
    BY <1>1, <2>1, <2>2 DEF ReadsVisible, Loaded
<1>4. ASSUME NEW d \in Items, d # c PROVE ItemInv(d)'
  BY <1>1, <1>4, ItemStays
<1>5. ItemInv(c)'
  <2>1. Uncounted(c)
    BY <1>1 DEF ItemInv, Born
  <2>2. item'[c].at = clock + 1 /\ item'[c].status = "open" /\ item'[c].target = t
    BY <1>1
  <2>3. ~ Behind(c)'
    BY <1>0, <1>1, <2>2 DEF Behind, ClockLeads
  <2>4. Born(c)'
    BY <2>2 DEF Born
  <2>5. ASSUME Ahead(c)' PROVE OnePass(c)' /\ NotYet(c)'
    <3>1. ~ disturbed'[c]
      BY <2>5 DEF Ahead
    <3>2. \A b \in Buckets : ~ Active(b)'
      BY <1>1, <3>1 DEF Active
    <3>3. OnePass(c)'
      BY <3>2 DEF OnePass, Active, Loaded
    <3>4. c \in Feedback => item'[c].target \in Ids /\ Live(thread', item'[c].target)
      <4>1. SUFFICES ASSUME c \in Feedback PROVE t \in Ids /\ Live(thread, t)
        BY <1>1, <2>2
      <4>2. t \in Ids
        BY <4>1
      <4>3. t # NoThread
        BY <4>2, ThreadAssumption DEF Ids, NoThread
      <4>4. ~ (t # NoThread /\ ~ Live(thread, t))
        BY <1>1, <3>1
      <4> QED
        BY <4>2, <4>3, <4>4
    <3>5. \A u \in Ids : thread'[u].count[c] = 0
      BY <1>1, <2>1 DEF Uncounted
    <3> QED
      BY <3>2, <3>3, <3>4, <3>5 DEF NotYet, Active, Loaded
  <2> QED
    BY <2>3, <2>4, <2>5 DEF ItemInv
<1> QED
  BY <1>2, <1>3, <1>4, <1>5

(* The clock, the tick, an item that becomes visible and a pass that fails *)
(* leave every count alone.                                                *)
LEMMA OutsideCounts ==
    ASSUME CountInv,
           \/ Advance \/ Tick \/ UNCHANGED vars
           \/ \E b \in Buckets : Fail(b) \/ Crash(b)
           \/ \E c \in Items : Appear(c)
    PROVE  ClockLeads' /\ ReadsVisible' /\ \A d \in Items : ItemInv(d)'
<1> USE DEF CountInv
<1>0. /\ clock \in Nat /\ cursor.through \in Nat /\ item \in [Items -> ItemRow]
      /\ disturbed \in [Items -> BOOLEAN] /\ pass \in [Buckets -> Pass]
      /\ \A d \in Items : item[d].at \in Nat
      /\ \A b \in Buckets : pass[b].now \in Nat /\ pass[b].since \in Nat
  BY ThreadAssumption DEF TypeInv, TypeOK, Instants, Cursor, ItemRow, Pass
<1>1. IdlePass.now = 0 /\ IdlePass.since = 0 /\ IdlePass.stories = {} /\ IdlePass.care = {}
  BY DEF IdlePass
<1>2. CASE \/ Advance \/ Tick \/ UNCHANGED vars
           \/ \E b \in Buckets : Fail(b) \/ Crash(b)
  <2>1. UNCHANGED <<thread, cursor, item, disturbed>> /\ clock <= clock' /\ clock' \in Nat
    BY <1>0, <1>2 DEF Advance, Tick, vars, Fail, Crash, End
  <2>2. \A b \in Buckets : pass'[b] \in {pass[b], IdlePass}
    BY <1>0, <1>2 DEF Advance, Tick, vars, Fail, Crash, End
  <2>3. ClockLeads'
    BY <1>0, <1>1, <2>1, <2>2 DEF ClockLeads
  <2>4. ReadsVisible'
    BY <1>0, <1>1, <2>1, <2>2 DEF ReadsVisible, Loaded
  <2> QED
    BY <2>1, <2>2, <2>3, <2>4, ItemStays
<1>3. ASSUME NEW c \in Items, Appear(c) PROVE ClockLeads' /\ ReadsVisible' /\ \A d \in Items : ItemInv(d)'
  <2>1. /\ UNCHANGED <<thread, cursor, disturbed, pass, clock>>
        /\ item[c].status = "open"
        /\ item'[c].status = "visible" /\ item'[c].at = item[c].at /\ item'[c].target = item[c].target
        /\ \A d \in Items \ {c} : item'[d] = item[d]
    BY <1>0, <1>3 DEF Appear, ItemRow
  <2>2. ClockLeads'
    BY <2>1 DEF ClockLeads
  <2>3. ReadsVisible'
    <3>1. \A b \in Buckets : pass[b].stories \cup pass[b].care \subseteq Items
      BY <1>0 DEF Pass, Items
    <3> QED
      BY <2>1, <3>1 DEF ReadsVisible, Loaded
  <2>4. ASSUME NEW d \in Items, d # c PROVE ItemInv(d)'
    BY <2>1, <2>4, ItemStays
  <2>5. ItemInv(c)'
    <3>1. (Ahead(c)' <=> Ahead(c)) /\ (Behind(c)' <=> Behind(c)) /\ Born(c) /\ Born(c)'
      BY <2>1 DEF Ahead, Behind, Born
    <3>2. OnePass(c) => OnePass(c)'
      BY <2>1 DEF OnePass, Active, Loaded
    <3>3. NotYet(c) => NotYet(c)'
      BY <2>1 DEF NotYet, Active, Loaded, Live
    <3>4. CountStays(c) => CountStays(c)'
      BY <2>1 DEF CountStays, Begun, Loaded
    <3>5. CountedOnce(c) => CountedOnce(c)'
      BY <2>1 DEF CountedOnce, FoldedOnce
    <3> QED
      BY <3>1, <3>2, <3>3, <3>4, <3>5 DEF ItemInv
  <2> QED
    BY <2>2, <2>3, <2>4, <2>5
<1> QED
  BY <1>2, <1>3

(* A pass that starts is alone before an item that is still ahead of the   *)
(* cursor, or disturbs it.                                                 *)
LEMMA StartCounts ==
    ASSUME CountInv, NEW b \in Buckets, Start(b)
    PROVE  ClockLeads' /\ ReadsVisible' /\ \A d \in Items : ItemInv(d)'
<1> USE DEF CountInv
<1>0. /\ clock \in Nat /\ cursor.through \in Nat /\ pass \in [Buckets -> Pass] /\ job \in [Buckets -> JobRow]
      /\ \A d \in Items : item[d].at \in Nat
      /\ \A a \in Buckets : Active(a) <=> job[a].status = "Running"
      /\ item \in [Items -> ItemRow]
  BY ThreadAssumption DEF TypeInv, TypeOK, Instants, Cursor, ItemRow, Pass
<1>1. /\ UNCHANGED <<clock, item, thread, cursor>>
      /\ \A a \in Buckets \ {b} : pass'[a] = pass[a]
      /\ pass'[b] = [IdlePass EXCEPT !.pc = "started", !.now = clock]
      /\ ~ Active(b)
  BY <1>0 DEF Start, Runnable
<1>2. /\ pass'[b].pc = "started" /\ pass'[b].now = clock /\ pass'[b].since = 0
      /\ pass'[b].stories = {} /\ pass'[b].care = {} /\ pass'[b].prior = IdlePass.prior
  <2>1. IdlePass \in Pass /\ IdlePass.stories = {} /\ IdlePass.care = {}
    BY IdleTypes
  <2>2. IdlePass.since = 0
    BY DEF IdlePass
  <2> QED
    BY <1>1, <2>1, <2>2 DEF Pass
<1>3. ClockLeads'
  <2>1. \A a \in Buckets : pass'[a].now <= clock
    <3> TAKE a \in Buckets
    <3>1. CASE a = b
      BY <1>0, <1>2, <3>1
    <3>2. CASE a # b
      BY <1>1, <3>2 DEF ClockLeads
    <3> QED
      BY <3>1, <3>2
  <2> QED
    BY <1>1, <2>1 DEF ClockLeads
<1>4. ReadsVisible'
  <2> SUFFICES ASSUME NEW a \in Buckets
               PROVE  /\ \A c \in pass'[a].stories \cup pass'[a].care : item[c].status = "visible"
                      /\ \A f \in pass'[a].care : item[f].at > pass'[a].since
                      /\ pass'[a].pc # "loaded" => pass'[a].care = {}
                      /\ pass'[a].since <= cursor.through
    BY <1>1 DEF ReadsVisible, Loaded
  <2>1. CASE a = b
    BY <1>0, <1>2, <2>1
  <2>2. CASE a # b
    BY <1>1, <2>2 DEF ReadsVisible, Loaded
  <2> QED
    BY <2>1, <2>2
<1>5. ASSUME NEW c \in Items PROVE ItemInv(c)'
  <2>1. disturbed'[c] = (\/ disturbed[c]
                         \/ item[c].status = "open" /\ c \in Feedback
                         \/ item[c].at > cursor.through /\ \E a \in Buckets : Active(a))
    BY DEF Start
  <2>2. \A a \in Buckets : Begun(a)' \/ Loaded(a)' => pass'[a] = pass[a]
    BY <1>1, <1>2 DEF Begun, Loaded
  <2>3. ~ Born(c)' => Uncounted(c)'
    <3>1. \A t \in Ids : IdlePass.prior[t].count[c] = 0
      BY IdleTypes
    <3>2. \A t \in Ids : pass'[b].prior[t].count[c] = 0
      BY <1>2, <3>1
    <3>3. SUFFICES ASSUME ~ Born(c)' PROVE Uncounted(c)'
      OBVIOUS
    <3>4. Uncounted(c)
      BY <1>1, <3>3 DEF ItemInv, Born
    <3>5. \A a \in Buckets, t \in Ids : pass'[a].prior[t].count[c] = 0
      <4> TAKE a \in Buckets, t \in Ids
      <4>1. CASE a = b
        BY <3>2, <4>1
      <4>2. CASE a # b
        BY <1>1, <3>4, <4>2 DEF Uncounted
      <4> QED
        BY <4>1, <4>2
    <3> QED
      BY <1>1, <3>4, <3>5 DEF Uncounted
  <2>4. ASSUME Ahead(c)' PROVE OnePass(c)' /\ NotYet(c)'
    <3>1. Ahead(c) /\ (c \in Feedback => item[c].status # "open") /\ \A a \in Buckets : ~ Active(a)
      BY <1>1, <2>1, <2>4 DEF Ahead, Born
    <3>2. item[c].at <= clock
      BY DEF ClockLeads
    <3>3. \A a \in Buckets : Active(a)' => a = b
      BY <1>1, <3>1 DEF Active
    <3>4. \A a \in Buckets : ~ Loaded(a)'
      BY <1>1, <1>2, <3>1 DEF Active, Loaded
    <3>5. OnePass(c)'
      BY <1>1, <1>2, <3>2, <3>3, <3>4 DEF OnePass
    <3>6. item[c].status = "visible" \/ c \notin Feedback
      BY <1>0, <3>1 DEF Ahead, Born, ItemRow
    <3>7. NotYet(c)'
      BY <1>1, <3>1, <3>4, <3>6 DEF ItemInv, NotYet, Live
    <3> QED
      BY <3>5, <3>7
  <2>5. ASSUME Behind(c)' PROVE CountStays(c)' /\ CountedOnce(c)'
    <3>1. Behind(c)
      BY <1>1, <2>1, <2>5 DEF Behind, Born
    <3> QED
      BY <1>1, <2>2, <3>1 DEF ItemInv, CountStays, CountedOnce, FoldedOnce, Begun, Loaded
  <2> QED
    BY <2>3, <2>4, <2>5 DEF ItemInv
<1> QED
  BY <1>3, <1>4, <1>5

(* What a pass reads agrees with the threads and the cursor as they are.   *)
LEMMA ReadCounts ==
    ASSUME CountInv, NEW b \in Buckets, ReadSources(b) \/ ReadCare(b)
    PROVE  ClockLeads' /\ ReadsVisible' /\ \A d \in Items : ItemInv(d)'
<1> USE DEF CountInv
<1>0. /\ clock \in Nat /\ cursor.through \in Nat /\ pass \in [Buckets -> Pass]
      /\ \A d \in Items : item[d].at \in Nat
      /\ \A a \in Buckets : pass[a].since \in Nat
  BY ThreadAssumption DEF TypeInv, TypeOK, Instants, Cursor, ItemRow, Pass
<1>1. /\ UNCHANGED <<clock, item, thread, cursor, disturbed>>
      /\ \A a \in Buckets \ {b} : pass'[a] = pass[a]
      /\ Active(b) /\ Active(b)'
  BY <1>0 DEF ReadSources, ReadCare, Read, Active, Pass
<1>2. /\ pass'[b].now = pass[b].now
      /\ \/ /\ pass'[b].pc = "begun" /\ pass'[b].since = cursor.through /\ pass'[b].prior = pass[b].prior
            /\ pass'[b].stories = {s \in Stories : item[s].status = "visible"}
            /\ pass'[b].care = pass[b].care
            /\ pass[b].pc = "started"
         \/ /\ pass[b].pc = "begun" /\ pass'[b].pc = "loaded"
            /\ pass'[b].since = pass[b].since /\ pass'[b].prior = thread
            /\ pass'[b].stories = pass[b].stories
            /\ pass'[b].care = {f \in Feedback : item[f].status = "visible" /\ item[f].at > pass[b].since}
  <2>1. CASE ReadSources(b)
    <3>1. pass[b] \in Pass
      BY <1>0
    <3>2. PICK communities \in Detected :
             /\ pass[b].pc = "started"
             /\ pass'[b] = [pass[b] EXCEPT !.pc = "begun", !.ran = clock, !.since = cursor.through,
                              !.detected = communities,
                              !.stories = {s \in Stories : item[s].status = "visible"}]
      BY <1>0, <2>1 DEF ReadSources, Read
    <3> QED
      BY <3>1, <3>2 DEF Pass
  <2>2. CASE ReadCare(b)
    BY <1>0, <2>2 DEF ReadCare, Read, Pass
  <2> QED
    BY <2>1, <2>2
<1>3. ClockLeads'
  <2>1. \A a \in Buckets : pass'[a].now = pass[a].now
    BY <1>1, <1>2
  <2> QED
    BY <1>1, <2>1 DEF ClockLeads
<1>4. ReadsVisible'
  <2> SUFFICES ASSUME NEW a \in Buckets
               PROVE  /\ \A c \in pass'[a].stories \cup pass'[a].care : item[c].status = "visible"
                      /\ \A f \in pass'[a].care : item[f].at > pass'[a].since
                      /\ pass'[a].pc # "loaded" => pass'[a].care = {}
                      /\ pass'[a].since <= cursor.through
    BY <1>1 DEF ReadsVisible, Loaded
  <2>1. CASE a # b
    BY <1>1, <2>1 DEF ReadsVisible, Loaded
  <2>2. CASE a = b /\ pass[b].pc = "started"
    <3>1. pass[b].care = {}
      BY <1>1, <2>2 DEF ReadsVisible, Loaded
    <3> QED
      BY <1>0, <1>2, <2>2, <3>1
  <2>3. CASE a = b /\ pass[b].pc = "begun"
    BY <1>0, <1>2, <2>3 DEF ReadsVisible, Loaded
  <2> QED
    BY <1>2, <2>1, <2>2, <2>3
<1>5. ASSUME NEW c \in Items PROVE ItemInv(c)'
  <2>1. (Born(c)' <=> Born(c)) /\ (Ahead(c)' <=> Ahead(c)) /\ (Behind(c)' <=> Behind(c))
    BY <1>1 DEF Born, Ahead, Behind
  <2>2. Uncounted(c) => Uncounted(c)'
    BY <1>1, <1>2 DEF Uncounted
  <2>3. OnePass(c) => OnePass(c)'
    BY <1>1, <1>2 DEF OnePass, Active, Loaded
  <2>4. Ahead(c) /\ NotYet(c) => NotYet(c)'
    <3> SUFFICES ASSUME Ahead(c), NotYet(c) PROVE NotYet(c)'
      OBVIOUS
    <3>1. pass[b].since <= cursor.through /\ item[c].at > pass[b].since
      BY <1>0 DEF ReadsVisible, Ahead
    <3>2. c \in Feedback /\ Loaded(b)' => c \in pass'[b].care
      BY <1>1, <1>2, <3>1 DEF NotYet, Loaded
    <3> QED
      BY <1>1, <3>2 DEF NotYet, Active, Loaded, Live
  <2>5. Behind(c) /\ CountStays(c) => CountStays(c)'
    BY <1>0, <1>1, <1>2 DEF Behind, CountStays, Begun, Loaded
  <2>6. CountedOnce(c) => CountedOnce(c)'
    BY <1>1 DEF CountedOnce, FoldedOnce
  <2> QED
    BY <2>1, <2>2, <2>3, <2>4, <2>5, <2>6 DEF ItemInv
<1> QED
  BY <1>3, <1>4, <1>5

(* A commit folds what is ahead of the cursor once, and moves the cursor   *)
(* past it; what is behind the cursor it leaves as it read it.             *)
LEMMA CommitCounts ==
    ASSUME CountInv, NEW b \in Buckets, Commit(b)
    PROVE  ClockLeads' /\ ReadsVisible' /\ \A d \in Items : ItemInv(d)'
<1> USE DEF CountInv
<1>0. /\ clock \in Nat /\ cursor.through \in Nat /\ pass \in [Buckets -> Pass]
      /\ thread \in [Ids -> ThreadRow] /\ cursor \in Cursor
      /\ \A d \in Items : item[d].at \in Nat
      /\ \A a \in Buckets : pass[a].since \in Nat /\ pass[a].now \in Nat
  BY ThreadAssumption DEF TypeInv, TypeOK, Instants, Cursor, ItemRow, Pass
<1>1. PICK p \in Pass : p = pass[b]
  BY <1>0
<1>2. /\ UNCHANGED <<clock, item, disturbed>> /\ thread' = Saved(p) /\ p.pc = "loaded"
      /\ cursor'.through = Greatest(cursor.through, p.now)
      /\ \A a \in Buckets \ {b} : pass'[a] = pass[a]
      /\ pass'[b] = IdlePass
  BY <1>0, <1>1 DEF Commit
<1>3. /\ cursor'.through \in Nat /\ cursor'.through <= clock
      /\ cursor.through <= cursor'.through /\ p.now <= cursor'.through
  BY <1>0, <1>1, <1>2 DEF Greatest, ClockLeads
<1>4. /\ IdlePass.now = 0 /\ IdlePass.since = 0 /\ IdlePass.stories = {} /\ IdlePass.care = {}
      /\ IdlePass.pc = "idle"
  BY DEF IdlePass
<1>5. ClockLeads'
  <2>1. \A a \in Buckets : pass'[a].now <= clock
    <3> TAKE a \in Buckets
    <3>1. CASE a = b
      BY <1>0, <1>2, <1>4, <3>1
    <3>2. CASE a # b
      BY <1>2, <3>2 DEF ClockLeads
    <3> QED
      BY <3>1, <3>2
  <2> QED
    BY <1>2, <1>3, <2>1 DEF ClockLeads
<1>6. ReadsVisible'
  <2> SUFFICES ASSUME NEW a \in Buckets
               PROVE  /\ \A c \in pass'[a].stories \cup pass'[a].care : item[c].status = "visible"
                      /\ \A f \in pass'[a].care : item[f].at > pass'[a].since
                      /\ pass'[a].pc # "loaded" => pass'[a].care = {}
                      /\ pass'[a].since <= cursor'.through
    BY <1>2 DEF ReadsVisible, Loaded
  <2>1. CASE a = b
    BY <1>2, <1>3, <1>4, <2>1
  <2>2. CASE a # b
    <3>1. pass[a].since <= cursor.through
      BY DEF ReadsVisible
    <3>2. pass[a].since <= cursor'.through
      BY <1>0, <1>3, <3>1
    <3> QED
      BY <1>2, <2>2, <3>2 DEF ReadsVisible, Loaded
  <2> QED
    BY <2>1, <2>2
<1>7. ASSUME NEW c \in Items PROVE ItemInv(c)'
  <2>1. /\ \A t \in Ids : thread'[t].count[c] \in
                 {thread[t].count[c], p.prior[t].count[c], p.prior[t].count[c] + 1}
        /\ c \notin p.care /\ ~ (c \in p.stories /\ NewStory(p, c)) =>
              \A t \in Ids : thread'[t].count[c] \in {thread[t].count[c], p.prior[t].count[c]}
    BY <1>0, <1>2, SavedCount
  <2>2. ASSUME ~ Born(c)' PROVE Uncounted(c)'
    <3>1. Uncounted(c) /\ item[c].status = "unborn"
      BY <1>2, <2>2 DEF ItemInv, Born
    <3>2. c \notin p.care /\ c \notin p.stories
      BY <1>1, <3>1 DEF ReadsVisible
    <3>3. \A t \in Ids : thread'[t].count[c] = 0
      BY <1>1, <2>1, <3>1, <3>2 DEF Uncounted
    <3>4. \A a \in Buckets, t \in Ids : pass'[a].prior[t].count[c] = 0
      <4> TAKE a \in Buckets, t \in Ids
      <4>1. CASE a = b
        BY <1>2, <4>1, IdleTypes
      <4>2. CASE a # b
        BY <1>2, <3>1, <4>2 DEF Uncounted
      <4> QED
        BY <4>1, <4>2
    <3> QED
      BY <1>2, <3>1, <3>3, <3>4 DEF Uncounted
  <2>3. ASSUME Ahead(c) PROVE ~ Ahead(c)' /\ CountStays(c)' /\ CountedOnce(c)'
    <3>1. OnePass(c) /\ NotYet(c)
      BY <2>3 DEF ItemInv
    <3>2. Active(b) /\ Loaded(b)
      BY <1>1, <1>2 DEF Active, Loaded
    <3>3. item[c].at <= p.now /\ p.prior = thread
      BY <1>1, <3>1, <3>2 DEF OnePass
    <3>4. ~ Ahead(c)'
      <4>1. item[c].at <= cursor'.through
        BY <1>0, <1>1, <1>3, <3>3
      <4> QED
        BY <1>0, <1>2, <1>3, <4>1 DEF Ahead
    <3>5. \A a \in Buckets : ~ Begun(a)' /\ ~ Loaded(a)'
      <4> TAKE a \in Buckets
      <4>1. CASE a = b
        BY <1>2, <1>4, <4>1 DEF Begun, Loaded
      <4>2. CASE a # b
        BY <1>2, <3>1, <3>2, <4>2 DEF OnePass, Active, Begun, Loaded
      <4> QED
        BY <4>1, <4>2
    <3>6. CountStays(c)'
      BY <3>5 DEF CountStays
    <3>7. \A t \in Ids : thread[t].count[c] = 0 /\ p.prior[t].count[c] = 0
      BY <3>1, <3>3 DEF NotYet
    <3>8. \A t \in Ids : thread'[t].count[c] <= 1
      BY <2>1, <3>7
    <3>9. c \in Feedback => FoldedOnce(c)'
      <4> SUFFICES ASSUME c \in Feedback PROVE FoldedOnce(c)'
        OBVIOUS
      <4>1. c \in p.care /\ item[c].target \in Prior(p)
        BY <1>1, <3>1, <3>2, <3>3 DEF NotYet, Prior
      <4>2. \E t \in Ids : Saved(p)[t].count[c] = 1 /\ \A u \in Ids \ {t} : Saved(p)[u].count[c] = 0
        BY <1>0, <3>7, <4>1, CareFolds
      <4> QED
        BY <1>2, <4>2 DEF FoldedOnce
    <3> QED
      BY <3>4, <3>6, <3>8, <3>9 DEF CountedOnce
  <2>4. ASSUME Behind(c) PROVE ~ Ahead(c)' /\ CountStays(c)' /\ CountedOnce(c)'
    <3>1. CountStays(c) /\ CountedOnce(c)
      BY <2>4 DEF ItemInv
    <3>2. ~ Ahead(c)'
      <4>1. item[c].at <= cursor'.through
        BY <1>0, <1>3, <2>4 DEF Behind
      <4> QED
        BY <1>0, <1>2, <1>3, <4>1 DEF Ahead
    <3>3. item[c].at <= p.since /\ \A t \in Ids : p.prior[t].count[c] = thread[t].count[c]
      BY <1>1, <1>2, <3>1 DEF CountStays, Begun, Loaded
    <3>4. c \notin p.care /\ ~ NewStory(p, c)
      <4>1. ~ (item[c].at > p.since)
        BY <1>0, <1>1, <3>3
      <4> QED
        BY <1>1, <4>1 DEF ReadsVisible, NewStory
    <3>5. \A t \in Ids : thread'[t].count[c] = thread[t].count[c]
      BY <2>1, <3>3, <3>4
    <3>6. CountStays(c)'
      <4>1. \A a \in Buckets : Begun(a)' => item[c].at <= pass'[a].since
        <5> TAKE a \in Buckets
        <5>1. CASE a = b
          BY <1>2, <1>4, <5>1 DEF Begun
        <5>2. CASE a # b
          BY <1>2, <3>1, <5>2 DEF CountStays, Begun
        <5> QED
          BY <5>1, <5>2
      <4>2. \A a \in Buckets, t \in Ids : Loaded(a)' => pass'[a].prior[t].count[c] = thread'[t].count[c]
        <5> TAKE a \in Buckets, t \in Ids
        <5>1. CASE a = b
          BY <1>2, <1>4, <5>1 DEF Loaded
        <5>2. CASE a # b
          BY <1>2, <3>1, <3>5, <5>2 DEF CountStays, Loaded
        <5> QED
          BY <5>1, <5>2
      <4> QED
        BY <1>2, <4>1, <4>2 DEF CountStays
    <3>7. CountedOnce(c)'
      BY <3>1, <3>5 DEF CountedOnce, FoldedOnce
    <3> QED
      BY <3>2, <3>6, <3>7
  <2>5. Born(c)' /\ ~ disturbed'[c] => Ahead(c) \/ Behind(c)
    BY <1>0, <1>2 DEF Born, Ahead, Behind
  <2> QED
    BY <2>2, <2>3, <2>4, <2>5 DEF ItemInv, Ahead, Behind
<1> QED
  BY <1>5, <1>6, <1>7

(* The inductive invariant holds initially.                                *)
LEMMA InitCountInv == Init => CountInv
<1> SUFFICES ASSUME Init PROVE CountInv
  OBVIOUS
<1>1. TypeInv
  BY InitTypeInv
<1>2. IdlePass.now = 0 /\ IdlePass.since = 0 /\ IdlePass.stories = {} /\ IdlePass.care = {}
  BY DEF IdlePass
<1>3. ClockLeads /\ ReadsVisible
  BY <1>2 DEF Init, ClockLeads, ReadsVisible
<1>4. ASSUME NEW c \in Items PROVE ItemInv(c)
  <2>1. \A t \in Ids : UnbornThread.count[c] = 0 /\ IdlePass.prior[t].count[c] = 0
    BY DEF UnbornThread, IdlePass
  <2> QED
    BY <2>1 DEF Init, ItemInv, Born, Ahead, Behind, Uncounted
<1> QED
  BY <1>1, <1>3, <1>4 DEF CountInv

(* Every step keeps the inductive invariant.                               *)
LEMMA NextCountInv == CountInv /\ [Next]_vars => CountInv'
<1> SUFFICES ASSUME CountInv, [Next]_vars PROVE CountInv'
  OBVIOUS
<1>1. TypeInv'
  BY NextTypeInv DEF CountInv
<1>2. SUFFICES ClockLeads' /\ ReadsVisible' /\ \A d \in Items : ItemInv(d)'
  BY <1>1 DEF CountInv
<1>3. CASE \/ Advance \/ Tick \/ UNCHANGED vars
           \/ \E b \in Buckets : Fail(b) \/ Crash(b)
           \/ \E c \in Items : Appear(c)
  BY <1>3, OutsideCounts
<1>4. ASSUME NEW f \in Feedback, BeginSubmit(f)
      PROVE  ClockLeads' /\ ReadsVisible' /\ \A d \in Items : ItemInv(d)'
  <2>1. PICK t \in Ids : Enter(f, t)
    BY <1>4 DEF BeginSubmit
  <2> QED
    BY <2>1, EnterCounts DEF Items
<1>5. ASSUME NEW s \in Stories, StoryHappens(s)
      PROVE  ClockLeads' /\ ReadsVisible' /\ \A d \in Items : ItemInv(d)'
  <2>1. s \in Items /\ s \notin Feedback /\ Enter(s, NoThread)
    BY <1>5, ThreadAssumption DEF StoryHappens, Items
  <2> QED
    BY <2>1, EnterCounts
<1>6. ASSUME NEW b \in Buckets, Maintain(b)
      PROVE  ClockLeads' /\ ReadsVisible' /\ \A d \in Items : ItemInv(d)'
  BY <1>6, StartCounts, ReadCounts, CommitCounts DEF Maintain
<1> QED
  BY <1>3, <1>4, <1>5, <1>6 DEF Next

(* The inductive invariant holds in every reachable state.                 *)
LEMMA CountInvCorrect == Spec => []CountInv
BY InitCountInv, NextCountInv, PTL DEF Spec

(* Each correction folds exactly once: one that no pass was racing is in   *)
(* no thread while the cursor is short of it, and in one thread, the       *)
(* survivor when the pass that folds it merges, once the cursor has passed *)
(* it, whatever passes follow, fail, die or run at once.                   *)
THEOREM CareFoldedOnceCorrect == Spec => []CareFoldedOnce
<1>1. CountInv => CareFoldedOnce
  <2> SUFFICES ASSUME CountInv, NEW f \in Feedback, item[f].status = "visible", ~ disturbed[f]
               PROVE  IF item[f].at <= cursor.through THEN FoldedOnce(f) ELSE NotFolded(f)
    BY DEF CareFoldedOnce
  <2>1. f \in Items /\ ItemInv(f) /\ item[f].at \in Nat /\ cursor.through \in Nat
    BY ThreadAssumption DEF Items, CountInv, TypeInv, TypeOK, ItemRow, Cursor, Instants
  <2>2. CASE item[f].at <= cursor.through
    BY <2>1, <2>2 DEF ItemInv, Behind, Born, CountedOnce
  <2>3. CASE ~ (item[f].at <= cursor.through)
    <3>1. NotYet(f)
      BY <2>1, <2>3 DEF ItemInv, Ahead, Born
    <3> QED
      BY <2>3, <3>1 DEF NotYet, NotFolded
  <2> QED
    BY <2>2, <2>3
<1> QED
  BY <1>1, CountInvCorrect, PTL

(* A story adds to a thread's affinity once, though every pass of ninety   *)
(* days reads it again, unless two passes ran at once before the cursor    *)
(* was past it or it came in while one was at work.                        *)
THEOREM StoryNeverTwiceCorrect == Spec => []StoryNeverTwice
<1>1. CountInv => StoryNeverTwice
  <2> SUFFICES ASSUME CountInv, NEW s \in Stories, NEW t \in Ids, ~ disturbed[s]
               PROVE  thread[t].count[s] <= 1
    BY DEF StoryNeverTwice
  <2>1. s \in Items /\ ItemInv(s) /\ item[s].at \in Nat /\ cursor.through \in Nat
    BY ThreadAssumption DEF Items, CountInv, TypeInv, TypeOK, ItemRow, Cursor, Instants
  <2>2. CASE ~ Born(s)
    BY <2>1, <2>2 DEF ItemInv, Uncounted
  <2>3. CASE Ahead(s)
    BY <2>1, <2>3 DEF ItemInv, NotYet
  <2>4. CASE Behind(s)
    BY <2>1, <2>4 DEF ItemInv, CountedOnce
  <2> QED
    BY <2>1, <2>2, <2>3, <2>4 DEF Ahead, Behind
<1> QED
  BY <1>1, CountInvCorrect, PTL

=============================================================================
