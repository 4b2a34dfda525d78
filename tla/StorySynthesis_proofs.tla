------------------------ MODULE StorySynthesis_proofs ------------------------
(***************************************************************************)
(* Proofs about StorySynthesis and the gate of Faithfulness it relies on:  *)
(* what the operators return, the types, that whatever is mailed was said, *)
(* that a delta covers no more than it counted, and that a synthesis at    *)
(* rest is of the members the story has.                                   *)
(***************************************************************************)
EXTENDS StorySynthesis, FiniteSetTheorems, WellFoundedInduction, TLAPS

-----------------------------------------------------------------------------
(* A finite set of naturals that is not empty has a greatest element: a    *)
(* least subset without one would lose it with one element less.           *)
LEMMA MaxOfFinite ==
    ASSUME NEW S, IsFiniteSet(S), S \subseteq Nat, S # {}
    PROVE  Max(S) \in S /\ \A y \in S : y <= Max(S)
<1> DEFINE Has(T) == \E x \in T : \A y \in T : x >= y
           Bad == {T \in SUBSET S : T # {} /\ ~ Has(T)}
<1>1. SUFFICES Has(S)
  BY DEF Max
<1>2. SUFFICES ASSUME Bad # {} PROVE FALSE
  OBVIOUS
<1>3. IsWellFoundedOn(StrictSubsetOrdering(S), SUBSET S)
  BY FS_StrictSubsetOrderingWellFounded, FS_FiniteSubsetsOfFinite
<1>4. PICK T \in Bad : \A U \in Bad : <<U, T>> \notin StrictSubsetOrdering(S)
  BY <1>2, <1>3, WFMin
<1>5. PICK x \in T : TRUE
  OBVIOUS
<1>6. T \ {x} \notin Bad
  BY <1>4, <1>5 DEF StrictSubsetOrdering
<1>7. CASE T \ {x} = {}
  BY <1>5, <1>7
<1>8. CASE Has(T \ {x})
  <2>1. PICK m \in T \ {x} : \A y \in T \ {x} : m >= y
    BY <1>8
  <2>2. T \subseteq Nat
    OBVIOUS
  <2>3. Has(T)
    <3>1. CASE m >= x
      BY <2>1, <3>1
    <3>2. CASE ~ (m >= x)
      BY <2>1, <2>2, <3>2, <1>5
    <3> QED BY <3>1, <3>2
  <2> QED BY <2>3
<1> QED BY <1>6, <1>7, <1>8

(* Of two it is one, and no less than either.                              *)
LEMMA MaxOfTwo ==
    ASSUME NEW a \in Nat, NEW b \in Nat
    PROVE  Max({a, b}) \in Nat /\ a <= Max({a, b}) /\ b <= Max({a, b})
<1>1. IsFiniteSet({a}) /\ {a} \cup {b} = {a, b}
  BY FS_Singleton
<1>2. IsFiniteSet({a, b})
  BY <1>1, FS_AddElement
<1> QED
  BY <1>2, MaxOfFinite

(* And one of them comes first.                                            *)
LEMMA MinOfNaturals ==
    ASSUME NEW S, IsFiniteSet(S), S \subseteq Nat, S # {}
    PROVE  Min(S) \in S
<1> DEFINE Has(T) == \E x \in T : \A y \in T : x =< y
           Bad == {T \in SUBSET S : T # {} /\ ~ Has(T)}
<1>1. SUFFICES Has(S)
  BY DEF Min
<1>2. SUFFICES ASSUME Bad # {} PROVE FALSE
  OBVIOUS
<1>3. IsWellFoundedOn(StrictSubsetOrdering(S), SUBSET S)
  BY FS_StrictSubsetOrderingWellFounded, FS_FiniteSubsetsOfFinite
<1>4. PICK T \in Bad : \A U \in Bad : <<U, T>> \notin StrictSubsetOrdering(S)
  BY <1>2, <1>3, WFMin
<1>5. PICK x \in T : TRUE
  OBVIOUS
<1>6. T \ {x} \notin Bad
  BY <1>4, <1>5 DEF StrictSubsetOrdering
<1>7. CASE T \ {x} = {}
  BY <1>5, <1>7
<1>8. CASE Has(T \ {x})
  <2>1. PICK m \in T \ {x} : \A y \in T \ {x} : m =< y
    BY <1>8
  <2>2. T \subseteq Nat
    OBVIOUS
  <2>3. Has(T)
    <3>1. CASE m =< x
      BY <2>1, <3>1
    <3>2. CASE ~ (m =< x)
      BY <2>1, <2>2, <3>2, <1>5
    <3> QED BY <3>1, <3>2
  <2> QED BY <2>3
<1> QED BY <1>6, <1>7, <1>8

(* The members in the order of load_member_summaries are a sequence of them. *)
LEMMA OrderedMembers ==
    ASSUME NEW C \in SUBSET Clusters, NEW members \in NewestFirst(C)
    PROVE  /\ members \in Seq(C)
           /\ members \in [1 .. Cardinality(C) -> C]
           /\ Cardinality(C) \in 0 .. Cardinality(Clusters)
           /\ C # {} => members[1] \in C
<1>1. IsFiniteSet(C) /\ Cardinality(C) \in Nat /\ Cardinality(C) <= Cardinality(Clusters)
  BY FS_Subset, FS_CardinalityType, SynthesisAssumption
<1>2. Cardinality(Clusters) \in Nat
  BY FS_CardinalityType, SynthesisAssumption
<1>3. members \in [1 .. Cardinality(C) -> C]
  BY DEF NewestFirst, SetToSeqs
<1>4. C # {} => Cardinality(C) # 0
  BY <1>1, FS_EmptySet
<1> QED
  BY <1>1, <1>2, <1>3, <1>4

-----------------------------------------------------------------------------
(* The gate.  A draft it keeps refers to entities of the facts, and its    *)
(* numbers are in the facts or in the text.                                *)
LEMMA GateGrounds ==
    ASSUME NEW candidate, NEW facts, NEW source, Faithful(candidate, facts, source)
    PROVE  /\ candidate.refs \subseteq facts.entities
           /\ candidate.numbers \subseteq facts.numbers \cup source
<1>1. Reasons[2] = "ungrounded_entity" /\ Reasons[3] = "ungrounded_number" /\ 2 \in DOMAIN Reasons /\ 3 \in DOMAIN Reasons
  BY DEF Reasons
<1>2. "ungrounded_entity" \in Range(Reasons) /\ "ungrounded_number" \in Range(Reasons)
  BY <1>1 DEF Range
<1> QED
  BY <1>2 DEF Faithful, Breaks

(* What Judge lets pass was written by the model and is grounded; a draft  *)
(* with a tldr or without keeps its facts.                                 *)
LEMMA JudgeGrounds ==
    ASSUME NEW draft \in Draft, NEW facts \in Facts, NEW source \in SUBSET Numbers,
           NEW tldr \in BOOLEAN, NEW votes, NEW result,
           result = Judge(Defanged(Candidate(draft, facts, tldr)), facts, source, votes),
           result.ok
    PROVE  /\ result.summary \in Summary
           /\ result.summary.refs \subseteq facts.entities
           /\ result.summary.numbers \subseteq facts.numbers \cup source
           /\ result.summary.facts = facts
<1> DEFINE candidate == Defanged(Candidate(draft, facts, tldr))
<1>1. Faithful(candidate, facts, source) /\ result.summary = Kept(candidate)
  BY DEF Judge
<1>2. candidate = [refs |-> IF tldr THEN draft.refs ELSE {}, numbers |-> draft.numbers,
                   tldr |-> tldr, faults |-> draft.faults \ {"url"}, facts |-> facts]
  BY DEF Defanged, Candidate
<1>3. /\ candidate.refs \subseteq facts.entities
      /\ candidate.numbers \subseteq facts.numbers \cup source
  BY <1>1, GateGrounds
<1>4. result.summary = [refs |-> candidate.refs, numbers |-> draft.numbers, facts |-> facts,
                        tldr |-> tldr /\ ~ ("blank" \in draft.faults \ {"url"}),
                        blank |-> "blank" \in draft.faults \ {"url"}]
  BY <1>1, <1>2 DEF Kept
<1>5. facts.entities \subseteq Names /\ draft.numbers \subseteq Numbers
  BY DEF Facts, Draft
<1>6. candidate.numbers = draft.numbers
  BY <1>2
<1> QED
  BY <1>3, <1>4, <1>5, <1>6 DEF Summary

\* Grounded, and so is what the summary hands to the story above it.
Backed(s) == Grounded(s) /\ s.facts.entities \subseteq Mentioned /\ s.facts.numbers \subseteq Said

(* A post that was seen is an event of its type, and the text that is read *)
(* of it holds nothing but what it or its article says.                    *)
LEMMA TextSaid ==
    ASSUME TypeOK, NEW p \in seen
    PROVE  /\ Text(p) \in Event
           /\ Text(p).entities = p.event.entities
           /\ p.event.entities \subseteq Mentioned
           /\ EventNumbers(Text(p)) \subseteq Said
<1>1. p \in Post
  BY SynthesisAssumption DEF TypeOK
<1>2. p.event \in Event /\ p.article \in SUBSET Numbers
  BY <1>1 DEF Post
<1>3. WithArticle(p) \in [time : {p.event.time}, entities : {p.event.entities},
                           title : {p.event.title}, text : {p.article}, rich : {TRUE}]
  BY <1>2 DEF WithArticle, Event
<1>4. WithArticle(p) \in Event
  BY <1>2, <1>3 DEF Event
<1>5. Text(p) \in Event /\ Text(p).entities = p.event.entities
  BY <1>2, <1>3, <1>4 DEF Text
<1>6. EventNumbers(Text(p)) \subseteq EventNumbers(p.event) \cup p.article
  BY <1>2, <1>3 DEF Text, EventNumbers
<1>7. EventNumbers(p.event) \cup p.article \subseteq Said
  BY DEF Said
<1>8. p.event.entities \subseteq Mentioned
  BY DEF Mentioned, AllEntities
<1> QED
  BY <1>5, <1>6, <1>7, <1>8

(* The facts of a cluster are what its events mention and say, whatever    *)
(* the passes over them claim to have read.                                *)
LEMMA ClusterFactsSaid ==
    ASSUME TypeOK, NEW c \in Clusters, NEW reading \in Readings
    PROVE  /\ ClusterFacts(Content(c), reading) \in Facts
           /\ ClusterFacts(Content(c), reading).entities \subseteq Mentioned
           /\ ClusterFacts(Content(c), reading).numbers \subseteq Said
           /\ SourceCorpus(Content(c)) \subseteq Said
           /\ SourceCorpus(Content(c)) \subseteq Numbers
           /\ WantTldr(Content(c)) \in BOOLEAN
<1> DEFINE events == Content(c)
           facts == ClusterFacts(events, reading)
<1>1. reading \in Reading
  BY SynthesisAssumption
<1>2. \A e \in events : /\ e \in Event
                        /\ e.entities \subseteq Mentioned
                        /\ EventNumbers(e) \subseteq Said
  BY TextSaid DEF Content
<1>3. AllEntities(events) \subseteq Mentioned /\ SourceCorpus(events) \subseteq Said
  BY <1>2 DEF AllEntities, SourceCorpus
<1>4. SourceCorpus(events) \subseteq Numbers
  BY <1>2 DEF SourceCorpus, EventNumbers, Event
<1> DEFINE mentioned == AllEntities(events) \cap Names
           said == SourceCorpus(events)
<1>5. ExtractFacts(events) \in [entities : {mentioned}, numbers : {said}, relations : {{}},
                               tentative : {FALSE}, state : {"none"}]
  BY DEF ExtractFacts, NoFacts
<1>6. Comprehended(ExtractFacts(events), reading) \in
         [entities : {mentioned}, numbers : {said}, relations : {{}},
          tentative : {reading.tentative}, state : States \cup {"none"}]
  BY <1>5 DEF Comprehended
<1>7. facts \in [entities : {mentioned}, numbers : {said}, relations : {reading.subjects \cap mentioned},
                tentative : {reading.tentative}, state : States \cup {"none"}]
  BY <1>6 DEF ClusterFacts, Related
<1>8. facts \in Facts
  BY <1>1, <1>4, <1>7 DEF Facts, Reading
<1>9. WantTldr(events) \in BOOLEAN
  BY DEF WantTldr
<1> QED
  BY <1>3, <1>4, <1>7, <1>8, <1>9

(* The summary of a cluster is backed by its sources.                      *)
LEMMA ClusterSummaryBacked ==
    ASSUME TypeOK, NEW c \in Clusters, NEW draft \in Drafts, NEW reading \in Readings, NEW result,
           result = SummarizeCluster(Content(c), reading, draft, <<"faithful">>), result.ok
    PROVE  result.summary \in Summary /\ Backed(result.summary)
<1> DEFINE facts == ClusterFacts(Content(c), reading)
           source == SourceCorpus(Content(c))
           tldr == WantTldr(Content(c))
<1>1. draft \in Draft
  BY SynthesisAssumption
<1>2. result = Judge(Defanged(Candidate(draft, facts, tldr)), facts, source, <<"faithful">>)
  BY DEF SummarizeCluster, ClusterCandidate
<1>3. facts \in Facts /\ source \in SUBSET Numbers /\ tldr \in BOOLEAN
  BY ClusterFactsSaid
<1> HIDE DEF facts, source, tldr
<1>4. /\ result.summary \in Summary
      /\ result.summary.refs \subseteq facts.entities
      /\ result.summary.numbers \subseteq facts.numbers \cup source
      /\ result.summary.facts = facts
  <2>0. PICK votes : votes = <<"faithful">>
    OBVIOUS
  <2>1. PICK f \in Facts, src \in SUBSET Numbers, tl \in BOOLEAN :
           f = facts /\ src = source /\ tl = tldr
    BY <1>3
  <2>2. result = Judge(Defanged(Candidate(draft, f, tl)), f, src, votes)
    BY <1>2, <2>0, <2>1
  <2>3. /\ result.summary \in Summary
        /\ result.summary.refs \subseteq f.entities
        /\ result.summary.numbers \subseteq f.numbers \cup src
        /\ result.summary.facts = f
    BY <1>1, <2>2, JudgeGrounds
  <2> QED
    BY <2>1, <2>3
<1>5. facts.entities \subseteq Mentioned /\ facts.numbers \subseteq Said /\ source \subseteq Said
  BY ClusterFactsSaid DEF facts, source
<1> QED
  BY <1>4, <1>5 DEF Backed, Grounded

(* The synthesis of members that are backed is backed.                     *)
LEMMA SynthesisBacked ==
    ASSUME NEW members \in Seq(Summary), NEW draft \in Drafts, NEW result,
           result = SynthesizeStory(members, draft, <<"faithful">>), result.ok
    PROVE  /\ result.summary \in Summary
           /\ (\A i \in DOMAIN members : Backed(members[i])) => Backed(result.summary)
<1> DEFINE facts == SynthesizeFacts(members)
           source == StoryCorpus(members)
           stated == {i \in DOMAIN members : members[i].facts.state # "none"}
<1>1. draft \in Draft
  BY SynthesisAssumption
<1>2. result = Judge(Defanged(Candidate(draft, facts, TRUE)), facts, source, <<"faithful">>)
  BY DEF SynthesizeStory
<1>3. DOMAIN members = 1 .. Len(members) /\ Len(members) \in Nat
  OBVIOUS
<1>4. \A i \in DOMAIN members : members[i] \in Summary /\ members[i].facts \in Facts
  <2>1. \A i \in DOMAIN members : members[i] \in Summary
    BY <1>3
  <2> QED
    BY <2>1 DEF Summary
<1>5. IsFiniteSet(stated) /\ stated \subseteq Nat
  <2>1. IsFiniteSet(DOMAIN members)
    BY <1>3, FS_Interval
  <2> QED
    BY <1>3, <2>1, FS_Subset
<1>6. stated # {} => Min(stated) \in DOMAIN members
  BY <1>5, MinOfNaturals
<1>7. (IF stated = {} THEN "none" ELSE members[Min(stated)].facts.state) \in States \cup {"none"}
  BY <1>4, <1>6 DEF Facts
<1>8. source \in SUBSET Numbers
  BY <1>4 DEF StoryCorpus, Summary
<1>9. /\ facts.entities \subseteq Names /\ facts.relations \subseteq Names
      /\ facts.numbers \subseteq Numbers
  BY <1>4 DEF SynthesizeFacts, Facts
<1>10. facts \in Facts
  <2>1. facts.tentative \in BOOLEAN
    BY DEF SynthesizeFacts
  <2>2. facts.state \in States \cup {"none"}
    BY <1>7 DEF SynthesizeFacts
  <2>3. facts = [entities |-> facts.entities, numbers |-> facts.numbers, relations |-> facts.relations,
                 tentative |-> facts.tentative, state |-> facts.state]
    BY DEF SynthesizeFacts
  <2> HIDE DEF facts
  <2> QED
    BY <1>9, <2>1, <2>2, <2>3 DEF Facts
<1>11. (\A i \in DOMAIN members : Backed(members[i])) =>
           facts.entities \subseteq Mentioned /\ facts.numbers \subseteq Said /\ source \subseteq Said
  BY DEF SynthesizeFacts, StoryCorpus, Backed, Grounded
<1> HIDE DEF facts, source
<1>12. /\ result.summary \in Summary
       /\ result.summary.refs \subseteq facts.entities
       /\ result.summary.numbers \subseteq facts.numbers \cup source
       /\ result.summary.facts = facts
  <2>0. PICK votes : votes = <<"faithful">>
    OBVIOUS
  <2>1. PICK f \in Facts, src \in SUBSET Numbers, tl \in BOOLEAN :
           f = facts /\ src = source /\ tl = TRUE
    BY <1>8, <1>10
  <2>2. result = Judge(Defanged(Candidate(draft, f, tl)), f, src, votes)
    BY <1>2, <2>0, <2>1
  <2>3. /\ result.summary \in Summary
        /\ result.summary.refs \subseteq f.entities
        /\ result.summary.numbers \subseteq f.numbers \cup src
        /\ result.summary.facts = f
    <3>1. result.ok
      OBVIOUS
    <3> QED
      BY ONLY <1>1, <2>2, <3>1, JudgeGrounds, draft \in Draft, f \in Facts, src \in SUBSET Numbers, tl \in BOOLEAN
  <2> QED
    BY <2>1, <2>3
<1> QED
  BY <1>11, <1>12 DEF Backed, Grounded

(* The values a function takes on a finite set are finitely many.          *)
LEMMA ImageOfFinite ==
    ASSUME NEW S, IsFiniteSet(S), NEW T, NEW f \in [S -> T], \A t \in T : \E x \in S : f[x] = t
    PROVE  IsFiniteSet(T)
<1>1. f \in Surjection(S, T)
  BY DEF Surjection
<1> QED
  BY <1>1, FS_Surjection

-----------------------------------------------------------------------------
(* The types, with what keeps them: a story in a sweep's hands has an      *)
(* attempt left or a count to start anew, a deployment is one of the       *)
(* faults, and a member of a fire has a post.                              *)
AttemptsLeft ==
    /\ story.attempts = MaxAttempts => story.quarantine # "no"
    /\ \A w \in Sweeps : sweep[w].pc # "idle" =>
          sweep[w].due.attempts < MaxAttempts \/ sweep[w].due.reset

Posted(c) == \E p \in seen : p.cluster = c
PostsKnown ==
    /\ IsFiniteSet(seen)
    /\ \A c \in Clusters : cluster[c].hash # Unhashed => Posted(c)
    /\ \A c \in fire.members : Posted(c)

TypeInv == TypeOK /\ AttemptsLeft /\ model <= faults /\ PostsKnown

(* last_event_time of a cluster with a post is a time, and the newest      *)
(* story's time only grows with it.                                        *)
LEMMA NewestGrows ==
    ASSUME TypeOK, PostsKnown
    PROVE  LET latest == Max({newest} \cup {Latest(c) : c \in fire.members})
           IN  latest \in Nat /\ newest <= latest
<1>1. ASSUME NEW c \in fire.members PROVE Latest(c) \in Nat
  <2> DEFINE posts == {q \in seen : q.cluster = c}
             times == {p.event.time : p \in posts}
  <2>1. \A p \in seen : p.event.time \in Nat
    BY SynthesisAssumption DEF TypeOK, Post, Event
  <2>2. IsFiniteSet(posts) /\ posts # {}
    BY FS_Subset DEF PostsKnown, Posted
  <2>3. IsFiniteSet(times) /\ times # {}
    <3>1. PICK S, T, f : S = posts /\ T = times /\ f = [p \in S |-> p.event.time]
      OBVIOUS
    <3>2. f \in [S -> T] /\ (\A t \in T : \E p \in S : f[p] = t) /\ T # {} /\ IsFiniteSet(S)
      BY <2>2, <3>1
    <3> QED
      BY <3>1, <3>2, ImageOfFinite
  <2>4. times \subseteq Nat
    BY <2>1
  <2> HIDE DEF times
  <2>5. Max(times) \in times
    BY <2>3, <2>4, MaxOfFinite
  <2> QED
    BY <2>4, <2>5 DEF Latest, times
<1> DEFINE latests == {Latest(c) : c \in fire.members}
           all == {newest} \cup latests
<1>2. IsFiniteSet(fire.members)
  BY SynthesisAssumption, FS_Subset DEF TypeOK, Fire
<1>3. IsFiniteSet(latests)
  <2>1. PICK S, T, f : S = fire.members /\ T = latests /\ f = [c \in S |-> Latest(c)]
    OBVIOUS
  <2>2. f \in [S -> T] /\ (\A t \in T : \E c \in S : f[c] = t) /\ IsFiniteSet(S)
    BY <1>2, <2>1
  <2> QED
    BY <2>1, <2>2, ImageOfFinite
<1>4. all \subseteq Nat /\ newest \in all
  BY <1>1 DEF TypeOK
<1> HIDE DEF latests
<1>5. IsFiniteSet(all)
  BY <1>3, FS_Singleton, FS_Union
<1> HIDE DEF all
<1>6. Max(all) \in all /\ newest <= Max(all)
  BY <1>4, <1>5, MaxOfFinite
<1> QED
  BY <1>4, <1>6 DEF all, latests

\* What a variable starts from, or is reset to.
LEMMA ResetTypes ==
    /\ NoSummary \in Summary /\ NewStory \in StoryRow /\ NewThread \in Thread
    /\ NoFire \in Fire /\ NoSweep \in StorySweep /\ NoSweep.pc = "idle" /\ NoLabels \in LabelSweep
    /\ NoFire.pc = "idle" /\ NoFire.members = {}
<1>1. NoSummary \in Summary
  BY DEF NoSummary, NoFacts, Summary, Facts
<1>2. <<>> \in Sig /\ NoModel \in ModelOrNone /\ 0 \in 0 .. MaxAttempts /\ 0 \in 0 .. MaxFires
  BY SynthesisAssumption DEF Sig, ModelOrNone
<1>3. NewStory \in StoryRow
  BY <1>1, <1>2 DEF NewStory, StoryRow
<1>4. NewThread \in Thread
  BY <1>2 DEF NewThread, Thread, Never
<1>5. NoFire \in Fire
  BY <1>1, <1>2 DEF NoFire, Fire
<1>6. NotDue \in DueRow
  BY <1>2 DEF NotDue, DueRow
<1>7. NoSweep \in StorySweep
  <2>1. <<>> \in Seq(Summary)
    OBVIOUS
  <2> QED
    BY <1>2, <1>6, <2>1 DEF NoSweep, StorySweep
<1>8. NoLabels \in LabelSweep
  BY <1>4 DEF NoLabels, LabelSweep, Never
<1> QED
  BY <1>1, <1>3, <1>4, <1>5, <1>7, <1>8 DEF NoSweep, NoFire

LEMMA InitTypeInv == Init => TypeInv
<1> SUFFICES ASSUME Init PROVE TypeInv
  OBVIOUS
<1>1. /\ seen \in SUBSET Events /\ fetched \in SUBSET seen /\ IsFiniteSet(seen)
      /\ newest \in Nat /\ lost \in BOOLEAN /\ counted \in Nat
  BY FS_EmptySet DEF Init, Never
<1>2. model \in Models /\ faults \in 0 .. MaxFaults /\ model <= faults
  BY SynthesisAssumption DEF Init, Models
<1>3. cluster \in [Clusters -> [summary : Summary, hash : Hash]]
  BY ResetTypes DEF Init, Hash
<1>4. sweep \in [Sweeps -> StorySweep]
  BY ResetTypes DEF Init
<1>5. story \in StoryRow /\ thread \in Thread /\ fire \in Fire /\ labels \in LabelSweep
  BY ResetTypes DEF Init
<1>6. TypeOK
  BY <1>1, <1>2, <1>3, <1>4, <1>5 DEF TypeOK
<1>7. AttemptsLeft
  BY ResetTypes, SynthesisAssumption DEF Init, AttemptsLeft, NewStory
<1>8. PostsKnown
  BY <1>1, ResetTypes DEF Init, PostsKnown
<1> QED
  BY <1>2, <1>6, <1>7, <1>8 DEF TypeInv

(* What a cluster hashes to is one of the hashes it may have.              *)
LEMMA ContentTells ==
    ASSUME TypeOK, NEW c \in Clusters, Content(c) # {}
    PROVE  SummaryHash(Content(c)) \in HashesOf(c)
<1> DEFINE P == {p \in seen : p.cluster = c}
           F == fetched \cap P
<1>1. P \in SUBSET PostsOf(c) /\ F \in SUBSET P
  BY DEF TypeOK, PostsOf
<1>2. \A p \in P : Text(p) = IF p \in F THEN WithArticle(p) ELSE p.event
  BY DEF Text
<1>3. Content(c) = Texts(P, F)
  BY <1>2 DEF Content, Texts
<1>4. P # {}
  <2>1. Content(c) = {Text(p) : p \in P}
    BY DEF Content
  <2> QED
    BY <2>1
<1>5. Texts(P, F) \in Contents(c)
  <2> HIDE DEF P, F
  <2>1. Texts(P, F) \in {Texts(P, G) : G \in SUBSET P}
    BY <1>1
  <2> QED
    BY <1>1, <1>4, <2>1 DEF Contents
<1> QED
  BY <1>3, <1>5 DEF HashesOf

(* Posts, articles and summaries.                                          *)
LEMMA TextType ==
    ASSUME TypeInv,
           \/ \E p \in Events : Arrive(p) \/ FetchArticle(p)
           \/ \E c \in Clusters : Summarize(c)
    PROVE  TypeInv'
<1>1. ASSUME NEW p \in Events, Arrive(p) PROVE TypeInv'
  <2>1. IsFiniteSet(seen')
    BY <1>1, FS_AddElement DEF TypeInv, PostsKnown, Arrive
  <2>2. TypeOK'
    BY <1>1 DEF TypeInv, TypeOK, Arrive
  <2> QED
    BY <1>1, <2>1, <2>2 DEF TypeInv, AttemptsLeft, PostsKnown, Posted, Arrive
<1>2. ASSUME NEW p \in Events, FetchArticle(p) PROVE TypeInv'
  BY <1>2 DEF TypeInv, TypeOK, AttemptsLeft, PostsKnown, Posted, FetchArticle
<1>3. ASSUME NEW c \in Clusters, Summarize(c) PROVE TypeInv'
  <2>1. PICK draft \in Drafts, reading \in Readings :
           \E result \in {SummarizeCluster(Content(c), reading, draft, <<"faithful">>)} :
              /\ result.ok
              /\ cluster' = [cluster EXCEPT ![c] =
                    [summary |-> result.summary, hash |-> SummaryHash(Content(c))]]
    BY <1>3 DEF Summarize
  <2>2. PICK result :
              /\ result = SummarizeCluster(Content(c), reading, draft, <<"faithful">>)
              /\ result.ok
              /\ cluster' = [cluster EXCEPT ![c] =
                    [summary |-> result.summary, hash |-> SummaryHash(Content(c))]]
    BY <2>1
  <2>3. result.summary \in Summary
    BY <2>2, ClusterSummaryBacked DEF TypeInv
  <2>4. SummaryHash(Content(c)) \in Hash
    BY <1>3, ContentTells DEF TypeInv, Hash, Summarize
  <2>5. Posted(c)
    BY <1>3 DEF Summarize, Content, Posted
  <2>6. TypeOK'
    BY <1>3, <2>2, <2>3, <2>4 DEF TypeInv, TypeOK, Summarize
  <2>7. PostsKnown'
    <3>1. \A d \in Clusters : d # c => cluster'[d] = cluster[d]
      BY <2>2 DEF TypeInv, TypeOK
    <3> QED
      BY <1>3, <2>5, <3>1 DEF TypeInv, PostsKnown, Posted, Summarize
  <2> QED
    BY <1>3, <2>6, <2>7 DEF TypeInv, AttemptsLeft, Summarize
<1> QED
  BY <1>1, <1>2, <1>3

(* The fire: its persist, its render and its end.                          *)
LEMMA FireType ==
    ASSUME TypeInv,
           \/ \E C \in (SUBSET Clusters) \ {{}} : OpenPersist(C)
           \/ Persist \/ EndInline \/ Render \/ Deliver
    PROVE  TypeInv'
<1> USE DEF TypeInv
<1>1. ASSUME NEW C \in (SUBSET Clusters) \ {{}}, OpenPersist(C) PROVE TypeInv'
  <2>1. fire.count + 1 \in 0 .. MaxFires
    <3>1. fire.count \in 0 .. MaxFires /\ fire.count < MaxFires
      BY <1>1 DEF TypeOK, OpenPersist, Fire
    <3> QED
      BY <3>1, SynthesisAssumption
  <2>2. fire' \in Fire /\ fire'.members = C
    BY <1>1, <2>1, ResetTypes DEF OpenPersist, Fire
  <2>3. TypeOK'
    BY <1>1, <2>2 DEF TypeOK, OpenPersist, textVars
  <2> QED
    BY <1>1, <2>2, <2>3 DEF OpenPersist, AttemptsLeft, PostsKnown, Posted, textVars
<1>2. ASSUME Persist PROVE TypeInv'
  <2>1. fire' \in Fire /\ fire'.members = fire.members
    BY <1>2 DEF TypeOK, Persist, Fire
  <2>2. Aggregates(fire.members) \in SUBSET Events /\ fire.members \in SUBSET Clusters
    BY DEF Aggregates, TypeOK, Fire
  <2>3. story' \in StoryRow /\ AttemptsLeft'
    <3>1. fire.count \in 0 .. MaxFires
      BY DEF TypeOK, Fire
    <3> QED
      BY <1>2, <2>2, <3>1 DEF TypeOK, Persist, StoryRow, AttemptsLeft
  <2>4. newest' \in Nat
    BY <1>2, NewestGrows DEF Persist
  <2>5. lost' \in BOOLEAN
    <3>1. lost' = lost \/ lost' = ("settled" \in fire.overtaken)
      BY <1>2 DEF Persist
    <3>2. ("settled" \in fire.overtaken) \in BOOLEAN /\ lost \in BOOLEAN
      BY DEF TypeOK
    <3> QED
      BY <3>1, <3>2, Zenon
  <2>6. TypeOK'
    BY <1>2, <2>1, <2>3, <2>4, <2>5 DEF TypeOK, Persist, textVars
  <2> QED
    BY <1>2, <2>1, <2>3, <2>6 DEF Persist, PostsKnown, Posted, textVars
<1>3. ASSUME EndInline PROVE TypeInv'
  <2>1. fire' \in Fire /\ fire'.members = fire.members
    BY <1>3 DEF TypeOK, EndInline, Swept, Fire
  <2>2. sweep' \in [Sweeps -> StorySweep]
    BY <1>3, ResetTypes DEF TypeOK, EndInline
  <2>3. TypeOK'
    BY <1>3, <2>1, <2>2 DEF TypeOK, EndInline, textVars
  <2>4. AttemptsLeft'
    BY <1>3, ResetTypes DEF TypeOK, EndInline, AttemptsLeft
  <2> QED
    BY <1>3, <2>1, <2>3, <2>4 DEF EndInline, PostsKnown, Posted, textVars
<1>4. ASSUME Render PROVE TypeInv'
  <2>1. PICK members \in NewestFirst(story.members), draft \in Drafts :
           fire' = [fire EXCEPT !.pc = "rendered", !.item = RenderedItem(members[1]),
                                !.label = thread.label, !.lead = draft.numbers]
    BY <1>4 DEF Render
  <2>2. members[1] \in Clusters /\ story.members \in SUBSET Clusters
    BY <1>4, OrderedMembers DEF TypeOK, StoryRow, Render
  <2>3. RenderedItem(members[1]) \in Summary
    BY <2>2 DEF RenderedItem, Composed, TypeOK, StoryRow, Summary
  <2>4. draft.numbers \in SUBSET Numbers /\ thread.label \in SUBSET Numbers
    BY SynthesisAssumption DEF Draft, TypeOK, Thread
  <2>5. fire' \in Fire /\ fire'.members = fire.members
    BY <2>1, <2>3, <2>4 DEF TypeOK, Fire
  <2>6. TypeOK'
    BY <1>4, <2>5 DEF TypeOK, Render, textVars
  <2> QED
    BY <1>4, <2>5, <2>6 DEF Render, AttemptsLeft, PostsKnown, Posted, textVars
<1>5. ASSUME Deliver PROVE TypeInv'
  <2>1. fire' \in Fire /\ fire'.members = {}
    BY <1>5, ResetTypes DEF TypeOK, Deliver, Fire
  <2>2. TypeOK'
    BY <1>5, <2>1 DEF TypeOK, Deliver, textVars
  <2> QED
    BY <1>5, <2>1, <2>2 DEF Deliver, AttemptsLeft, PostsKnown, Posted, textVars
<1> QED
  BY <1>1, <1>2, <1>3, <1>4, <1>5

(* What every write of a sweep leaves of the fire.                         *)
LEMMA SweptFire ==
    ASSUME fire \in Fire, NEW w \in Sweeps, NEW write \in {"settled", "held"}
    PROVE  /\ Swept(w) \in Fire /\ Swept(w).members = fire.members
           /\ Overtaking(Swept(w), write) \in Fire
           /\ Overtaking(Swept(w), write).members = fire.members
<1>1. Swept(w) \in Fire /\ Swept(w).members = fire.members
  BY DEF Swept, Fire
<1> QED
  BY <1>1 DEF Overtaking, Fire

(* A step of a story sweep that leaves the text, the newest story, the     *)
(* thread and the labels alone keeps the types if it keeps those of the    *)
(* row, its fire and its sweep.                                            *)
LEMMA SweepFrame ==
    ASSUME TypeInv, UNCHANGED <<textVars, newest, thread, model, labels>>,
           story' \in StoryRow, fire' \in Fire, fire'.members \subseteq fire.members,
           sweep' \in [Sweeps -> StorySweep],
           faults' \in 0 .. MaxFaults, faults <= faults', lost' \in BOOLEAN, counted' \in Nat,
           AttemptsLeft'
    PROVE  TypeInv'
<1>1. TypeOK'
  BY DEF TypeInv, TypeOK, textVars
<1>2. PostsKnown'
  BY DEF TypeInv, PostsKnown, Posted, textVars
<1>3. model' <= faults'
  BY DEF TypeInv, TypeOK, Models
<1> QED
  BY <1>1, <1>2, <1>3 DEF TypeInv

LEMMA SweepType ==
    ASSUME TypeInv, NEW w \in Sweeps, StartSweep(w) \/ SweepStep(w) \/ FailSweep(w)
    PROVE  TypeInv'
<1> USE DEF TypeInv
<1>0. /\ story \in StoryRow /\ fire \in Fire /\ sweep \in [Sweeps -> StorySweep]
      /\ faults \in 0 .. MaxFaults /\ lost \in BOOLEAN /\ counted \in Nat /\ model \in ModelOrNone
      /\ faults <= faults
  BY SynthesisAssumption DEF TypeOK, ModelOrNone
<1>1. /\ \A v \in Sweeps \ {w} : sweep'[v] = sweep[v]
      /\ sweep'[w] \in StorySweep
      /\ sweep' \in [Sweeps -> StorySweep]
      /\ sweep'[w].pc # "idle" => sweep'[w].due.attempts < MaxAttempts \/ sweep'[w].due.reset
  <2>1. CASE StartSweep(w)
    <3>1. DueStory \in DueRow
      BY DEF DueStory, DueRow, TypeOK, StoryRow
    <3>2. DueStory.attempts < MaxAttempts \/ DueStory.reset
      <4>1. story.quarantine = "no" \/ story.quarantine = "released"
        BY <2>1 DEF StartSweep, Due, TypeOK, StoryRow
      <4>2. story.attempts \in 0 .. MaxAttempts /\ MaxAttempts \in Nat
        BY SynthesisAssumption DEF TypeOK, StoryRow
      <4>3. story.quarantine = "no" => story.attempts < MaxAttempts
        BY <4>2 DEF AttemptsLeft
      <4> QED
        BY <4>1, <4>3 DEF DueStory
    <3>3. [NoSweep EXCEPT !.pc = "due", !.due = DueStory, !.model = model] \in
             [pc : {"due"}, due : {DueStory}, read : Seq(Summary), model : {model}]
      BY ResetTypes DEF StorySweep
    <3>4. sweep'[w] \in StorySweep /\ sweep'[w].due = DueStory
      BY <1>0, <2>1, <3>1, <3>3 DEF StartSweep, StorySweep
    <3> QED
      BY <1>0, <2>1, <3>2, <3>4 DEF StartSweep
  <2>2. CASE LoadMembers(w) /\ sweep' # [sweep EXCEPT ![w] = NoSweep]
    <3>1. PICK members \in NewestFirst(sweep[w].due.members) :
             \E pc \in {"touching", "calling"} :
                sweep' = [sweep EXCEPT ![w].pc = pc, ![w].due.sig = StorySig(Hashes(members)),
                                       ![w].read = Summaries(members)]
      BY <2>2 DEF LoadMembers, Leave
    <3>2. sweep[w].due.members \in SUBSET Clusters
      BY <1>0 DEF StorySweep, DueRow
    <3>3. /\ members \in [1 .. Cardinality(sweep[w].due.members) -> Clusters]
          /\ Cardinality(sweep[w].due.members) \in 0 .. Cardinality(Clusters)
      BY <3>2, OrderedMembers
    <3>4. Hashes(members) \in BoundedSeq(Hash, Cardinality(Clusters))
      BY <3>3 DEF Hashes, BoundedSeq, SeqOf, TypeOK
    <3>5. StorySig(Hashes(members)) \in Sig
      BY <3>4 DEF Sig
    <3>6. Summaries(members) \in Seq(Summary)
      BY <3>3 DEF Summaries, TypeOK
    <3>7. PICK pc \in {"touching", "calling"} :
             sweep'[w] = [sweep[w] EXCEPT !.pc = pc, !.due.sig = StorySig(Hashes(members)),
                                          !.read = Summaries(members)]
      BY <1>0, <3>1
    <3>8. sweep[w] \in StorySweep /\ sweep[w].pc # "idle"
      BY <1>0, <2>2 DEF LoadMembers
    <3>9. /\ sweep'[w] \in StorySweep
          /\ sweep'[w].due.attempts = sweep[w].due.attempts
          /\ sweep'[w].due.reset = sweep[w].due.reset
      <4>1. PICK sig \in Sig, read \in Seq(Summary) :
               sig = StorySig(Hashes(members)) /\ read = Summaries(members)
        BY <3>5, <3>6
      <4>2. sweep'[w] = [sweep[w] EXCEPT !.pc = pc, !.due = [sweep[w].due EXCEPT !.sig = sig], !.read = read]
        BY <3>7, <3>8, <4>1 DEF StorySweep, DueRow
      <4>3. sweep[w].due \in DueRow
        BY <3>8 DEF StorySweep
      <4>4. PICK due : due = [sweep[w].due EXCEPT !.sig = sig]
        OBVIOUS
      <4>5. due \in DueRow /\ due.attempts = sweep[w].due.attempts /\ due.reset = sweep[w].due.reset
        BY <4>3, <4>4 DEF DueRow
      <4>6. sweep'[w] \in StorySweep /\ sweep'[w].due = due
        BY <3>8, <4>2, <4>4, <4>5 DEF StorySweep
      <4> QED
        BY <4>5, <4>6
    <3> QED
      BY <1>0, <3>1, <3>8, <3>9 DEF AttemptsLeft
  <2>3. CASE sweep' = [sweep EXCEPT ![w] = NoSweep]
    BY <1>0, <2>3, ResetTypes
  <2> QED
    BY <2>1, <2>2, <2>3 DEF SweepStep, LoadMembers, Touch, StoreSynthesis, RecordFailure, FailSweep,
                            Settle, Leave
<1>2. ASSUME story' = story PROVE AttemptsLeft'
  BY <1>1, <1>2 DEF AttemptsLeft
<1>3. CASE StartSweep(w) \/ LoadMembers(w) \/ FailSweep(w)
  <2>1. story' = story /\ UNCHANGED <<textVars, newest, thread, model, labels, lost, counted>>
    BY <1>3 DEF StartSweep, LoadMembers, FailSweep
  <2>2. fire' \in Fire /\ fire'.members = fire.members
    <3>1. fire' = fire \/ fire' = Swept(w)
      BY <1>3 DEF StartSweep, LoadMembers, FailSweep, Leave
    <3> QED
      BY <1>0, <3>1, SweptFire
  <2>3. faults' \in 0 .. MaxFaults /\ faults <= faults'
    <3>1. faults' = faults \/ (faults < MaxFaults /\ faults' = faults + 1)
      BY <1>3 DEF StartSweep, LoadMembers, FailSweep
    <3> QED
      BY <1>0, <3>1, SynthesisAssumption
  <2> QED
    BY <1>0, <1>1, <1>2, <2>1, <2>2, <2>3, SweepFrame
<1>4. CASE Touch(w) \/ StoreSynthesis(w)
  <2>1. PICK row : Settle(w, row) /\ UNCHANGED <<textVars, newest, thread, model, labels, faults, counted>>
                   /\ row \in StoryRow /\ row.attempts = 0
                   /\ lost' \in BOOLEAN
    <3>0. Touch(w) \/ StoreSynthesis(w) => lost' \in BOOLEAN
      BY <1>0 DEF Touch, StoreSynthesis, Crossed
    <3>1. Healthy(story, w) \in StoryRow /\ Healthy(story, w).attempts = 0
      <4>1. sweep[w].model \in ModelOrNone /\ 0 \in 0 .. MaxAttempts
        BY <1>0, SynthesisAssumption DEF StorySweep
      <4> QED
        BY <1>0, <4>1 DEF Healthy, StoryRow
    <3>2. CASE Touch(w)
      BY <3>0, <3>1, <3>2 DEF Touch
    <3>3. CASE StoreSynthesis(w)
      <4>1. PICK draft, result :
               /\ draft \in Drafts
               /\ result = SynthesizeStory(sweep[w].read, draft, <<"faithful">>)
               /\ result.ok
               /\ Settle(w, [Healthy(story, w) EXCEPT !.summary = result.summary, !.sig = sweep[w].due.sig,
                                                      !.basis = sweep[w].due.members])
        BY <3>3 DEF StoreSynthesis
      <4>2. result.summary \in Summary
        BY <1>0, <4>1, SynthesisBacked DEF StorySweep
      <4>3. sweep[w].due \in DueRow
        BY <1>0 DEF StorySweep
      <4>4. [Healthy(story, w) EXCEPT !.summary = result.summary, !.sig = sweep[w].due.sig,
                                      !.basis = sweep[w].due.members] \in StoryRow
        BY <3>1, <4>2, <4>3 DEF StoryRow, DueRow
      <4>5. [Healthy(story, w) EXCEPT !.summary = result.summary, !.sig = sweep[w].due.sig,
                                      !.basis = sweep[w].due.members].attempts = 0
        BY <3>1 DEF StoryRow
      <4> QED
        BY <3>0, <3>3, <4>1, <4>4, <4>5 DEF StoreSynthesis
    <3> QED
      BY <1>4, <3>2, <3>3
  <2>2. story' = row /\ lost' \in BOOLEAN /\ fire' \in Fire /\ fire'.members = fire.members
    BY <1>0, <2>1, SweptFire, Zenon DEF Settle
  <2>3. AttemptsLeft'
    BY <1>1, <2>1, <2>2, SynthesisAssumption DEF AttemptsLeft
  <2> QED
    BY <1>0, <1>1, <2>1, <2>2, <2>3, SweepFrame
<1>5. CASE RecordFailure(w)
  <2>1. sweep[w] \in StorySweep /\ sweep[w].due.attempts \in 0 .. MaxAttempts /\ sweep[w].pc # "idle"
    BY <1>0, <1>5 DEF StorySweep, DueRow, RecordFailure
  <2>2. sweep[w].due.attempts < MaxAttempts \/ sweep[w].due.reset
    BY <2>1 DEF AttemptsLeft
  <2>3. NextAttempt(w) \in 1 .. MaxAttempts
    BY <2>1, <2>2, SynthesisAssumption DEF NextAttempt
  <2>4. story' \in StoryRow /\ story'.attempts = NextAttempt(w)
        /\ (NextAttempt(w) = MaxAttempts => story'.quarantine # "no")
    <3>1. story' = [story EXCEPT !.attempts = NextAttempt(w),
                                 !.quarantine = IF NextAttempt(w) >= MaxAttempts THEN "held" ELSE "no"]
      BY <1>5 DEF RecordFailure
    <3>2. NextAttempt(w) \in 0 .. MaxAttempts /\ (NextAttempt(w) = MaxAttempts => NextAttempt(w) >= MaxAttempts)
      BY <2>3, SynthesisAssumption
    <3> QED
      BY <1>0, <3>1, <3>2 DEF StoryRow
  <2>5. fire' \in Fire /\ fire'.members = fire.members
    BY <1>0, <1>5, SweptFire DEF RecordFailure
  <2>6. AttemptsLeft'
    BY <1>1, <2>4 DEF AttemptsLeft
  <2> QED
    BY <1>0, <1>1, <1>5, <2>4, <2>5, <2>6, SweepFrame DEF RecordFailure
<1> QED
  BY <1>3, <1>4, <1>5 DEF SweepStep

(* A deployment, and the steps of the maintenance job on the thread.       *)
LEMMA ThreadType ==
    ASSUME TypeInv, Upgrade \/ SaveThread \/ StartLabels \/ LabelStep
    PROVE  TypeInv'
<1> USE DEF TypeInv
<1>0. thread \in Thread /\ labels \in LabelSweep /\ newest \in Nat /\ counted \in Nat /\ fire \in Fire
  BY DEF TypeOK
<1>1. CASE Upgrade
  <2>1. fire' \in Fire /\ fire'.members = {}
    BY <1>0, <1>1, ResetTypes DEF Upgrade, Fire
  <2>2. sweep' \in [Sweeps -> StorySweep] /\ \A w \in Sweeps : sweep'[w].pc = "idle"
    BY <1>1, ResetTypes DEF Upgrade
  <2>3. model' \in Models /\ faults' \in 0 .. MaxFaults /\ model' <= faults'
    <3>1. /\ model \in 0 .. MaxFaults /\ faults \in 0 .. MaxFaults /\ model <= faults
          /\ faults < MaxFaults /\ model' = model + 1 /\ faults' = faults + 1
      BY <1>1 DEF Upgrade, TypeOK, Models
    <3> QED
      BY <3>1, SynthesisAssumption DEF Models
  <2>4. labels' \in LabelSweep
    BY <1>1, ResetTypes DEF Upgrade
  <2>5. TypeOK'
    BY <1>1, <2>1, <2>2, <2>3, <2>4 DEF TypeOK, Upgrade, textVars
  <2>6. AttemptsLeft' /\ PostsKnown'
    BY <1>1, <2>1, <2>2 DEF AttemptsLeft, PostsKnown, Posted, Upgrade, textVars
  <2> QED
    BY <2>3, <2>5, <2>6
<1>2. CASE SaveThread \/ StartLabels \/ ReadRecent \/ StoreLabels
  <2>1. UNCHANGED <<seen, fetched, cluster, story, newest, model, fire, sweep, faults, lost>>
    BY <1>2 DEF SaveThread, StartLabels, ReadRecent, StoreLabels, textVars
  <2>2. CASE SaveThread
    <3>1. thread' \in Thread /\ labels' = labels /\ counted' = counted
      BY <1>0, <2>2 DEF SaveThread, Thread
    <3> QED
      BY <2>1, <3>1 DEF TypeOK, AttemptsLeft, PostsKnown, Posted
  <2>3. CASE StartLabels
    <3>1. labels' \in LabelSweep /\ thread' = thread /\ counted' = counted
      BY <1>0, <2>3, ResetTypes DEF StartLabels, LabelSweep
    <3> QED
      BY <2>1, <3>1 DEF TypeOK, AttemptsLeft, PostsKnown, Posted
  <2>4. CASE ReadRecent
    <3>1. labels' \in LabelSweep /\ thread' = thread /\ counted' = counted
      BY <1>0, <2>4 DEF ReadRecent, LabelSweep
    <3> QED
      BY <2>1, <3>1 DEF TypeOK, AttemptsLeft, PostsKnown, Posted
  <2>5. CASE StoreLabels
    <3>1. labels' \in LabelSweep
      BY <2>5, ResetTypes DEF StoreLabels
    <3>2. labels.due \in Thread /\ labels.recent \in Nat
      BY <1>0 DEF LabelSweep
    <3>3. counted' \in Nat
      BY <1>0, <2>5, <3>2, MaxOfTwo DEF StoreLabels
    <3>4. PICK draft \in Labels :
          thread' = [thread EXCEPT !.through = Mark, !.model = model,
                        !.label = IF NeedsLabel /\ labels.recent # Never
                                  THEN CleanLabel(draft, labels.due.label) ELSE labels.due.label,
                        !.named = labels.due.named \/ (labels.recent # Never /\ Voiced(draft))]
      BY <2>5 DEF StoreLabels
    <3>5. Mark \in Nat /\ model \in ModelOrNone
      BY <3>2 DEF Mark, Thread, TypeOK, ModelOrNone
    <3>6. PICK label \in SUBSET Numbers : 
             label = IF NeedsLabel /\ labels.recent # Never
                     THEN CleanLabel(draft, labels.due.label) ELSE labels.due.label
      BY <3>2, SynthesisAssumption DEF CleanLabel, Draft, Thread
    <3>7. PICK named \in BOOLEAN : named = (labels.due.named \/ (labels.recent # Never /\ Voiced(draft)))
      OBVIOUS
    <3>8. thread' \in Thread
      BY <1>0, <3>4, <3>5, <3>6, <3>7 DEF Thread
    <3> QED
      BY <2>1, <3>1, <3>3, <3>8 DEF TypeOK, AttemptsLeft, PostsKnown, Posted
  <2> QED
    BY <1>2, <2>2, <2>3, <2>4, <2>5
<1> QED
  BY <1>1, <1>2 DEF LabelStep

LEMMA NextTypeInv == TypeInv /\ [Next]_vars => TypeInv'
<1> SUFFICES ASSUME TypeInv, [Next]_vars PROVE TypeInv'
  OBVIOUS
<1>1. CASE UNCHANGED vars
  BY <1>1 DEF vars, textVars, TypeInv, TypeOK, AttemptsLeft, PostsKnown, Posted
<1> QED
  BY <1>1, TextType, FireType, SweepType, ThreadType DEF Next

(***************************************************************************)
(* Every reachable state is of its type: whatever sweeps overlap, die or   *)
(* are overtaken by a deployment, the members a sweep took with it are     *)
(* clusters, what it read is their summaries, and no story is recorded to  *)
(* have failed more than MAX_SUMMARY_ATTEMPTS times (sweep_stories).       *)
(***************************************************************************)
THEOREM TypeCorrect == Spec => []TypeOK
<1>1. TypeInv => TypeOK
  BY DEF TypeInv
<1> QED
  BY <1>1, InitTypeInv, NextTypeInv, PTL DEF Spec

-----------------------------------------------------------------------------
(* What a label sweep knows of the thread it took with it: the time it     *)
(* will set the watermark to is no later than the newest story it then     *)
(* reads, and what the watermark stood at had been counted.                *)
MarkIsRead ==
    /\ thread.last <= newest
    /\ labels.pc # "idle" => labels.due.last <= newest /\ labels.due.through <= counted
    /\ labels.pc = "read" => labels.due.last <= labels.recent

NewsInv == TypeInv /\ MarkIsRead /\ NewsIsCounted

LEMMA NewsSteps ==
    ASSUME NewsInv, [Next]_vars
    PROVE  MarkIsRead' /\ NewsIsCounted'
<1> USE DEF NewsInv
<1>0. /\ newest \in Nat /\ counted \in Nat /\ thread.last \in Nat /\ thread.through \in Nat
      /\ labels.due.last \in Nat /\ labels.due.through \in Nat /\ labels.recent \in Nat
      /\ thread \in Thread /\ labels \in LabelSweep
  BY DEF TypeInv, TypeOK, Thread, LabelSweep
<1>1. CASE Persist
  <2>1. newest' \in Nat /\ newest <= newest' /\ UNCHANGED <<thread, labels, counted>>
    BY <1>1, NewestGrows DEF Persist, TypeInv
  <2> QED
    BY <1>0, <2>1 DEF MarkIsRead, NewsIsCounted
<1>2. CASE SaveThread
  <2>1. thread'.last = newest /\ thread'.through = thread.through
    BY <1>0, <1>2 DEF SaveThread, Thread
  <2>2. labels.pc = "idle" /\ UNCHANGED <<newest, labels, counted>>
    BY <1>2 DEF SaveThread, JobAt
  <2> QED
    BY <1>0, <2>1, <2>2 DEF MarkIsRead, NewsIsCounted
<1>3. CASE StartLabels
  <2>1. labels'.pc = "due" /\ labels'.due = thread /\ UNCHANGED <<newest, thread, counted>>
    BY <1>3, ResetTypes DEF StartLabels, LabelSweep
  <2> QED
    BY <2>1 DEF MarkIsRead, NewsIsCounted
<1>4. CASE ReadRecent
  <2>1. labels'.due = labels.due /\ labels'.recent = newest /\ labels.pc = "due"
        /\ UNCHANGED <<newest, thread, counted>>
    BY <1>0, <1>4 DEF ReadRecent, LabelSweep
  <2> QED
    BY <2>1 DEF MarkIsRead, NewsIsCounted
<1>5. CASE StoreLabels
  <2>1. thread'.last = thread.last /\ thread'.through = labels.due.last
    BY <1>0, <1>5 DEF StoreLabels, Mark, Thread
  <2>2. labels'.pc = "idle" /\ newest' = newest /\ labels.pc = "read"
    BY <1>5 DEF StoreLabels, NoLabels
  <2>3. labels.due.last <= labels.recent /\ labels.due.through <= counted
    BY <2>2 DEF MarkIsRead
  <2>4. labels.due.last <= counted'
    <3>1. CASE News
      <4>1. counted' = Max({counted, labels.recent})
        BY <1>5, <3>1 DEF StoreLabels
      <4>2. counted' \in Nat /\ labels.recent <= counted'
        BY <1>0, <4>1, MaxOfTwo
      <4> QED
        BY <1>0, <2>3, <4>2
    <3>2. CASE ~ News
      <4>1. counted' = counted
        BY <1>5, <3>2 DEF StoreLabels
      <4> QED
        BY <1>0, <2>3, <3>2, <4>1 DEF News
    <3> QED
      BY <3>1, <3>2
  <2> QED
    BY <2>1, <2>2, <2>4 DEF MarkIsRead, NewsIsCounted
<1>6. CASE Upgrade
  <2>1. labels'.pc = "idle" /\ UNCHANGED <<newest, thread, counted>>
    BY <1>6 DEF Upgrade, NoLabels
  <2> QED
    BY <2>1 DEF MarkIsRead, NewsIsCounted
<1>7. ASSUME UNCHANGED <<newest, thread, labels, counted>> PROVE MarkIsRead' /\ NewsIsCounted'
  BY <1>7 DEF MarkIsRead, NewsIsCounted
<1>8. CASE UNCHANGED vars \/ EndInline \/ Render \/ Deliver
           \/ (\E p \in Events : Arrive(p) \/ FetchArticle(p))
           \/ (\E c \in Clusters : Summarize(c))
           \/ (\E C \in (SUBSET Clusters) \ {{}} : OpenPersist(C))
  BY <1>7, <1>8 DEF vars, EndInline, Render, Deliver, Arrive, FetchArticle, Summarize, OpenPersist
<1>9. CASE \E w \in Sweeps : StartSweep(w) \/ SweepStep(w) \/ FailSweep(w)
  BY <1>7, <1>9 DEF StartSweep, SweepStep, LoadMembers, Touch, StoreSynthesis, RecordFailure, FailSweep
<1> QED
  BY <1>1, <1>2, <1>3, <1>4, <1>5, <1>6, <1>8, <1>9 DEF Next, LabelStep

(***************************************************************************)
(* A delta covers no more than it counted: the watermark is last_story_time *)
(* as the sweep found it and the stories are read after it, so whatever is *)
(* persisted in between, and wherever a sweep is dropped, no story falls   *)
(* between two deltas (sweep_thread_labels).                               *)
(***************************************************************************)
THEOREM NewsIsCountedCorrect == Spec => []NewsIsCounted
<1>1. Init => NewsInv
  <2>1. Init => MarkIsRead /\ NewsIsCounted
    BY DEF Init, MarkIsRead, NewsIsCounted, NewThread, NoLabels, Never
  <2> QED
    BY <2>1, InitTypeInv DEF NewsInv
<1>2. NewsInv /\ [Next]_vars => NewsInv'
  BY NextTypeInv, NewsSteps DEF NewsInv
<1>3. NewsInv => NewsIsCounted
  BY DEF NewsInv
<1> QED
  BY <1>1, <1>2, <1>3, PTL DEF Spec

-----------------------------------------------------------------------------
(* Whatever a row, a sweep or the fire holds is backed by the sources: a   *)
(* sweep synthesizes from what it read, however long ago that was.         *)
ReadsBacked == \A w \in Sweeps : \A i \in DOMAIN sweep[w].read : Backed(sweep[w].read[i])
RowsBacked == (\A c \in Clusters : Backed(cluster[c].summary)) /\ Backed(story.summary)
FireGrounded == Grounded(fire.item) /\ fire.lead \subseteq Said \cup Counts \cup fire.label

GroundInv == TypeInv /\ ReadsBacked /\ RowsBacked /\ FireGrounded

(* The sources only grow, so what was backed stays backed.                 *)
LEMMA SourcesGrow ==
    ASSUME seen \subseteq seen'
    PROVE  /\ Said \subseteq Said' /\ Mentioned \subseteq Mentioned'
           /\ \A s : Backed(s) => Backed(s)'
           /\ \A s : Grounded(s) => Grounded(s)'
<1>1. Said \subseteq Said' /\ Mentioned \subseteq Mentioned'
  BY DEF Said, Mentioned, AllEntities
<1> QED
  BY <1>1 DEF Backed, Grounded

LEMMA NothingBacked == Backed(NoSummary) /\ Grounded(NoSummary)
  BY DEF Backed, Grounded, NoSummary, NoFacts

(* What a step may leave as it was, or drop.                               *)
LEMMA BackedKept ==
    ASSUME GroundInv, seen \subseteq seen'
    PROVE  /\ (\A w \in Sweeps : sweep'[w].read \in {sweep[w].read, <<>>}) => ReadsBacked'
           /\ cluster' = cluster /\ story'.summary = story.summary => RowsBacked'
           /\ fire'.item = fire.item /\ fire'.lead = fire.lead /\ fire'.label = fire.label => FireGrounded'
           /\ fire'.item = NoSummary /\ fire'.lead = {} => FireGrounded'
<1>1. ASSUME \A w \in Sweeps : sweep'[w].read \in {sweep[w].read, <<>>} PROVE ReadsBacked'
  <2> SUFFICES ASSUME NEW w \in Sweeps, NEW i \in DOMAIN sweep'[w].read
               PROVE  Backed(sweep[w].read[i])'
    BY DEF ReadsBacked
  <2>1. sweep'[w].read = sweep[w].read
    BY <1>1
  <2>2. Backed(sweep[w].read[i])
    BY <2>1 DEF GroundInv, ReadsBacked
  <2>3. PICK s : s = sweep[w].read[i]
    OBVIOUS
  <2>4. Backed(s)'
    BY <2>2, <2>3, SourcesGrow
  <2>5. s = sweep'[w].read[i]
    BY <2>1, <2>3
  <2> QED
    BY <2>4, <2>5 DEF Backed, Grounded
<1>2. ASSUME cluster' = cluster, story'.summary = story.summary PROVE RowsBacked'
  <2>1. ASSUME NEW s, Backed(s) PROVE Backed(s)'
    BY <2>1, SourcesGrow
  <2>2. ASSUME NEW c \in Clusters PROVE Backed(cluster[c].summary)'
    <3>1. PICK s : s = cluster[c].summary
      OBVIOUS
    <3>2. Backed(s)'
      BY <2>1, <3>1 DEF GroundInv, RowsBacked
    <3> QED
      BY <1>2, <3>1, <3>2 DEF Backed, Grounded
  <2>3. Backed(story.summary)'
    <3>1. PICK s : s = story.summary
      OBVIOUS
    <3>2. Backed(s)'
      BY <2>1, <3>1 DEF GroundInv, RowsBacked
    <3> QED
      BY <1>2, <3>1, <3>2 DEF Backed, Grounded
  <2> QED
    BY <2>2, <2>3 DEF RowsBacked
<1>3. ASSUME fire'.item = fire.item, fire'.lead = fire.lead, fire'.label = fire.label PROVE FireGrounded'
  BY <1>3, SourcesGrow DEF GroundInv, FireGrounded, Grounded
<1>4. ASSUME fire'.item = NoSummary, fire'.lead = {} PROVE FireGrounded'
  BY <1>4 DEF FireGrounded, Grounded, NoSummary
<1> QED
  BY <1>1, <1>2, <1>3, <1>4

(* What a member says is said, and so is what an item composes of them.    *)
LEMMA ItemGrounded ==
    ASSUME GroundInv, NEW first \in Clusters
    PROVE  Grounded(RenderedItem(first))
<1>1. story.members \in SUBSET Clusters /\ story.summary \in Summary
      /\ \A c \in Clusters : cluster[c].summary \in Summary /\ Grounded(cluster[c].summary)
  BY DEF GroundInv, TypeInv, TypeOK, StoryRow, RowsBacked, Backed
<1>2. PICK chosen : chosen = IF story.summary.blank THEN cluster[first].summary ELSE story.summary
  OBVIOUS
<1>3. chosen \in Summary /\ Grounded(chosen)
  BY <1>1, <1>2 DEF GroundInv, RowsBacked, Backed
<1>4. UNION {cluster[c].summary.numbers : c \in story.members \ {first}} \subseteq Said
  BY <1>1 DEF Grounded
<1>5. PICK others : others = UNION {cluster[c].summary.numbers : c \in story.members \ {first}}
  OBVIOUS
<1>6. /\ RenderedItem(first).refs = chosen.refs
      /\ RenderedItem(first).numbers \subseteq chosen.numbers \cup others
  BY <1>2, <1>3, <1>5 DEF RenderedItem, Composed, Summary
<1> QED
  BY <1>3, <1>4, <1>5, <1>6 DEF Grounded

LEMMA GroundSteps ==
    ASSUME GroundInv, [Next]_vars
    PROVE  ReadsBacked' /\ RowsBacked' /\ FireGrounded'
<1> USE DEF GroundInv
<1>0. /\ fire \in Fire /\ story \in StoryRow /\ sweep \in [Sweeps -> StorySweep]
      /\ cluster \in [Clusters -> [summary : Summary, hash : Hash]]
      /\ NoSweep.read = <<>> /\ NoFire.item = NoSummary /\ NoFire.lead = {}
  BY DEF TypeInv, TypeOK, NoSweep, NoFire
<1>1. ASSUME NEW w \in Sweeps, fire' \in {fire, Swept(w), Overtaking(Swept(w), "settled"),
                                          Overtaking(Swept(w), "held")}
      PROVE  fire'.item = fire.item /\ fire'.lead = fire.lead /\ fire'.label = fire.label
  BY <1>0, <1>1 DEF Swept, Overtaking, Fire
<1>2. CASE UNCHANGED vars \/ (\E p \in Events : Arrive(p) \/ FetchArticle(p)) \/ SaveThread \/ StartLabels \/ LabelStep
  <2>1. seen \subseteq seen' /\ UNCHANGED <<cluster, story, fire, sweep>>
    BY <1>2 DEF vars, textVars, Arrive, FetchArticle, SaveThread, StartLabels, LabelStep, ReadRecent, StoreLabels
  <2> QED
    BY <2>1, BackedKept
<1>3. CASE \E c \in Clusters : Summarize(c)
  <2>1. PICK c \in Clusters : Summarize(c)
    BY <1>3
  <2>2. seen' = seen /\ UNCHANGED <<story, fire, sweep>>
    BY <2>1 DEF Summarize
  <2>3. PICK draft, reading, result :
              /\ draft \in Drafts /\ reading \in Readings
              /\ result = SummarizeCluster(Content(c), reading, draft, <<"faithful">>)
              /\ result.ok
              /\ cluster' = [cluster EXCEPT ![c] =
                    [summary |-> result.summary, hash |-> SummaryHash(Content(c))]]
    BY <2>1 DEF Summarize
  <2>4. Backed(result.summary)
    BY <2>3, ClusterSummaryBacked DEF TypeInv
  <2>5. \A d \in Clusters : cluster'[d].summary \in {cluster[d].summary, result.summary}
    BY <1>0, <2>3
  <2>6. \A d \in Clusters : Backed(cluster'[d].summary)
    BY <2>4, <2>5 DEF RowsBacked
  <2>7. RowsBacked'
    BY <2>2, <2>6 DEF RowsBacked, Backed, Grounded, Said, Mentioned
  <2> QED
    BY <2>2, <2>7, BackedKept
<1>4. CASE \E C \in (SUBSET Clusters) \ {{}} : OpenPersist(C)
  <2>1. /\ seen' = seen /\ UNCHANGED <<cluster, story, sweep>>
        /\ fire'.item = NoSummary /\ fire'.lead = {}
    BY <1>4 DEF OpenPersist, textVars, NoFire
  <2> QED
    BY <2>1, BackedKept
<1>5. CASE Persist
  <2>1. seen' = seen /\ UNCHANGED <<cluster, sweep>>
    BY <1>5 DEF Persist, textVars
  <2>2. story'.summary = story.summary
    BY <1>0, <1>5 DEF Persist, StoryRow
  <2>3. fire'.item = fire.item /\ fire'.lead = fire.lead /\ fire'.label = fire.label
    BY <1>0, <1>5 DEF Persist, Fire
  <2> QED
    BY <2>1, <2>2, <2>3, BackedKept
<1>6. CASE EndInline
  <2>1. seen' = seen /\ UNCHANGED <<cluster, story>> /\ fire' = Swept("inline") /\ "inline" \in Sweeps
    BY <1>6 DEF EndInline, textVars, Sweeps
  <2>2. \A w \in Sweeps : sweep'[w].read \in {sweep[w].read, <<>>}
    BY <1>0, <1>6 DEF EndInline
  <2> QED
    BY <1>1, <2>1, <2>2, BackedKept
<1>7. CASE Render
  <2>1. seen' = seen /\ UNCHANGED <<cluster, story, sweep>>
    BY <1>7 DEF Render, textVars
  <2>2. PICK members \in NewestFirst(story.members), draft \in Drafts :
           /\ CleanLead(draft, RenderedItem(members[1]).numbers \cup thread.label, Counts)
           /\ fire' = [fire EXCEPT !.pc = "rendered", !.item = RenderedItem(members[1]),
                                   !.label = thread.label, !.lead = draft.numbers]
    BY <1>7 DEF Render
  <2>3. members[1] \in Clusters
    BY <1>0, <1>7, OrderedMembers DEF Render, StoryRow
  <2>4. PICK item : item = RenderedItem(members[1]) /\ Grounded(item)
    BY <2>3, ItemGrounded
  <2>5. fire'.item = item /\ fire'.label = thread.label /\ fire'.lead = draft.numbers
    BY <1>0, <2>2, <2>4 DEF Fire
  <2>6. draft.numbers \subseteq Said \cup Counts \cup thread.label
    BY <2>2, <2>4 DEF CleanLead, Grounded
  <2>7. FireGrounded'
    BY <2>1, <2>4, <2>5, <2>6 DEF FireGrounded, Grounded, Said, Mentioned
  <2> QED
    BY <2>1, <2>7, BackedKept
<1>8. CASE Deliver \/ Upgrade
  <2>1. seen' = seen /\ UNCHANGED <<cluster, story>>
    BY <1>8 DEF Deliver, Upgrade, textVars
  <2>2. fire'.item = NoSummary /\ fire'.lead = {}
    BY <1>8 DEF Deliver, Upgrade, NoFire
  <2>3. \A w \in Sweeps : sweep'[w].read \in {sweep[w].read, <<>>}
    BY <1>0, <1>8 DEF Deliver, Upgrade
  <2> QED
    BY <2>1, <2>2, <2>3, BackedKept
<1>9. ASSUME NEW w \in Sweeps, StartSweep(w) \/ SweepStep(w) \/ FailSweep(w)
      PROVE  ReadsBacked' /\ RowsBacked' /\ FireGrounded'
  <2>1. seen' = seen /\ cluster' = cluster
    BY <1>9 DEF StartSweep, SweepStep, LoadMembers, Touch, StoreSynthesis, RecordFailure, FailSweep, textVars
  <2>2. FireGrounded'
    <3>1. fire' \in {fire, Swept(w), Overtaking(Swept(w), "settled"), Overtaking(Swept(w), "held")}
      BY <1>9 DEF StartSweep, SweepStep, LoadMembers, Touch, StoreSynthesis, RecordFailure, FailSweep,
                  Settle, Leave
    <3> QED
      BY <1>1, <2>1, <3>1, BackedKept
  <2>3. ReadsBacked'
    <3>1. CASE LoadMembers(w) /\ sweep' # [sweep EXCEPT ![w] = NoSweep]
      <4>1. PICK members \in NewestFirst(sweep[w].due.members) :
               \E pc \in {"touching", "calling"} :
                  sweep' = [sweep EXCEPT ![w].pc = pc, ![w].due.sig = StorySig(Hashes(members)),
                                         ![w].read = Summaries(members)]
        BY <3>1 DEF LoadMembers, Leave
      <4>2. PICK pc \in {"touching", "calling"} :
               sweep'[w] = [sweep[w] EXCEPT !.pc = pc, !.due.sig = StorySig(Hashes(members)),
                                            !.read = Summaries(members)]
        BY <1>0, <4>1
      <4>3. sweep'[w].read = Summaries(members)
        <5>1. PICK due : sweep'[w] = [sweep[w] EXCEPT !.pc = pc, !.due = due, !.read = Summaries(members)]
          BY <4>2
        <5> QED
          BY <1>0, <5>1 DEF StorySweep
      <4>4. members \in [1 .. Cardinality(sweep[w].due.members) -> Clusters]
        <5>1. sweep[w].due.members \in SUBSET Clusters
          BY <1>0 DEF StorySweep, DueRow
        <5>2. PICK C \in SUBSET Clusters : C = sweep[w].due.members
          BY <5>1
        <5>3. members \in [1 .. Cardinality(C) -> C]
          BY <5>2, OrderedMembers
        <5> QED
          BY <5>2, <5>3
      <4>5. \A i \in DOMAIN Summaries(members) : Backed(Summaries(members)[i])
        BY <4>4 DEF Summaries, RowsBacked
      <4>6. \A v \in Sweeps \ {w} : sweep'[v] = sweep[v]
        BY <1>0, <4>1
      <4>7. \A v \in Sweeps : \A i \in DOMAIN sweep'[v].read : Backed(sweep'[v].read[i])
        BY <4>3, <4>5, <4>6 DEF ReadsBacked
      <4> QED
        BY <2>1, <4>7 DEF ReadsBacked, Backed, Grounded, Said, Mentioned
    <3>2. CASE StartSweep(w)
      <4>1. sweep'[w].read = <<>>
        BY <1>0, <3>2 DEF StartSweep, NoSweep
      <4>2. \A v \in Sweeps : sweep'[v].read \in {sweep[v].read, <<>>}
        BY <1>0, <3>2, <4>1 DEF StartSweep
      <4> QED
        BY <2>1, <4>2, BackedKept
    <3>3. CASE sweep' = [sweep EXCEPT ![w] = NoSweep]
      <4>1. \A v \in Sweeps : sweep'[v].read \in {sweep[v].read, <<>>}
        BY <1>0, <3>3
      <4> QED
        BY <2>1, <4>1, BackedKept
    <3> QED
      BY <1>9, <3>1, <3>2, <3>3 DEF SweepStep, LoadMembers, Touch, StoreSynthesis, RecordFailure,
                                    FailSweep, Settle, Leave
  <2>4. RowsBacked'
    <3>1. CASE StoreSynthesis(w)
      <4>1. PICK draft, result :
               /\ draft \in Drafts
               /\ result = SynthesizeStory(sweep[w].read, draft, <<"faithful">>)
               /\ result.ok
               /\ Settle(w, [Healthy(story, w) EXCEPT !.summary = result.summary, !.sig = sweep[w].due.sig,
                                                      !.basis = sweep[w].due.members])
        BY <3>1 DEF StoreSynthesis
      <4>2. PICK read \in Seq(Summary) : read = sweep[w].read /\ \A i \in DOMAIN read : Backed(read[i])
        BY <1>0 DEF StorySweep, ReadsBacked
      <4>3. result = SynthesizeStory(read, draft, <<"faithful">>)
        BY <4>1, <4>2
      <4>4. Backed(result.summary)
        BY <4>1, <4>2, <4>3, SynthesisBacked
      <4>5. story'.summary = result.summary
        BY <1>0, <4>1 DEF Settle, Healthy, StoryRow
      <4> QED
        BY <2>1, <4>4, <4>5 DEF RowsBacked, Backed, Grounded, Said, Mentioned
    <3>2. CASE ~ StoreSynthesis(w)
      <4>1. story'.summary = story.summary
        BY <1>0, <1>9, <3>2 DEF StartSweep, SweepStep, LoadMembers, Touch, RecordFailure, FailSweep,
                                Settle, Healthy, StoryRow
      <4> QED
        BY <2>1, <4>1, BackedKept
    <3> QED
      BY <3>1, <3>2
  <2> QED
    BY <2>2, <2>3, <2>4
<1> QED
  BY <1>2, <1>3, <1>4, <1>5, <1>6, <1>7, <1>8, <1>9 DEF Next

(***************************************************************************)
(* Whatever is mailed was said: however the sweeps, the fires and the      *)
(* summaries of the clusters interleave, the entities of a stored summary  *)
(* and of a rendered item are mentioned by some source, their numbers are  *)
(* in some source's text, and a lead adds only a number of a label it      *)
(* names or the item count (faithful, clean_lead).  The model may write    *)
(* anything: only the gates are relied on.                                 *)
(***************************************************************************)
THEOREM GroundedInSourcesCorrect == Spec => []GroundedInSources
<1>1. Init => GroundInv
  <2> SUFFICES ASSUME Init PROVE ReadsBacked /\ RowsBacked /\ FireGrounded
    BY InitTypeInv DEF GroundInv
  <2>1. RowsBacked
    BY NothingBacked DEF Init, RowsBacked, NewStory
  <2>2. FireGrounded
    BY NothingBacked DEF Init, FireGrounded, NoFire
  <2>3. ReadsBacked
    BY DEF Init, ReadsBacked, NoSweep
  <2> QED
    BY <2>1, <2>2, <2>3
<1>2. GroundInv /\ [Next]_vars => GroundInv'
  BY NextTypeInv, GroundSteps DEF GroundInv
<1>3. GroundInv => GroundedInSources
  BY DEF GroundInv, RowsBacked, Backed, FireGrounded, GroundedInSources
<1> QED
  BY <1>1, <1>2, <1>3, PTL DEF Spec

-----------------------------------------------------------------------------
(***************************************************************************)
(* The members and the summary of the story.  A signature tells members:   *)
(* every hash in it is of one of them, and each of them has one in it.     *)
(* While no fire has changed the members since a sweep found the row due,  *)
(* the sweep and the row have the same members; if no settled write was    *)
(* lost either, a row the sweep will touch is of these members, and one    *)
(* that is not dirty is.                                                   *)
(***************************************************************************)
Tells(sig, C) ==
    /\ \A h \in DOMAIN sig : \E c \in C : h \in HashesOf(c)
    /\ \A c \in C : \E h \in DOMAIN sig : h \in HashesOf(c)
HashedRight == \A c \in Clusters : cluster[c].hash = Unhashed \/ cluster[c].hash \in HashesOf(c)
Summarized(C) == \A c \in C : cluster[c].hash \in HashesOf(c)
MembersSummarized ==
    /\ Summarized(fire.members) /\ Summarized(story.members)
    /\ \A w \in Sweeps : Summarized(sweep[w].due.members)
FiresCount ==
    /\ story.fire <= fire.count
    /\ fire.pc = "linked" => story.fire < fire.count
    /\ \A w \in Sweeps : sweep[w].due.fire <= story.fire
Uncrossed(w) == sweep[w].pc # "idle" /\ ~ Crossed(w)
DueKept == \A w \in Sweeps : Uncrossed(w) => sweep[w].due.members = story.members
AtRest == story.basis = story.members \/ Cardinality(story.members) < 2
SigsTell ==
    /\ Tells(story.sig, story.basis)
    /\ \A w \in Sweeps :
          /\ sweep[w].pc = "calling" => Tells(sweep[w].due.sig, sweep[w].due.members)
          /\ sweep[w].pc = "due" /\ Uncrossed(w) /\ ~ lost
                => story.sig = sweep[w].due.sig \/ story.basis = story.members
          /\ sweep[w].pc = "touching" /\ Uncrossed(w) /\ ~ lost => AtRest
Settled == story.dirty \/ lost \/ AtRest

MemberInv ==
    TypeInv /\ HashedRight /\ MembersSummarized /\ FiresCount /\ DueKept /\ SigsTell /\ Settled

(* The members in order are all of them.                                   *)
LEMMA OrderIsOnto ==
    ASSUME NEW C \in SUBSET Clusters, NEW members \in NewestFirst(C), NEW c \in C
    PROVE  \E i \in DOMAIN members : members[i] = c
<1>1. IsFiniteSet(C) /\ Cardinality(C) \in Nat
  BY FS_Subset, FS_CardinalityType, SynthesisAssumption
<1>2. members \in Injection(1 .. Cardinality(C), C)
  BY DEF NewestFirst, SetToSeqs, Injection, IsInjective
<1>3. Cardinality(1 .. Cardinality(C)) = Cardinality(C)
  BY <1>1, FS_Interval
<1>4. members \in Surjection(1 .. Cardinality(C), C)
  BY <1>1, <1>2, <1>3, FS_Injection
<1> QED
  BY <1>4 DEF Surjection

(* The signature of members that are summarized tells them.                *)
LEMMA SigOfMembers ==
    ASSUME NEW C \in SUBSET Clusters, Summarized(C), NEW members \in NewestFirst(C)
    PROVE  Tells(StorySig(Hashes(members)), C)
<1>1. members \in [1 .. Cardinality(C) -> C]
  BY OrderedMembers
<1>2. DOMAIN StorySig(Hashes(members)) = {cluster[members[i]].hash : i \in DOMAIN members}
  BY DEF StorySig, Hashes, Range
<1>3. \A i \in DOMAIN members : members[i] \in C
  BY <1>1
<1>4. \A c \in C : cluster[c].hash \in DOMAIN StorySig(Hashes(members))
  BY <1>2, OrderIsOnto
<1> HIDE DEF StorySig
<1> QED
  BY <1>2, <1>3, <1>4 DEF Tells, Summarized

(* A signature tells the members apart as far as the hashes do.            *)
LEMMA SigTellsApart ==
    ASSUME HashesTell, NEW sig, NEW C \in SUBSET Clusters, NEW D \in SUBSET Clusters,
           Tells(sig, C), Tells(sig, D)
    PROVE  C = D
<1>1. ASSUME NEW A \in SUBSET Clusters, NEW B \in SUBSET Clusters, Tells(sig, A), Tells(sig, B), NEW c \in A
      PROVE  c \in B
  <2>1. PICK h \in DOMAIN sig : h \in HashesOf(c)
    BY <1>1 DEF Tells
  <2>2. PICK d \in B : h \in HashesOf(d)
    BY <1>1, <2>1 DEF Tells
  <2>3. c = d
    BY <1>1, <2>1, <2>2 DEF HashesTell
  <2> QED
    BY <2>2, <2>3
<1> QED
  BY <1>1

(* A hash a cluster has is one it may have, whatever is summarized anew.   *)
LEMMA SummarizedStays ==
    ASSUME NEW C \in SUBSET Clusters, Summarized(C), TypeInv, HashedRight,
           cluster' = cluster \/ \E c \in Clusters : Summarize(c)
    PROVE  Summarized(C)' /\ HashedRight'
<1>1. CASE cluster' = cluster
  BY <1>1 DEF Summarized, HashedRight
<1>2. ASSUME NEW c \in Clusters, Summarize(c) PROVE Summarized(C)' /\ HashedRight'
  <2>1. PICK result : cluster' = [cluster EXCEPT ![c] =
                         [summary |-> result, hash |-> SummaryHash(Content(c))]]
    BY <1>2 DEF Summarize
  <2>2. SummaryHash(Content(c)) \in HashesOf(c)
    BY <1>2, ContentTells DEF TypeInv, Summarize
  <2>3. \A d \in Clusters : cluster'[d].hash \in {cluster[d].hash} \cup HashesOf(d)
    BY <2>1, <2>2 DEF TypeInv, TypeOK
  <2> QED
    BY <2>3 DEF Summarized, HashedRight
<1> QED
  BY <1>1, <1>2

(* A step that leaves the members, the fire that set them and what the     *)
(* summary says of them alone, and a sweep where it is or drops it.        *)
SameRow == /\ story'.members = story.members /\ story'.fire = story.fire /\ story'.dirty = story.dirty
           /\ story'.sig = story.sig /\ story'.basis = story.basis

LEMMA MembersStay ==
    ASSUME MemberInv, SameRow, UNCHANGED lost,
           cluster' = cluster \/ \E c \in Clusters : Summarize(c),
           fire'.count = fire.count, fire'.pc = "linked" => fire.pc = "linked",
           fire'.members \in {fire.members, {}},
           \A w \in Sweeps : sweep'[w] \in {sweep[w], NoSweep}
    PROVE  (HashedRight /\ MembersSummarized /\ FiresCount /\ DueKept /\ SigsTell /\ Settled)'
<1> USE DEF MemberInv
<1>0. /\ fire.members \in SUBSET Clusters /\ story.members \in SUBSET Clusters
      /\ story.fire \in Nat
      /\ \A w \in Sweeps : sweep[w].due.members \in SUBSET Clusters
  BY DEF TypeInv, TypeOK, Fire, StoryRow, StorySweep, DueRow
<1>1. NoSweep.pc = "idle" /\ NoSweep.due.members = {} /\ NoSweep.due.fire = 0
  BY DEF NoSweep, NotDue
<1>2. \A w \in Sweeps : sweep'[w] = sweep[w] \/ sweep'[w].pc = "idle"
  BY <1>1
<1>3. \A C \in SUBSET Clusters : Summarized(C) => Summarized(C)' /\ HashedRight'
  BY SummarizedStays
<1>4. HashedRight'
  BY <1>3 DEF Summarized
<1>5. MembersSummarized'
  BY <1>0, <1>1, <1>3 DEF MembersSummarized, SameRow, Summarized
<1>6. FiresCount'
  BY <1>0, <1>1 DEF FiresCount, SameRow
<1>7. DueKept'
  BY <1>2 DEF DueKept, Uncrossed, Crossed, SameRow
<1>8. SigsTell'
  BY <1>2 DEF SigsTell, Uncrossed, Crossed, SameRow, Tells, AtRest
<1>9. Settled'
  BY DEF Settled, SameRow, AtRest
<1> QED
  BY <1>4, <1>5, <1>6, <1>7, <1>8, <1>9

(* Every step keeps what the row, its sweeps and its fire know of the      *)
(* members.                                                                *)
LEMMA MemberSteps ==
    ASSUME HashesTell, MemberInv, [Next]_vars
    PROVE  (HashedRight /\ MembersSummarized /\ FiresCount /\ DueKept /\ SigsTell /\ Settled)'
<1> DEFINE Goal == HashedRight /\ MembersSummarized /\ FiresCount /\ DueKept /\ SigsTell /\ Settled
<1> USE DEF MemberInv
<1>0. /\ fire \in Fire /\ story \in StoryRow /\ sweep \in [Sweeps -> StorySweep] /\ lost \in BOOLEAN
      /\ fire.count \in Nat /\ story.fire \in Nat
      /\ fire.members \in SUBSET Clusters /\ story.members \in SUBSET Clusters
      /\ \A w \in Sweeps : sweep[w].due.members \in SUBSET Clusters /\ sweep[w].due.fire \in Nat
  BY DEF TypeInv, TypeOK, Fire, StoryRow, StorySweep, DueRow
<1>1. CASE \/ \E p \in Events : Arrive(p) \/ FetchArticle(p)
           \/ \E c \in Clusters : Summarize(c)
           \/ SaveThread \/ StartLabels \/ LabelStep
           \/ UNCHANGED vars
  <2>1. UNCHANGED <<story, fire, sweep, lost>> /\ (cluster' = cluster \/ \E c \in Clusters : Summarize(c))
    BY <1>1 DEF Arrive, FetchArticle, Summarize, SaveThread, StartLabels, LabelStep, ReadRecent, StoreLabels,
                textVars, vars
  <2> QED
    BY <2>1, MembersStay DEF SameRow
<1>2. CASE EndInline \/ Render \/ Deliver \/ Upgrade
  <2>1. UNCHANGED <<cluster, story, lost>>
    BY <1>2 DEF EndInline, Render, Deliver, Upgrade, textVars
  <2>2. /\ fire'.count = fire.count /\ fire'.pc # "linked" /\ fire'.members \in {fire.members, {}}
    BY <1>0, <1>2 DEF EndInline, Render, Deliver, Upgrade, Swept, NoFire, Fire
  <2>3. \A w \in Sweeps : sweep'[w] \in {sweep[w], NoSweep}
    BY <1>0, <1>2 DEF EndInline, Render, Deliver, Upgrade
  <2> QED
    BY <2>1, <2>2, <2>3, MembersStay DEF SameRow
<1>3. ASSUME NEW C \in (SUBSET Clusters) \ {{}}, OpenPersist(C) PROVE Goal'
  <2>1. UNCHANGED <<cluster, story, sweep, lost>>
    BY <1>3 DEF OpenPersist, textVars
  <2>2. fire'.members = C /\ fire'.count = fire.count + 1
    BY <1>3 DEF OpenPersist, NoFire
  <2>3. Summarized(C)
    BY <1>3 DEF OpenPersist, Summarized, HashedRight
  <2>4. HashedRight' /\ MembersSummarized'
    BY <2>1, <2>2, <2>3 DEF HashedRight, MembersSummarized, Summarized
  <2>5. FiresCount'
    BY <1>0, <2>1, <2>2 DEF FiresCount
  <2>6. DueKept' /\ SigsTell' /\ Settled'
    BY <2>1 DEF DueKept, SigsTell, Settled, Uncrossed, Crossed, AtRest, Tells
  <2> QED
    BY <2>4, <2>5, <2>6
<1>4. CASE Persist
  <2>1. UNCHANGED <<cluster, sweep>>
    BY <1>4 DEF Persist, textVars
  <2>2. fire'.pc = "persisted" /\ fire'.count = fire.count /\ fire'.members = fire.members
    BY <1>0, <1>4 DEF Persist, Fire
  <2>3. story.fire < fire.count
    BY <1>4 DEF Persist, FiresCount
  <2>4. CASE Regrouped
    <3>1. /\ story'.members = fire.members /\ story'.fire = fire.count
          /\ story'.sig = story.sig /\ story'.basis = story.basis
      BY <1>0, <1>4, <2>4 DEF Persist, Moved, Regrouped, StoryRow
    <3>2. story'.dirty \/ lost'
      BY <1>0, <1>4, <2>4 DEF Persist, Moved, Regrouped, StoryRow
    <3>3. \A w \in Sweeps : sweep'[w].due.fire < story'.fire
      BY <1>0, <2>1, <2>3, <3>1 DEF FiresCount
    <3>4. \A w \in Sweeps : ~ Uncrossed(w)'
      BY <1>0, <2>1, <3>1, <3>3 DEF Uncrossed, Crossed
    <3>5. HashedRight' /\ MembersSummarized'
      BY <2>1, <2>2, <3>1 DEF HashedRight, MembersSummarized, Summarized
    <3>6. FiresCount'
      BY <1>0, <2>1, <2>2, <3>1, <3>3 DEF FiresCount
    <3>7. DueKept' /\ Settled'
      BY <3>2, <3>4 DEF DueKept, Settled
    <3>8. SigsTell'
      BY <2>1, <3>1, <3>4 DEF SigsTell, Tells
    <3> QED
      BY <3>5, <3>6, <3>7, <3>8
  <2>5. CASE ~ Regrouped
    <3>1. lost' = lost
      BY <1>4, <2>5 DEF Persist
    <3>2. /\ story'.members = story.members /\ story'.fire = story.fire
          /\ story'.sig = story.sig /\ story'.basis = story.basis
      BY <1>0, <1>4, <2>5 DEF Persist, Regrouped, StoryRow
    <3>3. story.dirty => story'.dirty
      BY <1>0, <1>4 DEF Persist, StoryRow
    <3>4. HashedRight' /\ MembersSummarized' /\ FiresCount' /\ DueKept'
      BY <1>0, <2>1, <2>2, <3>2 DEF HashedRight, MembersSummarized, Summarized, FiresCount,
                                   DueKept, Uncrossed, Crossed
    <3>5. SigsTell' /\ Settled'
      BY <2>1, <3>1, <3>2, <3>3 DEF SigsTell, Settled, Uncrossed, Crossed, AtRest, Tells
    <3> QED
      BY <3>4, <3>5
  <2> QED
    BY <2>4, <2>5
<1>5. ASSUME NEW w \in Sweeps, StartSweep(w) \/ SweepStep(w) \/ FailSweep(w) PROVE Goal'
  <2>0. /\ cluster' = cluster
        /\ \A v \in Sweeps \ {w} : sweep'[v] = sweep[v]
        /\ DOMAIN sweep' = Sweeps
    BY <1>0, <1>5 DEF StartSweep, SweepStep, LoadMembers, Touch, StoreSynthesis, RecordFailure, FailSweep,
                      Settle, Leave, textVars
  <2>1. fire'.count = fire.count /\ (fire'.pc = "linked" => fire.pc = "linked") /\ fire'.members = fire.members
    <3>1. fire' \in {fire, Swept(w), Overtaking(Swept(w), "settled"), Overtaking(Swept(w), "held")}
      BY <1>5 DEF StartSweep, SweepStep, LoadMembers, Touch, StoreSynthesis, RecordFailure, FailSweep,
                  Settle, Leave
    <3>2. Swept(w) \in {fire, [fire EXCEPT !.pc = "swept"]}
      BY DEF Swept
    <3> QED
      BY <1>0, <3>1, <3>2 DEF Overtaking, Fire
  <2>2. CASE FailSweep(w) \/ RecordFailure(w) \/ (LoadMembers(w) /\ sweep' = [sweep EXCEPT ![w] = NoSweep])
    <3>1. \A v \in Sweeps : sweep'[v] \in {sweep[v], NoSweep}
      BY <1>0, <2>0, <2>2 DEF FailSweep, RecordFailure, Leave
    <3>2. SameRow /\ lost' = lost
      BY <1>0, <2>2 DEF FailSweep, RecordFailure, LoadMembers, StoryRow, SameRow
    <3> QED
      BY <2>0, <2>1, <3>1, <3>2, MembersStay
  <2>3. CASE StartSweep(w)
    <3>1. UNCHANGED <<story, lost>>
      BY <2>3 DEF StartSweep
    <3>2. sweep'[w].pc = "due" /\ sweep'[w].due = DueStory
      BY <1>0, <2>3 DEF StartSweep, NoSweep
    <3>3. /\ sweep'[w].due.members = story.members /\ sweep'[w].due.sig = story.sig
          /\ sweep'[w].due.fire = story.fire
      BY <3>2 DEF DueStory
    <3>4. HashedRight' /\ MembersSummarized'
      BY <2>0, <2>1, <3>1, <3>3 DEF HashedRight, MembersSummarized, Summarized
    <3>5. FiresCount' /\ DueKept'
      BY <1>0, <2>0, <2>1, <3>1, <3>3 DEF FiresCount, DueKept, Uncrossed, Crossed
    <3>6. SigsTell' /\ Settled'
      BY <2>0, <3>1, <3>2, <3>3 DEF SigsTell, Settled, Uncrossed, Crossed, AtRest, Tells
    <3> QED
      BY <3>4, <3>5, <3>6
  <2>4. CASE LoadMembers(w) /\ sweep' # [sweep EXCEPT ![w] = NoSweep]
    <3>1. UNCHANGED <<story, lost>> /\ sweep[w].pc = "due"
      BY <2>4 DEF LoadMembers
    <3>2. PICK C \in SUBSET Clusters : C = sweep[w].due.members
      BY <1>0
    <3>3. PICK members \in NewestFirst(C) :
             sweep' = [sweep EXCEPT
                ![w].pc = IF Len(members) < 2 \/ Signed(w, StorySig(Hashes(members))) THEN "touching" ELSE "calling",
                ![w].due.sig = StorySig(Hashes(members)), ![w].read = Summaries(members)]
      BY <2>4, <3>2 DEF LoadMembers, Leave
    <3>4. PICK sig : sig = StorySig(Hashes(members))
      OBVIOUS
    <3>5. Tells(sig, C)
      BY <3>2, <3>4, SigOfMembers DEF MembersSummarized
    <3>6. Len(members) = Cardinality(C) /\ Cardinality(C) \in Nat
      <4>1. Cardinality(C) \in Nat
        BY FS_Subset, FS_CardinalityType, SynthesisAssumption
      <4> QED
        BY <4>1, OrderedMembers
    <3>7. /\ sweep'[w].pc = IF Len(members) < 2 \/ Signed(w, sig) THEN "touching" ELSE "calling"
          /\ sweep'[w].due = [sweep[w].due EXCEPT !.sig = sig]
      BY <1>0, <3>3, <3>4 DEF StorySweep
    <3>8. /\ sweep'[w].due.members = C /\ sweep'[w].due.sig = sig
          /\ sweep'[w].due.fire = sweep[w].due.fire
      <4>1. sweep[w].due \in DueRow
        BY <1>0 DEF StorySweep
      <4> QED
        BY <3>2, <3>7, <4>1 DEF DueRow
    <3>9. HashedRight' /\ MembersSummarized' /\ FiresCount' /\ Settled'
      BY <1>0, <2>0, <2>1, <3>1, <3>2, <3>8 DEF HashedRight, MembersSummarized, Summarized, FiresCount,
                                                Settled, AtRest
    <3>10. DueKept'
      BY <1>0, <2>0, <3>1, <3>2, <3>8 DEF DueKept, Uncrossed, Crossed
    <3>11. sweep'[w].pc = "calling" => Tells(sweep'[w].due.sig, sweep'[w].due.members)
      BY <3>5, <3>8
    <3>12. sweep'[w].pc = "touching" /\ Uncrossed(w)' /\ ~ lost' => AtRest'
      <4> SUFFICES ASSUME sweep'[w].pc = "touching", Uncrossed(w)', ~ lost'
                   PROVE  AtRest
        BY <3>1 DEF AtRest
      <4>1. Uncrossed(w) /\ C = story.members
        BY <3>1, <3>2, <3>8 DEF DueKept, Uncrossed, Crossed
      <4>2. CASE Len(members) < 2
        BY <3>6, <4>1, <4>2 DEF AtRest
      <4>3. CASE Signed(w, sig) /\ story.sig = sweep[w].due.sig
        <5>1. PICK basis \in SUBSET Clusters : basis = story.basis
          BY <1>0 DEF StoryRow
        <5>2. Tells(sig, basis)
          BY <4>3, <5>1 DEF Signed, SigsTell
        <5> QED
          BY <3>5, <4>1, <5>1, <5>2, SigTellsApart DEF AtRest
      <4>4. CASE Signed(w, sig) /\ story.basis = story.members
        BY <4>4 DEF AtRest
      <4> QED
        BY <3>1, <3>7, <4>1, <4>2, <4>3, <4>4 DEF SigsTell
    <3>13. SigsTell'
      <4>1. Tells(story'.sig, story'.basis)
        BY <3>1 DEF SigsTell
      <4>2. \A v \in Sweeps \ {w} :
               /\ sweep'[v].pc = "calling" => Tells(sweep'[v].due.sig, sweep'[v].due.members)
               /\ sweep'[v].pc = "due" /\ Uncrossed(v)' /\ ~ lost'
                     => story'.sig = sweep'[v].due.sig \/ story'.basis = story'.members
               /\ sweep'[v].pc = "touching" /\ Uncrossed(v)' /\ ~ lost' => AtRest'
        BY <2>0, <3>1 DEF SigsTell, Uncrossed, Crossed, AtRest
      <4>3. sweep'[w].pc # "due"
        BY <3>7
      <4> QED
        BY <3>11, <3>12, <4>1, <4>2, <4>3 DEF SigsTell, Tells
    <3> QED
      BY <3>9, <3>10, <3>13
  <2>5. CASE Touch(w)
    <3>1. /\ sweep'[w] = NoSweep /\ lost' = (lost \/ Crossed(w)) /\ sweep[w].pc = "touching"
          /\ story'.members = story.members /\ story'.fire = story.fire
          /\ story'.sig = story.sig /\ story'.basis = story.basis
      BY <1>0, <2>5 DEF Touch, Settle, Healthy, StoryRow
    <3>2. HashedRight' /\ MembersSummarized' /\ FiresCount' /\ DueKept'
      BY <1>0, <2>0, <2>1, <3>1 DEF HashedRight, MembersSummarized, Summarized, FiresCount, DueKept,
                                    Uncrossed, Crossed, NoSweep, NotDue
    <3>3. Settled'
      BY <1>0, <3>1 DEF SigsTell, Settled, Uncrossed, AtRest
    <3>4. lost => lost'
      BY <3>1
    <3>5. SigsTell'
      BY <2>0, <3>1, <3>4 DEF SigsTell, Uncrossed, Crossed, AtRest, Tells, NoSweep
    <3> QED
      BY <3>2, <3>3, <3>5
  <2>6. CASE StoreSynthesis(w)
    <3>1. PICK result :
             Settle(w, [Healthy(story, w) EXCEPT !.summary = result.summary, !.sig = sweep[w].due.sig,
                                                 !.basis = sweep[w].due.members])
      BY <2>6 DEF StoreSynthesis
    <3>2. /\ sweep'[w] = NoSweep /\ lost' = Crossed(w) /\ sweep[w].pc = "calling"
          /\ story'.members = story.members /\ story'.fire = story.fire
          /\ story'.sig = sweep[w].due.sig /\ story'.basis = sweep[w].due.members
      BY <1>0, <2>6, <3>1 DEF StoreSynthesis, Settle, Healthy, StoryRow
    <3>3. HashedRight' /\ MembersSummarized' /\ FiresCount' /\ DueKept'
      BY <1>0, <2>0, <2>1, <3>2 DEF HashedRight, MembersSummarized, Summarized, FiresCount, DueKept,
                                    Uncrossed, Crossed, NoSweep, NotDue
    <3>4. lost' \/ story'.basis = story'.members
      BY <3>2 DEF DueKept, Uncrossed
    <3>5. Settled'
      BY <3>4 DEF Settled, AtRest
    <3>6. SigsTell'
      BY <2>0, <3>2, <3>4 DEF SigsTell, Uncrossed, Crossed, AtRest, Tells, NoSweep
    <3> QED
      BY <3>3, <3>5, <3>6
  <2> QED
    BY <1>5, <2>2, <2>3, <2>4, <2>5, <2>6 DEF SweepStep
<1> QED
  BY <1>1, <1>2, <1>3, <1>4, <1>5 DEF Next

(***************************************************************************)
(* A synthesis at rest is of the members the story has, provided that two  *)
(* clusters never hash alike: however fires, sweeps and the summaries of   *)
(* the members interleave, the row is dirty, quarantined, single, or of    *)
(* its members, unless the write that settled it and the persist that      *)
(* changed the members crossed (stories_needing_summary, store_synthesis). *)
(***************************************************************************)
THEOREM MembershipReachesSynthesisCorrect ==
    ASSUME HashesTell PROVE Spec => []MembershipReachesSynthesis
<1>1. Init => MemberInv
  <2> SUFFICES ASSUME Init PROVE HashedRight /\ MembersSummarized /\ FiresCount /\ DueKept /\ SigsTell /\ Settled
    BY InitTypeInv DEF MemberInv
  <2>1. /\ story.fire = 0 /\ story.members = {} /\ story.basis = {} /\ story.sig = <<>> /\ story.dirty
        /\ fire.count = 0 /\ fire.pc = "idle" /\ fire.members = {}
        /\ \A w \in Sweeps : sweep[w].pc = "idle" /\ sweep[w].due.members = {} /\ sweep[w].due.fire = 0
    BY DEF Init, NewStory, NoFire, NoSweep, NotDue
  <2>2. HashedRight /\ MembersSummarized
    BY <2>1 DEF Init, HashedRight, MembersSummarized, Summarized
  <2>3. FiresCount /\ DueKept /\ Settled
    BY <2>1 DEF FiresCount, DueKept, Uncrossed, Settled
  <2>4. SigsTell
    BY <2>1 DEF SigsTell, Tells
  <2> QED
    BY <2>2, <2>3, <2>4
<1>2. MemberInv /\ [Next]_vars => MemberInv'
  BY NextTypeInv, MemberSteps DEF MemberInv
<1>3. MemberInv => MembershipReachesSynthesis
  <2> SUFFICES ASSUME MemberInv PROVE MembershipReachesSynthesis
    OBVIOUS
  <2>1. CASE story.members = {}
    BY <2>1, FS_EmptySet DEF MembershipReachesSynthesis
  <2> QED
    BY <2>1 DEF MemberInv, MembershipReachesSynthesis, Settled, AtRest, Due
<1> QED
  BY <1>1, <1>2, <1>3, PTL DEF Spec
=============================================================================
