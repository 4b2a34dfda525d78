---------------------------- MODULE Faithfulness ----------------------------
(***************************************************************************)
(* What a sentence of the digest may claim.  A cluster's events yield      *)
(* facts; the model rewrites them; a gate compares what it wrote with the  *)
(* facts and the text it was given.  One level up a story's facts are      *)
(* those of its members and its text their summaries, and the lead is held *)
(* against the headlines and labels of the digest.                         *)
(*                                                                         *)
(* A text is the set of the claims the gates can tell apart: the entities  *)
(* it refers to and its number and date tokens.  What the house voice,     *)
(* the link check and the length budget find in it are its faults.  A cut  *)
(* of the source text is left out: the facts hold every number of it.      *)
(***************************************************************************)
EXTENDS Integers, FiniteSets, SequencesExt

CONSTANTS
    Names,         \* entity tokens of the kinds a summary may refer to
    WebKeys,       \* url: and domain: tokens, which only link
    Numbers,       \* number and date tokens
    RelationGate   \* cfg.relation_gate

ASSUME FaithfulnessAssumption ==
    /\ Names \cap WebKeys = {} /\ Numbers # {}
    /\ RelationGate \in BOOLEAN

Entities == Names \cup WebKeys
States == {"detected", "resolved", "published"}
Vocabulary == States \cup {"none", "garbled"}
Faults == {"blank", "long", "banned", "url"}

\* An event: its time, its entities, the numbers of its title and of its
\* best text, whether it has the depth or the text for more than a headline.
Event == [time : Nat, entities : SUBSET Entities, title : SUBSET Numbers,
          text : SUBSET Numbers, rich : BOOLEAN]
\* A relation is the subject it is anchored to.
Facts == [entities : SUBSET Names, numbers : SUBSET Numbers, relations : SUBSET Names,
          tentative : BOOLEAN, state : States \cup {"none"}]
\* Whether it is more than a headline, and whether it is anything at all.
Summary == [refs : SUBSET Names, numbers : SUBSET Numbers, tldr : BOOLEAN, blank : BOOLEAN, facts : Facts]

\* What a model call may bring: a draft, a reading of the source; the judges'
\* votes are a sequence of "faithful", "unfaithful" and "unreachable".
Draft == [refs : SUBSET Entities, numbers : SUBSET Numbers, faults : SUBSET Faults]
Reading == [tentative : BOOLEAN, state : Vocabulary, subjects : SUBSET Entities]

NoFacts == [entities |-> {}, numbers |-> {}, relations |-> {}, tentative |-> FALSE, state |-> "none"]
NoSummary == [refs |-> {}, numbers |-> {}, tldr |-> FALSE, blank |-> TRUE, facts |-> NoFacts]

-----------------------------------------------------------------------------
\* The text of one cluster.
EventNumbers(e) == e.title \cup e.text
SourceCorpus(events) == UNION {EventNumbers(e) : e \in events}

\* SHA-256 over the events in the order of time: equal for equal content.
SummaryHash(events) ==
    LET order == SetToSortSeq(events, LAMBDA a, b : a.time < b.time)
    IN  [i \in DOMAIN order |-> <<order[i].title, order[i].text, order[i].entities>>]

AllEntities(events) == UNION {e.entities : e \in events}
ExtractFacts(events) ==
    [NoFacts EXCEPT !.entities = AllEntities(events) \cap Names, !.numbers = SourceCorpus(events)]

\* Both passes are validated against what is grounded, whatever they say.
Comprehended(facts, reading) ==
    [facts EXCEPT !.tentative = reading.tentative,
                  !.state = IF reading.state \in States THEN reading.state ELSE @]
Related(facts, reading) == [facts EXCEPT !.relations = reading.subjects \cap facts.entities]

\* The depth gate: a cluster of thin events earns a headline and no more.
WantTldr(events) == \E e \in events : e.rich

Candidate(draft, facts, tldr) ==
    [refs |-> IF tldr THEN draft.refs ELSE {}, numbers |-> draft.numbers,
     tldr |-> tldr, faults |-> draft.faults, facts |-> facts]

Defanged(candidate) == [candidate EXCEPT !.faults = @ \ {"url"}]

-----------------------------------------------------------------------------
\* The deterministic gate: the reasons in the order it looks for them.
Reasons == <<"too_long", "ungrounded_entity", "ungrounded_number", "banned_word", "url_in_prose">>

Breaks(candidate, facts, source, reason) ==
    \/ reason = "too_long" /\ "long" \in candidate.faults
    \/ reason = "ungrounded_entity" /\ ~ (candidate.refs \subseteq facts.entities)
    \/ reason = "ungrounded_number" /\ ~ (candidate.numbers \subseteq facts.numbers \cup source)
    \/ reason = "banned_word" /\ "banned" \in candidate.faults
    \/ reason = "url_in_prose" /\ "url" \in candidate.faults

UnnumberedFaithful(candidate, facts, source) ==  \* mutant: numbers are not looked at
    \A reason \in Range(Reasons) \ {"ungrounded_number"} : ~ Breaks(candidate, facts, source, reason)
Faithful(candidate, facts, source) ==
    \A reason \in Range(Reasons) : ~ Breaks(candidate, facts, source, reason)

Violation(candidate, facts, source) ==
    SelectSeq(Reasons, LAMBDA reason : Breaks(candidate, facts, source, reason))[1]

\* The judges: only a unanimous bench rejects, and one out of reach keeps it.
Inverted(facts, votes) ==
    RelationGate /\ facts.relations # {} /\ \A i \in DOMAIN votes : votes[i] = "unfaithful"

Kept(candidate) ==
    LET blank == "blank" \in candidate.faults
    IN  [refs |-> candidate.refs, numbers |-> candidate.numbers, facts |-> candidate.facts,
         tldr |-> candidate.tldr /\ ~ blank, blank |-> blank]

Judge(candidate, facts, source, votes) ==
    IF ~ Faithful(candidate, facts, source)
    THEN [ok |-> FALSE, why |-> Violation(candidate, facts, source), summary |-> NoSummary]
    ELSE IF Inverted(facts, votes)
    THEN [ok |-> FALSE, why |-> "unfaithful_relation", summary |-> NoSummary]
    ELSE [ok |-> TRUE, why |-> "passed", summary |-> Kept(candidate)]

-----------------------------------------------------------------------------
\* summarize_cluster
ClusterFacts(events, reading) == Related(Comprehended(ExtractFacts(events), reading), reading)
ClusterCandidate(events, reading, draft) ==
    Candidate(draft, ClusterFacts(events, reading), WantTldr(events))

SummarizeCluster(events, reading, draft, votes) ==
    Judge(Defanged(ClusterCandidate(events, reading, draft)), ClusterFacts(events, reading),
          SourceCorpus(events), votes)

-----------------------------------------------------------------------------
\* A story: members is the sequence of their summaries, the newest first.
SynthesizeFacts(members) ==
    LET facts == {members[i].facts : i \in DOMAIN members}
        stated == {i \in DOMAIN members : members[i].facts.state # "none"}
    IN  [entities |-> UNION {f.entities : f \in facts},
         numbers |-> UNION {f.numbers : f \in facts},
         relations |-> UNION {f.relations : f \in facts},
         tentative |-> \E f \in facts : f.tentative,
         state |-> IF stated = {} THEN "none" ELSE members[Min(stated)].facts.state]

StoryCorpus(members) == UNION {members[i].numbers : i \in DOMAIN members}

SynthesizeStory(members, draft, votes) ==
    LET facts == SynthesizeFacts(members)
    IN  Judge(Defanged(Candidate(draft, facts, TRUE)), facts, StoryCorpus(members), votes)

\* The signature: the member hashes, an absent one too, in no order.
StorySig(hashes) == [h \in Range(hashes) |-> Cardinality({i \in DOMAIN hashes : hashes[i] = h})]

-----------------------------------------------------------------------------
\* Labels, deltas and the lead are short prose.
Voiced(draft) == draft.faults = {}

\* clean_label and clean_delta: the voice and the length, no grounding.
CleanLabel(draft, prior) == IF Voiced(draft) THEN draft.numbers ELSE prior

\* clean_lead: a lead may cite what it was shown, and the count of the items.
AnyLead(draft, shown, counts) == Voiced(draft)  \* mutant: numbers are not looked at
CleanLead(draft, shown, counts) == Voiced(draft) /\ draft.numbers \subseteq shown \cup counts
=============================================================================
