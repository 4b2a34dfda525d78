----------------------------- MODULE ThreadGraph -----------------------------
(***************************************************************************)
(* The pure algorithms of the thread layer (core/thread/mod.rs): the       *)
(* engaged co-occurrence graph, its communities by label propagation, the  *)
(* life of a thread's affinity and state, and the entity weights they are  *)
(* projected onto.  Entities are numbers in their lexicographic order, an  *)
(* age is a number of half-lives (30 days: the dormancy horizon of 21 days *)
(* is one step away, the archive horizon of 90 days three).  Amounts are   *)
(* scaled so that every division of an instance is exact.                  *)
(***************************************************************************)
EXTENDS Integers, Sequences, FiniteSets, SequencesExt

CONSTANTS
    MaxIters,       \* the cap on label propagation
    AffinityMax     \* the ceiling of an affinity, in Units

ASSUME GraphAssumption == MaxIters \in Nat /\ AffinityMax \in Nat

Unit == 64          \* half an affinity point; halved at most six times
SelfWeight == 8     \* 1e-3 of the weight of a fresh co-occurrence
Share == 12         \* a spine of an instance has at most four entities

Halved(amount, age) == amount \div 2 ^ age
Recency(age) == Halved(1000 * SelfWeight, age)

\* co_occurrence: a clique over the entities of each item, weighted by its
\* age.  An item is [story, entities, age]; the graph holds an edge each way.
Weight(items, x, y) ==
    MapThenSumSet(LAMBDA i : Recency(i.age), {i \in items : {x, y} \subseteq i.entities})
CoOccurrence(items) ==
    LET nodes == UNION {i.entities : i \in items}
        tied == {p \in nodes \X nodes : p[1] # p[2] /\ \E i \in items : {p[1], p[2]} \subseteq i.entities}
    IN  [nodes |-> nodes,
         edges |-> {[from |-> p[1], to |-> p[2], weight |-> Weight(items, p[1], p[2])] : p \in tied}]

\* One node adopts the label with the greatest weight among its neighbours
\* and itself, the smallest of those that tie; an isolated node keeps its own.
Score(ties, label, n, l) ==
    MapThenSumSet(LAMBDA e : e.weight, {e \in ties : label[e.to] = l})
    + IF label[n] = l THEN SelfWeight ELSE 0
Adopted(ties, label, n) ==
    LET labels == {label[e.to] : e \in ties} \cup {label[n]}
        best == Max({Score(ties, label, n, l) : l \in labels})
    IN  Min({l \in labels : Score(ties, label, n, l) = best})
Adopt(graph, label, n) ==
    LET ties == {e \in graph.edges : e.from = n}
    IN  IF ties = {} THEN label ELSE [label EXCEPT ![n] = Adopted(ties, label, n)]

\* The order of the keys of a BTreeMap.
Ascending(S) ==
    [i \in 1 .. Cardinality(S) |-> CHOOSE x \in S : Cardinality({y \in S : y < x}) = i - 1]

\* Nodes in ascending order, in place; a round that changes nothing is the last.
LabelPropagation(graph) ==
    LET nodes == Ascending(graph.nodes)
        start == CHOOSE label \in [graph.nodes -> graph.nodes] : \A n \in graph.nodes : label[n] = n
        label[i \in 0 .. MaxIters * Len(nodes)] ==
            IF i = 0 THEN start
            ELSE Adopt(graph, label[i - 1], nodes[((i - 1) % Len(nodes)) + 1])
    IN  label[MaxIters * Len(nodes)]

\* communities_to_candidates: in label order, without the lone entities.
Community(label, l) == {n \in DOMAIN label : label[n] = l}
Candidates(label, minSize) ==
    LET large == {l \in {label[n] : n \in DOMAIN label} : Cardinality(Community(label, l)) >= minSize}
        order == Ascending(large)
    IN  [i \in DOMAIN order |-> Community(label, order[i])]

\* match_threshold is a Jaccard index of 0.3.
Overlaps(x, y) == 10 * Cardinality(x \cap y) >= 3 * Cardinality(x \cup y)

\* decay_affinity: decay(prior) + delta, within [0, max].
DecayAffinity(prior, elapsed, delta) ==
    LET sum == Halved(prior, elapsed) + delta
    IN  IF sum < 0 THEN 0 ELSE IF sum > AffinityMax THEN AffinityMax ELSE sum

\* ThreadState::transition; no operation pins a thread.
Transition(age) ==
    IF age < 1 THEN "active" ELSE IF age < 3 THEN "dormant" ELSE "archived"

\* project_weights: each active thread shares its affinity among its
\* entities, a dormant one a quarter of it, an archived one nothing.
Rate(state) == IF state = "active" THEN 4 ELSE IF state = "dormant" THEN 1 ELSE 0
ShareOf(thread) ==
    IF thread.entities = {} \/ thread.affinity <= 0 THEN 0
    ELSE (thread.affinity * Rate(thread.state) * Share) \div Cardinality(thread.entities)
ProjectWeights(threads, entities) ==
    [e \in entities |-> MapThenSumSet(LAMBDA t : ShareOf(threads[t]),
                                      {t \in DOMAIN threads : e \in threads[t].entities})]
=============================================================================
