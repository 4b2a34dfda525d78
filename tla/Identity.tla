------------------------------ MODULE Identity ------------------------------
(***************************************************************************)
(* identity::resolve, the pure resolver of the thread layer: tokens that   *)
(* equivalence edges of at least theta connect are one identity, unless a  *)
(* veto forbids the edge.  Tokens are numbers in their lexicographic order *)
(* and confidences percentages.  The union-find is modelled by the set of  *)
(* its components; roots, ranks and path halving only make it fast.        *)
(***************************************************************************)
EXTENDS Integers, Sequences, FiniteSets

\* An undirected pair, as the edges and the vetoes are keyed by the resolver.
Pair(x, y) == IF x <= y THEN <<x, y>> ELSE <<y, x>>

Edge(x, y, confidence) == [a |-> x, b |-> y, confidence |-> confidence]

\* EdgeSource::Feedback; a measured similarity is clamped below it.
FeedbackConfidence == 100
LexicalConfidence(similarity) == IF similarity > 95 THEN 95 ELSE similarity

FromScore(score) ==
    IF score >= 99 THEN "confirmed" ELSE IF score >= 75 THEN "probable" ELSE "uncertain"

\* The edges a pass proposes between tokens of one namespace, not persisted.
LexicalEdges(nodes, vetoes, kind, similarity, threshold) ==
    {Edge(p[1], p[2], LexicalConfidence(similarity[p])) :
        p \in {q \in nodes \X nodes : /\ q[1] < q[2] /\ q \notin vetoes
                                      /\ kind[q[1]] = kind[q[2]]
                                      /\ similarity[q] >= threshold}}

Eligible(edges, vetoes, theta) ==
    {e \in edges : e.confidence >= theta /\ Pair(e.a, e.b) \notin vetoes}

StrongerFirst(e, f) ==
    \/ e.confidence > f.confidence
    \/ e.confidence = f.confidence /\ e.a < f.a
    \/ e.confidence = f.confidence /\ e.a = f.a /\ e.b < f.b
InOrder(edges) ==
    [i \in 1 .. Cardinality(edges) |->
        CHOOSE e \in edges : Cardinality({f \in edges : StrongerFirst(f, e)}) = i - 1]

\* An edge merges the components of its ends; what holds the union together
\* is the weakest edge of the spanning forest, which this one is now part of.
ComponentOf(components, t) == CHOOSE c \in components : t \in c.members
Least(S) == CHOOSE x \in S : \A y \in S : x <= y
Greatest(S) == CHOOSE x \in S : \A y \in S : x >= y

\* mutant: only the endpoint moves, not its component
UnionEndpoint(components, e) ==
    LET x == ComponentOf(components, e.a)
        y == ComponentOf(components, e.b)
    IN  IF x = y THEN components
        ELSE (components \ {x, y})
             \cup {[c EXCEPT !.members = @ \ {e.a}] : c \in {x} \ {[x EXCEPT !.members = {e.a}]}}
             \cup {[members |-> y.members \cup {e.a},
                    weakest |-> Least({x.weakest, y.weakest, e.confidence})]}
Union(components, e) ==
    LET x == ComponentOf(components, e.a)
        y == ComponentOf(components, e.b)
    IN  IF x = y THEN components
        ELSE (components \ {x, y})
             \cup {[members |-> x.members \cup y.members,
                    weakest |-> Least({x.weakest, y.weakest, e.confidence})]}

Components(nodes, eligible) ==
    LET tokens == nodes \cup {e.a : e \in eligible} \cup {e.b : e \in eligible}
        order == InOrder(eligible)
        merged[i \in 0 .. Cardinality(eligible)] ==
            IF i = 0 THEN {[members |-> {t}, weakest |-> FeedbackConfidence] : t \in tokens}
            ELSE Union(merged[i - 1], order[i])
    IN  merged[Cardinality(eligible)]

\* The smallest member that was a representative before, or the smallest.
Representative(members, prior) ==
    IF members \cap prior # {} THEN Least(members \cap prior) ELSE Least(members)

\* The identities of a pass, one record each.
Resolve(nodes, edges, vetoes, theta, prior) ==
    {[members |-> c.members, rep |-> Representative(c.members, prior), band |-> FromScore(c.weakest)] :
        c \in Components(nodes, Eligible(edges, vetoes, theta))}

\* A token the pass has not seen stands for itself.
Seen(identities, t) == \E i \in identities : t \in i.members
IdentityOf(identities, t) == CHOOSE i \in identities : t \in i.members
RepresentativeOf(identities, t) == IF Seen(identities, t) THEN IdentityOf(identities, t).rep ELSE t
BandOf(identities, t) == IF Seen(identities, t) THEN IdentityOf(identities, t).band ELSE "confirmed"

-----------------------------------------------------------------------------
(***************************************************************************)
(* The reference definition, by reachability alone.                        *)
(***************************************************************************)
\* What t reaches over the edges, a step of everything it touches at a time.
Reach(edges, t) ==
    LET step(S) == S \cup {e.a : e \in {f \in edges : f.b \in S}}
                     \cup {e.b : e \in {f \in edges : f.a \in S}}
        reach[n \in 0 .. Cardinality(edges)] == IF n = 0 THEN {t} ELSE step(reach[n - 1])
    IN  reach[Cardinality(edges)]

\* The greatest confidence at which the component of t still holds together.
Holds(edges, t, confidence) ==
    Reach({e \in edges : e.confidence >= confidence}, t) = Reach(edges, t)
WidestBand(edges, t) ==
    IF Reach(edges, t) = {t} THEN "confirmed"
    ELSE FromScore(Greatest({c \in {e.confidence : e \in edges} : Holds(edges, t, c)}))
=============================================================================
