----------------------------- MODULE DigestSelect -----------------------------
(***************************************************************************)
(* Scoring and selection (core/digest/select.rs) and its offline replay    *)
(* (core/digest/eval.rs): a pure function from candidates to one decision  *)
(* for each.  Relevances are in thousandths, priorities in millionths; a   *)
(* decay is a table by age, of which the unit is half a day.               *)
(*                                                                         *)
(* A candidate is [story, last, sources, events, depth, severity, private, *)
(* affinity, thread, shown]: affinity is the thread term of its relevance, *)
(* thread and shown are sets of at most one.                               *)
(***************************************************************************)
EXTENDS Integers, Sequences, FiniteSets

\* 1000 * 2^(-age / half-life), for half-lives of 3, 7 and 21 days.
RecencyTable == <<1000, 891, 794, 707, 630, 561, 500, 445, 397>>
SalienceTable == <<1000, 952, 906, 862, 820, 781, 743, 707, 673>>
ThreadTable == <<1000, 984, 968, 952, 936, 921, 906, 891, 876>>

\* An event from the future is of age 0; the tables end where instances do.
Decay(table, now, t) ==
    LET age == IF t > now THEN 0 ELSE now - t
    IN  table[IF age < Len(table) THEN age + 1 ELSE Len(table)]

BaseRelevance(c, cfg) == 1000 + IF c.private THEN cfg.scopeBonus ELSE 0
Relevance(c, cfg) == BaseRelevance(c, cfg) + c.affinity
Priority(c, cfg, now) ==
    BaseRelevance(c, cfg) * Decay(RecencyTable, now, c.last)
    + cfg.severityWeight * c.severity * Decay(SalienceTable, now, c.last)
    + c.affinity * Decay(ThreadTable, now, c.last)

\* The phrase says why the story is rich; the last two are Notes.
Richness(c) ==
    IF c.sources > 1 THEN "multi-source" ELSE IF c.events > 1 THEN "multi-event" ELSE c.depth
NaturalFormat(c) == IF Richness(c) \in {"announcement", "message"} THEN "note" ELSE "story"

\* No news since it was last shown, and not grown from a Note into a Story.
Resurfaced(c) ==
    \E s \in c.shown : ~ c.last > s.last /\ ~ (s.format = "note" /\ NaturalFormat(c) = "story")

Gate(c, cfg, floor) ==
    IF c.last < floor THEN "stale_for_cadence"
    ELSE IF Relevance(c, cfg) < cfg.relevanceFloor THEN "below_floor" ELSE "gated"

Gated(c, cfg, now) ==
    LET again == Resurfaced(c)
        priority == Priority(c, cfg, now)
    IN  [story |-> c.story, last |-> c.last, relevance |-> Relevance(c, cfg),
         priority |-> IF again THEN priority \div cfg.resurfaceDivisor ELSE priority,
         natural |-> NaturalFormat(c), format |-> IF again THEN "note" ELSE NaturalFormat(c),
         richness |-> IF again THEN "still developing" ELSE Richness(c), thread |-> c.thread]

\* Priority, then recency, then the id.
Before(g, h) ==
    \/ g.priority > h.priority
    \/ g.priority = h.priority /\ g.last > h.last
    \/ g.priority = h.priority /\ g.last = h.last /\ g.story < h.story
Rank(gated, g) == Cardinality({h \in gated : Before(h, g)})

\* The budgets a candidate must win a place in, given those taken before it.
OneMore(taken, g, cfg, maxItems) ==  \* mutant: <= a cap
    /\ Cardinality({h \in taken : h.format = g.format})
          <= (IF g.format = "story" THEN cfg.storyCap ELSE cfg.noteCap)
    /\ Cardinality(taken) < maxItems
DampedUncapped(taken, g, cfg, maxItems) ==  \* mutant: resurface_cap is not enforced
    /\ Cardinality({h \in taken : h.format = g.format})
          < (IF g.format = "story" THEN cfg.storyCap ELSE cfg.noteCap)
    /\ Cardinality(taken) < maxItems
Fits(taken, g, cfg, maxItems) ==
    /\ Cardinality({h \in taken : h.format = g.format})
          < (IF g.format = "story" THEN cfg.storyCap ELSE cfg.noteCap)
    /\ g.richness = "still developing" =>
          Cardinality({h \in taken : h.richness = "still developing"}) < cfg.resurfaceCap
    /\ cfg.threadCap > 0 =>
          \A t \in g.thread : Cardinality({h \in taken : t \in h.thread}) < cfg.threadCap
    /\ Cardinality(taken) < maxItems

\* One pass over the ranking takes each candidate that still fits.
Taken(gated, cfg, maxItems) ==
    LET taken[n \in 0 .. Cardinality(gated)] ==
            IF n = 0 THEN {}
            ELSE LET g == CHOOSE h \in gated : Rank(gated, h) = n - 1
                     T == taken[n - 1]
                 IN  IF Fits(T, g, cfg, maxItems) THEN T \cup {g} ELSE T
    IN  taken[Cardinality(gated)]

\* A decision is a gated candidate with its verdict and place: the position of
\* a selected one, the rank of one over a cap, 0 of one that was dropped.
Decided(g, verdict, place) ==
    [story |-> g.story, last |-> g.last, relevance |-> g.relevance, priority |-> g.priority,
     natural |-> g.natural, format |-> g.format, richness |-> g.richness, thread |-> g.thread,
     verdict |-> verdict, place |-> place]
Dropped(c, cfg, floor) ==
    [story |-> c.story, last |-> c.last, relevance |-> Relevance(c, cfg), priority |-> 0,
     natural |-> NaturalFormat(c), format |-> NaturalFormat(c), richness |-> Richness(c),
     thread |-> c.thread, verdict |-> Gate(c, cfg, floor), place |-> 0]

Select(candidates, cfg, maxItems, now, floor) ==
    (UNION {UNION {{Decided(g, "selected", Rank(taken, g)) : g \in taken}
                   \cup {Decided(g, "over_cap", Rank(gated, g)) : g \in gated \ taken}
                   : taken \in {Taken(gated, cfg, maxItems)}}
            : gated \in {{Gated(c, cfg, now) : c \in {d \in candidates : Gate(d, cfg, floor) = "gated"}}}})
    \cup {Dropped(c, cfg, floor) : c \in {d \in candidates : Gate(d, cfg, floor) # "gated"}}

Selected(decisions) == {d \in decisions : d.verdict = "selected"}

\* eval.rs: a snapshot re-scored under a trial config, with the floor open.
Replay(snapshot, cfg) ==
    Select(snapshot.candidates, cfg, snapshot.maxItems, snapshot.now, -1)
=============================================================================
