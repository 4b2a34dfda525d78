----------------------------- MODULE StoryLink -----------------------------
(***************************************************************************)
(* The stories of one subscriber.  Each attempt at a digest links the      *)
(* candidate clusters anew: connected components over strong edges, then   *)
(* over weak edges with the asymmetric guard, and every component takes    *)
(* over the oldest story id its clusters carried.  It persists the result  *)
(* in one transaction, freezes some of the stories as the items of the     *)
(* digest of its window, and marks those delivered after the mail.         *)
(*                                                                         *)
(* Which clusters are candidates and which edges score is data: a day is   *)
(* the set of candidates, the strong edges, and the weak ones by score,    *)
(* and any day may follow any other.  Clusters and stories are numbers in  *)
(* the order of their ids.  A recompute runs between two awaits, so        *)
(* reading the clusters and the prior assignment and linking are one step. *)
(***************************************************************************)
EXTENDS Integers, Sequences, FiniteSetsExt

CONSTANTS
    Clusters,   \* the clusters that may ever be candidates
    Days,       \* [candidates, strong, weak]: what the query and the scores can be
    Workers,    \* attempts at once
    Windows,    \* digests 1 .. Windows (bounds the model only)
    MaxStories  \* ids ever minted (bounds the model only)

\* What score_edges may find, in the order in which components uses it, and
\* what candidate_clusters may return with it.
Edges == Seq(Clusters \X Clusters)
Day == [candidates : SUBSET Clusters, strong : Edges, weak : Edges]

ASSUME StoryAssumption ==
    /\ Clusters \subseteq Nat /\ IsFiniteSet(Clusters)
    /\ Windows \in Nat \ {0} /\ MaxStories \in Nat
    /\ Days \subseteq Day
    /\ \A d \in Days : \A e \in Range(d.strong) \cup Range(d.weak) :
          e[1] \in d.candidates /\ e[2] \in d.candidates

VARIABLES
    story,       \* the story table
    minted,      \* ids handed out, by now_v7 in the order of time
    pass,        \* the attempt each worker is at
    digest,      \* the digest of each window: its frozen items, delivered_at
    stale,       \* history: the workers whose linked pass has read an older table
    overlapped   \* history: an assignment was persisted over a newer table

vars == <<story, minted, pass, digest, stale, overlapped>>

Ids == 1 .. MaxStories  \* uuidv7: a younger story has a greater id
NoStory == 0
NoDay == [candidates |-> {}, strong |-> <<>>, weak |-> <<>>]

StoryRow == [born : BOOLEAN, into : Ids \cup {NoStory}, clusters : SUBSET Clusters, delivered : BOOLEAN]
UnbornStory == [born |-> FALSE, into |-> NoStory, clusters |-> {}, delivered |-> FALSE]
DigestRow == [frozen : BOOLEAN, delivered : BOOLEAN, items : SUBSET Ids]
\* A linked pass keeps its window, its day, the prior story of each candidate,
\* which of the stories were delivered, and the ids minted before its own; a
\* persisted one its stories.
Pass == [pc : {"idle", "linked", "persisted", "frozen"}, window : 1 .. Windows, day : Days \cup {NoDay},
         prior : [Clusters -> Ids \cup {NoStory}], delivered : SUBSET Ids,
         base : 0 .. MaxStories, stories : SUBSET Ids]
IdlePass == [pc |-> "idle", window |-> 1, day |-> NoDay, prior |-> [c \in Clusters |-> NoStory],
             delivered |-> {}, base |-> 0, stories |-> {}]

Live(s) == story[s].born /\ story[s].into = NoStory

-----------------------------------------------------------------------------
\* Components: a partition of the candidates, as a set of blocks.
Block(parts, c) == CHOOSE b \in parts : c \in b

Union(parts, a, b) == (parts \ {a, b}) \cup {a \cup b}

DeliveredIn(p, block) == {p.prior[c] : c \in block} \cap p.delivered

NeverDistinct(p, a, b) == FALSE     \* mutant: no guard on weak edges
MergesDistinctDelivered(p, a, b) ==
    /\ DeliveredIn(p, a) # {} /\ DeliveredIn(p, b) # {}
    /\ DeliveredIn(p, a) \cap DeliveredIn(p, b) = {}

\* Two passes over the edges: the strong ones, then the weak by their scores.
EdgesOf(p) == p.day.strong \o p.day.weak

Joins(p, i, a, b) == i <= Len(p.day.strong) \/ ~ MergesDistinctDelivered(p, a, b)

Joined(p, i, parts) ==
    LET a == Block(parts, EdgesOf(p)[i][1])
        b == Block(parts, EdgesOf(p)[i][2])
    IN  IF Joins(p, i, a, b) THEN Union(parts, a, b) ELSE parts

Components(p) ==
    LET parts[i \in 0 .. Len(EdgesOf(p))] ==
            IF i = 0 THEN {{c} : c \in p.day.candidates} ELSE Joined(p, i, parts[i - 1])
    IN  parts[Len(EdgesOf(p))]

\* forward_ids walks the components by their smallest cluster.
Before(parts, block) == {b \in parts : Min(b) < Min(block)}

PriorIds(p, block) == {p.prior[c] : c \in block} \ {NoStory}

Youngest(S) == Max(S)                \* mutant: the newest id survives
Survivor(S) == Min(S)

\* The oldest prior id that no earlier component has claimed, or a new one.
Claim(p, claimed, block) ==
    LET free == PriorIds(p, block) \ claimed
    IN  IF free # {} THEN Survivor(free)
        ELSE p.base + 1 + Cardinality({s \in claimed : s > p.base})

Claims(p) ==
    LET parts == Components(p)
        claim[block \in parts] == Claim(p, {claim[b] : b \in Before(parts, block)}, block)
    IN  claim

Minted(p) == Cardinality({s \in Range(Claims(p)) : s > p.base})

\* Prior ids that no component claims are merged into their component's.
NoLosers(p, claims, block) == {}     \* mutant: absorbed stories stay live
Losers(p, claims, block) == PriorIds(p, block) \ Range(claims)

\* persist_assignment: upserts, which also clear merged_into, then tombstones.
\* The merges are written in the order of (loser, survivor): of a loser split
\* over several components, the greatest survivor is what stays.
LastSurvivor(S) == Max(S)
Tombstone(row, s) == [row EXCEPT !.into = s, !.clusters = {}]

Persisted(p) ==
    LET claims == Claims(p)
        survivors(s) == {claims[b] : b \in {a \in DOMAIN claims : s \in Losers(p, claims, a)}}
    IN  [s \in Ids |->
           IF s \in Range(claims)
           THEN [story[s] EXCEPT !.born = TRUE, !.into = NoStory,
                                 !.clusters = CHOOSE b \in DOMAIN claims : claims[b] = s]
           ELSE IF survivors(s) # {} THEN Tombstone(story[s], LastSurvivor(survivors(s)))
           ELSE story[s]]

\* History: what the other linked passes have read is no longer so.
Outdated(w) == (stale \cup {v \in Workers : pass[v].pc = "linked"}) \ {w}

-----------------------------------------------------------------------------
Init ==
    /\ story = [s \in Ids |-> UnbornStory]
    /\ minted = 0
    /\ pass = [w \in Workers |-> IdlePass]
    /\ digest = [n \in 1 .. Windows |-> [frozen |-> FALSE, delivered |-> FALSE, items |-> {}]]
    /\ stale = {}
    /\ overlapped = FALSE

\* The live stories of each candidate; of several the query's order decides.
PriorOf(c) == {s \in Ids : Live(s) /\ c \in story[s].clusters}

Link(w) ==
    /\ pass[w].pc = "idle"
    /\ \E n \in 1 .. Windows :
       /\ ~ digest[n].delivered /\ \A k \in 1 .. n - 1 : digest[k].delivered
       /\ \E day \in Days, prior \in [Clusters -> {s \in Ids : Live(s)} \cup {NoStory}] :
          /\ \A c \in Clusters : IF c \in day.candidates /\ PriorOf(c) # {}
                                 THEN prior[c] \in PriorOf(c) ELSE prior[c] = NoStory
          /\ LET p == [pc |-> "linked", window |-> n, day |-> day, prior |-> prior, base |-> minted,
                       delivered |-> {s \in Ids : Live(s) /\ story[s].delivered},
                       stories |-> {}]
             IN  /\ minted + Minted(p) <= MaxStories
                 /\ minted' = minted + Minted(p)
                 /\ pass' = [pass EXCEPT ![w] = p]
    /\ UNCHANGED <<story, digest, stale, overlapped>>

Persist(w) ==
    /\ pass[w].pc = "linked"
    /\ story' = Persisted(pass[w])
    /\ pass' = [pass EXCEPT ![w] =
                   [IdlePass EXCEPT !.pc = "persisted", !.window = pass[w].window,
                                    !.stories = Range(Claims(pass[w]))]]
    /\ stale' = Outdated(w)
    /\ overlapped' = (overlapped \/ w \in stale)
    /\ UNCHANGED <<minted, digest>>

\* create_with_items: an earlier attempt's items stay, else the selected ones
\* are frozen; a delivered digest ends the attempt.
Freeze(w) ==
    /\ pass[w].pc = "persisted"
    /\ LET d == digest[pass[w].window] IN
       /\ \E items \in SUBSET pass[w].stories :
             digest' = IF d.frozen THEN digest
                       ELSE [digest EXCEPT ![pass[w].window] = [d EXCEPT !.frozen = TRUE, !.items = items]]
       /\ pass' = IF d.delivered THEN [pass EXCEPT ![w] = IdlePass]
                  ELSE [pass EXCEPT ![w].pc = "frozen", ![w].stories = {}]
    /\ UNCHANGED <<story, minted, stale, overlapped>>

\* The mail, and mark_delivered with mark_stories_delivered.
Deliver(w) ==
    /\ pass[w].pc = "frozen"
    /\ LET n == pass[w].window IN
       /\ story' = [s \in Ids |-> [story[s] EXCEPT !.delivered = @ \/ s \in digest[n].items]]
       /\ digest' = [digest EXCEPT ![n].delivered = TRUE]
    /\ pass' = [pass EXCEPT ![w] = IdlePass]
    /\ stale' = Outdated(w)
    /\ UNCHANGED <<minted, overlapped>>

\* The attempt fails or its worker dies; the job runs again from the start.
Abandon(w) ==
    /\ pass[w].pc # "idle"
    /\ pass' = [pass EXCEPT ![w] = IdlePass]
    /\ stale' = stale \ {w}
    /\ UNCHANGED <<story, minted, digest, overlapped>>

Next ==
    \E w \in Workers : Link(w) \/ Persist(w) \/ Freeze(w) \/ Deliver(w) \/ Abandon(w)

Spec == Init /\ [][Next]_vars

-----------------------------------------------------------------------------
(***************************************************************************)
(* Type correctness; a tombstone has no members, as link/store.rs says.    *)
(***************************************************************************)
TypeOK ==
    /\ story \in [Ids -> StoryRow]
    /\ \A s \in Ids : story[s].into # NoStory => story[s].clusters = {}
    /\ minted \in 0 .. MaxStories
    /\ pass \in [Workers -> Pass]
    /\ digest \in [1 .. Windows -> DigestRow]
    /\ stale \in SUBSET {w \in Workers : pass[w].pc = "linked"}
    /\ overlapped \in BOOLEAN

(***************************************************************************)
(* However stories merge, split and lose members that are no candidates    *)
(* any more, no cluster is a member of two live stories, so that it cannot *)
(* be told twice in a digest nor carried under two ids, unless assignments *)
(* linked from the same prior were persisted over each other.              *)
(***************************************************************************)
OneLiveStory ==
    overlapped \/ \A s, t \in Ids :
        Live(s) /\ Live(t) /\ s # t => story[s].clusters \cap story[t].clusters = {}

(***************************************************************************)
(* "A retro-merge keeps the oldest id": a story is forwarded to an older   *)
(* one only, and stays forwarded unless assignments overlapped, so that    *)
(* an id a digest has shown always leads to a live story.                  *)
(***************************************************************************)
ForwardsToOlder ==
    [][\A s \in Ids :
          /\ story'[s].into # NoStory => story'[s].into < s /\ story'[story'[s].into].born
          /\ story[s].into # NoStory /\ ~ overlapped' => story'[s].into # NoStory]_vars

(***************************************************************************)
(* The asymmetric guard of `components`: two live stories that are marked  *)
(* delivered end in one story only if strong edges, and clusters that      *)
(* already were of one delivered story, lead from one to the other.        *)
(***************************************************************************)
Reaches(p, from, to) ==
    \A C \in SUBSET p.day.candidates :
        /\ from \cap p.day.candidates \subseteq C
        /\ \A e \in Range(p.day.strong) : e[1] \in C <=> e[2] \in C
        /\ \A c, d \in p.day.candidates :
              p.prior[c] = p.prior[d] /\ p.prior[c] \in p.delivered => (c \in C <=> d \in C)
        => C \cap to # {}

MergedBy(w, s, t) ==
    /\ pass[w].pc = "linked" /\ pass'[w].pc = "persisted"
    /\ s # t /\ Live(s) /\ Live(t)
    /\ \/ story'[s].into = t \/ story'[t].into = s
       \/ story'[s].into = story'[t].into /\ story'[s].into # NoStory

WeakNeverMergesDelivered ==
    [][\A w \in Workers : \A s, t \in Ids :
          MergedBy(w, s, t) /\ story[s].delivered /\ story[t].delivered /\ ~ overlapped'
          => Reaches(pass[w], story[s].clusters, story[t].clusters)]_vars

=============================================================================
