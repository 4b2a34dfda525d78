---------------------------- MODULE FeedbackLoop ----------------------------
(***************************************************************************)
(* What one subscriber's corrections do to the digest: stories happen,     *)
(* feedback is submitted (entity links to the identity graph, care to the  *)
(* threads), a maintenance pass recomputes identities, threads and entity  *)
(* weights, which the selection of the next digest reads.                  *)
(* The races of a pass are ThreadMaintenance's; here a pass is one step    *)
(* and what it computes is the code's, with every amount.                  *)
(***************************************************************************)
EXTENDS Identity, ThreadGraph

CONSTANTS
    Tokens,          \* spine entities, numbered in their lexicographic order
    Kind,            \* the namespace of each token
    Similarity,      \* lexical similarity of each pair, in percent
    Stories,         \* the subscriber's stories
    Mentions,        \* the tokens of each story's clusters
    Theta,           \* MaintenanceConfig: theta and lexical_threshold, 0.8 both
    MaxThreads,      \* threads ever minted (bounds the model only)
    Correctable,     \* the entity pairs a reader may correct (bounds the model only)
    MaxInputs,       \* stories' events and corrections in a behaviour (bounds the model only)
    Horizon          \* the last instant of the clock (bounds the model only)

ASSUME LoopAssumption ==
    /\ Tokens \subseteq Nat /\ IsFiniteSet(Tokens) /\ IsFiniteSet(Stories)
    /\ Mentions \in [Stories -> SUBSET Tokens]
    /\ Similarity \in [Tokens \X Tokens -> 0 .. 100] /\ Theta \in 0 .. 100
    /\ Correctable \subseteq Tokens \X Tokens
    /\ MaxThreads \in Nat /\ MaxInputs \in Nat /\ Horizon \in Nat

VARIABLES
    clock,        \* now(), in half-lives of thirty days
    event,        \* last_event_time of each live story, Never before it happens
    assertion,    \* entity_edge: the row of each ordered pair of tokens
    care,         \* the care feedback on each thread that no pass has read
    thread,       \* the thread table
    weight,       \* subscriber.affinity, the projected entity weights
    through,      \* thread_maintenance_watermark
    said,         \* history: the reader's last correction of each pair
    inputs,       \* events and corrections so far
    settled       \* history: nothing has happened since the last pass

loopVars == <<clock, event, assertion, care, thread, weight, through, said,
              inputs, settled>>

Never == -1
Instants == 0 .. Horizon
Ids == 1 .. MaxThreads  \* uuidv7: a younger thread has a greater id
NoThread == 0
Assertions == {"none", "must", "cannot"}
Pairs == {p \in Tokens \X Tokens : p[1] < p[2]}

ThreadRow == [born : BOOLEAN, into : Ids \cup {NoThread}, entities : SUBSET Tokens,
              affinity : Int, last : Instants \cup {Never},
              state : {"active", "dormant", "archived"},
              confidence : {"confirmed", "probable", "uncertain"}]
UnbornThread == [born |-> FALSE, into |-> NoThread, entities |-> {}, affinity |-> 0,
                 last |-> Never, state |-> "active", confidence |-> "confirmed"]

Live(t) == thread[t].born /\ thread[t].into = NoThread
LiveThreads == {t \in Ids : Live(t)}

LoopInit ==
    /\ clock = 0
    /\ event = [s \in Stories |-> Never]
    /\ assertion = [p \in Tokens \X Tokens |-> "none"]
    /\ care = [t \in Ids |-> 0]
    /\ thread = [t \in Ids |-> UnbornThread]
    /\ weight = [e \in Tokens |-> 0]
    /\ through = Never
    /\ said = [p \in Pairs |-> "none"]
    /\ inputs = 0
    /\ settled = FALSE

Advance ==
    /\ clock < Horizon
    /\ clock' = clock + 1
    /\ settled' = FALSE
    /\ UNCHANGED <<event, assertion, care, thread, weight, through, said, inputs>>

\* What the next pass has not seen.
Input ==
    /\ inputs < MaxInputs
    /\ inputs' = inputs + 1
    /\ settled' = FALSE
    /\ UNCHANGED <<clock, thread, weight, through>>

\* A story gets its first event or a new one, and a digest has linked it.
StoryHappens(s) ==
    /\ event[s] # clock
    /\ event' = [event EXCEPT ![s] = clock]
    /\ Input
    /\ UNCHANGED <<assertion, care, said>>

-----------------------------------------------------------------------------
(***************************************************************************)
(* feedback::submit: the log row and its effect on the identity graph are  *)
(* one transaction.  The row is keyed by the pair in the order it was said.*)
(***************************************************************************)
FirstStays(p, sign) == IF assertion[p] = "none" THEN sign ELSE assertion[p]  \* mutant: DO NOTHING
Upserted(p, sign) == sign

CorrectEntity(p, sign) ==
    /\ assertion' = [assertion EXCEPT ![p] = Upserted(p, sign)]
    /\ said' = [said EXCEPT ![Pair(p[1], p[2])] = sign]
    /\ Input
    /\ UNCHANGED <<event, care>>

\* Signal::affinity_delta, in Units (half an affinity point).
AffinityDelta(signal) ==
    IF signal = "care_more" THEN 2 * Unit ELSE IF signal = "care_less" THEN -2 * Unit ELSE -10 * Unit

\* A correction of a thread that a digest has shown; it is folded in by the
\* next pass, which finds the thread only while it is live.
CorrectThread(t, signal) ==
    /\ thread[t].born
    /\ care' = [care EXCEPT ![t] = @ + AffinityDelta(signal)]
    /\ Input
    /\ UNCHANGED <<event, assertion, said>>

-----------------------------------------------------------------------------
(***************************************************************************)
(* thread::maintain                                                        *)
(***************************************************************************)
Age(t) == clock - t

\* co_occurrence_sources: the live stories of the last ninety days.
Sources == {s \in Stories : event[s] # Never /\ Age(event[s]) <= 3}
Nodes == UNION {Mentions[s] : s \in Sources}

MustLinks == {p \in Tokens \X Tokens : assertion[p] = "must"}
Vetoes == {Pair(p[1], p[2]) : p \in {q \in Tokens \X Tokens : assertion[q] = "cannot"}}

\* The durable edges and the lexical ones of this pass.
Edges == {Edge(p[1], p[2], FeedbackConfidence) : p \in MustLinks}
         \cup LexicalEdges(Nodes, Vetoes, Kind, Similarity, Theta)

\* The prior representatives are not passed on: PriorReps::new().
Identities == Resolve(Nodes, Edges, Vetoes, Theta, {})

Items(identities) ==
    {[story |-> s, entities |-> {RepresentativeOf(identities, e) : e \in Mentions[s]},
      age |-> Age(event[s])] : s \in Sources}
Communities(identities) == Candidates(LabelPropagation(CoOccurrence(Items(identities))), 2)

\* map_communities_to_threads: what no earlier candidate has claimed.
Matches(communities) ==
    LET match(i, taken) == {t \in LiveThreads \ taken : Overlaps(communities[i], thread[t].entities)}
        claimed[i \in 0 .. Len(communities)] ==
            IF i = 0 THEN {} ELSE claimed[i - 1] \cup match(i, claimed[i - 1])
    IN  [i \in DOMAIN communities |-> match(i, claimed[i - 1])]

NewStory(s) == event[s] > through

\* The weakest band among the entities of a spine.
WeakestBand(identities, spine) ==
    LET bands == {BandOf(identities, e) : e \in spine}
    IN  IF "uncertain" \in bands THEN "uncertain"
        ELSE IF "probable" \in bands THEN "probable" ELSE "confirmed"

\* build_upsert: the stories whose own tokens meet the spine engage a thread.
\* Without a cursor the pass decays from the epoch, which leaves nothing.
Rescored(identities, prior, spine, delta) ==
    LET engaged == {s \in Sources : Mentions[s] \cap spine # {}}
        last == Max({prior.last} \cup {event[s] : s \in engaged})
        elapsed == IF through = Never THEN 0 ELSE clock - through
    IN  [prior EXCEPT
            !.born = TRUE, !.entities = spine, !.last = last,
            !.affinity = DecayAffinity(prior.affinity, elapsed,
                            delta + Unit * Cardinality({s \in engaged : NewStory(s)})),
            !.state = IF last = Never THEN "active" ELSE Transition(Age(last)),
            !.confidence = WeakestBand(identities, spine)]

FirstFree == Cardinality({t \in Ids : thread[t].born}) + 1

\* The spine each saved thread gets: a community goes to the oldest thread
\* that matches it or to a new one; the rest keep theirs.
Assigned(communities, matches) ==
    LET minted(i) == FirstFree + Cardinality({j \in DOMAIN matches : j < i /\ matches[j] = {}})
        owner(i) == IF matches[i] = {} THEN minted(i) ELSE Min(matches[i])
        carried == LiveThreads \ UNION Range(matches)
    IN  [t \in {owner(i) : i \in DOMAIN matches} \cup carried |->
            IF t \in carried THEN [spine |-> thread[t].entities, absorb |-> {}]
            ELSE LET i == CHOOSE i \in DOMAIN matches : owner(i) = t
                 IN  [spine |-> communities[i], absorb |-> matches[i] \ {t}]]

\* mutant: the new threads are saved but not projected
KnownOnly(saved) == ProjectWeights([t \in DOMAIN saved \cap LiveThreads |-> saved[t]], Tokens)
Projected(saved) == ProjectWeights(saved, Tokens)

\* The winner's care and that of every thread it absorbs.
CareFor(t, absorbed) == care[t] + MapThenSumSet(LAMBDA u : care[u], absorbed)

\* save_threads, save_entity_weights and the cursor, in one transaction.
Save(identities, assigned) ==
    LET saved == [t \in DOMAIN assigned |->
                    Rescored(identities, thread[t], assigned[t].spine, CareFor(t, assigned[t].absorb))]
        absorber(t) == {w \in DOMAIN assigned : t \in assigned[w].absorb}
    IN  /\ thread' = [t \in Ids |->
              IF t \in DOMAIN assigned THEN saved[t]
              ELSE IF absorber(t) # {} THEN [thread[t] EXCEPT !.into = Min(absorber(t))]
              ELSE thread[t]]
        /\ weight' = Projected(saved)

Maintain ==
    \E identities \in {Identities} : \E communities \in {Communities(identities)} :
    \E assigned \in {Assigned(communities, Matches(communities))} :
        /\ DOMAIN assigned \subseteq Ids
        /\ Save(identities, assigned)
        /\ care' = [t \in Ids |-> 0]
        /\ through' = clock
        /\ settled' = TRUE
        /\ UNCHANGED <<clock, event, assertion, said, inputs>>

LoopNext ==
    \/ Advance
    \/ \E s \in Stories : StoryHappens(s)
    \/ \E p \in Correctable, sign \in {"must", "cannot"} : CorrectEntity(p, sign)
    \/ \E t \in Ids, signal \in {"care_more", "care_less", "done"} : CorrectThread(t, signal)
    \/ Maintain

LoopSpec == LoopInit /\ [][LoopNext]_loopVars

-----------------------------------------------------------------------------
\* The type of every variable; a forwarded thread is out of the projection.
LoopTypeOK ==
    /\ clock \in Instants /\ through \in Instants \cup {Never}
    /\ event \in [Stories -> Instants \cup {Never}]
    /\ assertion \in [Tokens \X Tokens -> Assertions] /\ said \in [Pairs -> Assertions]
    /\ care \in [Ids -> Int]
    /\ thread \in [Ids -> ThreadRow]
    /\ weight \in [Tokens -> Nat]
    /\ \A t \in Ids : t < FirstFree <=> thread[t].born
    /\ inputs \in 0 .. MaxInputs /\ settled \in BOOLEAN

\* identity::resolve, as the last pass saw it, in whatever order it merges
\* the edges: two tokens are one identity exactly when edges of at least theta
\* that no veto forbids connect them, the smallest stands for all, and the
\* band is the weakest link they really need, that is, the greatest confidence
\* at which they are still connected.
IdentityIsReachability == settled =>
    LET identities == Identities
        eligible == Eligible(Edges, Vetoes, Theta)
    IN  \A x \in Nodes :
            /\ RepresentativeOf(identities, x) = Min(Reach(eligible, x))
            /\ BandOf(identities, x) = WidestBand(eligible, x)

\* "The latest assertion wins" (identity/store.rs): a pair the reader last
\* parted is not joined by an edge of its own, and a pair the reader last
\* joined is one identity, unless the veto was said in the other order.
CorrectionTakesEffect == settled =>
    LET identities == Identities
        eligible == Eligible(Edges, Vetoes, Theta)
    IN  \A p \in Pairs :
            /\ said[p] = "cannot" => \A e \in eligible : Pair(e.a, e.b) # p
            /\ said[p] = "must" /\ p \notin Vetoes
               => RepresentativeOf(identities, p[1]) = RepresentativeOf(identities, p[2])

\* The weights a digest reads are those of the live threads as they stand:
\* none is left of a thread that was merged away or archived, and no thread
\* that any pass saved is missing.
WeightsAreProjection ==
    weight = ProjectWeights([t \in LiveThreads |-> thread[t]], Tokens)

=============================================================================
