---------------------------- MODULE DigestContent ----------------------------
(***************************************************************************)
(* What one subscriber's digests say, from window to window: each attempt  *)
(* links and selects anew, the first attempt at a window freezes its       *)
(* items, every attempt overwrites the decision log and renders the frozen *)
(* items under it, and the next window damps what this one froze.          *)
(*                                                                         *)
(* Clusters and stories are numbers in the order of their ids.  Which      *)
(* clusters are candidates, and how they fall into components, may change  *)
(* with every attempt: stories merge, split and lose members.  Why they do *)
(* is StoryLink's, with its attempts side by side.  The thread layer is    *)
(* what the last maintenance pass left (see FeedbackLoop), the queue and   *)
(* the schedule are DigestDelivery's.                                      *)
(***************************************************************************)
EXTENDS DigestSelect, FiniteSetsExt

CONSTANTS
    Clusters,        \* the clusters that may come to exist
    Attr,            \* of each: [source, depth, severity, private, entities]
    Layers,          \* thread tables: [threads, weights] a pass may leave
    Cfg,             \* the digest_config row
    MaxItems,        \* subscriber.max_items
    Cadence,         \* between two boundaries
    DisplayWindow,   \* Recurrence::display_window, a cadence and its grace
    ContextHorizon,  \* CONTEXT_HORIZON_DAYS
    Horizon,         \* the last instant (bounds the model only)
    MaxInputs,       \* events, thread passes and preference changes (bounds the model only)
    MaxStories,      \* story ids ever minted (bounds the model only)
    MaxDelay,        \* how late a due boundary may be served (bounds the model only)
    MaxFailures      \* attempts and best-effort parts of one that fail (bounds the model only)

Thread == [id : Nat, entities : SUBSET UNION {Attr[c].entities : c \in Clusters},
           affinity : Nat, state : {"active", "dormant", "archived"}]

ASSUME ContentAssumption ==
    /\ Clusters \subseteq Nat \ {0} /\ IsFiniteSet(Clusters)
    /\ \A c \in Clusters : /\ Attr[c].depth \in {"longform", "announcement", "message"}
                           /\ Attr[c].severity \in Nat /\ Attr[c].private \in BOOLEAN
                           /\ IsFiniteSet(Attr[c].entities)
    /\ \A l \in Layers : /\ l.threads \subseteq Thread
                         /\ \A c \in Clusters : \A e \in Attr[c].entities : l.weights[e] \in Nat
    /\ Cfg \in [relevanceFloor : Int, scopeBonus : Int, severityWeight : Int, storyCap : Nat, noteCap : Nat,
                threadCap : Nat, resurfaceDivisor : Nat \ {0}, resurfaceCap : Nat]
    /\ {MaxItems, DisplayWindow, ContextHorizon, MaxInputs, MaxStories, MaxDelay, MaxFailures} \subseteq Nat
    /\ Horizon \in Nat \ {0} /\ Cadence \in Nat \ {0, 1}

VARIABLES
    now,      \* the clock, in half days
    cluster,  \* [last, events] of each cluster, no event before its birth
    story,    \* story.clusters of each id, empty in a tombstone
    minted,   \* the last id handed out
    layer,    \* the subscriber's threads and entity weights
    sub,      \* [phase, nextRun, lastRun]
    digests,  \* the digest table: one row for each window_end
    attempt,  \* the attempt in progress
    mailed,   \* history: each item of each mail
    shrunk,   \* history: the stories that ever lost a cluster and lived on
    inputs, failures

inputVars == <<now, cluster, layer, inputs>>
storyVars == <<story, minted, shrunk>>
contentVars == <<now, cluster, layer, inputs, story, minted, shrunk, sub, digests, attempt, mailed, failures>>

Time == 0 .. Horizon
Ids == 1 .. MaxStories
Never == -1
Idle == [pc |-> "idle", window |-> 0, at |-> 0]

Born(c) == cluster[c].events > 0
Existing == {c \in Clusters : Born(c)}
-----------------------------------------------------------------------------
(***************************************************************************)
(* Linking.  The query returns some of the clusters, the others being too  *)
(* old or without a summary, and an assignment maps each to the story of   *)
(* its component.  forward_ids walks the components by their smallest      *)
(* cluster: each takes the oldest prior id that none before it has         *)
(* claimed, or a new one.                                                  *)
(***************************************************************************)
StoryOf(c) == {s \in Ids : c \in story[s]}
PriorIds(members) == UNION {StoryOf(c) : c \in members}
Component(to, s) == {c \in DOMAIN to : to[c] = s}
Forwarded(to, s) ==
    LET members == Component(to, s)
        claimed == {t \in {to[c] : c \in DOMAIN to} : Min(Component(to, t)) < Min(members)}
        free == PriorIds(members) \ claimed
    IN  s = IF free # {} THEN Min(free) ELSE minted + 1 + Cardinality({t \in claimed : t > minted})
Assignments ==
    {to \in UNION {[K -> {s \in Ids : s > minted \/ story[s] # {}}] : K \in SUBSET Existing} :
        \A c \in DOMAIN to : Forwarded(to, to[c])}

\* persist_assignment: a component overwrites the clusters of its story; a
\* prior story that no component has claimed is left as a tombstone; the
\* stories without a candidate keep their rows.
Absorbing(to) ==  \* mutant: a tombstone keeps its clusters
    [s \in Ids |-> IF Component(to, s) # {} THEN Component(to, s) ELSE story[s]]
Linked(to) ==
    [s \in Ids |-> IF Component(to, s) # {} \/ s \in PriorIds(DOMAIN to) THEN Component(to, s)
                   ELSE story[s]]

Persist(to) ==
    /\ story' = Linked(to)
    /\ minted' = Max({minted} \cup {to[c] : c \in DOMAIN to})
    /\ shrunk' = shrunk \cup {s \in Ids : story'[s] # {} /\ ~ story[s] \subseteq story'[s]}

\* assign_thread: of the live threads that share an entity, the greatest
\* overlap * affinity, then affinity, then the oldest id.
Better(x, y, spine) ==
    LET ox == Cardinality(x.entities \cap spine) * x.affinity
        oy == Cardinality(y.entities \cap spine) * y.affinity
    IN  \/ ox > oy
        \/ ox = oy /\ x.affinity > y.affinity
        \/ ox = oy /\ x.affinity = y.affinity /\ x.id < y.id
AssignThread(spine) ==
    LET live == {t \in layer.threads : t.state # "archived" /\ t.entities \cap spine # {}}
    IN  {t.id : t \in {x \in live : \A y \in live \ {x} : Better(x, y, spine)}}

\* story_spine and apply_thread_weights.
Spine(members) == UNION {Attr[c].entities : c \in members}
ThreadTerm(spine) == MapThenSumSet(LAMBDA e : layer.weights[e], spine)

\* last_shown: the most recent digest before this window, delivered or not,
\* that froze the story.
LastShown(s, window) ==
    LET rows == {d \in digests : /\ d.window < window /\ d.window >= window - ContextHorizon
                                 /\ \E i \in DOMAIN d.items : d.items[i].story = s}
    IN  UNION {{[last |-> i.last, format |-> i.format]
                : i \in {d.items[k] : k \in {j \in DOMAIN d.items : d.items[j].story = s}}}
               : d \in {r \in rows : \A q \in rows : q.window <= r.window}}

\* The thread is missing when the best-effort assignment has failed.
Candidate(s, members, window, threaded) ==
    [story |-> s, last |-> Max({cluster[c].last : c \in members}),
     sources |-> Cardinality({Attr[c].source : c \in members}),
     events |-> MapThenSumSet(LAMBDA c : cluster[c].events, members),
     depth |-> IF \E c \in members : Attr[c].depth = "longform" THEN "longform"
               ELSE IF \E c \in members : Attr[c].depth = "announcement" THEN "announcement"
               ELSE "message",
     severity |-> Max({Attr[c].severity : c \in members}),
     private |-> \E c \in members : Attr[c].private,
     affinity |-> ThreadTerm(Spine(members)),
     thread |-> IF threaded THEN AssignThread(Spine(members)) ELSE {},
     shown |-> LastShown(s, window)]

\* next_run: the first boundary strictly after now.
NextRun(phase) == now + 1 + ((phase - (now + 1)) % Cadence)

DisplayFloor ==
    IF sub.lastRun # Never /\ sub.lastRun < now - DisplayWindow THEN sub.lastRun ELSE now - DisplayWindow

\* frozen_items: in render order, in the natural format.
FreezeRendered(decisions) ==  \* mutant: the rendered format is frozen
    [p \in 1 .. Cardinality(Selected(decisions)) |->
        LET d == CHOOSE x \in Selected(decisions) : x.place = p - 1
        IN  [story |-> d.story, last |-> d.last, format |-> d.format, thread |-> {}]]
FrozenItems(decisions) ==
    [p \in 1 .. Cardinality(Selected(decisions)) |->
        LET d == CHOOSE x \in Selected(decisions) : x.place = p - 1
        IN  [story |-> d.story, last |-> d.last, format |-> d.natural, thread |-> {}]]

\* assign_threads: the frozen items that this attempt selected are stamped.
Stamped(items, decisions, to) ==
    [p \in DOMAIN items |->
        IF \E d \in Selected(decisions) : d.story = items[p].story
        THEN [items[p] EXCEPT !.thread = AssignThread(Spine(Component(to, items[p].story)))]
        ELSE items[p]]

-----------------------------------------------------------------------------
ContentInit ==
    /\ now = 1
    /\ cluster = [c \in Clusters |-> [last |-> 0, events |-> 0]]
    /\ story = [s \in Ids |-> {}] /\ minted = 0 /\ shrunk = {}
    /\ layer \in Layers
    /\ sub = [phase |-> 1, nextRun |-> 1 + Cadence, lastRun |-> Never]
    /\ digests = {} /\ attempt = Idle /\ mailed = {}
    /\ inputs = 0 /\ failures = 0

\* An attempt takes no time of this clock.
TimePasses ==
    /\ attempt.pc = "idle"
    /\ now < Horizon /\ now < sub.nextRun + MaxDelay
    /\ now' = now + 1
    /\ UNCHANGED <<cluster, layer, inputs, storyVars, sub, digests, attempt, mailed, failures>>

\* An event that PublicBuild or the private build clusters and summarizes.
Event(c) ==
    /\ inputs < MaxInputs /\ inputs' = inputs + 1
    /\ \A b \in Clusters : b < c => Born(b)
    /\ cluster[c].events < 2
    /\ cluster' = [cluster EXCEPT ![c] = [last |-> now, events |-> @.events + 1]]
    /\ UNCHANGED <<now, layer, storyVars, sub, digests, attempt, mailed, failures>>

\* A thread_maintenance pass.
Maintain ==
    /\ inputs < MaxInputs /\ inputs' = inputs + 1
    /\ layer' \in Layers \ {layer}
    /\ UNCHANGED <<now, cluster, storyVars, sub, digests, attempt, mailed, failures>>

\* update_preferences: the next boundary of the new schedule; a window that
\* was due but not delivered is abandoned.
ChangePreferences(phase) ==
    /\ inputs < MaxInputs /\ inputs' = inputs + 1
    /\ phase # sub.phase
    /\ sub' = [sub EXCEPT !.phase = phase, !.nextRun = NextRun(phase)]
    /\ UNCHANGED <<now, cluster, layer, storyVars, digests, attempt, mailed, failures>>

\* link_and_select, create_with_items, the decision log, the snapshot and the
\* threads.  The last three, and the threads of the candidates, are best
\* effort: `done` are those that succeed.  When the log or the snapshot fails
\* the row keeps what it had, and is torn (a history) when only one of them is
\* of the latest attempt.
Candidates(to, threaded) ==
    {Candidate(s, Component(to, s), sub.nextRun, threaded) : s \in {to[c] : c \in DOMAIN to}}
Unweighted(candidates) ==  \* mutant: the snapshot is taken before the thread terms
    [now |-> now, maxItems |-> MaxItems, candidates |-> {[c EXCEPT !.affinity = 0, !.thread = {}] : c \in candidates}]
Snapshot(candidates) == [now |-> now, maxItems |-> MaxItems, candidates |-> candidates]

BestEffort == {"threads", "stamps", "log", "snapshot"}
Rows(to, decisions, candidates, done) ==
    LET old == {d \in digests : d.window = sub.nextRun}
        recorded == done \cap {"log", "snapshot"}
        row == IF old = {} THEN [window |-> sub.nextRun, items |-> FrozenItems(decisions), log |-> {},
                                 snapshot |-> {}, torn |-> FALSE, delivered |-> FALSE]
               ELSE CHOOSE d \in old : TRUE
        new == [row EXCEPT !.items = IF "stamps" \in done THEN Stamped(@, decisions, to) ELSE @,
                           !.log = IF "log" \in done THEN decisions ELSE @,
                           !.snapshot = IF "snapshot" \in done THEN {Snapshot(candidates)} ELSE @,
                           !.torn = IF recorded = {} THEN @ ELSE recorded # {"log", "snapshot"}]
    IN  (digests \ old) \cup {new}

Generate ==
    /\ attempt.pc = "idle" /\ sub.nextRun <= now
    /\ attempt' = [pc |-> "frozen", window |-> sub.nextRun, at |-> now]
    /\ \E done \in SUBSET BestEffort, to \in Assignments :
          /\ failures' = failures + Cardinality(BestEffort \ done)
          /\ failures' <= MaxFailures
          /\ Persist(to)
          /\ \E candidates \in {Candidates(to, "threads" \in done)} :
             \E decisions \in {Select(candidates, Cfg, MaxItems, now, DisplayFloor)} :
                digests' = Rows(to, decisions, candidates, done)
    /\ UNCHANGED <<inputVars, sub, mailed>>

\* An error of what follows, the weights or the configuration, leaves the
\* assignment behind and no digest.
LinkOnly ==
    /\ attempt.pc = "idle" /\ sub.nextRun <= now
    /\ failures < MaxFailures /\ failures' = failures + 1
    /\ \E to \in Assignments : Persist(to)
    /\ UNCHANGED <<inputVars, sub, digests, attempt, mailed>>

\* render_items: the frozen items that still have clusters, under the log.
\* An item the log does not name is rendered as a Story, the default.
Row(w) == CHOOSE d \in digests : d.window = w
Mail(w, item) ==
    LET entry == {d \in Row(w).log : d.story = item.story}
        members == story[item.story]
    IN  [window |-> w, story |-> item.story, clusters |-> members,
         last |-> Max({cluster[c].last : c \in members}), ranked |-> \E d \in entry : d.verdict \in {"selected", "over_cap"},
         format |-> IF entry = {} THEN "story" ELSE (CHOOSE d \in entry : TRUE).format,
         natural |-> IF entry = {} THEN item.format ELSE (CHOOSE d \in entry : TRUE).natural,
         damped |-> \E d \in entry : d.richness = "still developing",
         anchor |-> item.last, frozen |-> item.format]
Items(w) == {Row(w).items[p] : p \in DOMAIN Row(w).items}
Rendered(w) == {Mail(w, i) : i \in {j \in Items(w) : story[j.story] # {}}}

\* The lead is authored, or the digest is the note that there is nothing new,
\* which needs no lead; the mail is sent.
Send ==
    /\ attempt.pc = "frozen"
    /\ attempt' = [attempt EXCEPT !.pc = "sent"]
    /\ mailed' = mailed \cup Rendered(attempt.window)
    /\ UNCHANGED <<inputVars, storyVars, sub, digests, failures>>

\* mark_delivered: the row and the schedule, in one transaction.
Mark ==
    /\ attempt.pc = "sent"
    /\ digests' = {IF d.window = attempt.window THEN [d EXCEPT !.delivered = TRUE] ELSE d : d \in digests}
    /\ sub' = [sub EXCEPT !.nextRun = NextRun(sub.phase), !.lastRun = attempt.at]
    /\ attempt' = Idle
    /\ UNCHANGED <<inputVars, storyVars, mailed, failures>>

\* The lead is deferred, the mail fails or the worker dies.
Fail ==
    /\ attempt.pc # "idle" /\ failures < MaxFailures
    /\ attempt' = Idle
    /\ failures' = failures + 1
    /\ UNCHANGED <<inputVars, storyVars, sub, digests, mailed>>

ContentNext ==
    \/ TimePasses
    \/ \E c \in Clusters : Event(c)
    \/ Maintain
    \/ \E phase \in 0 .. Cadence - 1 : ChangePreferences(phase)
    \/ Generate \/ LinkOnly \/ Send \/ Mark \/ Fail

ContentSpec == ContentInit /\ [][ContentNext]_contentVars

-----------------------------------------------------------------------------
(***************************************************************************)
(* Type correctness; a window has one row, and a story that has clusters   *)
(* has an id that was handed out.                                          *)
(***************************************************************************)
ContentTypeOK ==
    /\ now \in Time
    /\ cluster \in [Clusters -> [last : Time, events : 0 .. 2]]
    /\ story \in [Ids -> SUBSET Existing]
    /\ minted \in Nat /\ \A s \in Ids : story[s] # {} => s <= minted
    /\ shrunk \subseteq Ids
    /\ layer \in Layers
    /\ sub.phase \in 0 .. Cadence - 1 /\ sub.nextRun \in Nat /\ sub.lastRun \in Time \cup {Never}
    /\ \A d, e \in digests : d.window = e.window => d = e
    /\ attempt.pc \in {"idle", "frozen", "sent"}
    /\ attempt.pc # "idle" => \E d \in digests : d.window = attempt.window

(***************************************************************************)
(* No cluster is in two items of one mail, though a retry renders what an  *)
(* earlier attempt froze after its own link has merged those stories, or   *)
(* moved a cluster from one to another: an absorbed story has no clusters  *)
(* left, and its survivor shows them.                                      *)
(***************************************************************************)
NoClusterTwice ==
    attempt.pc = "sent" =>
        \A x, y \in Rendered(attempt.window) : x.story # y.story => x.clusters \cap y.clusters = {}

(***************************************************************************)
(* What was shown in full with nothing new since is never shown in full    *)
(* again: damping a story does not let it "graduate" and come back in the  *)
(* window after, which is why the natural format is frozen.  The premise   *)
(* leaves out a story that has lost a cluster: its newest event went back, *)
(* and is news again when the cluster returns.  It leaves out an item      *)
(* whose story moved between its freeze and its mail, and one that the log *)
(* of a retry does not rank: a story that was not recorded, or that has    *)
(* turned stale since, is rendered undamped.                               *)
(***************************************************************************)
Anchored(m) == m.ranked /\ m.last = m.anchor /\ m.natural = m.frozen
NoOscillation ==
    \A x, y \in mailed :
        /\ x.story = y.story /\ x.story \notin shrunk
        /\ x.window < y.window /\ y.window <= x.window + ContextHorizon
        /\ Anchored(x) /\ x.format = "story" /\ y.format = "story" /\ y.ranked
        => y.last > x.last

(***************************************************************************)
(* No mail repeats more than resurface_cap stories: those it shows with    *)
(* nothing new since an earlier mail, the ones that have grown from a Note *)
(* into a Story apart, and the ones that have lost a cluster: a story that *)
(* shrinks between its freeze and a retry can be old news by then.         *)
(***************************************************************************)
Repeats(w) ==
    {y.story : y \in {m \in mailed : m.window = w /\ m.ranked /\ m.story \notin shrunk /\
        \E x \in mailed : /\ x.story = m.story /\ x.window < w /\ w <= x.window + ContextHorizon
                          /\ Anchored(x) /\ x.last = m.last
                          /\ ~ (x.natural = "note" /\ m.natural = "story")}}
RepeatsWithinBudget ==
    \A d \in digests : Cardinality(Repeats(d.window)) <= Cfg.resurfaceCap

(***************************************************************************)
(* A story loses the race only to better ones: when it is over a cap, one  *)
(* of the budgets it needs is used up by selected stories that rank before *)
(* it; and no budget is exceeded.  Being a Note is never the reason.       *)
(***************************************************************************)
Capacity(format) == IF format = "story" THEN Cfg.storyCap ELSE Cfg.noteCap
Outranks(x, y) == x.priority > y.priority \/ (x.priority = y.priority /\ x.last >= y.last)
Exhausted(ahead, d, atLeast) ==
    \/ Cardinality({x \in ahead : x.format = d.format}) >= Capacity(d.format) + atLeast
    \/ Cardinality(ahead) >= MaxItems + atLeast
    \/ /\ d.richness = "still developing"
       /\ Cardinality({x \in ahead : x.richness = d.richness}) >= Cfg.resurfaceCap + atLeast
    \/ /\ Cfg.threadCap > 0
       /\ \E t \in d.thread : Cardinality({x \in ahead : t \in x.thread}) >= Cfg.threadCap + atLeast
OverCapOnlyWhenFull ==
    \A row \in {r \in digests : r.window = attempt.window} : \A d \in row.log :
        /\ d.verdict = "over_cap" =>
              Exhausted({x \in Selected(row.log) : Outranks(x, d)}, d, 0)
        /\ d.verdict = "selected" => ~ Exhausted(Selected(row.log), d, 1)

(***************************************************************************)
(* The replay of a digest's snapshot under the live configuration decides  *)
(* as the digest did when nothing was too stale to show: whatever selection*)
(* read is in the snapshot.                                                *)
(***************************************************************************)
ReplayAgrees ==
    \A row \in {r \in digests : r.window = attempt.window} : \A snapshot \in row.snapshot :
        ~ row.torn /\ (\A d \in row.log : d.verdict # "stale_for_cadence") => Replay(snapshot, Cfg) = row.log

(***************************************************************************)
(* A story faded as "still developing" is one the subscriber has been      *)
(* mailed: select.rs says that it was "already shown to this subscriber    *)
(* with no new events since".  It is not a property of the code, and no    *)
(* run checks it: last_shown reads rows of digests that were frozen and    *)
(* never delivered.                                                        *)
(***************************************************************************)
DampedWasShown ==
    \A y \in mailed : y.damped /\ y.last = y.anchor =>
        \E x \in mailed : x.story = y.story /\ x.window < y.window
=============================================================================
