--------------------------- MODULE StorySynthesis ---------------------------
(***************************************************************************)
(* The summary of one story and of the thread it is on.  A fire of the     *)
(* digest links the story's members, sweeps the stories inline under a     *)
(* deadline, and renders; the maintenance job sweeps them in the           *)
(* background, and then the labels and deltas of the threads.  Between     *)
(* the statements of a sweep, none of which share a transaction, the       *)
(* members are summarized anew and the other sweep writes the same row.    *)
(*                                                                         *)
(* The sweep of the clusters has races of its own, see SummarySweep: here  *)
(* a cluster is summarized in one step.  Stories share nothing in a sweep, *)
(* so there is one, and the slice of a sweep is left out.  Of updated_at   *)
(* the sweeps only ask whether it is later than summarized_at, dirty, or   *)
(* than summary_quarantined_at, released.                                  *)
(***************************************************************************)
EXTENDS Faithfulness, FiniteSetsExt

CONSTANTS
    Clusters,
    Events,       \* the posts that may come in, as [cluster, event, article]
    Drafts,       \* what the model may write of a cluster, a story, a digest
    Labels,       \* what it may name a thread
    Readings,     \* what comprehension and the relation pass may find
    Counts,       \* the item counts a lead may cite
    MaxAttempts,  \* MAX_SUMMARY_ATTEMPTS
    MaxFires,     \* fires of the digest (bounds the model only)
    MaxFaults     \* sweeps that die at a statement, deployments (bounds the model only)

Post == [cluster : Clusters, event : Event, article : SUBSET Numbers]

ASSUME SynthesisAssumption ==
    /\ IsFiniteSet(Clusters) /\ Clusters \subseteq Nat /\ Clusters # {}
    /\ Events \subseteq Post /\ Drafts \cup Labels \subseteq Draft /\ Readings \subseteq Reading
    /\ Counts \subseteq Numbers
    /\ MaxAttempts \in Nat \ {0} /\ MaxFires \in Nat /\ MaxFaults \in Nat

VARIABLES
    seen,     \* the posts in the event log
    fetched,  \* those whose article has been fetched
    cluster,  \* the summary and summary_hash of each cluster
    story,    \* the story row
    newest,   \* last_event_time of the newest story on its thread
    thread,   \* the summary columns of its thread, and last_story_time
    model,    \* the model and prompt version that is deployed
    fire,     \* the fire of the digest
    sweep,    \* the two story sweeps
    labels,   \* the label sweep
    faults,   \* sweeps that died, deployments
    lost,     \* history: the row was settled over a newer membership
    counted   \* history: the latest story time that some delta counted

textVars == <<seen, fetched, cluster>>
vars == <<seen, fetched, cluster, story, newest, thread, model, fire, sweep, labels, faults, lost, counted>>

Sweeps == {"inline", "background"}
Models == 0 .. MaxFaults
NoModel == -1
Never == 0
Unhashed == <<>>

\* fire and basis are history: the fire that last changed the members, and
\* the members that the stored summary was made from.
NewStory == [members |-> {}, posts |-> {}, dirty |-> TRUE, summary |-> NoSummary, sig |-> <<>>,
             model |-> NoModel, attempts |-> 0, quarantine |-> "no", fire |-> 0, basis |-> {}]
NewThread == [last |-> Never, through |-> Never, label |-> {}, named |-> FALSE, model |-> NoModel]
NoFire == [pc |-> "idle", members |-> {}, overtaken |-> {}, count |-> 0,
           item |-> NoSummary, label |-> {}, lead |-> {}]
\* What a sweep takes with it of the row.
DueStory == [members |-> story.members, sig |-> story.sig, model |-> story.model,
             attempts |-> story.attempts, reset |-> story.quarantine = "released",
             fire |-> story.fire]
NotDue == [members |-> {}, sig |-> <<>>, model |-> NoModel, attempts |-> 0, reset |-> FALSE, fire |-> 0]
NoSweep == [pc |-> "idle", due |-> NotDue, read |-> <<>>, model |-> NoModel]
NoLabels == [pc |-> "idle", due |-> NewThread, recent |-> Never]

-----------------------------------------------------------------------------
\* best_text is the article once it is there.
WithArticle(p) == [p.event EXCEPT !.text = p.article, !.rich = TRUE]
Text(p) == IF p \in fetched THEN WithArticle(p) ELSE p.event
Content(c) == {Text(p) : p \in {q \in seen : q.cluster = c}}
Latest(c) == Max({p.event.time : p \in {q \in seen : q.cluster = c}})

\* Of two members of one time the ids decide, which say nothing.
NewestFirst(C) == {order \in SetToSeqs(C) :
    \A i, j \in DOMAIN order : i < j => Latest(order[i]) >= Latest(order[j])}

Init ==
    /\ seen = {} /\ fetched = {}
    /\ cluster = [c \in Clusters |-> [summary |-> NoSummary, hash |-> Unhashed]]
    /\ story = NewStory /\ newest = Never
    /\ thread = NewThread
    /\ model = 0
    /\ fire = NoFire
    /\ sweep = [w \in Sweeps |-> NoSweep]
    /\ labels = NoLabels
    /\ faults = 0
    /\ lost = FALSE
    /\ counted = Never

-----------------------------------------------------------------------------
\* The text below: posts, articles and the summaries of the clusters.
Arrive(p) ==
    /\ p \notin seen
    /\ seen' = seen \cup {p}
    /\ UNCHANGED <<fetched, cluster, story, newest, thread, model, fire, sweep, labels, faults, lost, counted>>

FetchArticle(p) ==
    /\ p \in seen \ fetched
    /\ p.article # {}
    /\ fetched' = fetched \cup {p}
    /\ UNCHANGED <<seen, cluster, story, newest, thread, model, fire, sweep, labels, faults, lost, counted>>

\* A failed attempt leaves the summary that is there.
Summarize(c) ==
    /\ Content(c) # {}
    /\ cluster[c].hash # SummaryHash(Content(c))
    /\ \E draft \in Drafts, reading \in Readings :
       \E result \in {SummarizeCluster(Content(c), reading, draft, <<"faithful">>)} :
          /\ result.ok
          /\ cluster' = [cluster EXCEPT ![c] =
                [summary |-> result.summary, hash |-> SummaryHash(Content(c))]]
    /\ UNCHANGED <<seen, fetched, story, newest, thread, model, fire, sweep, labels, faults, lost, counted>>

-----------------------------------------------------------------------------
\* The fire.  A candidate carries a summary; the transaction that persists
\* the assignment stamps updated_at with its start.
OpenPersist(C) ==
    /\ fire.pc = "idle"
    /\ fire.count < MaxFires
    /\ \A c \in C : cluster[c].hash # Unhashed
    /\ fire' = [NoFire EXCEPT !.pc = "linked", !.count = fire.count + 1, !.members = C]
    /\ UNCHANGED <<textVars, story, newest, thread, model, sweep, labels, faults, lost, counted>>

\* Only a change of the membership or of an aggregate moves updated_at.
Aggregates(C) == {p \in seen : p.cluster \in C}
Moved(C) == story.members # C \/ story.posts # Aggregates(C)
Regrouped == story.members # fire.members

SilentPersist ==  \* mutant: the upsert leaves updated_at alone
    /\ fire.pc = "linked"
    /\ fire' = [fire EXCEPT !.pc = "persisted"]
    /\ story' = [story EXCEPT !.members = fire.members, !.posts = Aggregates(fire.members), !.fire = fire.count]
    /\ newest' = Max({newest} \cup {Latest(c) : c \in fire.members})
    /\ lost' = lost
    /\ UNCHANGED <<textVars, thread, model, sweep, labels, faults, counted>>
Persist ==
    /\ fire.pc = "linked"
    /\ fire' = [fire EXCEPT !.pc = "persisted"]
    /\ story' = IF ~ Moved(fire.members) THEN story
                ELSE [story EXCEPT !.members = fire.members, !.posts = Aggregates(fire.members),
                                   !.fire = IF Regrouped THEN fire.count ELSE @,
                                   !.dirty = "settled" \notin fire.overtaken \/ @,
                                   !.quarantine = IF @ = "held" /\ "held" \notin fire.overtaken
                                                  THEN "released" ELSE @]
    /\ newest' = Max({newest} \cup {Latest(c) : c \in fire.members})
    /\ lost' = IF Regrouped THEN "settled" \in fire.overtaken ELSE lost
    /\ UNCHANGED <<textVars, thread, model, sweep, labels, faults, counted>>

\* build_render_item: the synthesis if there is one, else the newest member;
\* a headline alone is joined by those of the connected members.
Composed(chosen, others) ==
    IF chosen.tldr THEN chosen
    ELSE [chosen EXCEPT !.numbers = @ \cup UNION {cluster[c].summary.numbers : c \in others}]

RenderedItem(first) ==
    Composed(IF story.summary.blank THEN cluster[first].summary ELSE story.summary,
             story.members \ {first})

\* The lead is composed over the headlines and the labels; without one that
\* passes, the digest waits (see DigestDelivery).
Render ==
    /\ fire.pc = "swept"
    /\ story.members # {}
    /\ \E members \in NewestFirst(story.members), draft \in Drafts :
       \E item \in {RenderedItem(members[1])} :
          /\ CleanLead(draft, item.numbers \cup thread.label, Counts)
          /\ fire' = [fire EXCEPT !.pc = "rendered", !.item = item,
                                  !.label = thread.label, !.lead = draft.numbers]
    /\ UNCHANGED <<textVars, story, newest, thread, model, sweep, labels, faults, lost, counted>>

Deliver ==
    /\ fire.pc = "rendered"
    /\ fire' = [NoFire EXCEPT !.count = fire.count]
    /\ UNCHANGED <<textVars, story, newest, thread, model, sweep, labels, faults, lost, counted>>

-----------------------------------------------------------------------------
\* The story sweeps.
Due == (story.dirty \/ story.model # model) /\ story.quarantine # "held" /\ story.members # {}

\* The fire sweeps once it has persisted; the maintenance job, of which one
\* runs at a time, saves the threads, sweeps the stories, then the labels.
Runs(w) == IF w = "inline" THEN fire.pc = "persisted" ELSE labels.pc = "idle"
Swept(w) == IF w = "inline" THEN [fire EXCEPT !.pc = "swept"] ELSE fire

StartSweep(w) ==
    /\ Runs(w) /\ sweep[w].pc = "idle"
    /\ Due
    /\ sweep' = [sweep EXCEPT ![w] = [NoSweep EXCEPT !.pc = "due", !.due = DueStory, !.model = model]]
    /\ UNCHANGED <<textVars, story, newest, thread, model, fire, labels, faults, lost, counted>>

\* Nothing is due, or the deadline has passed between two stories.
EndInline ==
    /\ fire.pc = "persisted"
    /\ \/ sweep["inline"].pc = "idle" /\ ~ Due
       \/ sweep["inline"].pc = "due"
    /\ sweep' = [sweep EXCEPT !["inline"] = NoSweep]
    /\ fire' = Swept("inline")
    /\ UNCHANGED <<textVars, story, newest, thread, model, labels, faults, lost, counted>>

Leave(w) ==
    /\ sweep' = [sweep EXCEPT ![w] = NoSweep]
    /\ fire' = Swept(w)

Hashes(members) == [i \in DOMAIN members |-> cluster[members[i]].hash]
Summaries(members) == [i \in DOMAIN members |-> cluster[members[i]].summary]
Signed(w, sig) == sweep[w].due.sig = sig /\ sweep[w].due.model = sweep[w].model

\* load_member_summaries, and what is decided from it: a single member and
\* an unchanged signature are touched, a story without any text is left due.
LoadMembers(w) ==
    /\ sweep[w].pc = "due"
    /\ \E members \in NewestFirst(sweep[w].due.members) :
       \E sig \in {StorySig(Hashes(members))} :
       LET single == Len(members) < 2
           textless == \A i \in DOMAIN members : cluster[members[i]].summary.blank
       IN  IF ~ single /\ textless THEN Leave(w)
           ELSE /\ sweep' = [sweep EXCEPT ![w].pc = IF single \/ Signed(w, sig) THEN "touching" ELSE "calling",
                                          ![w].due.sig = sig, ![w].read = Summaries(members)]
                /\ UNCHANGED fire
    /\ UNCHANGED <<textVars, story, newest, thread, model, labels, faults, lost, counted>>

\* now() of a sweep's write is later than any updated_at there is, and than
\* the start of a persist that has yet to upsert.
Overtaking(f, write) ==
    IF f.pc = "linked" THEN [f EXCEPT !.overtaken = @ \cup {write}] ELSE f
Healthy(row, w) == [row EXCEPT !.dirty = FALSE, !.model = sweep[w].model,
                               !.attempts = 0, !.quarantine = "no"]
Crossed(w) == story.fire # sweep[w].due.fire
Settle(w, row) ==
    /\ story' = row
    /\ sweep' = [sweep EXCEPT ![w] = NoSweep]
    /\ fire' = Overtaking(Swept(w), "settled")

Touch(w) ==
    /\ sweep[w].pc = "touching"
    /\ Settle(w, Healthy(story, w))
    /\ lost' = (lost \/ Crossed(w))
    /\ UNCHANGED <<textVars, newest, thread, model, labels, faults, counted>>

\* The model answers and the gates pass it: the summary is stored with the
\* signature of the members that were read.
StoreSynthesis(w) ==
    /\ sweep[w].pc = "calling"
    /\ \E draft \in Drafts :
       \E result \in {SynthesizeStory(sweep[w].read, draft, <<"faithful">>)} :
          /\ result.ok
          /\ Settle(w, [Healthy(story, w) EXCEPT !.summary = result.summary, !.sig = sweep[w].due.sig,
                                                 !.basis = sweep[w].due.members])
    /\ lost' = Crossed(w)
    /\ UNCHANGED <<textVars, newest, thread, model, labels, faults, counted>>

\* The model is out of reach or the gate rejects: the counter is set, not
\* incremented, and summarized_at stays.
ForgetAttempt(w) == 1   \* mutant: every failure is the first
NextAttempt(w) == 1 + IF sweep[w].due.reset THEN 0 ELSE sweep[w].due.attempts

RecordFailure(w) ==
    /\ sweep[w].pc = "calling"
    /\ LET next == NextAttempt(w)
           held == next >= MaxAttempts
       IN  /\ story' = [story EXCEPT !.attempts = next, !.quarantine = IF held THEN "held" ELSE "no"]
           /\ fire' = IF held THEN Overtaking(Swept(w), "held") ELSE Swept(w)
    /\ sweep' = [sweep EXCEPT ![w] = NoSweep]
    /\ UNCHANGED <<textVars, newest, thread, model, labels, faults, lost, counted>>

\* A statement of the sweep fails: the pass ends where it is.
FailSweep(w) ==
    /\ sweep[w].pc # "idle"
    /\ faults < MaxFaults
    /\ faults' = faults + 1
    /\ Leave(w)
    /\ UNCHANGED <<textVars, story, newest, thread, model, labels, lost, counted>>

\* A deployment restarts the worker: sweeps and the fire are dropped.
Upgrade ==
    /\ faults < MaxFaults
    /\ faults' = faults + 1
    /\ model' = model + 1
    /\ fire' = [NoFire EXCEPT !.count = fire.count]
    /\ sweep' = [w \in Sweeps |-> NoSweep]
    /\ labels' = NoLabels
    /\ UNCHANGED <<textVars, story, newest, thread, lost, counted>>

-----------------------------------------------------------------------------
\* The thread: the maintenance pass saves last_story_time, the label sweep
\* names the thread and counts what is new on it.
JobAt == sweep["background"].pc = "idle" /\ labels.pc = "idle"

SaveThread ==
    /\ JobAt
    /\ newest # thread.last
    /\ thread' = [thread EXCEPT !.last = newest]
    /\ UNCHANGED <<textVars, story, newest, model, fire, sweep, labels, faults, lost, counted>>

ThreadDue == thread.model # model \/ thread.last # thread.through

StartLabels ==
    /\ JobAt
    /\ ThreadDue
    /\ labels' = [NoLabels EXCEPT !.pc = "due", !.due = thread]
    /\ UNCHANGED <<textVars, story, newest, thread, model, fire, sweep, faults, lost, counted>>

ReadRecent ==
    /\ labels.pc = "due"
    /\ labels' = [labels EXCEPT !.pc = "read", !.recent = newest]
    /\ UNCHANGED <<textVars, story, newest, thread, model, fire, sweep, faults, lost, counted>>

News == labels.recent > labels.due.through
NeedsLabel == ~ labels.due.named \/ labels.due.model # model \/ News

\* The watermark is last_story_time as the sweep found it.
CurrentMark == newest  \* mutant: the time of the newest story by now
Mark == labels.due.last

StoreLabels ==
    /\ labels.pc = "read"
    /\ \E draft \in Labels :
          thread' = [thread EXCEPT !.through = Mark, !.model = model,
                        !.label = IF NeedsLabel /\ labels.recent # Never
                                  THEN CleanLabel(draft, labels.due.label) ELSE labels.due.label,
                        !.named = labels.due.named \/ (labels.recent # Never /\ Voiced(draft))]
    /\ counted' = IF News THEN Max({counted, labels.recent}) ELSE counted
    /\ labels' = NoLabels
    /\ UNCHANGED <<textVars, story, newest, model, fire, sweep, faults, lost>>

-----------------------------------------------------------------------------
SweepStep(w) == LoadMembers(w) \/ Touch(w) \/ StoreSynthesis(w) \/ RecordFailure(w)
LabelStep == ReadRecent \/ StoreLabels

Next ==
    \/ \E p \in Events : Arrive(p) \/ FetchArticle(p)
    \/ \E c \in Clusters : Summarize(c)
    \/ \E C \in (SUBSET Clusters) \ {{}} : OpenPersist(C)
    \/ Persist \/ EndInline \/ Render \/ Deliver
    \/ \E w \in Sweeps : StartSweep(w) \/ SweepStep(w) \/ FailSweep(w)
    \/ Upgrade
    \/ SaveThread \/ StartLabels \/ LabelStep

Spec == Init /\ [][Next]_vars

\* The maintenance job comes every hour, and its sweep goes on: every call is
\* answered or times out.
MaintenanceStep == StartSweep("background") \/ SweepStep("background") \/ LabelStep

Fairness == WF_vars(MaintenanceStep)

FairSpec == Spec /\ Fairness

-----------------------------------------------------------------------------
\* What a cluster may hold, and hash to, as its posts and articles come in.
PostsOf(c) == {p \in Events : p.cluster = c}
Texts(P, F) == {IF p \in F THEN WithArticle(p) ELSE p.event : p \in P}
Contents(c) == UNION {{Texts(P, F) : F \in SUBSET P} : P \in (SUBSET PostsOf(c)) \ {{}}}
HashesOf(c) == {SummaryHash(E) : E \in Contents(c)}
Hash == {Unhashed} \cup UNION {HashesOf(c) : c \in Clusters}
Sig == {<<>>} \cup {StorySig(hashes) : hashes \in BoundedSeq(Hash, Cardinality(Clusters))}
ModelOrNone == Models \cup {NoModel}
StoryRow == [members : SUBSET Clusters, posts : SUBSET Events, dirty : BOOLEAN, summary : Summary,
             sig : Sig, model : ModelOrNone, attempts : 0 .. MaxAttempts,
             quarantine : {"no", "held", "released"}, fire : 0 .. MaxFires, basis : SUBSET Clusters]
Thread == [last : Nat, through : Nat, label : SUBSET Numbers, named : BOOLEAN, model : ModelOrNone]
Fire == [pc : {"idle", "linked", "persisted", "swept", "rendered"}, members : SUBSET Clusters,
         overtaken : SUBSET {"settled", "held"}, count : 0 .. MaxFires, item : Summary,
         label : SUBSET Numbers, lead : SUBSET Numbers]
DueRow == [members : SUBSET Clusters, sig : Sig, model : ModelOrNone,
           attempts : 0 .. MaxAttempts, reset : BOOLEAN, fire : 0 .. MaxFires]
StorySweep == [pc : {"idle", "due", "touching", "calling"}, due : DueRow,
               read : Seq(Summary), model : ModelOrNone]
LabelSweep == [pc : {"idle", "due", "read"}, due : Thread, recent : Nat]

(* Everything has its type; the pass of a sweep is at a step of it, and no
   story is tried more than MAX_SUMMARY_ATTEMPTS times. *)
TypeOK ==
    /\ seen \in SUBSET Events /\ fetched \in SUBSET seen
    /\ cluster \in [Clusters -> [summary : Summary, hash : Hash]]
    /\ story \in StoryRow
    /\ newest \in Nat
    /\ thread \in Thread
    /\ model \in Models
    /\ fire \in Fire
    /\ sweep \in [Sweeps -> StorySweep]
    /\ labels \in LabelSweep
    /\ faults \in 0 .. MaxFaults
    /\ lost \in BOOLEAN
    /\ counted \in Nat

\* What the sources have said: every title, snippet and article there was.
Said == UNION {EventNumbers(p.event) \cup p.article : p \in seen}
Mentioned == AllEntities({p.event : p \in seen})

(* Whatever is mailed was said: the entities of a cluster's or a story's
   summary are those of its sources, their numbers were in some source's
   text, and the lead adds a number only from a label it names or from the
   item count (faithful, mod.rs:1163; clean_lead, mod.rs:1876). *)
Grounded(s) == s.refs \subseteq Mentioned /\ s.numbers \subseteq Said
GroundedInSources ==
    /\ \A c \in Clusters : Grounded(cluster[c].summary)
    /\ Grounded(story.summary)
    /\ Grounded(fire.item)
    /\ fire.lead \subseteq Said \cup Counts \cup fire.label

(* A synthesis at rest is of the members the story has: the sweep is never
   satisfied with one of other members, unless its write or the persist that
   changed them crossed the other (stories_needing_summary, store.rs:260).
   The signature says which members as far as two clusters never hash alike. *)
HashesTell == \A c, d \in Clusters : c # d => HashesOf(c) \cap HashesOf(d) = {}

MembershipReachesSynthesis ==
    \/ Due \/ lost \/ story.quarantine = "held" \/ Cardinality(story.members) < 2
    \/ story.basis = story.members

(* A delta covers no more than it counted: when the watermark of a thread
   stands at a time, a pass has counted the story of that time as news
   (sweep_thread_labels, mod.rs:2754). *)
NewsIsCounted == thread.through <= counted

(* A story that is due with any text in it is settled: synthesized, found
   unchanged, or quarantined, though every call may fail. *)
HasText == \E c \in story.members : ~ cluster[c].summary.blank
DueSettles == Due /\ HasText ~> ~ Due \/ ~ HasText

(* client.rs:245: "A single-member story is never synthesized; the sweep
   renders its one faithful cluster summary directly".  It is not a property of
   the code, and no run checks it: a story that shrinks to one member keeps the
   synthesis of the members it had. *)
SingleShowsItsOwn ==
    [][\A c \in Clusters : Render /\ story.members = {c} => fire'.item = cluster[c].summary]_vars
=============================================================================
