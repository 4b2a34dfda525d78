# bulletin: a TLA+ development

bulletin turns activity of many sources (GitHub, RSS) into one periodic digest
mail per subscriber. It is a Rust workspace of two crates over one Postgres
database: `src/crates/core` is the engine (ingest, enrichment, clustering,
summaries, stories, threads, digests), `src/crates/bulletin` the binary (a
minute tick, an apalis job queue in the same database, webhook and admin
endpoints). Several replicas may run at once; what keeps them apart are rows,
unique keys, timestamps and advisory locks. That is what this development is
about. It models the stages of the pipeline one module at a time, the pure
algorithms between them as operators, checks each with TLC on small instances
and proves the main invariants, and one refinement, with TLAPS.

## 1. The system

One event flows through these stages. Every arrow is a database row that one
job writes and another one, at another time and perhaps in another process,
reads; nothing else connects the stages.

    connection --poll/webhook--> event log --PublicBuild: enrich, fold-->
    cluster cache --sweeps: articles, summaries--> summarized clusters
    --GenerateDigest: link, select, freeze, send, mark--> digest mail
    stories, feedback --ThreadMaintenance, hourly--> threads, entity weights
    --> the next digest's selection

### Inventory

| component | state it keeps | operations | talks to |
| --- | --- | --- | --- |
| connections (`core/ingest`) | `connection`: status, cursor, failure count, `next_poll_at` | due query, poll, record failure, lifecycle change | connectors, event log |
| webhook intake (`bulletin/webhook`) | a queue job per delivery id | verify, enqueue, route, append | connections, event log |
| event log | `event`: immutable but for `full_text` and `enriched` | append with a dedup fingerprint per scope | everything downstream |
| entity enrichment (`core/enrich`) | `event.enriched_at`, tokens | sweep: snapshot, model call, write per event | public build |
| public and private build (`core/cluster`) | `cluster` rows, `build_watermark` | bounds, lock, dirty groups, fold, upsert, advance | event log, summaries |
| article fetch (`core/ingest/fetch`) | `event.full_text`, fetch attempts | sweep under a session lock, store, touch the group | event log, clusters |
| cluster summaries (`core/summarize`) | summary columns of `cluster` | due list, model call, save, touch, fail, quarantine | clusters, candidates |
| story linking (`core/link`) | `story`: members, `merged_into`, `delivered_at` | recompute components, forward ids, tombstone | clusters, digests |
| story synthesis, thread labels (`core/summarize`) | summary columns of `story` and `thread` | the cluster sweep with a signature of the members; labels and deltas up to `delta_through` | stories, threads, digests |
| faithfulness (`core/summarize/mod.rs`, pure) | none | facts of events or members, the gate over what a model wrote | both sweeps, the lead |
| digest selection (`core/digest/select`) | none (pure) | floors, resurfacing, ranking, caps | stories, weights |
| digest delivery (`core/digest`) | `digest`, `digest_item`, `subscriber.next_run_at`, `last_run_at` | load, select, freeze, send, mark, reschedule | queue, mail server |
| subscribers | the schedule and its preferences | update, delete | delivery |
| thread layer (`core/thread`) | `thread`, `thread_maintenance_watermark`, `subscriber.affinity` | an hourly pass: read, map, fold, save | stories, feedback, selection |
| identity graph (`core/identity`) | `entity_edge`, vetoes | union by confidence under vetoes | threads, feedback |
| feedback (`core/feedback`) | `feedback` rows | append; link or veto two entities | threads, identity |
| tick and queue (`bulletin/worker`, apalis) | job rows with idempotency keys | enqueue what is due, run, retry, re-enqueue | all of the above |
| scopes (`common/scope`, row level security) | a session setting per transaction | a filter on every statement | all of the above |

### What is hard here

* **Time as a cursor.** Every stage finds its work by comparing timestamps that
  other transactions wrote. Postgres' `now()` is the *start* of a transaction,
  rows appear at its *commit*, and workers have clocks of their own.
* **Read, wait, write.** The sweeps read, call a model for seconds with no
  transaction open, and write absolute values; the thread pass reads in five
  statements of a read-committed transaction and writes everything back.
* **At-least-once jobs.** A job may fail, be retried up to a budget, or run
  again when its worker dies; its idempotency key stays taken for as long as
  its row exists, whatever became of it.
* **An effect that is not in the database.** The mail goes out between two
  transactions.
* **Overlap.** The tick pushes builds while one runs, hourly passes meet at
  the boundary of two hours, sweeps hang off builds and fetches alike.

PROJECT.json lists these as hazards, each at the line where it bites, with the
properties that would catch it.

### What makes each component correct

* build: no event is passed over by the watermark; no rebuild loses what an
  earlier one had; enrichment precedes clustering; every event is clustered.
* summaries: no change is missed; the retry budget is exact, and who has
  spent it is in quarantine; a slice smaller than the backlog starves
  nobody.
* delivery: one mail per window; marked only after it was sent; marked means
  the schedule moved; no item falls between two digests; every due boundary is
  served.
* threads: every correction and every story counts once; the weights a digest
  reads are those of the live threads.
* identities: what the resolver joins depends on the edges, not on the order in
  which it merges them; the reader's last word on a pair stands.
* selection: a repeated story is damped, bounded in number and does not
  oscillate; a story loses a place only to better ones; what is stored of a
  digest replays to what was decided.
* synthesis: nothing is mailed that the sources did not say; a synthesis at rest
  is of the members the story has; a delta counts what it claims to cover.
* article fetch: no link is fetched twice at once; the depth of a text reaches
  its cluster; the queue drains though sessions leak their lock.
* connections: nothing the feed served is behind the cursor and out of the
  log; every activity still served is ingested without help from webhooks; only
  a lifecycle webhook resumes a paused connection.
* stories: a cluster is in one live story; an id a reader has seen is kept,
  or leads to an older live story; weak links never collapse two delivered ones.

## 2. The modules

| module | models | proofs |
| --- | --- | --- |
| `DigestPromise` | nothing of the code: what delivery promises, as an abstract specification | |
| `DigestDelivery` | tick, queue and `digest::generate` of one subscriber; implements `DigestPromise` | `DigestDelivery_proofs` |
| `ClusterBuild` | event log, enrichment, builds, watermark of one scope | `ClusterBuild_proofs` |
| `ArticleFetch` | queue, session lock, sweep and write-back of the full-text fetch, beside the build | `FetchAndFeedback_proofs` |
| `SummarySweep` | cluster summaries under builds, article writes and upgrades | `SummarySweep_proofs` |
| `StoryLink` | the story table of one subscriber: recomputes, retro-merges, frozen and delivered stories | `StoryLink_proofs` |
| `Faithfulness` | pure: facts, gates and judges; composed by `StorySynthesis` | with `StorySynthesis` |
| `StorySynthesis` | the story sweeps, the label sweep and the render of one story and its thread | `StorySynthesis_proofs` |
| `DigestSelect` | pure: `select` and the replay of a snapshot; composed by `DigestContent` | with `DigestContent` |
| `DigestContent` | link, select, freeze, log, render over the windows of one subscriber | `IngestAndContent_proofs` |
| `Identity` | pure: `identity::resolve` and its reference definition; composed by `FeedbackLoop` | with `FeedbackLoop` |
| `ThreadGraph` | pure: co-occurrence, communities, decay, states, weights; composed by `FeedbackLoop` | with `FeedbackLoop` |
| `FeedbackLoop` | stories, corrections and passes: what a pass computes and what a correction does | `FetchAndFeedback_proofs` |
| `ThreadMaintenance` | feedback, hourly passes and threads of one subscriber: their races | `ThreadMaintenance_proofs` |
| `ConnectionIngest` | tick, polls, cursor, backoff, status and webhooks of one connection | `IngestAndContent_proofs` |
| `MC...` | model values for TLC, one per module with a specification | |

Two modules share a subject where one table has races and contents that do not
need each other: `ThreadMaintenance` takes the passes apart and leaves open what
they compute, `FeedbackLoop` makes a pass one step and computes it; likewise
`DigestDelivery` and `DigestContent`, `SummarySweep` and `StorySynthesis`.

Two proof modules hold a pair of components each. The components of a pair share
no state, constant or property; the halves of the module do not use each other,
and what FeedbackLoop and DigestContent call `LoopSpec` and `ContentSpec` is
the `Spec` of the others.

Each module stands for one subscriber or one scope: row-level security and
the keys of jobs keep two of them from touching the same row. Definitions that
carry the comment `mutant` are not used by the specification: each is a
plausible bug of the definition next to it, and shows that a property can
fail.

### DigestDelivery

`run[j]` is the attempt at the job whose key names window `j`. It moves
through `loaded`, `selected`, `frozen`, `sent`, `marked`, one action for each
stretch of `generate` between two awaits that another process can tell apart:
`Load` (the subscriber row and the due check), `Select` (link and select, up
to the snapshot it reads), `Freeze` (`create_with_items`, which returns an
earlier attempt's row if there is one, and the delivered check), `Send`,
`MarkDelivered` (one transaction: `delivered_at` where it is NULL, and the
schedule unconditionally), `Acknowledge`. `Fail` and `Crash` may strike at any
stage. The content of a digest is the interval of instants it considered: from
its display floor to what was summarized when it was read, `Lag` behind. The
floor is the code's: back to the last delivery, and never less than the display
window, which is a cadence and its grace (`DisplayWindow`), of the schedule that
the attempt loaded. `seen` and `passed` are histories: the instants that a
delivered digest considered, and those that a mark has left behind `last_run_at`
while they were not yet summarized when its digest was read.

`Load` merges the clock reading, the row and the due check, three reads of
which only the row is shared. The lead and the summaries of stories are steps
that may fail an attempt, nothing more.

`DigestPromise` is what is left when queue, clock, retries and selection are
taken away: a window is taken while it is not recorded, mailed by who holds it,
recorded after the mail by the same hand, and the schedule then stands beyond
every recorded window; it is doubtful once two hands hold it or one lets go
after its mail. `KeepsPromise` says that `DigestDelivery` implements it, with the
mapping `due` = `next_run_at`, `holds` = the attempts past the delivered check
(`Held`), `recorded` = the rows with `delivered_at`, `doubtful` = `exposed`.

### ClusterBuild

An event has the two instants the code has: `OpenInsert` fixes `ingest_time`,
`CommitInsert` makes it visible. A worker's job is the snapshot of the enrichment
sweep (`StartJob`), one write per model answer (`EnrichNext`), then the build
transaction at its real grain: its start, which fixes the high watermark
(`BeginBuild`), the advisory lock with the low watermark (`LockAndBounds`, or
`LockHeld` and give up), the dirty groups (`ScanDirty`), one fold per group
(`FoldGroup`), and the commit of the folded rows with the watermark
(`CommitBuild`). A cluster row is the set of events and of tokens it was folded
from; `Rollup` is that set as the log has it. `overlapped` is a history: two jobs
have been at work at once. With `Enrich = FALSE` the same module is the private
build, which has no grace.

### SummarySweep

A change of content is announced by a transaction (`Begin`, `Announce`): its
start is what `updated_at` gets, even over a later one. A sweep loads its due
list once, with the attempts of each cluster, and for each entry reads the
events, calls the model, and writes: summary, cache hit, or failure with the
absolute count it computed from the list. Nothing schedules a sweep of its own:
`called` says that a build or a fetch has committed and is about to sweep
(`bulletin/src/worker.rs:210`, `:252`), `StartSweep` takes the call, `DropSweep`
is the worker that dies before it, `BuildElsewhere` a build of the scope's other
clusters, or the hourly sweep of a private scope. The clock counts only
transactions that announce a change: the gate compares nothing else. The history variables
`announced`, `judged`, `raced` and `failures` say what the code cannot see:
which version the last settling write was about and whether a change went past
it.

### ThreadMaintenance

`Start` is the handler fixing `now`, `ReadSources` and `ReadCare` the reads of the
pass's transaction (reads whose order no other step can tell apart are merged),
`Commit` the writes. A thread's affinity is the multiset of what was added to it,
so that "exactly once" can be said. Community detection is a choice among the
constant's results; `Matched`, `Claims` and `Minted` are
`map_communities_to_threads`, `Carried` the carry-forward, with the Jaccard
threshold of the code; `NewId` hands the ids that follow those taken to the
candidates that claim no thread, in their order. `Saved` writes absolute values
over rows another pass may have changed meanwhile.

### ConnectionIngest

A poll is `Load` (the row, and its status once more), `Fetch` or `FetchFails` (the
request, and `record_failure` with it), one `AppendScoped` per scope, each a
transaction, and `Advance` (the cursor, in a transaction of its own). `Abort` may
strike between any two. Poll jobs have no key, so `Tick` pushes one more for as
long as the connection is due, and `Load` does not look at `next_poll_at`: polls
overlap, and the slower one writes the older cursor last. The feed is the sequence
of its activities and serves the last `PageSize`; a cursor is how many had been
published when it was taken, which is what an etag and the id of the newest event
say. `Incremental` tells GitHub, which keeps what is newer than its cursor, from
RSS, which appends the page and leaves the rest to the fingerprint. `missed`
collects what left the page before any poll read it: nothing but its webhook can
bring it. Webhooks come in any order or not at all: an activity is appended
whatever the status of the connection, a lifecycle change writes the status and
nothing else.

### StoryLink

`Link` reads the candidates and the prior assignment and computes the new one
(`link_with` is pure and runs between two awaits), `Persist` is the
transaction that upserts the stories and tombstones the absorbed ones, `Freeze`
and `Deliver` are `create_with_items` and `mark_delivered` of the digest of the
attempt's window; `Abandon` may strike between any two, and the retry links
anew, perhaps over other clusters and edges. What the candidate query returns
and what scores as an edge is data: a *day* is one result of both, and any day
may follow any other. `Components` folds the strong edges, then the weak ones
strongest first under `MergesDistinctDelivered`, one `Joined` after the other;
`Claims` walks the components in the order of their smallest cluster, each
knowing what those before it took; both are recursive functions. `Losers` are
the ids nobody claimed: one that is spread over several components is tombstoned
once for each, in the order of the survivors' ids (`core/src/link/mod.rs:749`), so
that the youngest of them has it (`LastSurvivor`). Ids are numbers in the order in
which they were minted, as uuidv7 are. Two variables are histories: `stale`
holds the linked passes before whose eyes the table has changed, `overlapped`
says that one of them was persisted.

### ArticleFetch

`Tick` is the gate (a public event still wants its article) and the key of the
minute. `StartSweep` takes a session of the pool and `pg_try_advisory_lock` on
it, which succeeds again on the session that already holds the lock. `Load` is
the queue (newest first, limited), `NoLink`, `Skip` and `Admit` the pre-pass over
it, in order, `Spawn` the tasks up to the permits, `StoreFullText` and
`RecordFetchFailure` the result of each task, `EndSweep` the unlock.
`FetchArticle` follows the hops of one fetch: a URL is what it may answer. The
faults are those of the places where they strike: a failed write or a panicked
task (`LoseResult`), an early return (`FailSweep`), a panic of the body that
returns a locked session to its pool (`LeakLock`), a dead process (`Crash`), a
session dropped under a running sweep (`LoseSession`); `Recycle` is the pool
closing an idle connection. The build is two statements, `LoadGroup` and
`UpsertCluster`. `exposed` and `overlapped` are histories: a sweep has lost its
session; a text was stored while the last build of its group was open.

### DigestSelect and DigestContent

`Select` is the function of `select.rs`: gate, relevance and priority, damping,
richness, order, and one pass over the ranking under every budget. Decay is a
table by age. `DigestContent` runs it window after window. `Generate` links, selects,
freezes the items of the window if no earlier attempt did, and overwrites the
decision log and the snapshot. Linking starts from nothing, as in the code: any of
the clusters may be candidates, and any partition of them the components, so that
a story merges, splits, and loses a cluster that is no candidate any more; what is
kept is `forward_ids` (`Forwarded`: the oldest prior id that no component before has
claimed, or a new one; `minted` is the last) and `persist_assignment` (`Persist`:
the claimed stories are overwritten, the absorbed ones emptied, the rest left as
they are). The threads of the candidates, the stamps, the log and the snapshot are
best effort: any of them may fail by itself. `LinkOnly` is an attempt that persists
its assignment and fails before it has a digest. `Send` renders the frozen items
that still have clusters, under the log as it is; `Mark` is the delivery. `Fail` may
strike between any two. Two variables are histories: `mailed` has every item of
every mail, `shrunk` the stories that have lost a cluster and lived on.

### Faithfulness and StorySynthesis

A text is the set of the claims a gate can tell apart: the entities it refers to
and its numbers; banned words, links and length are its faults. The functions of
`Faithfulness` are those of `summarize/mod.rs`: facts from events, facts from
members, the reasons of the gate in its order, the judges, of whom only a
unanimous bench rejects. `StorySynthesis` runs them: posts and articles arrive,
clusters are summarized, a fire of the digest persists the members
(`OpenPersist` fixes its `updated_at`, `Persist` writes), sweeps the story inline
and renders, while the maintenance job sweeps it in the background and then the
labels. A sweep is its statements: due row, members, and the write; what it took
with it (`DueStory`) may be stale by then. Members are read newest first; of two
of one time the order is any. `lost` is the history of a write that settled the
row after a later fire had changed its members (`story.fire` counts them),
or before that fire's write but after its start.

### Identity, ThreadGraph and FeedbackLoop

`Resolve` merges the eligible edges strongest first, as the union-find does,
keeping the weakest edge of each forest; `Reach` and `WidestBand` are the
reference definition, by reachability alone. `ThreadGraph` has label propagation
in its in-place order and with its cap, the decay of an affinity and the
projection of the weights, in units in which every division of an instance is
exact. `FeedbackLoop` composes both: `CorrectEntity` is the log row and its
edge or veto in one transaction (the row keyed by the ordered pair, as
`entity_edge` is), `CorrectThread` the care that the next pass folds, `Maintain`
one pass with everything it computes.

## 3. The runs

All runs use `CHECK_DEADLOCK FALSE`: the clock, the faults and the inputs of
an instance are bounded, so every behaviour comes to rest, as a quiet system
does.

| run | asks | answer |
| --- | --- | --- |
| `delivery_safety` | two cadences, one failed attempt, one crash, one preference change, in any order with the tick: is a window mailed twice, marked before its mail, due again after its mark, or due for good; can an item fall between two digests, some of them later than their window; is the promise broken? | no; a second mail needs an attempt lost between mail and mark, or two attempts past the delivered check at once; an item is lost only if a retry's mark passed over it and no digest was read within a window of it |
| `build_safety` | two builds, a crash, two events of one group whose transactions stay open for less than the grace: is an event stranded, are tokens or events forgotten, is anything never clustered? | no; tokens may stay out of the cluster only when two jobs were at work at once |
| `summary_safety` | two sweeps, a build, two article writes, an upgrade | a change is missed only if the last settling write raced it |
| `summary_single` | one sweep at a time, two clusters, a slice of one, a crash | the budget is exact, and every due cluster is settled as long as builds and fetches keep calling for sweeps |
| `fetch_safety` | two jobs, a build, one fault anywhere: double fetch, double spending, a lost depth, a queue that is stuck? | no, while a sweep keeps its session, and for the depth while the two transactions do not cross |
| `fetch_depth` | the same, without excluding the crossing | violated: the build overwrites the depth the fetch raised |
| `story_safety` | two attempts, two windows, three clusters whose edges and candidacy change at every recompute, failures anywhere: is a cluster in two live stories, does a tombstone lead astray, do weak edges collapse two delivered stories? | no, until two recomputes from one prior are both persisted |
| `synthesis_safety` | two sweeps of one story, articles, failed calls, sweeps that die, a deployment: is anything said that no source said, is a synthesis left of other members, is news covered and not counted, is a due story settled? | no, unless the write of a membership and that of its sweep cross |
| `content_safety` | windows in a row, stories that merge, split and lose clusters, thread passes, preference changes, failed attempts and failed records: is a cluster shown twice, does a repeated story oscillate or exceed its budget, does one lose to a worse one, does the snapshot replay? | no; but a story that has lost a cluster may oscillate and exceed the budget (section 5), and the premises of the properties say what a torn record or a stale log costs |
| `loop_safety` | stories, corrections, passes, decay: does the order of merging matter, does a correction fail to take effect, do weights outlive their thread? | no |
| `thread_safety` | overlapping, failing and killed passes against one correction or one story, and communities that split and merge | what no pass was racing counts once |
| `ingest_safety` | two overlapping polls, two scopes, a feed longer than its page, two faults, a webhook, a lifecycle change: is anything lost behind the cursor, is anything still served never ingested, does a poll resume a paused connection? | no |

`TypeOK` is listed by the runs of four modules. The others state it too (`LoopTypeOK`,
`ContentTypeOK`), and were checked on the same instances by adding it to the
configuration. `TypeCorrect`, `LoopTypeCorrect` and `ContentTypeCorrect` prove it for
every module.

### Bounds, and why they are enough

* Delivery: cadences of 2 and 3 with windows of 2 and 4 (the longer one has a
  grace), `Horizon` 4 and `MaxDelay` 2: a digest is read up to two instants after its
  boundary, so that its window alone would not reach back to the one before, and
  `NoItemSkipped` fails as soon as the floor does not either (the mutant
  `CadenceFloor`). A retry of one window meets the tick of the next. With `Lag` 1 an
  item can be too fresh for the digest whose retry then marks past it. One failure
  and one crash are the two ways to run a job again, and each makes a second
  attempt; the theorems cover any number.
* Build: two events of one group are the least that can be dirty by one and
  folded with the other. `Grace` 2 and `MaxTx` 1 are the smallest values with
  `0 < MaxTx < Grace`. `OpenInsert` leaves a grace before the horizon, so that
  liveness is not refuted by the end of time alone.
* Summary: two sweeps are the least that can load the same row; two article
  writes and a build commit in any order. In the single-sweep run two clusters
  and a slice of one make the starvation case. `MaxAttempts` is 2 where the
  code has 4.
* Threads: two communities that become one, `MaxThreads` 4 so that two passes
  can each mint two threads, one item, one fault, three hours. One item is
  enough: the properties speak of each by itself and passes never combine two.
* Stories: three clusters are the least that chain two weak edges or mix a
  strong with a weak one; four ids let a merged story split again; two windows
  let stories be delivered apart and linked later. The three days are: two
  clusters apart and the third no candidate, a weak chain, a strong edge with a
  weak one. A behaviour ends at the first overlap (`UpToOverlap`): what the
  properties exclude anyway.
* Fetch: three snippets of one group and a queue of two, so that the newest-first
  limit leaves one out; two of them share a domain with a cap of one, so that the
  cap applies after the limit; one has no usable link. `MaxAttempts` is 2 where
  the code has 3, one redirect is allowed so that a loop runs into the limit. One
  fault is enough to leak a lock, lose a session or a result; two faults were
  checked as well (963 073 states, four minutes). A minute passes only once the
  last job was taken: more jobs of the same kind would find the same lock.
* Synthesis: two clusters are the least that make a synthesis, and one of them
  gets an article that changes its numbers; two fires let the membership change
  after a synthesis; one fault is a dead sweep or a deployment; `MaxAttempts` is 2
  where the code has 4.
* Content: three clusters of the three depths, two threads in two states, one
  Story, two Notes, one per thread, one repeat, two items: a decision can be owed to
  any of these but the cap on Notes, which two items never exceed alone
  (`OverCapOnlyWhenFullCorrect` covers every value). `MaxStories` 4 lets each cluster
  be a story and a split mint one more. Windows are two half-days apart; two fit the
  horizon, and a third when the subscriber changes the phase: a story is shown,
  damped, and could come back. Three inputs order any two events with a thread pass
  or a preference change. `MaxDelay` 0: an attempt is as late as its retries make it,
  and lateness against the window is `delivery_safety`'s question.
* Loop: four tokens of two namespaces with a pair above, a pair below the
  threshold and a correctable pair in both orders; two threads, three stories,
  four inputs, four instants one half-life apart, so that a thread becomes dormant
  and archived. The corrections can join the three tokens of one namespace to a
  chain of a measured and a said edge, and part it again in either order.
* Ingest: two polls are the least that overlap. Three activities and a page of
  two let one roll off; the middle one is private, so that an append can stop
  between two scopes. `ErroredAfter` is 2 where the code has 5, and two faults
  reach it in a row or with a success in between. One activity has a webhook.

### Fairness

* Delivery: the tick (a minute loop that survives errors) and every started or
  runnable attempt. Failures and crashes are bounded by `MaxFailures` and
  `MaxCrashes`; nothing is assumed of the clock, of clients or of the faults.
* Build: the clock, the tick, open transactions commit or roll back, and
  workers drive their job. Nothing is assumed of the model's answers.
* Summary: an event that is unbuilt gets a build (the tick sees to it), transactions
  end, and a worker that has a call for a sweep takes it and goes on with it. Nothing is
  assumed of the model's answers, nor that there is another build: `DueIsSettled`
  speaks of the behaviours in which sweeps are called again and again
  (`[]<> called`), as they are in a scope with traffic and in a private one.
* Fetch: ticks and minutes come, builds and jobs run to their end (requests time
  out), and the pool closes a session in the end: sqlx drops connections that are
  idle for ten minutes or half an hour old, which is what frees a leaked lock.
  Faults are bounded by `MaxFaults`.
* Synthesis: the maintenance job comes every hour and its sweep goes on, for
  every model call is answered or times out. Nothing is assumed of what the
  model answers, nor of the digest's own sweep.
* Ingest: `next_poll_at` comes, the tick runs, and every poll job is driven.
  Nothing is assumed of webhooks. `EventuallyIngested` supposes that fewer than
  `ErroredAfter` reads in a row fail and that no lifecycle webhook leaves the
  connection paused: a connection that is `errored` is polled by nobody.

No liveness property assumes strong fairness.

## 4. Proofs

TLAPS proves the following for every value of the constants that satisfies the
named assumption of the module. They are laid out as lemmas per action group,
one step per action.

* **`DigestDelivery_proofs`**: `TypeCorrect`, `DeliveredWasSentCorrect`,
  `DeliveredNeverDueAgainCorrect`, `SentOnceUnlessExposedCorrect`,
  `KeepsPromiseCorrect`, `NoItemSkippedCorrect`. The first
  two safety properties become inductive with what an attempt at each phase
  knows: `MarkFollowsSend` (an attempt past the mail has a mail to show) and
  `ServedIsPast` (a delivered window, and the window of an attempt, is not in
  the future, so that every reschedule, being strictly later than the clock,
  leaves it behind; the lemma `NextRunLater` is the arithmetic). The third
  needs `SendInv`: of a window that is not exposed, at most one attempt is past
  the delivered check (`OneCommitted`), the row of such an attempt is not
  delivered (`CommittedUndelivered`), and the number of mails follows from the
  phases and `delivered_at` (`MailsByPhase`). The refinement maps every step to
  one of `DigestPromise` or to a stutter, action by action: `Freeze` takes,
  `Send` mails, `MarkDelivered` records, a failure or crash past the check lets
  go, and a preference change moves the schedule; `ServedIsPast`
  is what puts the moved schedule beyond every recorded window.
  For `NoItemSkipped`, `CoverInv`: everything behind `last_run_at` is accounted for
  (`Behind`), that is considered, passed over, or behind the floor of a digest whose
  attempt knew of no delivery (`Forfeited`: what was there before the first digest).
  The floor of an attempt is never later than the `last_run_at` it loaded
  (`FloorReaches`), so that what a digest leaves behind its floor was accounted for
  before it; what its mark leaves behind is within its interval or passed over. And
  every interval reaches back at least one window (`Windowed`), which is why what was
  passed over is still found by a digest read in time. Nothing is assumed of how late,
  retried, overlapping or rescheduled the digests are.
* **`ClusterBuild_proofs`**: `TypeCorrect`, `ClusterNeverForgetsCorrect`,
  `WatermarkMonotonicCorrect`, `NoEventStrandedCorrect`, `TokensRolledUpCorrect`.
  A rebuild forgets nothing because what is cached or folded is within what the
  log holds (`CacheInv`): the log only grows, and the lock orders the writers. For
  the watermark, `LogInv` bounds the age of an open transaction, `DeadlineInv`
  keeps the watermark and every target one grace behind the clock, and `FoldInv`
  says that the lock's holder has folded, or is about to, every group with an
  event in its interval. `NoEventStrandedCorrect` assumes `MaxTx <
  EffectiveGrace`: section 5 gives the constants of a counterexample without it.
  `TokensRolledUpCorrect` shares the assumption and repeats the argument for
  tokens, while no two jobs were at work at once: what a sweep has still to enrich
  is ahead of the watermark (`SweepAhead`). The others assume nothing of time.
* **`SummarySweep_proofs`**: `TypeCorrect`, `NoChangeMissedUnlessRacedCorrect`,
  `BudgetRespectedCorrect`. `StampsPast` keeps both stamps behind the clock;
  `GateInv` says that, unless it raced, the last settling write is older than the
  start of every open announcing transaction and of the one that announced what it
  missed. The budget needs what a sweep has read of the count to stay true until
  it writes (`PendingBudget`), across the changes that reset a quarantine.
* **`IngestAndContent_proofs`**, connections: `TypeCorrect`, `CursorSafe`
  (`NothingBehindCursor`) and `LifecycleResumes` (`OnlyLifecycleResumes`).
  `CursorInv` adds to the first what a job knows of its own cursor: the one it
  loaded is settled, and the one it will write is settled but for the items it
  still has to append. It is inductive because the log and what was missed only
  grow (`SettledGrows`), and because a read settles everything
  published up to it (`FetchSettles`); so any number of polls may
  overlap and die anywhere.
* **`IngestAndContent_proofs`**, content: `ContentTypeCorrect`,
  `NoClusterTwiceCorrect`, `NoOscillationCorrect`, `RepeatsWithinBudgetCorrect`,
  `OverCapOnlyWhenFullCorrect`, `ReplayAgreesCorrect`. First what `select` returns for
  any candidates: it walks down the ranking and takes what no budget refuses
  (`RankingOrder`, `TakeNextGreedy`, `TakenIsGreedy`), so that no budget is exceeded
  (`BudgetHolds`, `NoneOverBudget`) and who is over a cap finds it used up by better
  ones (`OverCapIsFull`). Then `ContentInv`, over all that a mail, a log and a row may
  disagree on: stories are disjoint and have ids that were handed out, and a new id
  is later than those, so that an absorbed story does not come back (`StoryInv`), a
  window has one row (`RowInv`), a frozen item is behind its story and
  behind what a later row froze of it (`FreezeInv`), a row has at most
  `resurface_cap` items without news (`BudgetInv`), an entry of a log is rendered in
  full only with news since every earlier row in the context
  (`LogInv`), and so is what was mailed (`MailInv`). All this but the rows is said of
  the stories that are not in `shrunk`. Of those, what linking writes has all the
  clusters that were there (`WholeIsMore`), so that the time of the newest event and
  the format only grow: news in the later attempt is news against every row before.
  That is why a retry, which mails frozen items under a log of its own, cannot let such a
  story oscillate. `LinkedCovers` and `PersistIs` say what an assignment does to the
  table: the clusters of a story are of its component or as they were, no cluster is in
  two, and a story with clusters has an id that was handed out.
  `ReplayInv` says that a log is sound, and is the selection of its
  snapshot unless the record was torn.
* **`FetchAndFeedback_proofs`**, article fetch: `TypeCorrect`, `NoDoubleFetchCorrect`,
  `DepthKeepsUpCorrect` (`DepthKeepsUpUnlessOverlapped`). While no session was
  lost the lock is the session of the one sweep at work (`OneSweep`); what that
  sweep still has to do is in three disjoint sets (`SweepShape`), and every event
  in them has an attempt left (`BudgetLeft`). The depth needs `DepthInv`: an
  open build knows of every depth its group has, unless a text was stored meanwhile
  (`OpenBuildReads`).
* **`FetchAndFeedback_proofs`**, feedback: `LoopTypeCorrect`,
  `IdentityIsReachabilityCorrect`, `CorrectionTakesEffectCorrect`,
  `WeightsAreProjectionCorrect`. The first property is one about an algorithm. Edges
  are merged strongest first (`InOrderLists`); after each, the components are a
  partition (`UnionParts`), every component is tied by edges no weaker than its
  `weakest` and falls apart without those of just that confidence
  (`MergedIsTied`, `StageStep`). After the last it is reachability, and the
  weakest link is that of the widest path (`ComponentsAreReach`,
  `ResolvedIsReach`): the order of edges of one confidence does not show. A correction
  takes effect because the row of a pair is one of the two orders it was
  said in (`HeardInv`) and the ends of an edge are one identity (`EndsAreOne`). For the
  weights, `ThreadInv` numbers the rows; a pass hands each community to a thread
  of its own and the new threads take the free ids in order (`MatchesApart`,
  `OwnersApart`), so that the rows it saves are exactly those live
  afterwards (`MaintainProjects`). The types need that a community is a set of
  tokens (`CommunitiesOfTokens`), and that the cursor is never past the clock.
* **`ThreadMaintenance_proofs`**: `TypeCorrect`, `CareFoldedOnceCorrect`,
  `StoryNeverTwiceCorrect`. The invariant, `CountInv`, is one case split
  per item: one that is not yet born is nowhere (`Uncounted`); one ahead of the
  cursor that nothing disturbed is counted nowhere, and at most one pass is at
  work, which started after it and has read the threads as they are (`OnePass`,
  `NotYet`); one behind the cursor is behind that of every pass, and every pass
  that has read the threads agrees with them on its count (`CountStays`,
  `CountedOnce`), so that no pass changes it. The lemmas about the map from
  communities to threads (`ClaimsApart`, `UpsertPlans`, `AbsorbedOnce`, `SavedRow`)
  say why a merge neither drops nor doubles a count: every prior thread is
  absorbed by one saved thread. Communities and similarities are
  any; so is the number of passes, items and threads.
* **`StoryLink_proofs`**: `TypeCorrect`, `OneLiveStoryCorrect`,
  `ForwardsToOlderCorrect`, `WeakNeverMergesDeliveredCorrect`. `StoryInv` says that
  every story and tombstone has an id that was minted and is forwarded to an older
  one that exists, and that a linked pass which is not stale has before it the
  table it read. The rest is what the pure functions return. `components`: a
  partition of the candidates of which, at every edge, the following is kept
  (`GoodParts`): a set that strong edges do not leave, nor the clusters of one
  delivered story, is not cut by a part while the edges are strong, and never has
  only some of the delivered clusters of a part (`JoinedGood`); that is what
  `WeakNeverMergesDelivered` says of a merge. `forward_ids`: the claims are all different,
  each is the oldest id of the component that was free, or the next that is minted
  (`ClaimsSound`); so an id that nobody claims is younger than the claim of every
  component it is in, whichever of them is written last.
* **`StorySynthesis_proofs`**: `TypeCorrect`, `NewsIsCountedCorrect`,
  `GroundedInSourcesCorrect`, `MembershipReachesSynthesisCorrect`. News: the mark
  a label sweep took with it is no later than the newest story it then reads
  (`MarkIsRead`). Grounding: what a sweep has read is backed by the sources and
  stays so, for posts are never taken back (`ReadsBacked`), and what a gate passes
  is within the facts of what was read. Membership: `MemberInv` says what a sweep
  still knows of the row it took with it while no fire has changed the members
  (`DueKept`, `SigsTell`). It assumes `HashesTell`: no two clusters ever hash
  alike; section 5 says what happens without it.

The hypotheses of the theorems, beside the named assumptions of the modules, are
three. `BudgetRespectedCorrect` assumes that there is one sweeper; two exceed the
budget (section 5). `NoEventStrandedCorrect` and `TokensRolledUpCorrect` assume
`MaxTx < EffectiveGrace`. `MembershipReachesSynthesisCorrect` assumes `HashesTell`. The runs of
these properties take instances that satisfy them. The named assumptions say what
kind of value a constant is: stories, tokens and clusters are finitely many, for they
are rows of a table; budgets and bounds are natural numbers.

Where the code walks a list, the proof walks with it. tlapm cannot instantiate
the library's induction theorems, whose parameter is an operator, but a least
counterexample serves: `StepByStep` and `NumberByNumber` are induction up to a
bound, from the well-founded order of the finite sets. With them the proofs of
`StoryLink`, `DigestContent` and `FeedbackLoop` show that the recursive functions
of `components`, `forward_ids`, `select`, `resolve` and label propagation exist (a
recursive definition is a CHOOSE: nothing is known of it before that) and what holds
of each of their steps. Sums over a set, which the library folds the same way, are
treated alike (`SumExists`, `SumsExist`).

Some inductive invariants stand in the module they belong to, after the
properties, the others in the proof module; TLC has checked each on the instance
of its run. Two of these attempts changed a model: `lost` compared memberships,
which a second fire may change back; the order of members of one time was fixed.

Only model-checked:

* all liveness, for fairness and ENABLED are out of the prover's reach;
* which communities label propagation finds: the theorems use that they are sets of
  the graph's nodes, whatever the labels.

Every safety property of a run that passes is stated by a theorem.
`WatermarkMonotonic` is proved and not run.

## 5. What the models found

Names of files are under `src/crates/`. The run `fetch_depth` keeps the one
counterexample that only an interleaving shows. The others below are what the
code does; each says how to see it, by changing the constants of a run.

### Where the code differs from what it says

* **Delivery.** A killed job keeps the idempotency key of its window, so no later
  tick can enqueue it (`bulletin/src/worker.rs:584`;
  `core/src/digest/subscriber.rs:350` and `docs/technical-architecture.md:99` say
  the next tick picks it up). `DueIsServed` fails with `Horizon` 5,
  `Lag` 0, `MaxDelay` 5, `MaxAttempts` 2, `MaxFailures` 2 and one schedule of period 1 with grace 2:
  as many failures as the budget.
* **Build without a grace.** The private build, and every build with enrichment
  off, takes the start of its transaction as the high watermark: an event inserted
  earlier and committed later is stranded behind it
  (`core/src/cluster/store.rs:41` and `:262`; `:35` calls the bounds race-free).
  With `Enrich = FALSE` `NoEventStranded` fails.
* **Summary upgrade.** A bumped model or prompt version puts every cluster in the
  work queue, whose unchanged hash is then taken for a cache hit, without
  restamping the model (`core/src/summarize/mod.rs:2301`; `:59` promises that "the
  old corpus re-summarizes", `:2299` requires the same model). `UpgradeReaches`
  fails under `FairSpec` with one cluster, one fetcher, one sweeper, `MaxAttempts`
  2, `MaxPerSweep` 1, `MaxChanges` 0, `MaxUpgrades` 1, `MaxCrashes` 0. The story
  sweep compares the model and is not affected.
* **Damping.** `last_shown` reads digests that were frozen and never delivered
  (`core/src/digest/store.rs:87`), so a story may be faded as "still developing"
  that the subscriber has not been mailed (`core/src/digest/select.rs:522`).
  Happens when a preference change abandons a window between its freeze and its
  mail. `DampedWasShown` fails in the instance of `content_safety`.
* **Single-member stories.** A story that shrinks to one member keeps the
  synthesis of the members it had, which is rendered
  (`core/src/digest/store.rs:291`, `core/src/summarize/mod.rs:2533`;
  `core/src/summarize/client.rs:245` says that the one summary is rendered
  directly). `SingleShowsItsOwn` fails in the instance of `synthesis_safety`.
* **Depth.** See `fetch_depth`: `touch_group` (`core/src/cluster/store.rs:134`)
  against the two statements of a build.

### Behaviour that the properties exclude

Properties named `...Unless...`, histories (`exposed`, `overlapped`, `raced`,
`disturbed`, `missed`, `lost`, `torn`, `shrunk`, and `passed`) and the single-sweep
instance exclude behaviour the code does have.

* **Delivery.** A worker that dies between the mail and the mark mails twice
  (`core/src/digest/mod.rs:795`). A retry sends what the first attempt froze but
  moves `last_run_at` to its own snapshot (`core/src/digest/mod.rs:664`): what
  happened before that, but was not summarized when the first attempt read, is passed
  over. The next digest still shows it if it is read within a display window of it;
  after an outage longer than that it is in no digest. Two marks of
  one window move the schedule twice (`core/src/digest/store.rs:743`).
* **Build, summaries.** Two overlapping builds may enrich an event after it was
  built (`core/src/enrich/mod.rs:315`). A change during a model call is stamped as
  summarized (`core/src/summarize/store.rs:98`), and of two sweeps the one with the
  older count lifts the other's quarantine (`core/src/summarize/store.rs:153`). A
  quarantined cluster stays a candidate with the summary of its older content
  (`core/src/link/store.rs:99`). The public sweep runs only after a build that ran
  (`bulletin/src/worker.rs:210`, which the tick enqueues for a new event, `:546`) or a
  fetch that fetched something (`:252`): after the last of them a public cluster whose
  model call failed stays due, with attempts to spare, until the next event of the
  scope. Without `[]<> called` the conclusion of `DueIsSettled` fails in the instance
  of `summary_single`. Private clusters are swept every hour.
* **Fetch.** A sweep whose session the server dropped goes on without the lock,
  beside the next one. A crash between the last store and the summaries that
  follow a fetch leaves the nudged clusters to the next build or fetch.
* **Threads.** A correction of a thread that was forwarded before it was submitted
  is dropped (`core/src/thread/maintain.rs:177`), and so is the affinity an
  absorbed thread had gathered before; one submitted between the handler's clock
  reading and the pass's read of the feedback is folded by that pass and by the
  next (`core/src/thread/maintain.rs:118`, where `core/src/feedback.rs:138` says
  exactly once). An edge and a veto of one pair said in two orders are two rows,
  and the veto holds whichever was said last.
* **Stories.** Two recomputes linked from the same prior (an attempt re-enqueued
  while it still runs) leave the later one's picture: fresh components get two
  live stories, and a story the other had merged away may be live again
  (`core/src/link/store.rs:201`). A delivered story that a weak edge attaches to
  an older, undelivered one is tombstoned with its `last_delivered_at`; the
  survivor is not marked, and the next recompute may collapse it by a weak edge
  with another story the reader has seen, which `core/src/link/mod.rs:522`
  excludes. `story_timeline` follows one `merged_into` hop
  (`core/src/digest/store.rs:803`): after two merges in a row an old id resolves
  to an empty tombstone.
* **Content.** A retry overwrites the decision log while the items stay frozen:
  what its own recompute has merged away is left out of the mail
  (`core/src/digest/store.rs:447`) and marked delivered, and an item its log does
  not name is rendered as a Story. Log and snapshot are two best-effort
  transactions. The anchor of an item is that of the first attempt, so news
  between it and the mail counts as news once more in the next window. A merge
  into a story that was shown is not news. A split is worse, for news and format are
  compared with what the story had when it was last frozen
  (`core/src/digest/select.rs:518`). A story of one cluster with an event at 10 and
  another at 12 is shown in full; it splits and is shown, damped, with the first alone,
  which freezes 10 as its anchor; when they are joined again 12 is later than 10, and
  the story is in full once more with nothing new. And a story that was news when it was
  frozen may have lost the newer of its clusters when a retry of that window renders it: it is
  now a repeat beside the one that `resurface_cap` already admitted. Without the
  `shrunk` in `NoOscillation` or in `Repeats` TLC finds either in the instance of
  `content_safety`, within 16 steps.
* **Synthesis.** `updated_at` of a story moves with its membership and aggregates
  only: a member summarized anew without new events leaves the synthesis as it
  was. A sweep that found the row due before the members changed, and changed
  back, may take the signature it loaded for that of the synthesis another sweep
  has stored in between, and settle the row with the synthesis of other members
  (`core/src/summarize/mod.rs:2562`): it takes three clusters and four fires.
  Members whose contents hash alike have one signature, so a change among them
  does not reach the synthesis. A synthesis that fails leaves the old one to be
  rendered. A story of several members all of whose summaries are blank stays due.
  Labels are not held against numbers, and ground the lead. A story that lands
  late on a thread, with an event time behind `delta_through`, is never news; one
  newer than `last_story_time` may be counted twice. Two sweeps that set the same
  row's attempts absolutely can exceed the budget, as for clusters.

## 6. Not modelled

* apalis is external: at-least-once, a budget per job, a key that stays taken
  while its row exists. One clock stands for the database's and the workers' in
  every module: the comparisons of the two (`core/src/digest/mod.rs:667`,
  `core/src/summarize/store.rs:183`) are not modelled.
* Text, prompts, parsing of model answers, layout, cryptography, HTTP, the
  extraction of text, the SQL filters of row-level security: no behaviour over
  time. Decay is a table or a halving, similarity a table; the real-valued
  arithmetic itself is not modelled.
* `ThreadMaintenance` leaves out what `FeedbackLoop` computes, and pinned threads
  (no operation pins one). Prior representatives are never passed to the resolver,
  so they are a parameter that is empty.
* The reasons and headings of items, the source corpus cut at its limit (which may
  cut a number), the in-process deadline of the inline sweep beyond ending it, the
  retries and the reuse of a lead.
* `ConnectionIngest` leaves out activity types without a content id, which the log
  may hold twice, once from the poll and once from the webhook
  (`core/src/ingest/github/event_map.rs:133`); connections that cannot be built
  from their row, which are skipped; and deletion. In the model as in the code,
  polls that piled up ignore the backoff (`bulletin/src/worker.rs:534`), what
  leaves the page between two polls is lost unless its webhook came
  (`core/src/ingest/github/mod.rs:186`), and an `unsuspend` that is lost or
  overtaken leaves the connection paused (`core/src/ingest/mod.rs:437`).
* Deleting a subscriber, dispatching a digest by hand, the admin API, the reports
  of the offline evaluation, deployment.

## 7. Plan

1. Abstract specifications: a story id, once read, resolves to one live story,
   implemented by `StoryLink`; an atomic log reader, implemented by
   `ClusterBuild`.
2. The private build with its own watermark inside `generate`, and the deletion of
   a subscriber.
3. What label propagation finds, with TLC first: that a pass without new stories
   finds the communities of the one before.
