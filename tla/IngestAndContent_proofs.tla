------------------------ MODULE IngestAndContent_proofs ------------------------
(***************************************************************************)
(* Proofs about the two ends of the system, for every value of their       *)
(* constants: ConnectionIngest, how activities come into the log, and      *)
(* DigestContent, what the mails say of them from window to window.  The   *)
(* two components share no state and no name: neither part uses the other. *)
(***************************************************************************)
EXTENDS ConnectionIngest, DigestContent, FunctionTheorems, FiniteSetTheorems,
    WellFoundedInduction, TLAPS

(***************************************************************************)
(* The feed and its connection (ConnectionIngest).                         *)
(***************************************************************************)

\* The records a step writes keep their shape.
LEMMA IdleTypes ==
    /\ IdleJob \in PollJob
    /\ [IdleJob EXCEPT !.pc = "pending"] \in PollJob
    /\ [IdleJob EXCEPT !.pc = "idle"] \in PollJob
BY IngestAssumption DEF IdleJob, PollJob

LEMMA PollFields ==
    ASSUME NEW r \in PollJob
    PROVE  /\ r.cursor \in Nat /\ r.next \in Nat /\ r.items \subseteq Activities
           /\ [r EXCEPT !.pc = "pending"] \in PollJob
BY IngestAssumption DEF PollJob

LEMMA RowFields ==
    ASSUME NEW r \in ConnectionRow
    PROVE  /\ r.status \in Lifecycle \cup {"errored"} /\ r.cursor \in 0 .. MaxActivity
           /\ r.failures \in Nat /\ r.due \in BOOLEAN
BY DEF ConnectionRow

LEMMA PublishedType ==
    ASSUME TypeOK
    PROVE  published \in Nat /\ published <= MaxActivity /\ MaxActivity \in Nat /\ PageSize \in Nat
BY IngestAssumption DEF TypeOK

\* What a poll keeps of the feed is among the activities published.
LEMMA FreshType ==
    ASSUME TypeOK, NEW c
    PROVE  Fresh(c) \subseteq Activities
BY PublishedType DEF Fresh, Page, Activities

LEMMA InitTypeOK == Init => TypeOK
BY IngestAssumption, IdleTypes DEF Init, TypeOK, ConnectionRow, Lifecycle, Activities

LEMMA PollTypeOK ==
    ASSUME TypeOK, NEW j \in Jobs, Step(j) \/ FetchFails(j) \/ Abort(j)
    PROVE  TypeOK'
<1>1. poll[j] \in PollJob /\ conn \in ConnectionRow
  BY DEF TypeOK
<1>2. CASE Load(j)
  <2>1. [IdleJob EXCEPT !.pc = "loaded", !.cursor = conn.cursor] \in PollJob
    BY <1>1, RowFields, IdleTypes DEF PollJob
  <2> QED
    BY <1>2, <2>1, IdleTypes DEF TypeOK, Load
<1>3. CASE Fetch(j)
  <2> DEFINE r == [poll[j] EXCEPT !.pc = "fetched", !.next = published,
                                  !.items = Fresh(poll[j].cursor)]
  <2>0. published \in 0 .. MaxActivity /\ Fresh(poll[j].cursor) \subseteq Activities
    BY FreshType DEF TypeOK
  <2>1. r \in PollJob
    BY <1>1, <2>0 DEF PollJob
  <2>2. poll' = [poll EXCEPT ![j] = r]
    BY <1>3, <1>1 DEF Fetch, TypeOK, NewCursor
  <2>3. missed' \subseteq Activities
    BY <1>3, PublishedType DEF Fetch, TypeOK, Activities
  <2> HIDE DEF r
  <2>4. poll' \in [Jobs -> PollJob]
    BY <2>1, <2>2 DEF TypeOK
  <2> QED
    BY <1>3, <2>3, <2>4 DEF TypeOK, Fetch
<1>4. CASE \E s \in Scopes : AppendScoped(j, s)
  <2>1. PICK s \in Scopes : AppendScoped(j, s)
    BY <1>4
  <2> DEFINE batch == {i \in poll[j].items : Scope[i] = s}
             r == [poll[j] EXCEPT !.items = @ \ batch]
  <2>2. r \in PollJob
    BY <1>1 DEF PollJob
  <2>3. batch \subseteq Activities
    BY <1>1, PollFields
  <2>4. poll' = [poll EXCEPT ![j] = r] /\ log' = log \cup batch
    BY <2>1, <1>1 DEF AppendScoped, TypeOK
  <2> QED
    BY <2>1, <2>2, <2>3, <2>4 DEF TypeOK, AppendScoped
<1>5. CASE Advance(j)
  <2>1. [conn EXCEPT !.cursor = poll[j].next, !.failures = 0, !.due = FALSE] \in ConnectionRow
    BY <1>1 DEF ConnectionRow, PollJob
  <2> QED
    BY <1>5, <2>1, IdleTypes DEF TypeOK, Advance
<1>6. CASE FetchFails(j)
  <2>1. FailureStatus \in Lifecycle \cup {"errored"} /\ conn.failures + 1 \in Nat
    BY <1>1, RowFields DEF FailureStatus
  <2>2. [conn EXCEPT !.status = FailureStatus, !.failures = @ + 1, !.due = FALSE] \in ConnectionRow
    BY <1>1, <2>1 DEF ConnectionRow
  <2> QED
    BY <1>6, <2>2, IdleTypes DEF TypeOK, FetchFails
<1>7. CASE Abort(j)
  BY <1>7, IdleTypes DEF TypeOK, Abort
<1> QED
  BY <1>2, <1>3, <1>4, <1>5, <1>6, <1>7 DEF Step

LEMMA OtherTypeOK ==
    ASSUME TypeOK,
           \/ Publish \/ Elapse \/ Tick
           \/ \E i \in Hooked : Deliver(i) \/ IngestHook(i) \/ KillHook(i)
           \/ \E n \in Notices : Notify(n) \/ ApplyNotice(n)
    PROVE  TypeOK'
<1>1. CASE Publish
  BY <1>1, PublishedType DEF TypeOK, Publish
<1>2. CASE Elapse
  BY <1>2 DEF TypeOK, Elapse, ConnectionRow
<1>3. CASE Tick
  <2>1. PICK j \in Jobs : poll' = [poll EXCEPT ![j].pc = "pending"]
    BY <1>3 DEF Tick
  <2>2. [poll[j] EXCEPT !.pc = "pending"] \in PollJob
    BY PollFields DEF TypeOK
  <2> QED
    BY <1>3, <2>1, <2>2 DEF TypeOK, Tick
<1>4. CASE \E i \in Hooked : Deliver(i) \/ IngestHook(i) \/ KillHook(i)
  BY <1>4, IngestAssumption DEF TypeOK, Deliver, IngestHook, KillHook
<1>5. ASSUME NEW n \in Notices, Notify(n) PROVE TypeOK'
  BY <1>5 DEF TypeOK, Notify
<1>6. ASSUME NEW n \in Notices, ApplyNotice(n) PROVE TypeOK'
  <2>1. [conn EXCEPT !.status = notice[n]] \in ConnectionRow
    BY <1>6 DEF TypeOK, ConnectionRow, ApplyNotice
  <2> QED
    BY <1>6, <2>1 DEF TypeOK, ApplyNotice
<1> QED
  BY <1>1, <1>2, <1>3, <1>4, <1>5, <1>6

LEMMA NextTypeOK == TypeOK /\ [Next]_vars => TypeOK'
<1> SUFFICES ASSUME TypeOK, [Next]_vars PROVE TypeOK'
  OBVIOUS
<1>1. CASE Next
  BY <1>1, PollTypeOK, OtherTypeOK DEF Next
<1>2. CASE UNCHANGED vars
  BY <1>2 DEF TypeOK, vars
<1> QED
  BY <1>1, <1>2

(***************************************************************************)
(* The rows of the connection, its polls and its webhooks stay of their    *)
(* type under every interleaving of polls, failures and webhooks.          *)
(***************************************************************************)
THEOREM TypeCorrect == Spec => []TypeOK
BY InitTypeOK, NextTypeOK, PTL DEF Spec

-----------------------------------------------------------------------------
\* The log and the missed activities only grow, so what is settled stays so.
LEMMA SettledGrows ==
    ASSUME log \subseteq log', missed \subseteq missed',
           NEW c, NEW items, NEW fewer, Settled(c, items),
           \A i \in items : i \in fewer \cup log'
    PROVE  Settled(c, fewer)'
BY DEF Settled

\* A read settles everything the source has published up to it.
LEMMA FetchSettles ==
    ASSUME TypeOK, NEW j \in Jobs, Fetch(j), Settled(poll[j].cursor, {})
    PROVE  \A i \in Activities : i <= published => i \in log \cup missed' \cup Fresh(poll[j].cursor)
<1> DEFINE c == poll[j].cursor
<1>1. c \in Nat /\ published \in Nat
  BY PollFields, PublishedType DEF TypeOK
<1>2. SUFFICES ASSUME NEW i \in Activities, i <= published
               PROVE  i \in log \cup missed' \cup Fresh(c)
  OBVIOUS
<1>3. i \in 1 .. published
  BY <1>1, <1>2 DEF Activities
<1>4. CASE i <= c
  BY <1>4 DEF Settled, Fetch
<1>5. CASE ~ (i <= c) /\ i \in Page
  BY <1>1, <1>3, <1>5 DEF Fresh
<1>6. CASE ~ (i <= c) /\ i \notin Page
  BY <1>1, <1>3, <1>6 DEF Fetch
<1> QED
  BY <1>4, <1>5, <1>6

LEMMA InitCursorInv == Init => CursorInv
BY DEF Init, CursorInv, Settled, Activities, IdleJob

LEMMA PollCursorInv ==
    ASSUME TypeOK, CursorInv, NEW j \in Jobs, Step(j) \/ FetchFails(j) \/ Abort(j)
    PROVE  CursorInv'
<1>1. CASE Load(j)
  BY <1>1 DEF Load, CursorInv, Settled, TypeOK, IdleJob
<1>2. CASE Fetch(j)
  <2>1. \A i \in Activities : i <= published => i \in log \cup missed' \cup Fresh(poll[j].cursor)
    BY <1>2, FetchSettles DEF CursorInv, Fetch
  <2>2. poll'[j].next = published /\ poll'[j].items = Fresh(poll[j].cursor) /\ poll'[j].pc = "fetched"
    BY <1>2 DEF Fetch, TypeOK, PollJob, NewCursor
  <2>3. Settled(poll[j].next, poll[j].items)'
    BY <1>2, <2>1, <2>2 DEF Fetch, Settled
  <2>4. \A k \in Jobs \ {j} : poll'[k] = poll[k]
    BY <1>2 DEF Fetch, TypeOK
  <2> QED
    BY <1>2, <2>2, <2>3, <2>4 DEF Fetch, CursorInv, Settled
<1>3. CASE \E s \in Scopes : AppendScoped(j, s)
  BY <1>3 DEF AppendScoped, CursorInv, Settled, TypeOK, PollJob
<1>4. CASE Advance(j)
  BY <1>4 DEF Advance, Appended, CursorInv, Settled, TypeOK, ConnectionRow, IdleJob
<1>5. CASE FetchFails(j)
  BY <1>5 DEF FetchFails, CursorInv, Settled, TypeOK, ConnectionRow, IdleJob
<1>6. CASE Abort(j)
  BY <1>6 DEF Abort, CursorInv, Settled, TypeOK, IdleJob
<1> QED
  BY <1>1, <1>2, <1>3, <1>4, <1>5, <1>6 DEF Step

LEMMA OtherCursorInv ==
    ASSUME TypeOK, CursorInv,
           \/ Publish \/ Elapse \/ Tick
           \/ \E i \in Hooked : Deliver(i) \/ IngestHook(i) \/ KillHook(i)
           \/ \E n \in Notices : Notify(n) \/ ApplyNotice(n)
    PROVE  CursorInv'
<1>1. CASE Publish
  BY <1>1 DEF Publish, CursorInv, Settled
<1>2. CASE Elapse
  BY <1>2 DEF Elapse, CursorInv, Settled, TypeOK, ConnectionRow
<1>3. CASE Tick
  BY <1>3 DEF Tick, CursorInv, Settled, TypeOK, PollJob
<1>4. CASE \E i \in Hooked : Deliver(i) \/ IngestHook(i) \/ KillHook(i)
  BY <1>4 DEF Deliver, IngestHook, KillHook, CursorInv, Settled
<1>5. CASE \E n \in Notices : Notify(n) \/ ApplyNotice(n)
  BY <1>5 DEF Notify, ApplyNotice, CursorInv, Settled, TypeOK, ConnectionRow
<1> QED
  BY <1>1, <1>2, <1>3, <1>4, <1>5

LEMMA NextCursorInv == TypeOK /\ CursorInv /\ [Next]_vars => CursorInv'
<1> SUFFICES ASSUME TypeOK, CursorInv, [Next]_vars PROVE CursorInv'
  OBVIOUS
<1>1. CASE Next
  BY <1>1, PollCursorInv, OtherCursorInv DEF Next
<1>2. CASE UNCHANGED vars
  BY <1>2 DEF CursorInv, Settled, vars
<1> QED
  BY <1>1, <1>2

LEMMA CursorInvImplies == CursorInv => NothingBehindCursor
BY DEF CursorInv, Settled, NothingBehindCursor

(***************************************************************************)
(* Events commit before the cursor: for any number of overlapping polls,   *)
(* scopes, crashes between two transactions and cursors written late, no   *)
(* activity the source served is behind the cursor and not in the log.     *)
(***************************************************************************)
THEOREM CursorSafe == Spec => []NothingBehindCursor
BY InitTypeOK, NextTypeOK, InitCursorInv, NextCursorInv, CursorInvImplies, PTL DEF Spec

-----------------------------------------------------------------------------
\* No step but a lifecycle webhook's writes the status "active".
LEMMA StatusStep ==
    ASSUME TypeOK, [Next]_vars, conn.status # "active", conn'.status = "active"
    PROVE  \E n \in Notices : notice[n] = "active" /\ notice'[n] = "spent"
<1>1. conn \in ConnectionRow
  BY DEF TypeOK
<1>2. PICK n \in Notices : ApplyNotice(n)
  <2>1. ~ UNCHANGED conn
    OBVIOUS
  <2>2. ~ Elapse
    BY <1>1 DEF Elapse, ConnectionRow
  <2>3. ASSUME NEW j \in Jobs PROVE ~ Advance(j) /\ ~ FetchFails(j)
    BY <1>1 DEF Advance, FetchFails, FailureStatus, ConnectionRow
  <2> QED
    BY <2>1, <2>2, <2>3 DEF Next, vars, Step, Publish, Tick, Load, Fetch, AppendScoped, Abort,
       Deliver, IngestHook, KillHook, Notify
<1>3. conn'.status = notice[n] /\ notice'[n] = "spent"
  BY <1>1, <1>2 DEF ApplyNotice, TypeOK, ConnectionRow
<1> QED
  BY <1>3

(***************************************************************************)
(* A suspension or a revocation is undone by a lifecycle webhook only: no  *)
(* poll that was under way, failed or completed, resumes the connection.   *)
(***************************************************************************)
THEOREM LifecycleResumes == Spec => OnlyLifecycleResumes
<1>1. TypeOK /\ [Next]_vars =>
        [conn.status # "active" /\ conn'.status = "active"
         => \E n \in Notices : notice[n] = "active" /\ notice'[n] = "spent"]_vars
  BY StatusStep
<1> QED
  BY <1>1, TypeCorrect, PTL DEF Spec, OnlyLifecycleResumes

(***************************************************************************)
(* The mails of a subscription (DigestContent).                            *)
(***************************************************************************)

-----------------------------------------------------------------------------
(* The invariant.  The clock, the clusters and the schedule are of their   *)
(* types; the clusters of a story are born and its own alone, and a story  *)
(* that has some has an id that was handed out.                            *)
WorldInv ==
    /\ now \in Nat /\ layer \in Layers
    /\ cluster \in [Clusters -> [last : Nat, events : Nat]]
    /\ \A c \in Clusters : cluster[c].last <= now
    /\ sub \in [phase : Nat, nextRun : Nat, lastRun : Int]
    /\ attempt \in [pc : {"idle", "frozen", "sent"}, window : Nat, at : Nat]

StoryInv ==
    /\ story \in [Ids -> SUBSET Clusters]
    /\ \A s \in Ids : \A c \in story[s] : Born(c)
    /\ \A s, t \in Ids : s # t => story[s] \cap story[t] = {}
    /\ minted \in Nat /\ \A s \in Ids : story[s] # {} => s <= minted
    /\ shrunk \subseteq Ids

\* The news of a story as it stands, and whether it fills a Story.
LatestOf(table, members) == Max({table[c].last : c \in members})
FullOf(table, members) ==
    \/ Cardinality({Attr[c].source : c \in members}) > 1
    \/ \E b, c \in members : b # c
    \/ \E c \in members : table[c].events > 1 \/ Attr[c].depth = "longform"
Latest(members) == LatestOf(cluster, members)
Natural(members) == IF FullOf(cluster, members) THEN "story" ELSE "note"

\* What is frozen is behind what is seen later: the news only grows, and a
\* Story does not shrink to a Note.  Without News it is a repeat.
Behind(i, last, format) == i.last <= last /\ (i.format = "story" => format = "story")
News(i, last, format) == last > i.last \/ (i.format = "note" /\ format = "story")

ItemsOf(d) == {d.items[p] : p \in DOMAIN d.items}
Earlier(e, d) == e.window < d.window /\ d.window <= e.window + ContextHorizon

Item == [story : Ids, last : Nat, format : {"note", "story"}, thread : SUBSET Nat]
IsRow(d) ==
    /\ d = [window |-> d.window, items |-> d.items, log |-> d.log, snapshot |-> d.snapshot,
            torn |-> d.torn, delivered |-> d.delivered]
    /\ d.window \in Nat /\ d.items \in Seq(Item) /\ d.torn \in BOOLEAN

RowInv ==
    /\ \A d \in digests : IsRow(d) /\ d.window <= now /\ d.window <= sub.nextRun
    /\ \A d, e \in digests : d.window = e.window => d = e
    /\ attempt.pc # "idle" => \E d \in digests : d.window = attempt.window

\* A frozen item is of a story whose id was handed out, so that a tombstone
\* never comes back.  As long as the story has lost no cluster, the item is
\* behind it and behind what a later row froze of it.
FreezeInv ==
    /\ \A d \in digests : \A i \in ItemsOf(d) :
          /\ i.story <= minted
          /\ i.story \notin shrunk /\ story[i.story] # {} =>
                Behind(i, Latest(story[i.story]), Natural(story[i.story]))
    /\ \A d, e \in digests : e.window < d.window =>
          \A i \in ItemsOf(d), j \in ItemsOf(e) :
             i.story = j.story /\ i.story \notin shrunk => Behind(j, i.last, i.format)

\* The items of a row without news since an earlier row froze them.
Stale(d) ==
    {s \in Ids \ shrunk : \E i \in ItemsOf(d), e \in digests :
        Earlier(e, d) /\ \E j \in ItemsOf(e) : i.story = s /\ j.story = s /\ ~ News(j, i.last, i.format)}
BudgetInv == \A d \in digests : Cardinality(Stale(d)) <= Cfg.resurfaceCap

\* A ranked decision is rendered in full only with news.
Ranked(l) == l.verdict \in {"selected", "over_cap"}
NewsWas(s, last, format, d) ==
    \A e \in digests : Earlier(e, d) => \A j \in ItemsOf(e) : j.story = s => News(j, last, format)
EntryInv(d, l) ==
    /\ l.story \in Ids /\ l.story <= minted /\ l.last \in Nat /\ l.natural \in {"note", "story"}
    /\ l.story \notin shrunk =>
          /\ story[l.story] # {} => l.last <= Latest(story[l.story])
          /\ \A i \in ItemsOf(d) : i.story = l.story => Behind(i, l.last, l.natural)
          /\ Ranked(l) /\ l.format = "story" => l.natural = "story" /\ NewsWas(l.story, l.last, l.natural, d)
LogInv ==
    \A d \in digests :
        /\ \A l \in d.log : EntryInv(d, l)
        /\ \A k, l \in d.log : k.story = l.story => k = l

\* So is a mailed item, of which the log is what it was rendered under.
MailOf(m, d, i) ==
    /\ d.window = m.window /\ i.story = m.story /\ m.anchor = i.last /\ m.frozen = i.format
    /\ m.last \in Nat
    /\ m.story \notin shrunk =>
          /\ i.last <= m.last
          /\ m.ranked =>
                /\ m.natural \in {"note", "story"} /\ (i.format = "story" => m.natural = "story")
                /\ m.format = "story" => m.natural = "story" /\ NewsWas(m.story, m.last, m.natural, d)
MailInv == \A m \in mailed : \E d \in digests : \E i \in ItemsOf(d) : MailOf(m, d, i)

ContentInv ==
    WorldInv /\ StoryInv /\ RowInv /\ FreezeInv /\ BudgetInv /\ LogInv /\ MailInv

\* The log of a row is a selection, and when it is not torn the selection of
\* its snapshot.
SoundLog(entries) ==
    \A d \in entries :
        /\ d.verdict = "over_cap" => Exhausted({x \in Selected(entries) : Outranks(x, d)}, d, 0)
        /\ d.verdict = "selected" => ~ Exhausted(Selected(entries), d, 1)
OfSnapshot(entries, s) ==
    /\ \A c \in s.candidates : c.last \in Nat
    /\ \E floor \in Int : entries = Select(s.candidates, Cfg, s.maxItems, s.now, floor)
ReplayInv ==
    \A d \in digests :
        /\ SoundLog(d.log)
        /\ ~ d.torn => (d.log = {} /\ d.snapshot = {}) \/ \E s : d.snapshot = {s} /\ OfSnapshot(d.log, s)

-----------------------------------------------------------------------------
(* A finite set of naturals that is not empty has a least element.         *)
LEMMA LeastNatural ==
    ASSUME NEW S, IsFiniteSet(S), S \subseteq Nat, S # {}
    PROVE  Min(S) \in S /\ \A y \in S : Min(S) <= y
<1> DEFINE Has(T) == \E x \in T : \A y \in T : x =< y
           Bad == {T \in SUBSET S : T # {} /\ ~ Has(T)}
<1>1. SUFFICES Has(S)
  BY DEF Min
<1>2. SUFFICES ASSUME Bad # {} PROVE FALSE
  OBVIOUS
<1>3. IsWellFoundedOn(StrictSubsetOrdering(S), SUBSET S)
  BY FS_StrictSubsetOrderingWellFounded, FS_FiniteSubsetsOfFinite
<1>4. PICK T \in Bad : \A U \in Bad : <<U, T>> \notin StrictSubsetOrdering(S)
  BY <1>2, <1>3, WFMin
<1>5. PICK x \in T : TRUE
  OBVIOUS
<1>6. T \ {x} \notin Bad
  BY <1>4, <1>5 DEF StrictSubsetOrdering
<1>7. CASE T \ {x} = {}
  BY <1>5, <1>7
<1>8. CASE Has(T \ {x})
  <2>1. PICK m \in T \ {x} : \A y \in T \ {x} : m =< y
    BY <1>8
  <2>2. T \subseteq Nat
    OBVIOUS
  <2>3. Has(T)
    <3>1. CASE m =< x
      BY <2>1, <3>1
    <3>2. CASE ~ (m =< x)
      BY <2>1, <2>2, <3>2, <1>5
    <3> QED BY <3>1, <3>2
  <2> QED BY <2>3
<1> QED BY <1>6, <1>7, <1>8

(* It has a greatest element, too.                                         *)
LEMMA GreatestNatural ==
    ASSUME NEW S, IsFiniteSet(S), S \subseteq Nat, S # {}
    PROVE  \E x \in S : \A y \in S : y <= x
<1> DEFINE Has(T) == \E x \in T : \A y \in T : y =< x
           Bad == {T \in SUBSET S : T # {} /\ ~ Has(T)}
<1>2. SUFFICES ASSUME Bad # {} PROVE FALSE
  OBVIOUS
<1>3. IsWellFoundedOn(StrictSubsetOrdering(S), SUBSET S)
  BY FS_StrictSubsetOrderingWellFounded, FS_FiniteSubsetsOfFinite
<1>4. PICK T \in Bad : \A U \in Bad : <<U, T>> \notin StrictSubsetOrdering(S)
  BY <1>2, <1>3, WFMin
<1>5. PICK x \in T : TRUE
  OBVIOUS
<1>6. T \ {x} \notin Bad
  BY <1>4, <1>5 DEF StrictSubsetOrdering
<1>7. CASE T \ {x} = {}
  BY <1>5, <1>7
<1>8. CASE Has(T \ {x})
  <2>1. PICK m \in T \ {x} : \A y \in T \ {x} : y =< m
    BY <1>8
  <2>2. T \subseteq Nat
    OBVIOUS
  <2>3. Has(T)
    <3>1. CASE x =< m
      BY <2>1, <3>1
    <3>2. CASE ~ (x =< m)
      BY <2>1, <2>2, <3>2, <1>5
    <3> QED BY <3>1, <3>2
  <2> QED BY <2>3
<1> QED BY <1>6, <1>7, <1>8

(* What holds of 0, and of the next number whenever it holds of a number,  *)
(* holds of every number up to a bound.                                    *)
LEMMA StepByStep ==
    ASSUME NEW n \in Nat, NEW G, 0 \in G, \A i \in Nat : i < n /\ i \in G => i + 1 \in G
    PROVE  0 .. n \subseteq G
<1> DEFINE Bad == (0 .. n) \ G
<1>1. SUFFICES ASSUME Bad # {} PROVE FALSE
  OBVIOUS
<1>2. IsFiniteSet(Bad) /\ Bad \subseteq Nat
  <2>1. PICK k \in Int : k = n
    OBVIOUS
  <2>2. IsFiniteSet(0 .. n)
    BY <2>1, FS_Interval
  <2> QED
    BY <2>2, FS_Subset
<1>3. PICK m \in Bad : \A y \in Bad : m <= y
  BY <1>1, <1>2, LeastNatural
<1>4. m # 0 /\ m - 1 \in Nat /\ m - 1 < n /\ m - 1 \notin Bad
  BY <1>3
<1> QED
  BY <1>4

------------------------------------------------------------------------

-----------------------------------------------------------------------------
(* The selection.  What it asks of its candidates: finitely many, one for  *)
(* each story, with numbers to rank them by.                               *)
Sound(candidates) ==
    /\ IsFiniteSet(candidates)
    /\ \A c \in candidates :
          /\ c.story \in Nat /\ c.last \in Nat /\ c.affinity \in Int /\ c.severity \in Int
          /\ c.depth \in {"longform", "announcement", "message"}
    /\ \A b, c \in candidates : b.story = c.story => b = c

\* What is ranked.
Ranking(gated) ==
    /\ IsFiniteSet(gated)
    /\ \A g \in gated : g.priority \in Int /\ g.last \in Int /\ g.story \in Int
    /\ \A g, h \in gated : g.story = h.story => g = h

(* A recency is a number of thousandths.                                   *)
LEMMA DecayType ==
    ASSUME NEW table \in {RecencyTable, SalienceTable, ThreadTable}, NEW n \in Nat, NEW t \in Nat
    PROVE  Decay(table, n, t) \in Int
<1>1. PICK age \in Nat : age = IF t > n THEN 0 ELSE n - t
  OBVIOUS
<1>2. Len(table) = 9 /\ \A i \in 1 .. 9 : table[i] \in Int
  <2>1. CASE table = RecencyTable
    BY <2>1 DEF RecencyTable
  <2>2. CASE table = SalienceTable
    BY <2>2 DEF SalienceTable
  <2>3. CASE table = ThreadTable
    BY <2>3 DEF ThreadTable
  <2> QED
    BY <2>1, <2>2, <2>3
<1>3. PICK k \in 1 .. 9 : k = IF age < Len(table) THEN age + 1 ELSE Len(table)
  BY <1>2
<1>4. Decay(table, n, t) = table[k]
  BY <1>1, <1>3 DEF Decay
<1> QED
  BY <1>2, <1>4

(* Whatever is gated has a priority.                                       *)
LEMMA GatedType ==
    ASSUME NEW candidates, Sound(candidates), NEW c \in candidates, NEW n \in Nat
    PROVE  /\ Gated(c, Cfg, n).priority \in Int /\ Gated(c, Cfg, n).last = c.last
           /\ Gated(c, Cfg, n).story = c.story /\ Gated(c, Cfg, n).natural = NaturalFormat(c)
           /\ Gated(c, Cfg, n).thread = c.thread
           /\ Gated(c, Cfg, n).format = IF Resurfaced(c) THEN "note" ELSE NaturalFormat(c)
           /\ Gated(c, Cfg, n).richness = IF Resurfaced(c) THEN "still developing" ELSE Richness(c)
<1>1. c.last \in Nat /\ c.affinity \in Int /\ c.severity \in Int
  BY DEF Sound
<1>2. Cfg.scopeBonus \in Int /\ Cfg.severityWeight \in Int /\ Cfg.resurfaceDivisor \in Nat \ {0}
  BY ContentAssumption
<1>3. BaseRelevance(c, Cfg) \in Int
  BY <1>2 DEF BaseRelevance
<1>4. PICK r \in Int, s \in Int, t \in Int :
        /\ r = Decay(RecencyTable, n, c.last) /\ s = Decay(SalienceTable, n, c.last)
        /\ t = Decay(ThreadTable, n, c.last)
  BY <1>1, DecayType
<1>5. Priority(c, Cfg, n) \in Int
  <2>1. PICK b \in Int, w \in Int, v \in Int, a \in Int :
          b = BaseRelevance(c, Cfg) /\ w = Cfg.severityWeight /\ v = c.severity /\ a = c.affinity
    BY <1>1, <1>2, <1>3
  <2>2. Priority(c, Cfg, n) = b * r + w * v * s + a * t
    BY <1>4, <2>1 DEF Priority
  <2>3. b * r \in Int /\ w * v \in Int /\ a * t \in Int
    OBVIOUS
  <2>4. w * v * s \in Int
    BY <2>3
  <2> QED
    BY <2>2, <2>3, <2>4
<1>6. Priority(c, Cfg, n) \div Cfg.resurfaceDivisor \in Int
  BY <1>2, <1>5
<1> QED
  BY <1>5, <1>6 DEF Gated

(* Priorities, recencies and ids rank the gated candidates in a total      *)
(* order.                                                                  *)
LEMMA RankingOrder ==
    ASSUME NEW gated, Ranking(gated)
    PROVE  /\ \A g \in gated : ~ Before(g, g)
           /\ \A g, h \in gated : g = h \/ Before(g, h) \/ Before(h, g)
           /\ \A g, h \in gated : Before(g, h) => ~ Before(h, g) /\ g # h
           /\ \A g, h, k \in gated : Before(g, h) /\ Before(h, k) => Before(g, k)
           /\ \A g, h \in gated : Before(g, h) => g.priority > h.priority \/ (g.priority = h.priority /\ g.last >= h.last)
<1>1. \A g \in gated : g.priority \in Int /\ g.last \in Int /\ g.story \in Int
  BY DEF Ranking
<1>2. \A g, h \in gated : g # h => g.story # h.story
  BY DEF Ranking
<1> QED
  BY <1>1, <1>2 DEF Before

(* So the ranks are 0, 1, 2 and so on, and no two are equal.               *)
LEMMA RankNumbers ==
    ASSUME NEW gated, Ranking(gated)
    PROVE  /\ Cardinality(gated) \in Nat
           /\ \A g \in gated : Rank(gated, g) \in 0 .. Cardinality(gated) - 1
           /\ \A g, h \in gated : Before(g, h) <=> Rank(gated, g) < Rank(gated, h)
           /\ \A g, h \in gated : Rank(gated, g) = Rank(gated, h) => g = h
           /\ \A k \in 0 .. Cardinality(gated) - 1 : \E g \in gated : Rank(gated, g) = k
<1> DEFINE Ahead(g) == {h \in gated : Before(h, g)}
           rank == [g \in gated |-> Cardinality(Ahead(g))]
           K == 0 .. Cardinality(gated) - 1
<1>0. IsFiniteSet(gated) /\ Cardinality(gated) \in Nat
  BY FS_CardinalityType DEF Ranking
<1>1. \A g \in gated : IsFiniteSet(Ahead(g)) /\ Cardinality(Ahead(g)) \in Nat
  BY <1>0, FS_Subset, FS_CardinalityType
<1>2. \A g, h \in gated : Before(g, h) => Cardinality(Ahead(g)) < Cardinality(Ahead(h))
  <2> TAKE g, h \in gated
  <2> HAVE Before(g, h)
  <2>1. Ahead(g) \subseteq Ahead(h) /\ g \in Ahead(h) /\ g \notin Ahead(g)
    BY RankingOrder
  <2>2. Ahead(g) # Ahead(h)
    BY <2>1
  <2> QED
    BY <1>1, <2>1, <2>2, FS_Subset
<1>3. \A g \in gated : Cardinality(Ahead(g)) < Cardinality(gated)
  <2> TAKE g \in gated
  <2>1. Ahead(g) \subseteq gated /\ Ahead(g) # gated
    BY RankingOrder
  <2> QED
    BY <2>1, FS_Subset, <1>0, <1>1
<1>4. rank \in [gated -> K]
  BY <1>0, <1>1, <1>3
<1>5. \A g, h \in gated : g # h => rank[g] # rank[h]
  <2> TAKE g, h \in gated
  <2> HAVE g # h
  <2>1. Before(g, h) \/ Before(h, g)
    BY RankingOrder
  <2>2. CASE Before(g, h)
    BY <1>1, <1>2, <2>2
  <2>3. CASE Before(h, g)
    BY <1>1, <1>2, <2>3
  <2> QED
    BY <2>1, <2>2, <2>3
<1>6. rank \in Injection(gated, K)
  BY <1>4, <1>5 DEF Injection, IsInjective
<1>7. IsFiniteSet(K) /\ Cardinality(K) = Cardinality(gated)
  <2>1. PICK n \in Int : n = Cardinality(gated) - 1
    BY <1>0
  <2>2. IsFiniteSet(0 .. n) /\ Cardinality(0 .. n) = IF 0 > n THEN 0 ELSE n - 0 + 1
    BY FS_Interval
  <2> QED
    BY <1>0, <2>1, <2>2
<1>8. rank \in Surjection(gated, K)
  BY <1>6, <1>7, FS_Injection
<1>9. \A g \in gated : Rank(gated, g) = rank[g]
  BY DEF Rank
<1>10. \A g, h \in gated : Before(g, h) <=> rank[g] < rank[h]
  <2> TAKE g, h \in gated
  <2>1. CASE Before(g, h)
    BY <1>2, <2>1
  <2>2. CASE g = h
    BY <1>4, <2>2, RankingOrder
  <2>3. CASE Before(h, g)
    <3>1. rank[h] < rank[g] /\ ~ Before(g, h)
      BY <1>2, <2>3, RankingOrder
    <3> QED
      BY <1>1, <3>1
  <2> QED
    BY <2>1, <2>2, <2>3, RankingOrder
<1> HIDE DEF rank, K
<1>11. \A k \in K : \E g \in gated : rank[g] = k
  BY <1>8 DEF Surjection
<1> QED
  BY <1>0, <1>4, <1>5, <1>9, <1>10, <1>11 DEF K

\* The pass over the ranking, one candidate at a time.
TakeNext(gated, n, T) ==
    LET g == CHOOSE h \in gated : Rank(gated, h) = n - 1
    IN  IF Fits(T, g, Cfg, MaxItems) THEN T \cup {g} ELSE T
RoughTaken(gated, f, n) ==
    f = [i \in 0 .. n |-> IF i = 0 THEN {} ELSE TakeNext(gated, i, f[i - 1])]

(* The recursive function of the pass exists: it is put together step by   *)
(* step.                                                                   *)
LEMMA TakenExists ==
    ASSUME NEW gated
    PROVE  \A n \in Nat : \E f : RoughTaken(gated, f, n)
<1> TAKE n \in Nat
<1> DEFINE G == {k \in Nat : \E f : RoughTaken(gated, f, k)}
<1>1. 0 \in G
  <2> DEFINE f == [i \in 0 .. 0 |-> {}]
  <2>1. RoughTaken(gated, f, 0)
    BY DEF RoughTaken
  <2> QED
    BY <2>1
<1>2. ASSUME NEW k \in Nat, k \in G PROVE k + 1 \in G
  <2>1. PICK f : RoughTaken(gated, f, k)
    BY <1>2
  <2> DEFINE g == [i \in 0 .. k + 1 |-> IF i <= k THEN f[i] ELSE TakeNext(gated, k + 1, f[k])]
  <2>0. \A i \in 0 .. k : f[i] = IF i = 0 THEN {} ELSE TakeNext(gated, i, f[i - 1])
    BY <2>1, Zenon DEF RoughTaken
  <2>2. \A i \in 0 .. k + 1 : g[i] = IF i = 0 THEN {} ELSE TakeNext(gated, i, g[i - 1])
    <3> TAKE i \in 0 .. k + 1
    <3>1. CASE i = 0
      BY <2>0, <3>1
    <3>2. CASE i # 0 /\ i <= k
      <4>1. i \in 0 .. k /\ i - 1 \in 0 .. k
        BY <3>2
      <4>2. g[i] = f[i] /\ g[i - 1] = f[i - 1]
        BY <4>1
      <4> QED
        BY <2>0, <3>2, <4>1, <4>2
    <3>3. CASE i = k + 1
      BY <3>3
    <3> QED
      BY <3>1, <3>2, <3>3
  <2> HIDE DEF g
  <2>3. g = [i \in 0 .. k + 1 |-> g[i]]
    BY DEF g
  <2>4. RoughTaken(gated, g, k + 1)
    BY <2>2, <2>3 DEF RoughTaken
  <2> QED
    BY <2>4
<1>3. 0 .. n \subseteq G
  <2> HIDE DEF G
  <2> QED
    BY <1>1, <1>2, StepByStep
<1> QED
  BY <1>3

(* So the selection is what the last step of the pass has taken.           *)
LEMMA TakenIsLast ==
    ASSUME NEW gated, Cardinality(gated) \in Nat
    PROVE  \E f : RoughTaken(gated, f, Cardinality(gated)) /\ Taken(gated, Cfg, MaxItems) = f[Cardinality(gated)]
<1>1. PICK n \in Nat : n = Cardinality(gated)
  OBVIOUS
<1> DEFINE f == CHOOSE h : h = [i \in 0 .. n |-> IF i = 0 THEN {} ELSE TakeNext(gated, i, h[i - 1])]
<1>2. RoughTaken(gated, f, n)
  <2>1. \E h : RoughTaken(gated, h, n)
    BY TakenExists
  <2> QED
    BY <2>1, Zenon DEF RoughTaken
<1>3. Taken(gated, Cfg, MaxItems) = f[n]
  BY <1>1 DEF Taken, TakeNext
<1> QED
  BY <1>1, <1>2, <1>3

\* Of the first n of the ranking, exactly those are taken that fit beside
\* what was taken before them.
Greedy(gated, T, n) ==
    /\ T \subseteq {g \in gated : Rank(gated, g) < n}
    /\ \A g \in gated : Rank(gated, g) < n =>
          (g \in T <=> Fits({h \in T : Before(h, g)}, g, Cfg, MaxItems))

LEMMA TakeNextGreedy ==
    ASSUME NEW gated, Ranking(gated), NEW n \in Nat, n < Cardinality(gated), NEW T, Greedy(gated, T, n)
    PROVE  Greedy(gated, TakeNext(gated, n + 1, T), n + 1)
<1> DEFINE U == TakeNext(gated, n + 1, T)
<1>1. PICK g \in gated : Rank(gated, g) = n /\ g = (CHOOSE h \in gated : Rank(gated, h) = (n + 1) - 1)
  <2>1. n \in 0 .. Cardinality(gated) - 1 /\ (n + 1) - 1 = n
    BY RankNumbers
  <2> QED
    BY <2>1, RankNumbers
<1>2. U = IF Fits(T, g, Cfg, MaxItems) THEN T \cup {g} ELSE T
  BY <1>1 DEF TakeNext
<1> HIDE DEF U
<1>3. T \subseteq gated /\ g \notin T /\ U \subseteq T \cup {g} /\ T \subseteq U
  BY <1>1, <1>2 DEF Greedy
<1>4. \A h \in gated : Rank(gated, h) \in Nat
  BY RankNumbers
<1>5. \A h \in gated : Rank(gated, h) < n + 1 => Rank(gated, h) < n \/ h = g
  BY <1>1, <1>4, RankNumbers
<1>6. U \subseteq {h \in gated : Rank(gated, h) < n + 1}
  <2>1. \A h \in T : h \in gated /\ Rank(gated, h) < n
    BY DEF Greedy
  <2> QED
    BY <1>1, <1>3, <1>4, <2>1
<1>7. {h \in U : Before(h, g)} = T
  <2>1. \A h \in T : Before(h, g)
    <3>1. \A h \in T : h \in gated /\ Rank(gated, h) < Rank(gated, g)
      BY <1>1 DEF Greedy
    <3> QED
      BY <1>1, <3>1, RankNumbers
  <2>2. ~ Before(g, g)
    BY <1>1, RankingOrder
  <2> QED
    BY <1>3, <2>1, <2>2
<1>8. ASSUME NEW h \in gated, Rank(gated, h) < n
      PROVE  h \in U <=> Fits({k \in U : Before(k, h)}, h, Cfg, MaxItems)
  <2>1. h # g /\ ~ Before(g, h)
    BY <1>1, <1>4, <1>8, RankNumbers
  <2>2. {k \in U : Before(k, h)} = {k \in T : Before(k, h)}
    BY <1>3, <2>1
  <2>3. h \in U <=> h \in T
    BY <1>3, <2>1
  <2> QED
    BY <1>8, <2>2, <2>3 DEF Greedy
<1>9. g \in U <=> Fits({k \in U : Before(k, g)}, g, Cfg, MaxItems)
  BY <1>2, <1>3, <1>7
<1> QED
  BY <1>5, <1>6, <1>8, <1>9 DEF U, Greedy

LEMMA TakenIsGreedy ==
    ASSUME NEW gated, Ranking(gated)
    PROVE  /\ Taken(gated, Cfg, MaxItems) \subseteq gated
           /\ \A g \in gated :
                 g \in Taken(gated, Cfg, MaxItems)
                    <=> Fits({h \in Taken(gated, Cfg, MaxItems) : Before(h, g)}, g, Cfg, MaxItems)
<1>1. PICK n \in Nat : n = Cardinality(gated)
  BY RankNumbers
<1>2. PICK f : RoughTaken(gated, f, n) /\ Taken(gated, Cfg, MaxItems) = f[n]
  BY <1>1, TakenIsLast
<1>3. \A i \in 0 .. n : f[i] = IF i = 0 THEN {} ELSE TakeNext(gated, i, f[i - 1])
  BY <1>2, Zenon DEF RoughTaken
<1> DEFINE G == {i \in Nat : i <= n => Greedy(gated, f[i], i)}
<1>4. 0 \in G
  <2>1. f[0] = {}
    BY <1>3
  <2>2. \A g \in gated : ~ (Rank(gated, g) < 0)
    BY RankNumbers
  <2>3. Greedy(gated, f[0], 0)
    BY <2>1, <2>2 DEF Greedy
  <2> QED
    BY <2>3
<1>5. ASSUME NEW i \in Nat, i < n, i \in G PROVE i + 1 \in G
  <2>1. Greedy(gated, f[i], i) /\ f[i + 1] = TakeNext(gated, i + 1, f[i])
    <3>1. i + 1 \in 0 .. n /\ i + 1 # 0 /\ (i + 1) - 1 = i /\ i <= n
      BY <1>5
    <3> QED
      BY <1>3, <1>5, <3>1
  <2>2. Greedy(gated, f[i + 1], i + 1)
    BY <1>1, <1>5, <2>1, TakeNextGreedy
  <2> QED
    BY <2>2
<1>6. n \in G
  <2> HIDE DEF G
  <2>1. 0 .. n \subseteq G
    BY <1>4, <1>5, StepByStep
  <2> QED
    BY <2>1
<1>7. Greedy(gated, f[n], n)
  BY <1>6
<1>8. \A g \in gated : Rank(gated, g) < n
  BY <1>1, RankNumbers
<1> QED
  BY <1>2, <1>7, <1>8 DEF Greedy

(* A budget that everyone taken found a place in is not exceeded: the last *)
(* of them found all the others before it.                                 *)
LEMMA LastInRank ==
    ASSUME NEW gated, Ranking(gated), NEW S \in SUBSET gated, S # {}
    PROVE  \E x \in S : \A y \in S : y = x \/ Before(y, x)
<1>1. IsFiniteSet(S)
  BY FS_Subset DEF Ranking
<1> DEFINE R == {Rank(gated, g) : g \in S}
<1>2. IsFiniteSet(R) /\ R \subseteq Nat /\ R # {}
  <2>1. PICK n \in Int : n = Cardinality(gated) - 1
    BY RankNumbers
  <2>2. R \subseteq 0 .. n
    BY <2>1, RankNumbers
  <2>3. IsFiniteSet(0 .. n)
    BY FS_Interval
  <2>4. IsFiniteSet(R)
    BY <2>2, <2>3, FS_Subset
  <2> QED
    BY <2>2, <2>4
<1>3. PICK r \in R : \A q \in R : q <= r
  <2> HIDE DEF R
  <2> QED
    BY <1>2, GreatestNatural
<1>4. PICK x \in S : Rank(gated, x) = r
  OBVIOUS
<1>5. ASSUME NEW y \in S PROVE y = x \/ Before(y, x)
  <2>1. Rank(gated, y) <= Rank(gated, x) /\ Rank(gated, y) \in Nat /\ Rank(gated, x) \in Nat
    BY <1>3, <1>4, RankNumbers
  <2> QED
    BY <2>1, RankNumbers
<1> QED
  BY <1>5

LEMMA BudgetHolds ==
    ASSUME NEW gated, Ranking(gated), NEW S \in SUBSET gated, NEW cap \in Nat,
           \A x \in S : Cardinality({h \in S : Before(h, x)}) < cap
    PROVE  Cardinality(S) <= cap
<1>1. IsFiniteSet(S) /\ Cardinality(S) \in Nat
  BY FS_Subset, FS_CardinalityType DEF Ranking
<1>2. CASE S = {}
  BY <1>2, FS_EmptySet
<1>3. CASE S # {}
  <2>1. PICK x \in S : \A y \in S : y = x \/ Before(y, x)
    BY <1>3, LastInRank
  <2>2. {h \in S : Before(h, x)} = S \ {x}
    BY <2>1, RankingOrder
  <2>3. Cardinality(S \ {x}) = Cardinality(S) - 1
    BY <1>1, <2>1, FS_RemoveElement
  <2>4. Cardinality(S \ {x}) < cap
    BY <2>1, <2>2
  <2> QED
    BY <1>1, <2>3, <2>4
<1> QED
  BY <1>2, <1>3

-----------------------------------------------------------------------------
(* The parts of a selection.                                               *)
Passing(candidates, n, floor) ==
    {Gated(c, Cfg, n) : c \in {d \in candidates : Gate(d, Cfg, floor) = "gated"}}
Placed(taken) == [g \in taken |-> Decided(g, "selected", Rank(taken, g))]

LEMMA ImageCount ==
    ASSUME NEW S, IsFiniteSet(S), NEW f
    PROVE  /\ IsFiniteSet({f[x] : x \in S}) /\ Cardinality({f[x] : x \in S}) \in Nat
           /\ Cardinality({f[x] : x \in S}) <= Cardinality(S)
           /\ (\A x, y \in S : f[x] = f[y] => x = y) => Cardinality({f[x] : x \in S}) = Cardinality(S)
<1> DEFINE T == {f[x] : x \in S}
           g == [x \in S |-> f[x]]
<1>1. g \in Surjection(S, T)
  BY DEF Surjection
<1>2. (\A x, y \in S : f[x] = f[y] => x = y) => g \in Injection(S, T)
  BY DEF Injection, IsInjective
<1> HIDE DEF T, g
<1>3. IsFiniteSet(T) /\ Cardinality(T) <= Cardinality(S) /\ (Cardinality(T) = Cardinality(S) <=> g \in Injection(S, T))
  BY <1>1, FS_Surjection
<1>4. Cardinality(T) \in Nat
  BY <1>3, FS_CardinalityType
<1> QED
  BY <1>2, <1>3, <1>4 DEF T

LEMMA PassingRanks ==
    ASSUME NEW candidates, Sound(candidates), NEW n \in Nat, NEW floor
    PROVE  Ranking(Passing(candidates, n, floor))
<1> DEFINE S == {d \in candidates : Gate(d, Cfg, floor) = "gated"}
           f == [c \in S |-> Gated(c, Cfg, n)]
<1>1. IsFiniteSet(S)
  BY FS_Subset DEF Sound
<1>2. Passing(candidates, n, floor) = {f[c] : c \in S}
  BY DEF Passing
<1>3. IsFiniteSet({f[c] : c \in S})
  <2> HIDE DEF f, S
  <2> QED
    BY <1>1, ImageCount
<1>4. \A c \in S : f[c].story = c.story /\ f[c].last = c.last /\ f[c].priority \in Int
  BY GatedType
<1>5. \A c \in S : c.story \in Nat /\ c.last \in Nat
  BY DEF Sound
<1>6. \A b, c \in S : b.story = c.story => b = c
  BY DEF Sound
<1> HIDE DEF f, S
<1> QED
  BY <1>2, <1>3, <1>4, <1>5, <1>6 DEF Ranking

LEMMA SelectParts ==
    ASSUME NEW candidates, NEW n, NEW floor, NEW gated, NEW taken,
           gated = Passing(candidates, n, floor), taken = Taken(gated, Cfg, MaxItems)
    PROVE  /\ Select(candidates, Cfg, MaxItems, n, floor) =
                  {Placed(taken)[g] : g \in taken}
                  \cup {Decided(g, "over_cap", Rank(gated, g)) : g \in gated \ taken}
                  \cup {Dropped(c, Cfg, floor) : c \in {d \in candidates : Gate(d, Cfg, floor) # "gated"}}
           /\ Selected(Select(candidates, Cfg, MaxItems, n, floor)) = {Placed(taken)[g] : g \in taken}
<1> DEFINE D == {Dropped(c, Cfg, floor) : c \in {d \in candidates : Gate(d, Cfg, floor) # "gated"}}
           O == {Decided(g, "over_cap", Rank(gated, g)) : g \in gated \ taken}
           P == {Placed(taken)[g] : g \in taken}
<1>1. P = {Decided(g, "selected", Rank(taken, g)) : g \in taken}
  BY DEF Placed
<1>2. Select(candidates, Cfg, MaxItems, n, floor) = P \cup O \cup D
  <2> DEFINE E(s, h) == {Decided(g, "selected", Rank(s, g)) : g \in s}
                        \cup {Decided(g, "over_cap", Rank(h, g)) : g \in h \ s}
             F(h) == UNION {E(s, h) : s \in {Taken(h, Cfg, MaxItems)}}
  <2>1. Select(candidates, Cfg, MaxItems, n, floor) = (UNION {F(h) : h \in {gated}}) \cup D
    BY DEF Select, Passing
  <2>2. E(taken, gated) = P \cup O
    BY <1>1
  <2>3. F(gated) = UNION {E(s, gated) : s \in {taken}}
    OBVIOUS
  <2> HIDE DEF E, P, O, D
  <2>4. F(gated) = P \cup O
    BY <2>2, <2>3
  <2> HIDE DEF F
  <2>5. {F(h) : h \in {gated}} = {F(gated)}
    OBVIOUS
  <2>6. UNION {F(h) : h \in {gated}} = F(gated)
    BY <2>5
  <2> QED
    BY <2>1, <2>4, <2>6
<1>3. \A x \in P : x.verdict = "selected"
  BY <1>1 DEF Decided
<1>4. \A x \in O : x.verdict = "over_cap"
  BY DEF Decided
<1>5. \A x \in D : x.verdict \in {"stale_for_cadence", "below_floor"}
  BY DEF Dropped, Gate
<1> HIDE DEF P, O, D
<1>6. Selected(P \cup O \cup D) = P
  BY <1>3, <1>4, <1>5 DEF Selected
<1> QED
  BY <1>2, <1>6 DEF P, O, D

(* A decision has the place of its kind, and the rest from what is ranked. *)
LEMMA DecidedFields ==
    ASSUME NEW g, NEW verdict, NEW place
    PROVE  LET d == Decided(g, verdict, place)
           IN  /\ d.story = g.story /\ d.last = g.last /\ d.priority = g.priority /\ d.natural = g.natural
               /\ d.format = g.format /\ d.richness = g.richness /\ d.thread = g.thread
               /\ d.verdict = verdict /\ d.place = place
BY DEF Decided

(* The decisions that select are as many as what they select.              *)
LEMMA PlacedCount ==
    ASSUME NEW gated, Ranking(gated), NEW taken \in SUBSET gated, NEW S \in SUBSET taken
    PROVE  /\ IsFiniteSet(S) /\ Cardinality(S) \in Nat /\ IsFiniteSet({Placed(taken)[g] : g \in S})
           /\ Cardinality({Placed(taken)[g] : g \in S}) = Cardinality(S)
<1>1. IsFiniteSet(S) /\ Cardinality(S) \in Nat
  BY FS_Subset, FS_CardinalityType DEF Ranking
<1>2. \A g \in S : Placed(taken)[g].story = g.story
  BY DecidedFields DEF Placed
<1>3. \A g, h \in S : Placed(taken)[g] = Placed(taken)[h] => g = h
  BY <1>2 DEF Ranking
<1> QED
  BY <1>1, <1>3, ImageCount

(* A candidate whose budgets are used up by better ones is the only one    *)
(* over a cap, and no budget is exceeded.                                  *)
LEMMA OverCapIsFull ==
    ASSUME NEW gated, Ranking(gated), NEW taken, taken = Taken(gated, Cfg, MaxItems),
           NEW g \in gated \ taken, NEW d, d = Decided(g, "over_cap", Rank(gated, g)),
           NEW ahead, ahead = {x \in {Placed(taken)[h] : h \in taken} : Outranks(x, d)}
    PROVE  Exhausted(ahead, d, 0)
<1> DEFINE A == {h \in taken : Before(h, g)}
           B == {Placed(taken)[h] : h \in A}
<1>1. taken \subseteq gated /\ ~ Fits(A, g, Cfg, MaxItems)
  BY TakenIsGreedy
<1>2. \A h \in taken : LET x == Placed(taken)[h]
                       IN  x.format = h.format /\ x.richness = h.richness /\ x.thread = h.thread
                           /\ x.priority = h.priority /\ x.last = h.last /\ x.story = h.story
  BY DecidedFields DEF Placed
<1>3. d.format = g.format /\ d.richness = g.richness /\ d.thread = g.thread
      /\ d.priority = g.priority /\ d.last = g.last
  BY DecidedFields
<1>4. B \subseteq ahead
  <2>1. \A h \in A : Outranks(Placed(taken)[h], d)
    BY <1>1, <1>2, <1>3, RankingOrder DEF Outranks
  <2> QED
    BY <2>1
<1>5. IsFiniteSet(ahead)
  <2>0. taken \in SUBSET gated /\ taken \in SUBSET taken
    BY <1>1
  <2>1. IsFiniteSet({Placed(taken)[h] : h \in taken})
    BY <2>0, PlacedCount
  <2> QED
    BY <2>1, FS_Subset
<1>6. ASSUME NEW S \in SUBSET A, NEW X \in SUBSET ahead, \A h \in S : Placed(taken)[h] \in X, NEW cap \in Nat,
             ~ (Cardinality(S) < cap)
      PROVE  Cardinality(X) >= cap + 0
  <2>1. {Placed(taken)[h] : h \in S} \subseteq X
    BY <1>6
  <2>2. S \in SUBSET taken /\ taken \in SUBSET gated
    BY <1>1
  <2>3. Cardinality({Placed(taken)[h] : h \in S}) = Cardinality(S) /\ Cardinality(S) \in Nat
    BY <2>2, PlacedCount
  <2>4. IsFiniteSet(X) /\ Cardinality(X) \in Nat
    BY <1>5, FS_Subset, FS_CardinalityType
  <2>5. Cardinality({Placed(taken)[h] : h \in S}) <= Cardinality(X)
    BY <2>1, <2>4, FS_Subset
  <2> QED
    BY <1>6, <2>3, <2>4, <2>5
<1>7. /\ Cfg.storyCap \in Nat /\ Cfg.noteCap \in Nat /\ Cfg.threadCap \in Nat /\ Cfg.resurfaceCap \in Nat
      /\ MaxItems \in Nat
  BY ContentAssumption
<1>8. \A h \in A : Placed(taken)[h] \in ahead
  BY <1>4
<1> HIDE DEF A, B
<1>9. CASE ~ (Cardinality({h \in A : h.format = g.format}) < Capacity(g.format))
  <2>1. Capacity(g.format) \in Nat
    BY <1>7 DEF Capacity
  <2>2. \A h \in {k \in A : k.format = g.format} : Placed(taken)[h] \in {x \in ahead : x.format = d.format}
    BY <1>2, <1>3, <1>8 DEF A
  <2>3. Cardinality({x \in ahead : x.format = d.format}) >= Capacity(g.format) + 0
    BY <1>6, <1>9, <2>1, <2>2
  <2> QED
    BY <1>3, <2>3 DEF Exhausted
<1>10. CASE /\ g.richness = "still developing"
            /\ ~ (Cardinality({h \in A : h.richness = "still developing"}) < Cfg.resurfaceCap)
  <2>1. \A h \in {k \in A : k.richness = "still developing"} : Placed(taken)[h] \in {x \in ahead : x.richness = d.richness}
    BY <1>2, <1>3, <1>8, <1>10 DEF A
  <2>2. Cardinality({x \in ahead : x.richness = d.richness}) >= Cfg.resurfaceCap + 0
    BY <1>6, <1>7, <1>10, <2>1
  <2> QED
    BY <1>3, <1>10, <2>2 DEF Exhausted
<1>11. CASE /\ Cfg.threadCap > 0
            /\ \E t \in g.thread : ~ (Cardinality({h \in A : t \in h.thread}) < Cfg.threadCap)
  <2>1. PICK t \in g.thread : ~ (Cardinality({h \in A : t \in h.thread}) < Cfg.threadCap)
    BY <1>11
  <2>2. \A h \in {k \in A : t \in k.thread} : Placed(taken)[h] \in {x \in ahead : t \in x.thread}
    BY <1>2, <1>8 DEF A
  <2>3. Cardinality({x \in ahead : t \in x.thread}) >= Cfg.threadCap + 0
    BY <1>6, <1>7, <2>1, <2>2
  <2> QED
    BY <1>3, <1>11, <2>1, <2>3 DEF Exhausted
<1>12. CASE ~ (Cardinality(A) < MaxItems)
  <2>1. Cardinality(ahead) >= MaxItems + 0
    BY <1>6, <1>7, <1>8, <1>12
  <2> QED
    BY <2>1 DEF Exhausted
<1> QED
  BY <1>1, <1>9, <1>10, <1>11, <1>12 DEF Fits, Capacity

LEMMA NoneOverBudget ==
    ASSUME NEW gated, Ranking(gated), NEW taken, taken = Taken(gated, Cfg, MaxItems),
           NEW g \in taken, NEW d, d = Placed(taken)[g],
           NEW selected, selected = {Placed(taken)[h] : h \in taken}
    PROVE  ~ Exhausted(selected, d, 1)
<1>1. taken \subseteq gated /\ \A h \in taken : Fits({k \in taken : Before(k, h)}, h, Cfg, MaxItems)
  BY TakenIsGreedy
<1>2. \A h \in taken : LET x == Placed(taken)[h]
                       IN  x.format = h.format /\ x.richness = h.richness /\ x.thread = h.thread
  BY DecidedFields DEF Placed
<1>3. /\ Cfg.storyCap \in Nat /\ Cfg.noteCap \in Nat /\ Cfg.threadCap \in Nat /\ Cfg.resurfaceCap \in Nat
      /\ MaxItems \in Nat
  BY ContentAssumption
<1>4. ASSUME NEW S \in SUBSET taken, NEW X, X = {Placed(taken)[h] : h \in S}, NEW cap \in Nat,
             \A h \in S : Cardinality({k \in S : Before(k, h)}) < cap
      PROVE  ~ (Cardinality(X) >= cap + 1)
  <2>1. S \in SUBSET gated /\ taken \in SUBSET gated
    BY <1>1
  <2>2. Cardinality(S) <= cap
    <3>1. \A h \in S : Cardinality({k \in S : Before(k, h)}) < cap
      BY <1>4
    <3> HIDE DEF Ranking
    <3> QED
      BY <2>1, <3>1, BudgetHolds
  <2>3. Cardinality({Placed(taken)[h] : h \in S}) = Cardinality(S) /\ Cardinality(S) \in Nat
    BY <2>1, PlacedCount
  <2>4. Cardinality(X) = Cardinality(S) /\ Cardinality(S) \in Nat
    BY <1>4, <2>3
  <2> QED
    BY <2>2, <2>4
<1>5. ~ (Cardinality({x \in selected : x.format = d.format}) >= Capacity(d.format) + 1)
  <2> DEFINE S == {h \in taken : h.format = g.format}
  <2>1. {x \in selected : x.format = d.format} = {Placed(taken)[h] : h \in S}
    BY <1>2
  <2>2. Capacity(d.format) \in Nat /\ d.format = g.format
    BY <1>2, <1>3 DEF Capacity
  <2>3. ASSUME NEW h \in S PROVE Cardinality({k \in S : Before(k, h)}) < Capacity(d.format)
    <3>1. {k \in S : Before(k, h)} = {k \in {j \in taken : Before(j, h)} : k.format = h.format}
      OBVIOUS
    <3> QED
      BY <1>1, <2>2, <3>1 DEF Fits, Capacity
  <2> HIDE DEF S
  <2> QED
    BY <1>4, <2>1, <2>2, <2>3 DEF S
<1>6. ~ (Cardinality(selected) >= MaxItems + 1)
  <2>1. \A h \in taken : Cardinality({k \in taken : Before(k, h)}) < MaxItems
    BY <1>1 DEF Fits
  <2> QED
    BY <1>3, <1>4, <2>1
<1>7. ~ (d.richness = "still developing" /\ Cardinality({x \in selected : x.richness = d.richness}) >= Cfg.resurfaceCap + 1)
  <2> SUFFICES ASSUME d.richness = "still developing"
               PROVE  ~ (Cardinality({x \in selected : x.richness = d.richness}) >= Cfg.resurfaceCap + 1)
    OBVIOUS
  <2> DEFINE S == {h \in taken : h.richness = "still developing"}
  <2>1. {x \in selected : x.richness = d.richness} = {Placed(taken)[h] : h \in S}
    <3>1. \A h \in taken : Placed(taken)[h].richness = d.richness <=> h \in S
      BY <1>2
    <3> HIDE DEF S
    <3>2. S \subseteq taken
      BY DEF S
    <3> QED
      BY <3>1, <3>2
  <2>2. ASSUME NEW h \in S PROVE Cardinality({k \in S : Before(k, h)}) < Cfg.resurfaceCap
    <3>1. {k \in S : Before(k, h)} = {k \in {j \in taken : Before(j, h)} : k.richness = "still developing"}
      OBVIOUS
    <3> QED
      BY <1>1, <3>1 DEF Fits
  <2> HIDE DEF S
  <2> QED
    BY <1>3, <1>4, <2>1, <2>2 DEF S
<1>8. ~ (Cfg.threadCap > 0 /\ \E t \in d.thread : Cardinality({x \in selected : t \in x.thread}) >= Cfg.threadCap + 1)
  <2> SUFFICES ASSUME Cfg.threadCap > 0, NEW t \in d.thread
               PROVE  ~ (Cardinality({x \in selected : t \in x.thread}) >= Cfg.threadCap + 1)
    OBVIOUS
  <2> DEFINE S == {h \in taken : t \in h.thread}
  <2>1. {x \in selected : t \in x.thread} = {Placed(taken)[h] : h \in S}
    BY <1>2
  <2>2. ASSUME NEW h \in S PROVE Cardinality({k \in S : Before(k, h)}) < Cfg.threadCap
    <3>1. {k \in S : Before(k, h)} = {k \in {j \in taken : Before(j, h)} : t \in k.thread}
      OBVIOUS
    <3> QED
      BY <1>1, <3>1 DEF Fits
  <2> HIDE DEF S
  <2> QED
    BY <1>3, <1>4, <2>1, <2>2 DEF S
<1> QED
  BY <1>5, <1>6, <1>7, <1>8 DEF Exhausted

(* So a selection leaves no one over a cap for another reason, and exceeds *)
(* no budget.                                                              *)
LEMMA SelectIsSound ==
    ASSUME NEW candidates, Sound(candidates), NEW n \in Nat, NEW floor
    PROVE  SoundLog(Select(candidates, Cfg, MaxItems, n, floor))
<1>1. PICK gated, taken : gated = Passing(candidates, n, floor) /\ taken = Taken(gated, Cfg, MaxItems)
  OBVIOUS
<1>2. Ranking(gated) /\ taken \subseteq gated
  BY <1>1, PassingRanks, TakenIsGreedy
<1> DEFINE entries == Select(candidates, Cfg, MaxItems, n, floor)
           P == {Placed(taken)[g] : g \in taken}
           O == {Decided(g, "over_cap", Rank(gated, g)) : g \in gated \ taken}
           D == {Dropped(c, Cfg, floor) : c \in {d \in candidates : Gate(d, Cfg, floor) # "gated"}}
<1>3. entries = P \cup O \cup D /\ Selected(entries) = P
  BY <1>1, SelectParts
<1>4. /\ \A d \in P : d.verdict = "selected"
      /\ \A d \in O : d.verdict = "over_cap"
      /\ \A d \in D : d.verdict \notin {"selected", "over_cap"}
  <2>1. \A g \in taken : Placed(taken)[g].verdict = "selected"
    BY DecidedFields DEF Placed
  <2>2. \A g \in gated \ taken : Decided(g, "over_cap", Rank(gated, g)).verdict = "over_cap"
    BY DecidedFields
  <2>3. \A c : Dropped(c, Cfg, floor).verdict = Gate(c, Cfg, floor)
    BY DEF Dropped
  <2> QED
    BY <2>1, <2>2, <2>3 DEF Gate
<1>5. ASSUME NEW d \in P PROVE ~ Exhausted(P, d, 1)
  BY <1>1, <1>2, NoneOverBudget
<1>6. ASSUME NEW d \in O PROVE Exhausted({x \in P : Outranks(x, d)}, d, 0)
  BY <1>1, <1>2, OverCapIsFull
<1> HIDE DEF entries, P, O, D
<1>7. SoundLog(entries)
  BY <1>3, <1>4, <1>5, <1>6 DEF SoundLog
<1> QED
  BY <1>7 DEF entries

\* A decision is the one about a candidate.
About(d, c) ==
    /\ d.story = c.story /\ d.last = c.last /\ d.natural = NaturalFormat(c) /\ d.thread = c.thread
    /\ Ranked(d) => /\ d.format = (IF Resurfaced(c) THEN "note" ELSE NaturalFormat(c))
                    /\ d.richness = (IF Resurfaced(c) THEN "still developing" ELSE Richness(c))

LEMMA DecisionsAbout ==
    ASSUME NEW candidates, Sound(candidates), NEW n \in Nat, NEW floor
    PROVE  LET entries == Select(candidates, Cfg, MaxItems, n, floor)
           IN  /\ \A d \in entries : \E c \in candidates : About(d, c)
               /\ \A d, e \in entries : d.story = e.story => d = e
<1>1. PICK gated, taken : gated = Passing(candidates, n, floor) /\ taken = Taken(gated, Cfg, MaxItems)
  OBVIOUS
<1>2. Ranking(gated) /\ taken \subseteq gated
  BY <1>1, PassingRanks, TakenIsGreedy
<1> DEFINE C == {d \in candidates : Gate(d, Cfg, floor) = "gated"}
           B == {d \in candidates : Gate(d, Cfg, floor) # "gated"}
           P == {Placed(taken)[g] : g \in taken}
           O == {Decided(g, "over_cap", Rank(gated, g)) : g \in gated \ taken}
           D == {Dropped(c, Cfg, floor) : c \in B}
<1>3. Select(candidates, Cfg, MaxItems, n, floor) = P \cup O \cup D
  BY <1>1, SelectParts
<1>4. \A g \in gated : \E c \in C : g = Gated(c, Cfg, n)
  BY <1>1 DEF Passing
<1>5. ASSUME NEW g, NEW c \in C, g = Gated(c, Cfg, n), NEW verdict, NEW place
      PROVE  About(Decided(g, verdict, place), c)
  <2>1. c \in candidates
    OBVIOUS
  <2>2. /\ g.last = c.last /\ g.story = c.story /\ g.natural = NaturalFormat(c) /\ g.thread = c.thread
        /\ g.format = (IF Resurfaced(c) THEN "note" ELSE NaturalFormat(c))
        /\ g.richness = (IF Resurfaced(c) THEN "still developing" ELSE Richness(c))
    BY <1>5, <2>1, GatedType
  <2> DEFINE d == Decided(g, verdict, place)
  <2>3. /\ d.story = g.story /\ d.last = g.last /\ d.natural = g.natural
        /\ d.format = g.format /\ d.richness = g.richness /\ d.thread = g.thread
    BY DecidedFields
  <2> HIDE DEF d
  <2>4. About(d, c)
    BY <2>2, <2>3 DEF About
  <2> QED
    BY <2>4 DEF d
<1>6. ASSUME NEW c \in B PROVE About(Dropped(c, Cfg, floor), c)
  <2>1. ~ Ranked(Dropped(c, Cfg, floor))
    BY DEF Ranked, Dropped, Gate
  <2> QED
    BY <2>1 DEF About, Dropped
<1>7. \A d \in P : \E g \in taken : d = Decided(g, "selected", Rank(taken, g)) /\ d.story = g.story
  BY DecidedFields DEF Placed
<1>8. \A d \in O : \E g \in gated \ taken : d = Decided(g, "over_cap", Rank(gated, g)) /\ d.story = g.story
  BY DecidedFields
<1>9. \A d \in D : \E c \in B : d = Dropped(c, Cfg, floor) /\ d.story = c.story
  BY DEF Dropped
<1>10. \A g \in gated : \A c \in B : g.story # c.story
  <2>1. \A b \in C : \A c \in B : b.story # c.story
    BY DEF Sound
  <2>2. \A c \in C : Gated(c, Cfg, n).story = c.story
    BY GatedType
  <2> QED
    BY <1>4, <2>1, <2>2
<1>11. \A g, h \in gated : g.story = h.story => g = h
  BY <1>2 DEF Ranking
<1>12. \A b, c \in B : b.story = c.story => b = c
  BY DEF Sound
<1>13. C \subseteq candidates /\ B \subseteq candidates
  OBVIOUS
<1> HIDE DEF P, O, D, B, C
<1>14. \A d \in P \cup O \cup D : \E c \in candidates : About(d, c)
  <2>1. \A d \in P : \E c \in candidates : About(d, c)
    BY <1>2, <1>4, <1>5, <1>7, <1>13
  <2>2. \A d \in O : \E c \in candidates : About(d, c)
    BY <1>4, <1>5, <1>8, <1>13
  <2>3. \A d \in D : \E c \in candidates : About(d, c)
    BY <1>6, <1>9, <1>13
  <2> QED
    BY <2>1, <2>2, <2>3
<1>15. \A d, e \in P \cup O \cup D : d.story = e.story => d = e
  <2>1. \A d \in P \cup O : \E g \in gated : d.story = g.story
    BY <1>2, <1>7, <1>8
  <2>2. \A d \in P \cup O : \A e \in D : d.story # e.story
    BY <1>9, <1>10, <2>1
  <2>3. \A d, e \in D : d.story = e.story => d = e
    BY <1>9, <1>12
  <2>4. \A d, e \in P \cup O : d.story = e.story => d = e
    BY <1>2, <1>7, <1>8, <1>11
  <2> QED
    BY <2>2, <2>3, <2>4
<1> QED
  BY <1>3, <1>14, <1>15

(* The selected have the places 0, 1, 2 and so on.                         *)
LEMMA SelectedPlaces ==
    ASSUME NEW candidates, Sound(candidates), NEW n \in Nat, NEW floor
    PROVE  LET chosen == Selected(Select(candidates, Cfg, MaxItems, n, floor))
           IN  /\ IsFiniteSet(chosen) /\ Cardinality(chosen) \in Nat
               /\ \A k \in 0 .. Cardinality(chosen) - 1 : \E d \in chosen : d.place = k
               /\ \A d, e \in chosen : d.place = e.place => d = e
               /\ Cardinality({d \in chosen : d.richness = "still developing"}) <= Cfg.resurfaceCap
<1>1. PICK gated, taken : gated = Passing(candidates, n, floor) /\ taken = Taken(gated, Cfg, MaxItems)
  OBVIOUS
<1>2. Ranking(gated) /\ taken \in SUBSET gated /\ taken \in SUBSET taken
  BY <1>1, PassingRanks, TakenIsGreedy
<1>3. Ranking(taken)
  BY <1>2, FS_Subset DEF Ranking
<1> DEFINE P == {Placed(taken)[g] : g \in taken}
           entries == Select(candidates, Cfg, MaxItems, n, floor)
<1>4. Selected(entries) = P
  BY <1>1, SelectParts
<1>5. IsFiniteSet(P) /\ Cardinality(P) = Cardinality(taken) /\ Cardinality(taken) \in Nat
  <2>1. PICK Q : Q = {Placed(taken)[g] : g \in taken}
    OBVIOUS
  <2>2. IsFiniteSet(Q) /\ Cardinality(Q) = Cardinality(taken) /\ Cardinality(taken) \in Nat
    <3> HIDE DEF P, entries
    <3> QED
      BY <1>2, <2>1, PlacedCount
  <2> QED
    BY <2>1, <2>2
<1>6. \A g \in taken : Placed(taken)[g].place = Rank(taken, g)
  BY DecidedFields DEF Placed
<1>7. \A k \in 0 .. Cardinality(taken) - 1 : \E d \in P : d.place = k
  BY <1>3, <1>6, RankNumbers
<1>8. \A d, e \in P : d.place = e.place => d = e
  BY <1>3, <1>6, RankNumbers
<1>9. Cardinality({d \in P : d.richness = "still developing"}) <= Cfg.resurfaceCap
  <2> DEFINE S == {d \in P : d.richness = "still developing"}
  <2>0. Cfg.resurfaceCap \in Nat
    BY ContentAssumption
  <2>1. CASE S = {}
    <3>1. Cardinality(S) = 0
      BY <2>1, FS_EmptySet
    <3>2. Cardinality(S) <= Cfg.resurfaceCap
      <4> HIDE DEF S
      <4> QED
        BY <2>0, <3>1
    <3> QED
      BY <3>2
  <2>2. ASSUME NEW x \in S PROVE Cardinality(S) <= Cfg.resurfaceCap
    <3>1. SoundLog(entries) /\ x \in entries /\ x.verdict = "selected"
      <4>1. x \in Selected(entries)
        BY <1>4
      <4> QED
        BY <4>1, SelectIsSound DEF Selected
    <3>2. ~ Exhausted(P, x, 1)
      BY <1>4, <3>1 DEF SoundLog
    <3>3. {d \in P : d.richness = x.richness} = S /\ x.richness = "still developing"
      OBVIOUS
    <3>4. ~ (Cardinality(S) >= Cfg.resurfaceCap + 1)
      BY <3>2, <3>3 DEF Exhausted
    <3>5. Cardinality(S) \in Nat
      BY <1>5, FS_Subset, FS_CardinalityType
    <3>6. PICK k \in Nat, m \in Nat : k = Cardinality(S) /\ m = Cfg.resurfaceCap
      BY <2>0, <3>5
    <3> HIDE DEF S
    <3> QED
      BY <3>4, <3>6
  <2> QED
    BY <2>1, <2>2
<1> HIDE DEF P
<1> QED
  BY <1>4, <1>5, <1>7, <1>8, <1>9

-----------------------------------------------------------------------------
(* Sums over a finite set, as FiniteSetsExt folds them: an element at a    *)
(* time.                                                                   *)
Pick(s) == CHOOSE x \in s : TRUE
Folds(W, S, f) == f = [s \in S |-> IF s = {} THEN 0 ELSE W[Pick(s)] + f[s \ {Pick(s)}]]

LEMMA SumExists ==
    ASSUME NEW S, IsFiniteSet(S), NEW W
    PROVE  \E f : Folds(W, SUBSET S, f)
<1> DEFINE L(n) == {s \in SUBSET S : Cardinality(s) <= n}
           G == {n \in Nat : \E f : Folds(W, L(n), f)}
<1>1. \A s \in SUBSET S : IsFiniteSet(s) /\ Cardinality(s) \in Nat
  BY FS_Subset, FS_CardinalityType
<1>2. \A s \in SUBSET S : s # {} => /\ Pick(s) \in s /\ s \ {Pick(s)} \in SUBSET S
                                    /\ Cardinality(s \ {Pick(s)}) = Cardinality(s) - 1
  <2> TAKE s \in SUBSET S
  <2> HAVE s # {}
  <2>1. Pick(s) \in s
    BY DEF Pick
  <2> QED
    BY <1>1, <2>1, FS_RemoveElement
<1>3. 0 \in G
  <2> DEFINE f == [s \in L(0) |-> 0]
  <2>1. \A s \in L(0) : s = {}
    BY <1>1, FS_EmptySet
  <2>2. Folds(W, L(0), f)
    BY <2>1 DEF Folds
  <2> QED
    BY <2>2
<1>4. ASSUME NEW n \in Nat, n \in G PROVE n + 1 \in G
  <2>1. PICK f : Folds(W, L(n), f)
    BY <1>4
  <2> DEFINE g == [s \in L(n + 1) |-> IF s \in L(n) THEN f[s] ELSE W[Pick(s)] + f[s \ {Pick(s)}]]
  <2>2. \A s \in L(n) : f[s] = IF s = {} THEN 0 ELSE W[Pick(s)] + f[s \ {Pick(s)}]
    BY <2>1, Zenon DEF Folds
  <2>3. \A s \in L(n + 1) : s # {} => s \ {Pick(s)} \in L(n)
    BY <1>1, <1>2
  <2>4. \A s \in L(n) : s \in L(n + 1)
    BY <1>1
  <2>5. {} \in L(n)
    BY FS_EmptySet
  <2> HIDE DEF L
  <2>6. \A s \in L(n) : g[s] = f[s]
    BY <2>4
  <2>7. \A s \in L(n + 1) : g[s] = IF s = {} THEN 0 ELSE W[Pick(s)] + g[s \ {Pick(s)}]
    <3> TAKE s \in L(n + 1)
    <3>1. CASE s = {}
      BY <2>2, <2>5, <2>6, <3>1
    <3>2. CASE s # {} /\ s \in L(n)
      BY <2>2, <2>3, <2>6, <3>2
    <3>3. CASE s # {} /\ s \notin L(n)
      <4>1. g[s] = W[Pick(s)] + f[s \ {Pick(s)}]
        BY <3>3
      <4> QED
        BY <2>3, <2>6, <3>3, <4>1
    <3> QED
      BY <3>1, <3>2, <3>3
  <2>8. g = [s \in L(n + 1) |-> g[s]]
    OBVIOUS
  <2> HIDE DEF g
  <2>9. Folds(W, L(n + 1), g)
    BY <2>7, <2>8 DEF Folds
  <2> QED
    BY <2>9
<1>5. PICK n \in Nat : n = Cardinality(S)
  BY FS_CardinalityType
<1>6. n \in G
  <2> HIDE DEF G
  <2>1. 0 .. n \subseteq G
    BY <1>3, <1>4, StepByStep
  <2> QED
    BY <2>1
<1>7. L(n) = SUBSET S
  BY <1>1, <1>5, FS_Subset
<1> QED
  BY <1>6, <1>7

(* A sum of naturals is one; of positive ones it is at least each of them, *)
(* and at least their number.                                              *)
LEMMA FoldStep ==
    ASSUME NEW S, IsFiniteSet(S)
    PROVE  /\ \A s \in SUBSET S : IsFiniteSet(s) /\ Cardinality(s) \in Nat /\ (Cardinality(s) = 0 => s = {})
           /\ \A s \in SUBSET S : s # {} => /\ Pick(s) \in s /\ s \ {Pick(s)} \in SUBSET S
                                           /\ Cardinality(s \ {Pick(s)}) = Cardinality(s) - 1
<1>1. \A s \in SUBSET S : IsFiniteSet(s) /\ Cardinality(s) \in Nat
  BY FS_Subset, FS_CardinalityType
<1>2. \A s \in SUBSET S : s # {} => /\ Pick(s) \in s /\ s \ {Pick(s)} \in SUBSET S
                                    /\ Cardinality(s \ {Pick(s)}) = Cardinality(s) - 1
  <2> TAKE s \in SUBSET S
  <2> HAVE s # {}
  <2>1. Pick(s) \in s
    BY DEF Pick
  <2> QED
    BY <1>1, <2>1, FS_RemoveElement
<1>4. \A s \in SUBSET S : Cardinality(s) = 0 => s = {}
  BY <1>1, FS_EmptySet
<1> QED
  BY <1>1, <1>2, <1>4

LEMMA SumIsNatural ==
    ASSUME NEW S, IsFiniteSet(S), NEW W, NEW f, Folds(W, SUBSET S, f), \A x \in S : W[x] \in Nat
    PROVE  f[S] \in Nat
<1>1. \A s \in SUBSET S : IsFiniteSet(s) /\ Cardinality(s) \in Nat
  BY FoldStep
<1>2. \A s \in SUBSET S : s # {} => /\ Pick(s) \in s /\ s \ {Pick(s)} \in SUBSET S
                                    /\ Cardinality(s \ {Pick(s)}) = Cardinality(s) - 1
  BY FoldStep
<1>3. \A s \in SUBSET S : f[s] = IF s = {} THEN 0 ELSE W[Pick(s)] + f[s \ {Pick(s)}]
  BY Zenon DEF Folds
<1>4. \A s \in SUBSET S : Cardinality(s) = 0 => s = {}
  BY FoldStep
<1>5. PICK n \in Nat : n = Cardinality(S)
  BY <1>1
<1>6. \A x \in S : W[x] \in Nat
  OBVIOUS
<1>7. f[S] \in Nat
  <2> DEFINE G == {k \in Nat : \A s \in SUBSET S : Cardinality(s) = k => f[s] \in Nat}
  <2>1. 0 \in G
    <3>1. f[{}] = 0
      BY <1>3
    <3> QED
      BY <1>4, <3>1
  <2>2. ASSUME NEW k \in Nat, k \in G PROVE k + 1 \in G
    <3>1. ASSUME NEW s \in SUBSET S, Cardinality(s) = k + 1 PROVE f[s] \in Nat
      <4>1. s # {}
        <5>1. Cardinality({}) = 0 /\ k + 1 # 0
          BY FS_EmptySet
        <5> QED
          BY <3>1, <5>1
      <4>2. PICK t, p : t = s \ {p} /\ p = Pick(s)
        OBVIOUS
      <4>3. p \in s /\ t \in SUBSET S /\ Cardinality(t) = Cardinality(s) - 1
        BY <1>2, <4>1, <4>2
      <4>4. f[s] = W[p] + f[t]
        BY <1>3, <4>1, <4>2
      <4>5. Cardinality(t) = k
        BY <3>1, <4>3
      <4>6. f[t] \in Nat /\ W[p] \in Nat
        BY <1>6, <2>2, <4>3, <4>5
      <4> QED
        BY <4>4, <4>6
    <3> QED
      BY <3>1
  <2>3. n \in G
    <3> HIDE DEF G
    <3>1. 0 .. n \subseteq G
      BY <2>1, <2>2, StepByStep
    <3> QED
      BY <3>1
  <2> QED
    BY <1>5, <2>3
<1> QED
  BY <1>7

LEMMA SumIsAtLeast ==
    ASSUME NEW S, IsFiniteSet(S), NEW W, NEW f, Folds(W, SUBSET S, f), \A x \in S : W[x] \in Nat \ {0}
    PROVE  /\ f[S] >= Cardinality(S) /\ \A x \in S : f[S] >= W[x]
           /\ \A x \in S : S = {x} => f[S] = W[x]
<1>1. \A s \in SUBSET S : IsFiniteSet(s) /\ Cardinality(s) \in Nat
  BY FoldStep
<1>2. \A s \in SUBSET S : s # {} => /\ Pick(s) \in s /\ s \ {Pick(s)} \in SUBSET S
                                    /\ Cardinality(s \ {Pick(s)}) = Cardinality(s) - 1
  BY FoldStep
<1>3. \A s \in SUBSET S : f[s] = IF s = {} THEN 0 ELSE W[Pick(s)] + f[s \ {Pick(s)}]
  BY Zenon DEF Folds
<1>4. \A s \in SUBSET S : Cardinality(s) = 0 => s = {}
  BY FoldStep
<1>5. PICK n \in Nat : n = Cardinality(S)
  BY <1>1
<1>7. \A x \in S : W[x] \in Nat \ {0}
  OBVIOUS
<1>6. f[S] >= Cardinality(S) /\ \A x \in S : f[S] >= W[x]
  <2> DEFINE Big(s) == f[s] \in Nat /\ f[s] >= Cardinality(s) /\ \A x \in s : f[s] >= W[x]
             G == {k \in Nat : \A s \in SUBSET S : Cardinality(s) = k => Big(s)}
  <2>1. 0 \in G
    <3>1. ASSUME NEW s \in SUBSET S, Cardinality(s) = 0 PROVE Big(s)
      <4>1. s = {} /\ f[s] = 0
        BY <1>3, <1>4, <3>1
      <4> QED
        BY <3>1, <4>1
    <3> QED
      BY <3>1
  <2>2. ASSUME NEW k \in Nat, k \in G PROVE k + 1 \in G
    <3>1. ASSUME NEW s \in SUBSET S, Cardinality(s) = k + 1 PROVE Big(s)
      <4>1. s # {}
        <5>1. Cardinality({}) = 0 /\ k + 1 # 0
          BY FS_EmptySet
        <5> QED
          BY <3>1, <5>1
      <4>2. PICK t, p : t = s \ {p} /\ p = Pick(s)
        OBVIOUS
      <4>3. p \in s /\ t \in SUBSET S /\ Cardinality(t) = k /\ f[s] = W[p] + f[t] /\ p \in S
        <5>1. p \in s /\ t \in SUBSET S /\ Cardinality(t) = Cardinality(s) - 1
          BY <1>2, <4>1, <4>2
        <5>2. f[s] = W[p] + f[t]
          BY <1>3, <4>1, <4>2
        <5> QED
          BY <3>1, <5>1, <5>2
      <4>4. Big(t)
        BY <2>2, <4>3
      <4>5. W[p] \in Nat /\ W[p] >= 1
        BY <1>7, <4>3
      <4>6. ASSUME NEW x \in s PROVE f[s] >= W[x]
        <5>1. x = p \/ x \in t
          BY <4>2
        <5>2. W[x] \in Nat
          BY <1>7
        <5> QED
          BY <4>3, <4>4, <4>5, <5>1, <5>2
      <4> QED
        BY <3>1, <4>3, <4>4, <4>5, <4>6
    <3> QED
      BY <3>1
  <2>3. n \in G
    <3> HIDE DEF G
    <3>1. 0 .. n \subseteq G
      BY <2>1, <2>2, StepByStep
    <3> QED
      BY <3>1
  <2> QED
    BY <1>5, <2>3
<1>8. ASSUME NEW x \in S, S = {x} PROVE f[S] = W[x]
  <2>1. Pick(S) = x /\ S \ {Pick(S)} = {}
    BY <1>8 DEF Pick
  <2>2. f[{}] = 0
    BY <1>3
  <2> QED
    <3>1. W[x] \in Nat
      BY <1>7
    <3> QED
      BY <1>3, <1>8, <2>1, <2>2, <3>1
<1> QED
  BY <1>6, <1>8

LEMMA ThreadTermType ==
    ASSUME NEW spine, IsFiniteSet(spine), \A e \in spine : layer.weights[e] \in Nat
    PROVE  ThreadTerm(spine) \in Nat
<1> DEFINE it == CHOOSE g : g = [s \in SUBSET spine |->
                     IF s = {} THEN 0 ELSE layer.weights[CHOOSE x \in s : TRUE] + g[s \ {CHOOSE x \in s : TRUE}]]
<1>1. ThreadTerm(spine) = it[spine]
  BY DEF ThreadTerm, MapThenSumSet, MapThenFoldSet
<1>2. Folds(layer.weights, SUBSET spine, it)
  <2>1. \E g : Folds(layer.weights, SUBSET spine, g)
    BY SumExists
  <2> QED
    BY <2>1, Zenon DEF Folds, Pick
<1> HIDE DEF it
<1> QED
  BY <1>1, <1>2, SumIsNatural

-----------------------------------------------------------------------------
(* What a candidate says of its members.                                   *)
ClusterTable == [Clusters -> [last : Nat, events : Nat]]

LEMMA GreatestIsMax ==
    ASSUME NEW S, IsFiniteSet(S), S \subseteq Nat, S # {}
    PROVE  Max(S) \in S /\ \A y \in S : y <= Max(S)
<1>1. PICK x \in S : \A y \in S : y <= x
  BY GreatestNatural
<1>2. \A y \in S : x >= y
  BY <1>1
<1> QED
  BY <1>2 DEF Max

LEMMA SeveritiesFinite ==
    ASSUME NEW members \in SUBSET Clusters
    PROVE  IsFiniteSet({Attr[c].severity : c \in members})
<1> DEFINE f == [c \in members |-> Attr[c].severity]
<1>1. {Attr[c].severity : c \in members} = {f[c] : c \in members}
  OBVIOUS
<1> HIDE DEF f
<1>2. IsFiniteSet(members)
  BY ContentAssumption, FS_Subset
<1>3. IsFiniteSet({f[c] : c \in members})
  BY <1>2, ImageCount
<1> QED
  BY <1>1, <1>3

LEMMA MembersFinite ==
    ASSUME NEW members \in SUBSET Clusters
    PROVE  /\ IsFiniteSet(members) /\ Cardinality(members) \in Nat
           /\ IsFiniteSet({Attr[c].source : c \in members}) /\ Cardinality({Attr[c].source : c \in members}) \in Nat
           /\ \A table : IsFiniteSet({table[c].last : c \in members})
<1>1. IsFiniteSet(members) /\ Cardinality(members) \in Nat
  BY ContentAssumption, FS_Subset, FS_CardinalityType
<1>2. ASSUME NEW table PROVE IsFiniteSet({table[c].last : c \in members})
  <2> DEFINE f == [c \in members |-> table[c].last]
  <2>1. {table[c].last : c \in members} = {f[c] : c \in members}
    OBVIOUS
  <2> HIDE DEF f
  <2>2. IsFiniteSet({f[c] : c \in members})
    BY <1>1, ImageCount
  <2> QED
    BY <2>1, <2>2
<1>4. IsFiniteSet({Attr[c].source : c \in members}) /\ Cardinality({Attr[c].source : c \in members}) \in Nat
  <2> DEFINE f == [c \in members |-> Attr[c].source]
  <2>1. {Attr[c].source : c \in members} = {f[c] : c \in members}
    OBVIOUS
  <2> HIDE DEF f
  <2>2. IsFiniteSet({f[c] : c \in members}) /\ Cardinality({f[c] : c \in members}) \in Nat
    BY <1>1, ImageCount
  <2> QED
    BY <2>1, <2>2
<1> QED
  BY <1>1, <1>2, <1>4

LEMMA LatestIsLast ==
    ASSUME NEW table \in ClusterTable, NEW members \in SUBSET Clusters, members # {}
    PROVE  /\ LatestOf(table, members) \in Nat
           /\ \E c \in members : LatestOf(table, members) = table[c].last
           /\ \A c \in members : table[c].last <= LatestOf(table, members)
<1> DEFINE S == {table[c].last : c \in members}
<1>1. IsFiniteSet(S) /\ S \subseteq Nat /\ S # {}
  BY MembersFinite DEF ClusterTable
<1>2. Max(S) \in S /\ \A y \in S : y <= Max(S)
  BY <1>1, GreatestIsMax
<1> QED
  BY <1>1, <1>2 DEF LatestOf

(* More members and more events of them never turn back the news, nor a    *)
(* Story into a Note.                                                      *)
LEMMA MoreIsMore ==
    ASSUME NEW table \in ClusterTable, NEW later \in ClusterTable,
           NEW more \in SUBSET Clusters, NEW members \in SUBSET more, members # {},
           \A c \in members : table[c].last <= later[c].last /\ table[c].events <= later[c].events
    PROVE  /\ LatestOf(table, members) <= LatestOf(later, more)
           /\ FullOf(table, members) => FullOf(later, more)
<1>1. LatestOf(table, members) <= LatestOf(later, more)
  <2>1. PICK c \in members : LatestOf(table, members) = table[c].last
    BY LatestIsLast
  <2>2. later[c].last <= LatestOf(later, more) /\ LatestOf(later, more) \in Nat
    BY LatestIsLast
  <2>3. table[c].last \in Nat /\ later[c].last \in Nat /\ table[c].last <= later[c].last
    BY DEF ClusterTable
  <2> QED
    BY <2>1, <2>2, <2>3
<1>2. Cardinality({Attr[c].source : c \in members}) <= Cardinality({Attr[c].source : c \in more})
  <2>1. {Attr[c].source : c \in members} \subseteq {Attr[c].source : c \in more}
    OBVIOUS
  <2>2. IsFiniteSet({Attr[c].source : c \in more})
    BY MembersFinite
  <2> QED
    BY <2>1, <2>2, FS_Subset
<1>3. Cardinality({Attr[c].source : c \in members}) \in Nat /\ Cardinality({Attr[c].source : c \in more}) \in Nat
  BY MembersFinite
<1>4. \A c \in members : table[c].events > 1 => later[c].events > 1
  BY DEF ClusterTable
<1> QED
  BY <1>1, <1>2, <1>3, <1>4 DEF FullOf

LEMMA EventSum ==
    ASSUME NEW members \in SUBSET Clusters, cluster \in ClusterTable, \A c \in members : Born(c)
    PROVE  LET sum == MapThenSumSet(LAMBDA c : cluster[c].events, members)
           IN  /\ sum \in Nat
               /\ sum > 1 <=> \/ \E b, c \in members : b # c
                              \/ \E c \in members : cluster[c].events > 1
<1> DEFINE it == CHOOSE g : g = [s \in SUBSET members |->
                     IF s = {} THEN 0 ELSE cluster[CHOOSE x \in s : TRUE].events + g[s \ {CHOOSE x \in s : TRUE}]]
           sum == MapThenSumSet(LAMBDA c : cluster[c].events, members)
           W == [c \in members |-> cluster[c].events]
<1>1. sum = it[members]
  BY DEF MapThenSumSet, MapThenFoldSet
<1>2. IsFiniteSet(members) /\ Cardinality(members) \in Nat
  BY MembersFinite
<1>3. Folds(W, SUBSET members, it)
  <2>1. PICK g : Folds(W, SUBSET members, g)
    BY <1>2, SumExists
  <2>2. \A s \in SUBSET members : s # {} => W[Pick(s)] = cluster[Pick(s)].events
    BY DEF Pick
  <2> DEFINE R(h) == [s \in SUBSET members |-> IF s = {} THEN 0 ELSE W[Pick(s)] + h[s \ {Pick(s)}]]
             Q(h) == [s \in SUBSET members |-> IF s = {} THEN 0 ELSE cluster[Pick(s)].events + h[s \ {Pick(s)}]]
  <2>3. \A h : R(h) = Q(h)
    <3> TAKE h
    <3> HIDE DEF W
    <3>1. \A s \in SUBSET members : R(h)[s] = Q(h)[s]
      BY <2>2
    <3> QED
      BY <3>1, Zenon
  <2>4. it = CHOOSE h : h = Q(h)
    BY DEF Pick
  <2> HIDE DEF W, it, R, Q
  <2>5. g = R(g)
    BY <2>1, Zenon DEF Folds, R
  <2>6. it = Q(it)
    BY <2>3, <2>4, <2>5
  <2>7. it = R(it)
    BY <2>3, <2>6
  <2> QED
    BY <2>7, Zenon DEF Folds, R
<1> HIDE DEF it
<1>4. \A c \in members : W[c] = cluster[c].events /\ W[c] \in Nat \ {0}
  BY DEF Born, ClusterTable
<1> HIDE DEF W
<1>5. /\ it[members] \in Nat /\ it[members] >= Cardinality(members)
      /\ \A c \in members : it[members] >= W[c]
      /\ \A c \in members : members = {c} => it[members] = W[c]
  <2>1. (\A x \in members : W[x] \in Nat) /\ \A x \in members : W[x] \in Nat \ {0}
    BY <1>4
  <2> QED
    BY <1>2, <1>3, <2>1, SumIsNatural, SumIsAtLeast
<1>6. ASSUME NEW b \in members, NEW c \in members, b # c PROVE it[members] > 1
  <2>1. {b, c} \subseteq members /\ IsFiniteSet({b, c}) /\ Cardinality({b, c}) = 2
    <3>1. IsFiniteSet({b}) /\ Cardinality({b}) = 1
      BY FS_Singleton
    <3>2. IsFiniteSet({b} \cup {c}) /\ Cardinality({b} \cup {c}) = 1 + 1
      BY <1>6, <3>1, FS_AddElement
    <3>3. {b} \cup {c} = {b, c}
      OBVIOUS
    <3> QED
      BY <3>2, <3>3
  <2>2. Cardinality(members) >= 2
    BY <1>2, <2>1, FS_Subset
  <2> QED
    BY <1>2, <1>5, <2>2
<1>7. ASSUME NEW c \in members, cluster[c].events > 1 PROVE it[members] > 1
  BY <1>4, <1>5, <1>7
<1>8. ASSUME it[members] > 1, \A b, c \in members : b = c PROVE \E c \in members : cluster[c].events > 1
  <2>1. CASE members = {}
    <3>1. it[members] = 0
      BY <1>3, <2>1 DEF Folds
    <3> QED
      BY <1>8, <3>1
  <2>2. ASSUME NEW c \in members PROVE cluster[c].events > 1
    BY <1>4, <1>5, <1>8, <2>2
  <2> QED
    BY <2>1, <2>2
<1> QED
  BY <1>1, <1>5, <1>6, <1>7, <1>8

(* A story is assigned to threads of the layer.                            *)
LEMMA AssignedType ==
    ASSUME layer \in Layers, NEW spine
    PROVE  AssignThread(spine) \subseteq Nat
<1>1. \A t \in layer.threads : t.id \in Nat
  BY ContentAssumption DEF Thread
<1> QED
  BY <1>1 DEF AssignThread

LEMMA CandidateFacts ==
    ASSUME WorldInv, NEW members \in SUBSET Clusters, members # {}, \A c \in members : Born(c),
           NEW s, NEW w, NEW threaded \in BOOLEAN, NEW k, k = Candidate(s, members, w, threaded)
    PROVE  /\ k.story = s /\ k.last = Latest(members) /\ k.last \in Nat /\ k.shown = LastShown(s, w)
           /\ k.affinity \in Int /\ k.severity \in Int /\ k.thread \subseteq Nat
           /\ k.depth \in {"longform", "announcement", "message"}
           /\ NaturalFormat(k) = Natural(members)
<1>1. cluster \in ClusterTable /\ layer \in Layers
  BY DEF WorldInv, ClusterTable
<1>2. k.last = Latest(members) /\ Latest(members) \in Nat
  <2>1. LatestOf(cluster, members) \in Nat
    BY <1>1, LatestIsLast
  <2> QED
    BY <2>1 DEF Candidate, Latest, LatestOf
<1>3. k.affinity \in Int
  <2>1. IsFiniteSet(Spine(members))
    <3> DEFINE E == {Attr[c].entities : c \in members}
               f == [c \in members |-> Attr[c].entities]
    <3>1. E = {f[c] : c \in members}
      OBVIOUS
    <3>2. IsFiniteSet(members)
      BY MembersFinite
    <3> HIDE DEF f
    <3>3. IsFiniteSet({f[c] : c \in members})
      BY <3>2, ImageCount
    <3>4. \A x \in E : IsFiniteSet(x)
      BY ContentAssumption
    <3>5. IsFiniteSet(E)
      BY <3>1, <3>3
    <3> HIDE DEF E
    <3>6. IsFiniteSet(UNION E)
      BY <3>4, <3>5, FS_UNION
    <3> QED
      BY <3>6 DEF E, Spine
  <2>2. \A e \in Spine(members) : layer.weights[e] \in Nat
    BY <1>1, ContentAssumption DEF Spine
  <2>3. ThreadTerm(Spine(members)) \in Nat
    BY <2>1, <2>2, ThreadTermType
  <2>4. k.affinity = ThreadTerm(Spine(members))
    BY DEF Candidate
  <2> QED
    BY <2>3, <2>4
<1>4. k.severity \in Int
  <2> DEFINE S == {Attr[c].severity : c \in members}
  <2>1. IsFiniteSet({Attr[c].severity : c \in members})
    BY SeveritiesFinite
  <2>2. S \subseteq Nat /\ S # {}
    <3>1. \A c \in members : Attr[c].severity \in Nat
      BY ContentAssumption
    <3> QED
      BY <3>1
  <2>3. Max(S) \in Nat
    <3>1. IsFiniteSet(S)
      BY <2>1
    <3> HIDE DEF S
    <3> QED
      BY <3>1, <2>2, GreatestIsMax
  <2>4. k.severity = Max(S)
    BY DEF Candidate
  <2> QED
    BY <2>3, <2>4
<1>5. k.thread \subseteq Nat
  <2>1. k.thread = IF threaded THEN AssignThread(Spine(members)) ELSE {}
    BY DEF Candidate
  <2> QED
    BY <1>1, <2>1, AssignedType
<1>6. k.depth = (IF \E c \in members : Attr[c].depth = "longform" THEN "longform"
                 ELSE IF \E c \in members : Attr[c].depth = "announcement" THEN "announcement" ELSE "message")
  BY DEF Candidate
<1>7. NaturalFormat(k) = Natural(members)
  <2> DEFINE sum == MapThenSumSet(LAMBDA c : cluster[c].events, members)
             sources == Cardinality({Attr[c].source : c \in members})
  <2>1. sum > 1 <=> (\E b, c \in members : b # c) \/ \E c \in members : cluster[c].events > 1
    BY <1>1, EventSum
  <2>2. k.events = sum /\ k.sources = sources
    BY DEF Candidate
  <2> HIDE DEF sum, sources
  <2>3. FullOf(cluster, members) <=> sources > 1 \/ sum > 1 \/ \E c \in members : Attr[c].depth = "longform"
    BY <2>1 DEF FullOf, sources
  <2> QED
    BY <1>6, <2>2, <2>3 DEF NaturalFormat, Richness, Natural
<1>8. k.story = s /\ k.shown = LastShown(s, w)
  BY DEF Candidate
<1> QED
  BY <1>2, <1>3, <1>4, <1>5, <1>6, <1>7, <1>8

\* What an assignment makes of the stories: each has its component, or keeps
\* what it has, or is left without clusters.
IsLink(to) ==
    /\ Linked(to) \in [Ids -> SUBSET Clusters]
    /\ \A s \in Ids : \A c \in Linked(to)[s] : Born(c)
    /\ \A s, t \in Ids : s # t => Linked(to)[s] \cap Linked(to)[t] = {}
    /\ DOMAIN to \subseteq Clusters
    /\ \A c \in DOMAIN to : /\ to[c] \in Ids /\ Component(to, to[c]) # {}
                            /\ Linked(to)[to[c]] = Component(to, to[c])

LEMMA CandidatesSound ==
    ASSUME WorldInv, NEW to, IsLink(to), NEW threaded \in BOOLEAN
    PROVE  /\ Sound(Candidates(to, threaded))
           /\ \A k \in Candidates(to, threaded) :
                 \E s \in Ids : Linked(to)[s] # {} /\ k = Candidate(s, Linked(to)[s], sub.nextRun, threaded) /\ k.story = s
<1> DEFINE S == {to[c] : c \in DOMAIN to}
           f == [s \in S |-> Candidate(s, Linked(to)[s], sub.nextRun, threaded)]
<1>1. Candidates(to, threaded) = {f[s] : s \in S}
  <2>1. \A s \in S : f[s] = Candidate(s, Component(to, s), sub.nextRun, threaded)
    BY DEF IsLink
  <2> HIDE DEF f
  <2> QED
    BY <2>1 DEF Candidates
<1>2. \A s \in S : LET k == Candidate(s, Linked(to)[s], sub.nextRun, threaded)
                   IN  /\ k.story = s /\ k.last \in Nat /\ k.affinity \in Int /\ k.severity \in Int
                       /\ k.depth \in {"longform", "announcement", "message"}
  <2> TAKE s \in S
  <2>1. Linked(to)[s] \in SUBSET Clusters /\ Linked(to)[s] # {} /\ \A c \in Linked(to)[s] : Born(c)
    BY DEF IsLink
  <2> QED
    BY <2>1, CandidateFacts
<1>3. IsFiniteSet({f[s] : s \in S})
  <2>1. IsFiniteSet(S)
    <3>1. IsFiniteSet(DOMAIN to)
      BY ContentAssumption, FS_Subset DEF IsLink
    <3> QED
      BY <3>1, ImageCount
  <2> HIDE DEF f, S
  <2> QED
    BY <2>1, ImageCount
<1>4. S \subseteq Nat
  BY DEF IsLink, Ids
<1>5. \A s \in S : f[s] = Candidate(s, Linked(to)[s], sub.nextRun, threaded)
  OBVIOUS
<1>6. \A s \in S : /\ f[s].story = s /\ f[s].last \in Nat /\ f[s].affinity \in Int /\ f[s].severity \in Int
                   /\ f[s].depth \in {"longform", "announcement", "message"}
  BY <1>2, <1>5
<1>7. S \subseteq Ids /\ \A s \in S : Linked(to)[s] # {}
  BY DEF IsLink
<1> HIDE DEF f, S
<1> QED
  BY <1>1, <1>3, <1>4, <1>5, <1>6, <1>7 DEF Sound

-----------------------------------------------------------------------------
\* No tombstone comes back: a story that takes a component had clusters, or
\* its id is new.
Covers(to) ==
    /\ IsLink(to)
    /\ \A s \in Ids : s <= minted /\ Linked(to)[s] # {} => story[s] # {}
Shrinks(to) == shrunk \cup {s \in Ids : Linked(to)[s] # {} /\ ~ story[s] \subseteq Linked(to)[s]}

LEMMA LinkedCovers ==
    ASSUME WorldInv, StoryInv, NEW to \in Assignments
    PROVE  Covers(to)
<1>1. PICK K \in SUBSET Existing : to \in [K -> {s \in Ids : s > minted \/ story[s] # {}}]
  BY DEF Assignments
<1>2. DOMAIN to = K /\ K \subseteq Clusters /\ \A c \in K : Born(c) /\ to[c] \in Ids /\ (to[c] > minted \/ story[to[c]] # {})
  BY <1>1 DEF Existing
<1>3. \A s : Component(to, s) = {c \in K : to[c] = s}
  BY <1>2 DEF Component
<1>4. \A s \in Ids : Linked(to)[s] = IF Component(to, s) # {} \/ s \in PriorIds(K) THEN Component(to, s) ELSE story[s]
  BY <1>2 DEF Linked
<1>5. Linked(to) \in [Ids -> SUBSET Clusters]
  <2>1. \A s \in Ids : Linked(to)[s] \in SUBSET Clusters
    BY <1>2, <1>3, <1>4 DEF StoryInv
  <2>2. Linked(to) = [s \in Ids |-> Linked(to)[s]]
    BY DEF Linked
  <2> QED
    BY <2>1, <2>2
<1>6. \A s \in Ids : \A c \in Linked(to)[s] : Born(c)
  BY <1>2, <1>3, <1>4 DEF StoryInv
<1>7. ASSUME NEW s \in Ids, NEW t \in Ids, s # t PROVE Linked(to)[s] \cap Linked(to)[t] = {}
  <2>1. \A c \in K, q \in Ids : c \in story[q] => q \in PriorIds(K)
    BY DEF PriorIds, StoryOf
  <2>2. \A q \in Ids : Linked(to)[q] = Component(to, q) \/ (Linked(to)[q] = story[q] /\ story[q] \cap K = {})
    BY <1>4, <2>1
  <2>3. story[s] \cap story[t] = {}
    BY <1>7 DEF StoryInv
  <2>4. Component(to, s) \subseteq K /\ Component(to, t) \subseteq K /\ Component(to, s) \cap Component(to, t) = {}
    BY <1>3, <1>7
  <2> QED
    BY <2>2, <2>3, <2>4
<1>8. \A c \in DOMAIN to : /\ to[c] \in Ids /\ Component(to, to[c]) # {}
                           /\ Linked(to)[to[c]] = Component(to, to[c])
  BY <1>2, <1>3, <1>4
<1>9. ASSUME NEW s \in Ids, s <= minted, Linked(to)[s] # {} PROVE story[s] # {}
  <2>1. CASE Component(to, s) # {}
    <3>1. PICK c \in K : to[c] = s
      BY <1>3, <2>1
    <3> QED
      BY <1>2, <1>9, <3>1 DEF Ids, StoryInv
  <2>2. CASE Component(to, s) = {}
    BY <1>4, <1>9, <2>2
  <2> QED
    BY <2>1, <2>2
<1> QED
  BY <1>2, <1>5, <1>6, <1>7, <1>8, <1>9 DEF Covers, IsLink

\* The part of an attempt that links the stories, which it may leave behind
\* without a digest.
Relinks(to) ==
    /\ Covers(to) /\ story' = Linked(to) /\ shrunk' = Shrinks(to)
    /\ minted' \in Nat /\ minted <= minted' /\ \A s \in Ids : Linked(to)[s] # {} => s <= minted'

LEMMA PersistIs ==
    ASSUME WorldInv, StoryInv, NEW to \in Assignments, Persist(to)
    PROVE  Relinks(to)
<1>1. Covers(to) /\ story' = Linked(to)
  BY LinkedCovers DEF Persist
<1>2. shrunk' = Shrinks(to)
  BY <1>1 DEF Persist, Shrinks
<1> DEFINE new == {to[c] : c \in DOMAIN to}
<1>3. minted \in Nat /\ minted' = Max({minted} \cup new) /\ new \subseteq Nat /\ IsFiniteSet({minted} \cup new)
  <2>1. IsFiniteSet(DOMAIN to) /\ new \subseteq Nat
    BY <1>1, ContentAssumption, FS_Subset DEF Covers, IsLink, Ids
  <2>2. IsFiniteSet(new)
    BY <2>1, ImageCount
  <2>3. IsFiniteSet(new \cup {minted})
    <3> HIDE DEF new
    <3> QED
      BY <2>2, FS_AddElement
  <2>4. new \cup {minted} = {minted} \cup new
    OBVIOUS
  <2> QED
    BY <2>1, <2>3, <2>4 DEF Persist, StoryInv
<1>4. minted' \in {minted} \cup new /\ \A s \in {minted} \cup new : s <= minted'
  <2> HIDE DEF new
  <2> QED
    BY <1>3, GreatestIsMax
<1>5. minted' \in Nat /\ minted <= minted' /\ \A c \in DOMAIN to : to[c] <= minted'
  BY <1>3, <1>4
<1>6. ASSUME NEW s \in Ids, Linked(to)[s] # {} PROVE s <= minted'
  <2>1. CASE \E c \in DOMAIN to : to[c] = s
    BY <1>5, <2>1
  <2>2. CASE ~ \E c \in DOMAIN to : to[c] = s
    <3>1. Component(to, s) = {}
      BY <2>2 DEF Component
    <3>2. Linked(to)[s] = story[s]
      BY <1>6, <3>1 DEF Linked
    <3>3. s <= minted /\ s \in Nat
      BY <1>6, <3>2 DEF StoryInv, Ids
    <3> QED
      BY <1>3, <1>5, <3>3
  <2> QED
    BY <2>1, <2>2
<1> QED
  BY <1>1, <1>2, <1>5, <1>6 DEF Relinks

(* A story that is whole has at least what it had, so what was true of its *)
(* news before the link is true of it after.                               *)
LEMMA WholeIsMore ==
    ASSUME WorldInv, StoryInv, NEW to, Covers(to),
           NEW s \in Ids, s <= minted, s \notin Shrinks(to), Linked(to)[s] # {}
    PROVE  /\ s \notin shrunk /\ story[s] # {}
           /\ LatestOf(cluster, story[s]) <= LatestOf(cluster, Linked(to)[s])
           /\ FullOf(cluster, story[s]) => FullOf(cluster, Linked(to)[s])
           /\ LatestOf(cluster, story[s]) \in Nat /\ LatestOf(cluster, Linked(to)[s]) \in Nat
<1>1. PICK members, more : members = story[s] /\ more = Linked(to)[s]
  OBVIOUS
<1>2. members # {} /\ members \in SUBSET more /\ more \in SUBSET Clusters /\ s \notin shrunk
  BY <1>1 DEF Covers, IsLink, Shrinks
<1>3. cluster \in ClusterTable
  BY DEF WorldInv, ClusterTable
<1>4. \A c \in members : cluster[c].last <= cluster[c].last /\ cluster[c].events <= cluster[c].events
  BY <1>2, <1>3 DEF ClusterTable
<1>5. LatestOf(cluster, members) <= LatestOf(cluster, more) /\ (FullOf(cluster, members) => FullOf(cluster, more))
  BY <1>2, <1>3, <1>4, MoreIsMore
<1>6. LatestOf(cluster, members) \in Nat /\ LatestOf(cluster, more) \in Nat
  BY <1>2, <1>3, LatestIsLast
<1> QED
  BY <1>1, <1>2, <1>5, <1>6

\* What an attempt decides of the linked stories.
DecidesOf(d, to, threaded) ==
    /\ d.story \in Ids /\ Linked(to)[d.story] # {} /\ d.thread \subseteq Nat
    /\ d.last = Latest(Linked(to)[d.story]) /\ d.natural = Natural(Linked(to)[d.story]) /\ d.last \in Nat
    /\ Ranked(d) =>
          LET again == Resurfaced(Candidate(d.story, Linked(to)[d.story], sub.nextRun, threaded))
          IN  /\ d.format = (IF again THEN "note" ELSE d.natural)
              /\ again => d.richness = "still developing"
Decisions(to, threaded, floor) == Select(Candidates(to, threaded), Cfg, MaxItems, now, floor)

LEMMA WhatIsDecided ==
    ASSUME WorldInv, NEW to, NEW threaded \in BOOLEAN, IsLink(to), NEW floor
    PROVE  /\ \A d \in Decisions(to, threaded, floor) : DecidesOf(d, to, threaded)
           /\ \A d, e \in Decisions(to, threaded, floor) : d.story = e.story => d = e
           /\ SoundLog(Decisions(to, threaded, floor))
<1>1. Sound(Candidates(to, threaded)) /\ now \in Nat
  BY CandidatesSound DEF WorldInv
<1>2. ASSUME NEW d \in Decisions(to, threaded, floor) PROVE DecidesOf(d, to, threaded)
  <2>1. PICK k \in Candidates(to, threaded) : About(d, k)
    BY <1>1, <1>2, DecisionsAbout DEF Decisions
  <2>2. PICK s \in Ids : Linked(to)[s] # {} /\ k = Candidate(s, Linked(to)[s], sub.nextRun, threaded) /\ k.story = s
    BY CandidatesSound
  <2>3. Linked(to)[s] \in SUBSET Clusters /\ \A c \in Linked(to)[s] : Born(c)
    BY DEF IsLink
  <2>4. k.last = Latest(Linked(to)[s]) /\ k.last \in Nat /\ k.thread \subseteq Nat /\ NaturalFormat(k) = Natural(Linked(to)[s])
    BY <2>2, <2>3, CandidateFacts
  <2>5. d.story = s /\ d.last = k.last /\ d.natural = NaturalFormat(k) /\ d.thread = k.thread
    BY <2>1, <2>2 DEF About
  <2>6. Ranked(d) => /\ d.format = (IF Resurfaced(k) THEN "note" ELSE d.natural)
                     /\ Resurfaced(k) => d.richness = "still developing"
    BY <2>1 DEF About
  <2> QED
    BY <2>2, <2>4, <2>5, <2>6 DEF DecidesOf
<1>3. \A d, e \in Decisions(to, threaded, floor) : d.story = e.story => d = e
  BY <1>1, DecisionsAbout DEF Decisions
<1>4. SoundLog(Decisions(to, threaded, floor))
  BY <1>1, SelectIsSound DEF Decisions
<1> QED
  BY <1>2, <1>3, <1>4

(* What an earlier digest within the horizon froze, and what has no news   *)
(* since, is what last_shown finds: of the digests that froze it, the last *)
(* is no less recent and no less full.                                     *)
LEMMA ItemTypes ==
    ASSUME RowInv, NEW d \in digests, NEW i \in ItemsOf(d)
    PROVE  i \in Item /\ i.story \in Ids /\ i.last \in Nat /\ i.format \in {"note", "story"} /\ d.window \in Nat
<1>1. d.items \in Seq(Item) /\ d.window \in Nat
  BY DEF RowInv, IsRow
<1>2. PICK p \in DOMAIN d.items : i = d.items[p]
  BY DEF ItemsOf
<1>3. i \in Item
  BY <1>1, <1>2
<1> QED
  BY <1>1, <1>3 DEF Item

LEMMA NoNewsResurfaces ==
    ASSUME WorldInv, RowInv, FreezeInv, NEW s \in Ids, s \notin shrunk,
           NEW k, k.last \in Nat, k.shown = LastShown(s, sub.nextRun),
           NEW e \in digests, e.window < sub.nextRun, sub.nextRun <= e.window + ContextHorizon,
           NEW j \in ItemsOf(e), j.story = s, ~ News(j, k.last, NaturalFormat(k))
    PROVE  Resurfaced(k)
<1> DEFINE rows == {d \in digests : /\ d.window < sub.nextRun /\ d.window >= sub.nextRun - ContextHorizon
                                    /\ \E i \in DOMAIN d.items : d.items[i].story = s}
           windows == {d.window : d \in rows}
<1>0. sub.nextRun \in Nat /\ ContextHorizon \in Nat /\ now \in Nat
  BY ContentAssumption DEF WorldInv
<1>1. e \in rows
  <2>1. e.window \in Nat
    BY ItemTypes
  <2>2. e.window >= sub.nextRun - ContextHorizon
    BY <1>0, <2>1
  <2>3. \E i \in DOMAIN e.items : e.items[i].story = s
    BY DEF ItemsOf
  <2> QED
    BY <2>2, <2>3
<1>2. \A d \in rows : d \in digests /\ d.window \in 0 .. now
  BY DEF RowInv, IsRow
<1>3. IsFiniteSet(windows) /\ windows \subseteq Nat /\ windows # {}
  <2>1. windows \subseteq 0 .. now
    BY <1>2
  <2>2. IsFiniteSet(0 .. now)
    <3>1. 0 \in Int /\ now \in Int
      BY <1>0
    <3> QED
      BY <3>1, FS_Interval
  <2>3. IsFiniteSet(windows)
    <3> HIDE DEF windows
    <3> QED
      BY <2>1, <2>2, FS_Subset
  <2> QED
    BY <1>1, <2>1, <2>3
<1>4. PICK q \in rows : \A d \in rows : d.window <= q.window
  <2>1. \E x \in windows : \A y \in windows : y <= x
    <3> HIDE DEF windows
    <3> QED
      BY <1>3, GreatestNatural
  <2> QED
    BY <2>1
<1>5. PICK i \in ItemsOf(q) : i.story = s /\ (q = e => i = j)
  <2>1. \E i \in ItemsOf(q) : i.story = s
    BY DEF ItemsOf
  <2> QED
    BY <2>1
<1>6. [last |-> i.last, format |-> i.format] \in LastShown(s, sub.nextRun)
  <2>1. PICK p \in DOMAIN q.items : i = q.items[p]
    BY <1>5 DEF ItemsOf
  <2> DEFINE Shown(d) == {[last |-> x.last, format |-> x.format]
                             : x \in {d.items[m] : m \in {l \in DOMAIN d.items : d.items[l].story = s}}}
  <2>2. i \in {q.items[m] : m \in {l \in DOMAIN q.items : q.items[l].story = s}}
    BY <1>5, <2>1
  <2>3. [last |-> i.last, format |-> i.format] \in Shown(q)
    BY <2>2
  <2>4. q \in {r \in rows : \A d \in rows : d.window <= r.window}
    BY <1>4
  <2>5. LastShown(s, sub.nextRun) = UNION {Shown(d) : d \in {r \in rows : \A d \in rows : d.window <= r.window}}
    BY DEF LastShown
  <2> HIDE DEF Shown, rows
  <2> QED
    BY <2>3, <2>4, <2>5
<1>7. q \in digests /\ q.window \in Nat /\ e.window \in Nat /\ e.window <= q.window
  BY <1>1, <1>2, <1>4
<1>8. Behind(j, i.last, i.format)
  <2>1. CASE e.window < q.window
    BY <1>5, <1>7, <2>1 DEF FreezeInv
  <2>2. CASE e.window = q.window
    <3>1. i = j
      BY <1>5, <1>7, <2>2 DEF RowInv
    <3>2. j.last \in Nat
      BY ItemTypes
    <3> QED
      BY <3>1, <3>2 DEF Behind
  <2> QED
    BY <1>7, <2>1, <2>2
<1>9. i.last \in Nat /\ j.last \in Nat /\ i.format \in {"note", "story"} /\ j.format \in {"note", "story"}
  BY <1>5, <1>7, ItemTypes
<1>10. NaturalFormat(k) \in {"note", "story"}
  BY DEF NaturalFormat
<1>11. ~ k.last > i.last /\ ~ (i.format = "note" /\ NaturalFormat(k) = "story")
  BY <1>8, <1>9, <1>10 DEF Behind, News
<1> QED
  <2>1. [last |-> i.last, format |-> i.format] \in k.shown
    BY <1>6
  <2> QED
    BY <1>11, <2>1 DEF Resurfaced

-----------------------------------------------------------------------------
\* A row with the same items but for the threads they are stamped with.
Same(i, j) == i.story = j.story /\ i.last = j.last /\ i.format = j.format
SameItems(d, e) ==
    /\ \A i \in ItemsOf(d) : \E j \in ItemsOf(e) : Same(i, j)
    /\ \A j \in ItemsOf(e) : \E i \in ItemsOf(d) : Same(i, j)

LEMMA StampedSame ==
    ASSUME NEW items \in Seq(Item), NEW decisions, NEW to, layer \in Layers
    PROVE  /\ Stamped(items, decisions, to) \in Seq(Item)
           /\ DOMAIN Stamped(items, decisions, to) = DOMAIN items
           /\ \A p \in DOMAIN items : Same(Stamped(items, decisions, to)[p], items[p])
<1> DEFINE new == Stamped(items, decisions, to)
<1>1. DOMAIN new = DOMAIN items
  BY DEF Stamped
<1>2. ASSUME NEW p \in DOMAIN items PROVE new[p] \in Item /\ Same(new[p], items[p])
  <2>1. items[p] \in Item
    OBVIOUS
  <2>2. CASE \E d \in Selected(decisions) : d.story = items[p].story
    <3>1. PICK thread : thread = AssignThread(Spine(Component(to, items[p].story)))
      OBVIOUS
    <3>2. new[p] = [items[p] EXCEPT !.thread = thread]
      BY <2>2, <3>1 DEF Stamped
    <3>3. thread \subseteq Nat
      BY <3>1, AssignedType
    <3> QED
      BY <2>1, <3>2, <3>3 DEF Item, Same
  <2>3. CASE ~ \E d \in Selected(decisions) : d.story = items[p].story
    <3>1. new[p] = items[p]
      BY <2>3 DEF Stamped
    <3> QED
      BY <2>1, <3>1 DEF Same
  <2> QED
    BY <2>2, <2>3
<1>3. new \in Seq(Item)
  <2>1. Len(items) \in Nat /\ DOMAIN items = 1 .. Len(items)
    OBVIOUS
  <2>2. new = [p \in 1 .. Len(items) |-> new[p]]
    BY <2>1 DEF Stamped
  <2> HIDE DEF new
  <2>3. \A p \in 1 .. Len(items) : new[p] \in Item
    BY <1>2, <2>1
  <2> QED
    BY <2>1, <2>2, <2>3
<1> QED
  BY <1>1, <1>2, <1>3

\* A frozen item is a selected decision, in its natural format.
Freezes(i, d) == i.story = d.story /\ i.last = d.last /\ i.format = d.natural

LEMMA FrozenAreSelected ==
    ASSUME WorldInv, NEW to, NEW threaded \in BOOLEAN, IsLink(to), NEW floor
    PROVE  LET decisions == Decisions(to, threaded, floor)
           IN  /\ FrozenItems(decisions) \in Seq(Item)
               /\ \A p \in DOMAIN FrozenItems(decisions) :
                     \E d \in Selected(decisions) : Freezes(FrozenItems(decisions)[p], d)
<1> DEFINE decisions == Decisions(to, threaded, floor)
           n == Cardinality(Selected(decisions))
           frozen == FrozenItems(decisions)
<1>1. n \in Nat /\ \A k \in 0 .. n - 1 : \E d \in Selected(decisions) : d.place = k
  <2>1. Sound(Candidates(to, threaded)) /\ now \in Nat
    BY CandidatesSound DEF WorldInv
  <2> QED
    BY <2>1, SelectedPlaces DEF Decisions
<1>2. \A d \in Selected(decisions) : d.story \in Ids /\ d.last \in Nat /\ d.natural \in {"note", "story"}
  <2>1. \A d \in Selected(decisions) : DecidesOf(d, to, threaded)
    BY WhatIsDecided DEF Selected
  <2> QED
    BY <2>1 DEF DecidesOf, Natural
<1> DEFINE The(p) == CHOOSE x \in Selected(decisions) : x.place = p - 1
<1>3. frozen = [p \in 1 .. n |-> [story |-> The(p).story, last |-> The(p).last,
                                  format |-> The(p).natural, thread |-> {}]]
  BY DEF FrozenItems
<1> HIDE DEF frozen, n, decisions
<1>4. ASSUME NEW p \in 1 .. n PROVE The(p) \in Selected(decisions)
  <2>1. p - 1 \in 0 .. n - 1
    BY <1>1
  <2> QED
    BY <1>1, <2>1
<1> HIDE DEF The
<1>5. \A p \in 1 .. n : frozen[p] \in Item /\ Freezes(frozen[p], The(p))
  BY <1>2, <1>3, <1>4 DEF Item, Freezes
<1>6. frozen \in Seq(Item) /\ DOMAIN frozen = 1 .. n
  <2>1. DOMAIN frozen = 1 .. n /\ frozen = [p \in 1 .. n |-> frozen[p]]
    BY <1>3
  <2>2. \A p \in 1 .. n : frozen[p] \in Item
    BY <1>5
  <2> QED
    BY <1>1, <2>1, <2>2
<1> QED
  BY <1>4, <1>5, <1>6 DEF frozen, decisions

\* What an attempt leaves of its window's row: either it is the first, or the
\* items are those that the first one froze.
FromDecisions(new, decisions) ==
    /\ ~ \E o \in digests : o.window = sub.nextRun
    /\ \A i \in ItemsOf(new) : \E d \in Selected(decisions) : Freezes(i, d)
    /\ new.log \in {decisions, {}}
FromRow(new, decisions) ==
    \E o \in digests : o.window = sub.nextRun /\ SameItems(o, new) /\ new.log \in {decisions, o.log}
IsNew(new, decisions) ==
    /\ IsRow(new) /\ new.window = sub.nextRun
    /\ FromDecisions(new, decisions) \/ FromRow(new, decisions)
\* And of its records: both are of this attempt, both are of one before, or
\* the row is torn.
Recorded(new, decisions, snapshot) ==
    \/ new.torn
    \/ new.log = decisions /\ new.snapshot = {snapshot}
    \/ new.log = {} /\ new.snapshot = {}
    \/ \E o \in digests : new.log = o.log /\ new.snapshot = o.snapshot /\ ~ o.torn

StampedRow(row, to, decisions, candidates, done) ==
    [row EXCEPT !.items = IF "stamps" \in done THEN Stamped(@, decisions, to) ELSE @,
                !.log = IF "log" \in done THEN decisions ELSE @,
                !.snapshot = IF "snapshot" \in done THEN {Snapshot(candidates)} ELSE @,
                !.torn = IF done \cap {"log", "snapshot"} = {} THEN @
                         ELSE done \cap {"log", "snapshot"} # {"log", "snapshot"}]

IsStamped(new, row, decisions, candidates, recorded) ==
    /\ IsRow(new) /\ new.window = row.window /\ SameItems(row, new)
    /\ new.log = (IF "log" \in recorded THEN decisions ELSE row.log)
    /\ new.snapshot = (IF "snapshot" \in recorded THEN {Snapshot(candidates)} ELSE row.snapshot)
    /\ new.torn = (IF recorded = {} THEN row.torn ELSE recorded # {"log", "snapshot"})

LEMMA StampedIsRow ==
    ASSUME NEW row, IsRow(row), NEW to, NEW decisions, layer \in Layers,
           NEW done, NEW candidates, NEW new, new = StampedRow(row, to, decisions, candidates, done)
    PROVE  IsStamped(new, row, decisions, candidates, done \cap {"log", "snapshot"})
<1> DEFINE recorded == done \cap {"log", "snapshot"}
           items == IF "stamps" \in done THEN Stamped(row.items, decisions, to) ELSE row.items
<1>0. ("log" \in recorded <=> "log" \in done) /\ ("snapshot" \in recorded <=> "snapshot" \in done)
  OBVIOUS
<1>1. row = [window |-> row.window, items |-> row.items, log |-> row.log, snapshot |-> row.snapshot,
             torn |-> row.torn, delivered |-> row.delivered]
      /\ row.window \in Nat /\ row.items \in Seq(Item) /\ row.torn \in BOOLEAN
  BY DEF IsRow
<1>2. new = [window |-> row.window, items |-> items,
             log |-> IF "log" \in done THEN decisions ELSE row.log,
             snapshot |-> IF "snapshot" \in done THEN {Snapshot(candidates)} ELSE row.snapshot,
             torn |-> IF recorded = {} THEN row.torn ELSE recorded # {"log", "snapshot"},
             delivered |-> row.delivered]
  BY <1>1 DEF StampedRow
<1>9. /\ items \in Seq(Item) /\ DOMAIN items = DOMAIN row.items
      /\ \A p \in DOMAIN row.items : Same(items[p], row.items[p])
  <2>1. CASE "stamps" \in done
    BY <1>1, <2>1, StampedSame
  <2>2. CASE "stamps" \notin done
    BY <1>1, <2>2 DEF Same
  <2> QED
    BY <2>1, <2>2
<1> HIDE DEF items, recorded
<1>3. new.window = row.window /\ new.items = items
  BY <1>2
<1>4. /\ new.log = (IF "log" \in recorded THEN decisions ELSE row.log)
      /\ new.snapshot = (IF "snapshot" \in recorded THEN {Snapshot(candidates)} ELSE row.snapshot)
      /\ new.torn = (IF recorded = {} THEN row.torn ELSE recorded # {"log", "snapshot"})
      /\ new.delivered = row.delivered
  BY <1>0, <1>2
<1>5. /\ new.items \in Seq(Item) /\ DOMAIN new.items = DOMAIN row.items
      /\ \A p \in DOMAIN row.items : Same(new.items[p], row.items[p])
  BY <1>3, <1>9
<1>6. SameItems(row, new)
  <2>1. \A p \in DOMAIN row.items : Same(row.items[p], new.items[p])
    BY <1>5 DEF Same
  <2>2. DOMAIN new.items = DOMAIN row.items
    BY <1>5
  <2> QED
    BY <2>1, <2>2 DEF SameItems, ItemsOf
<1>7. IsRow(new)
  <2>1. new = [window |-> new.window, items |-> new.items, log |-> new.log, snapshot |-> new.snapshot,
               torn |-> new.torn, delivered |-> new.delivered]
    BY <1>2, <1>3, <1>4
  <2>2. new.torn \in BOOLEAN
    BY <1>1, <1>4
  <2> QED
    BY <1>1, <1>3, <1>5, <2>1, <2>2 DEF IsRow
<1> QED
  BY <1>3, <1>4, <1>6, <1>7 DEF IsStamped, recorded

LEMMA RowsOf ==
    ASSUME WorldInv, RowInv, NEW to, NEW threaded \in BOOLEAN, IsLink(to), NEW floor, NEW done \in SUBSET BestEffort,
           NEW decisions, decisions = Decisions(to, threaded, floor)
    PROVE  \E new : /\ Rows(to, decisions, Candidates(to, threaded), done)
                           = {d \in digests : d.window # sub.nextRun} \cup {new}
                    /\ IsNew(new, decisions)
                    /\ Recorded(new, decisions, Snapshot(Candidates(to, threaded)))
<1> DEFINE old == {d \in digests : d.window = sub.nextRun}
           first == [window |-> sub.nextRun, items |-> FrozenItems(decisions), log |-> {},
                     snapshot |-> {}, torn |-> FALSE, delivered |-> FALSE]
           row == IF old = {} THEN first ELSE CHOOSE d \in old : TRUE
           new == StampedRow(row, to, decisions, Candidates(to, threaded), done)
           recorded == done \cap {"log", "snapshot"}
<1>1. Rows(to, decisions, Candidates(to, threaded), done) = {d \in digests : d.window # sub.nextRun} \cup {new}
  <2>1. Rows(to, decisions, Candidates(to, threaded), done) = (digests \ old) \cup {new}
    BY DEF Rows, StampedRow
  <2>2. digests \ old = {d \in digests : d.window # sub.nextRun}
    OBVIOUS
  <2> QED
    BY <2>1, <2>2, Zenon
<1>2. layer \in Layers
  BY DEF WorldInv
<1>3. /\ FrozenItems(decisions) \in Seq(Item)
      /\ \A p \in DOMAIN FrozenItems(decisions) :
            \E d \in Selected(decisions) : Freezes(FrozenItems(decisions)[p], d)
  BY FrozenAreSelected
<1>4. sub.nextRun \in Nat
  BY DEF WorldInv
<1>5. IsRow(first) /\ first.window = sub.nextRun /\ first.items = FrozenItems(decisions) /\ first.log = {}
      /\ first.snapshot = {}
  BY <1>3, <1>4 DEF IsRow
<1>6. CASE old = {}
  <2>1. row = first
    BY <1>6
  <2> HIDE DEF first
  <2>2. IsRow(row)
    BY <1>5, <2>1
  <2> HIDE DEF row
  <2>3. /\ IsRow(new) /\ new.window = row.window /\ SameItems(row, new)
        /\ new.log = (IF "log" \in recorded THEN decisions ELSE row.log)
        /\ new.snapshot = (IF "snapshot" \in recorded THEN {Snapshot(Candidates(to, threaded))} ELSE row.snapshot)
        /\ new.torn = (IF recorded = {} THEN row.torn ELSE recorded # {"log", "snapshot"})
    <3>1. IsStamped(new, row, decisions, Candidates(to, threaded), recorded)
      BY <1>2, <2>2, StampedIsRow, Zenon
    <3> HIDE DEF new
    <3> QED
      BY <3>1 DEF IsStamped
  <2> HIDE DEF new
  <2>4. \A i \in ItemsOf(new) : \E d \in Selected(decisions) : Freezes(i, d)
    <3>1. \A j \in ItemsOf(row) : \E d \in Selected(decisions) : Freezes(j, d)
      BY <1>3, <1>5, <2>1 DEF ItemsOf
    <3> QED
      BY <2>3, <3>1 DEF SameItems, Same, Freezes
  <2>5. FromDecisions(new, decisions)
    BY <1>5, <1>6, <2>1, <2>3, <2>4 DEF FromDecisions
  <2>6. Recorded(new, decisions, Snapshot(Candidates(to, threaded)))
    <3>1. CASE recorded = {}
      BY <1>5, <2>1, <2>3, <3>1 DEF Recorded
    <3>2. CASE recorded = {"log", "snapshot"}
      BY <2>3, <3>2 DEF Recorded
    <3>3. CASE recorded # {} /\ recorded # {"log", "snapshot"}
      BY <2>3, <3>3 DEF Recorded
    <3> QED
      BY <3>1, <3>2, <3>3
  <2> QED
    BY <1>1, <1>5, <2>1, <2>3, <2>5, <2>6 DEF IsNew
<1>7. CASE old # {}
  <2>1. PICK o \in digests : o.window = sub.nextRun /\ row = o
    <3>1. row = CHOOSE d \in old : TRUE
      BY <1>7
    <3>2. row \in old
      BY <1>7, <3>1
    <3> QED
      BY <3>2
  <2> HIDE DEF first, row
  <2>2. IsRow(row)
    BY <2>1 DEF RowInv
  <2>3. /\ IsRow(new) /\ new.window = row.window /\ SameItems(row, new)
        /\ new.log = (IF "log" \in recorded THEN decisions ELSE row.log)
        /\ new.snapshot = (IF "snapshot" \in recorded THEN {Snapshot(Candidates(to, threaded))} ELSE row.snapshot)
        /\ new.torn = (IF recorded = {} THEN row.torn ELSE recorded # {"log", "snapshot"})
    <3>1. IsStamped(new, row, decisions, Candidates(to, threaded), recorded)
      BY <1>2, <2>2, StampedIsRow, Zenon
    <3> HIDE DEF new
    <3> QED
      BY <3>1 DEF IsStamped
  <2> HIDE DEF new
  <2>4. FromRow(new, decisions)
    BY <2>1, <2>3 DEF FromRow
  <2>5. Recorded(new, decisions, Snapshot(Candidates(to, threaded)))
    <3>1. CASE recorded = {}
      BY <2>1, <2>2, <2>3, <3>1 DEF Recorded, IsRow
    <3>2. CASE recorded = {"log", "snapshot"}
      BY <2>3, <3>2 DEF Recorded
    <3>3. CASE recorded # {} /\ recorded # {"log", "snapshot"}
      BY <2>3, <3>3 DEF Recorded
    <3> QED
      BY <3>1, <3>2, <3>3
  <2> QED
    BY <1>1, <2>1, <2>3, <2>4, <2>5 DEF IsNew
<1> QED
  BY <1>6, <1>7

-----------------------------------------------------------------------------
(* An attempt keeps the invariant.  First, what was frozen is behind the   *)
(* stories as the attempt links them.                                      *)
LEMMA OldItemsBehind ==
    ASSUME WorldInv, StoryInv, RowInv, FreezeInv, NEW to, Covers(to), NEW d \in digests, NEW i \in ItemsOf(d)
    PROVE  /\ i.story <= minted
           /\ i.story \notin Shrinks(to) /\ Linked(to)[i.story] # {} =>
                 Behind(i, Latest(Linked(to)[i.story]), Natural(Linked(to)[i.story]))
<1>1. i.story \in Ids /\ i.last \in Nat /\ i.format \in {"note", "story"}
  BY ItemTypes
<1>2. i.story <= minted
      /\ (i.story \notin shrunk /\ story[i.story] # {} => Behind(i, Latest(story[i.story]), Natural(story[i.story])))
  BY DEF FreezeInv
<1>3. ASSUME i.story \notin Shrinks(to), Linked(to)[i.story] # {}
      PROVE  Behind(i, Latest(Linked(to)[i.story]), Natural(Linked(to)[i.story]))
  <2>1. /\ i.story \notin shrunk /\ story[i.story] # {}
        /\ LatestOf(cluster, story[i.story]) <= LatestOf(cluster, Linked(to)[i.story])
        /\ FullOf(cluster, story[i.story]) => FullOf(cluster, Linked(to)[i.story])
        /\ LatestOf(cluster, story[i.story]) \in Nat /\ LatestOf(cluster, Linked(to)[i.story]) \in Nat
    BY <1>1, <1>2, <1>3, WholeIsMore
  <2>2. i.last <= LatestOf(cluster, story[i.story]) /\ (i.format = "story" => FullOf(cluster, story[i.story]))
    BY <1>2, <2>1 DEF Behind, Latest, Natural
  <2> QED
    BY <1>1, <2>1, <2>2 DEF Behind, Latest, Natural
<1> QED
  BY <1>2, <1>3

LEMMA NewItemsBehind ==
    ASSUME WorldInv, StoryInv, RowInv, FreezeInv, NEW to, NEW threaded \in BOOLEAN, Covers(to), NEW floor,
           NEW new, IsNew(new, Decisions(to, threaded, floor)), NEW i \in ItemsOf(new)
    PROVE  /\ i.story \in Ids /\ i.last \in Nat /\ i.format \in {"note", "story"}
           /\ i.story <= minted \/ Linked(to)[i.story] # {}
           /\ i.story \notin Shrinks(to) =>
                 /\ Linked(to)[i.story] # {} => Behind(i, Latest(Linked(to)[i.story]), Natural(Linked(to)[i.story]))
                 /\ \A e \in digests : e.window < sub.nextRun =>
                       \A j \in ItemsOf(e) : j.story = i.story => Behind(j, i.last, i.format)
<1>1. CASE FromDecisions(new, Decisions(to, threaded, floor))
  <2>1. PICK d \in Decisions(to, threaded, floor) : Freezes(i, d)
    BY <1>1 DEF FromDecisions, Selected
  <2>2. DecidesOf(d, to, threaded)
    BY WhatIsDecided DEF Covers
  <2>3. /\ i.story \in Ids /\ Linked(to)[i.story] # {} /\ i.last \in Nat
        /\ i.last = Latest(Linked(to)[i.story]) /\ i.format = Natural(Linked(to)[i.story])
    BY <2>1, <2>2 DEF Freezes, DecidesOf
  <2>5. i.story \notin Shrinks(to) =>
           \A e \in digests : \A j \in ItemsOf(e) : j.story = i.story => Behind(j, i.last, i.format)
    BY <2>3, OldItemsBehind
  <2>6. Behind(i, Latest(Linked(to)[i.story]), Natural(Linked(to)[i.story]))
    BY <2>3 DEF Behind
  <2>7. i.format \in {"note", "story"}
    BY <2>3 DEF Natural
  <2> QED
    BY <2>3, <2>5, <2>6, <2>7
<1>2. CASE FromRow(new, Decisions(to, threaded, floor))
  <2>1. PICK o \in digests : o.window = sub.nextRun /\ SameItems(o, new)
    BY <1>2 DEF FromRow
  <2>2. PICK k \in ItemsOf(o) : Same(k, i)
    BY <2>1 DEF SameItems
  <2>3. i.story = k.story /\ i.last = k.last /\ i.format = k.format
    BY <2>2 DEF Same
  <2>4. k.story \in Ids /\ k.last \in Nat /\ k.format \in {"note", "story"}
    BY ItemTypes
  <2>5. /\ k.story <= minted
        /\ k.story \notin Shrinks(to) /\ Linked(to)[k.story] # {} =>
              Behind(k, Latest(Linked(to)[k.story]), Natural(Linked(to)[k.story]))
    BY OldItemsBehind
  <2>6. k.story \notin shrunk => \A e \in digests : e.window < sub.nextRun =>
           \A j \in ItemsOf(e) : k.story = j.story => Behind(j, k.last, k.format)
    BY <2>1 DEF FreezeInv
  <2>7. k.story \notin Shrinks(to) => k.story \notin shrunk
    BY DEF Shrinks
  <2> QED
    BY <2>3, <2>4, <2>5, <2>6, <2>7 DEF Behind
<1> QED
  BY <1>1, <1>2 DEF IsNew

\* The step of an attempt, with what it links, decides and leaves.
Generates(to, threaded, floor, new) ==
    /\ Relinks(to)
    /\ floor \in Int
    /\ IsNew(new, Decisions(to, threaded, floor)) /\ Recorded(new, Decisions(to, threaded, floor), Snapshot(Candidates(to, threaded)))
    /\ digests' = {d \in digests : d.window # sub.nextRun} \cup {new}
    /\ sub.nextRun <= now /\ attempt' = [pc |-> "frozen", window |-> sub.nextRun, at |-> now]
    /\ UNCHANGED <<now, cluster, layer, inputs, sub, mailed>>

LEMMA GenerateIs ==
    ASSUME WorldInv, StoryInv, RowInv, Generate
    PROVE  \E to, threaded, floor, new : threaded \in BOOLEAN /\ Generates(to, threaded, floor, new)
<1>1. PICK done \in SUBSET BestEffort, to \in Assignments :
         /\ failures' = failures + Cardinality(BestEffort \ done)
         /\ failures' <= MaxFailures
         /\ Persist(to)
         /\ \E candidates \in {Candidates(to, "threads" \in done)} :
            \E decisions \in {Select(candidates, Cfg, MaxItems, now, DisplayFloor)} :
               digests' = Rows(to, decisions, candidates, done)
  BY Zenon DEF Generate
<1>2. PICK threaded \in BOOLEAN : threaded = ("threads" \in done)
  <2>1. CASE "threads" \in done
    <3>1. TRUE = ("threads" \in done)
      BY <2>1, Zenon
    <3> QED
      BY <3>1, Zenon
  <2>2. CASE "threads" \notin done
    <3>1. FALSE = ("threads" \in done)
      BY <2>2, SMT
    <3> QED
      BY <3>1, Zenon
  <2> QED
    BY <2>1, <2>2
<1>9. PICK floor : floor = DisplayFloor
  OBVIOUS
<1>3. Relinks(to) /\ IsLink(to)
  <2>1. Relinks(to)
    BY <1>1, PersistIs
  <2> QED
    BY <2>1 DEF Relinks, Covers
<1>4. floor \in Int
  <2>1. now \in Nat /\ sub.lastRun \in Int /\ DisplayWindow \in Nat
    BY ContentAssumption DEF WorldInv
  <2> QED
    BY <1>9, <2>1 DEF DisplayFloor
<1>5. digests' = Rows(to, Decisions(to, threaded, floor), Candidates(to, threaded), done)
  BY <1>1, <1>2, <1>9 DEF Decisions
<1>6. PICK new : /\ Rows(to, Decisions(to, threaded, floor), Candidates(to, threaded), done)
                       = {d \in digests : d.window # sub.nextRun} \cup {new}
                 /\ IsNew(new, Decisions(to, threaded, floor))
                 /\ Recorded(new, Decisions(to, threaded, floor), Snapshot(Candidates(to, threaded)))
  BY <1>2, <1>3, RowsOf
<1>7. /\ sub.nextRun <= now /\ attempt' = [pc |-> "frozen", window |-> sub.nextRun, at |-> now]
      /\ UNCHANGED <<now, cluster, layer, inputs, sub, mailed>>
  BY DEF Generate, inputVars
<1>8. Generates(to, threaded, floor, new)
  BY <1>3, <1>4, <1>5, <1>6, <1>7 DEF Generates
<1> QED
  <2> WITNESS to, threaded, floor, new
  <2> QED
    BY <1>8

LEMMA RelinksWorld ==
    ASSUME WorldInv, StoryInv, NEW to, Relinks(to), UNCHANGED <<now, cluster, layer, sub>>,
           attempt' \in [pc : {"idle", "frozen", "sent"}, window : Nat, at : Nat]
    PROVE  WorldInv' /\ StoryInv'
<1>1. WorldInv'
  BY DEF WorldInv
<1>2. StoryInv'
  BY DEF StoryInv, Relinks, Covers, IsLink, Shrinks, Born
<1> QED
  BY <1>1, <1>2

LEMMA GenerateWorld ==
    ASSUME WorldInv, StoryInv, NEW to, NEW threaded \in BOOLEAN, NEW floor, NEW new, Generates(to, threaded, floor, new)
    PROVE  WorldInv' /\ StoryInv'
<1>1. Relinks(to) /\ UNCHANGED <<now, cluster, layer, sub>>
      /\ attempt' = [pc |-> "frozen", window |-> sub.nextRun, at |-> now]
  BY DEF Generates
<1>2. sub.nextRun \in Nat /\ now \in Nat
  BY DEF WorldInv
<1> QED
  BY <1>1, <1>2, RelinksWorld

LEMMA GenerateRows ==
    ASSUME WorldInv, RowInv, NEW to, NEW threaded \in BOOLEAN, NEW floor, NEW new, Generates(to, threaded, floor, new)
    PROVE  /\ RowInv'
           /\ \A d \in digests' : d = new \/ (d \in digests /\ d.window < sub.nextRun)
           /\ \A d \in digests : d.window < sub.nextRun => d \in digests' /\ d # new
           /\ new \in digests' /\ new.window = sub.nextRun
<1>1. /\ digests' = {d \in digests : d.window # sub.nextRun} \cup {new} /\ sub' = sub /\ now' = now
      /\ IsRow(new) /\ new.window = sub.nextRun /\ sub.nextRun <= now
      /\ attempt' = [pc |-> "frozen", window |-> sub.nextRun, at |-> now]
  BY DEF Generates, IsNew
<1>2. sub.nextRun \in Nat /\ \A d \in digests : d.window \in Nat /\ d.window <= sub.nextRun
  BY DEF WorldInv, RowInv, IsRow
<1>3. RowInv'
  BY <1>1, <1>2 DEF RowInv
<1> QED
  BY <1>1, <1>2, <1>3

LEMMA GenerateFreeze ==
    ASSUME WorldInv, StoryInv, RowInv, FreezeInv, NEW to, NEW threaded \in BOOLEAN, NEW floor, NEW new, Generates(to, threaded, floor, new)
    PROVE  FreezeInv'
<1>1. Covers(to) /\ Relinks(to) /\ cluster' = cluster /\ IsNew(new, Decisions(to, threaded, floor))
  BY DEF Generates, Relinks
<1>2. /\ \A d \in digests' : d = new \/ (d \in digests /\ d.window < sub.nextRun)
      /\ new.window = sub.nextRun /\ sub.nextRun \in Nat /\ \A d \in digests : d.window \in Nat
  BY GenerateRows DEF WorldInv, RowInv, IsRow
<1>3. ASSUME NEW d \in digests', NEW i \in ItemsOf(d)
      PROVE  /\ i.story <= minted'
             /\ i.story \notin shrunk' /\ story'[i.story] # {} =>
                   Behind(i, LatestOf(cluster', story'[i.story]),
                          IF FullOf(cluster', story'[i.story]) THEN "story" ELSE "note")
  <2>1. /\ i.story \in Ids /\ (i.story <= minted \/ Linked(to)[i.story] # {})
        /\ i.story \notin Shrinks(to) /\ Linked(to)[i.story] # {} =>
              Behind(i, Latest(Linked(to)[i.story]), Natural(Linked(to)[i.story]))
    <3>1. CASE d = new
      BY <1>1, <3>1, NewItemsBehind
    <3>2. CASE d \in digests
      BY <1>1, <3>2, OldItemsBehind, ItemTypes
    <3> QED
      BY <1>2, <3>1, <3>2
  <2>2. i.story <= minted'
    BY <1>1, <2>1 DEF Relinks, StoryInv, Ids
  <2> QED
    BY <1>1, <2>1, <2>2 DEF Relinks, Latest, Natural
<1>4. ASSUME NEW d \in digests', NEW e \in digests', e.window < d.window,
             NEW i \in ItemsOf(d), NEW j \in ItemsOf(e), i.story = j.story, i.story \notin shrunk'
      PROVE  Behind(j, i.last, i.format)
  <2>1. e \in digests /\ e.window < sub.nextRun
    BY <1>2, <1>4
  <2>2. i.story \notin Shrinks(to) /\ i.story \notin shrunk
    BY <1>1, <1>4 DEF Relinks, Shrinks
  <2>3. CASE d = new
    BY <1>1, <1>4, <2>1, <2>2, <2>3, NewItemsBehind
  <2>4. CASE d \in digests
    BY <1>4, <2>1, <2>2, <2>4 DEF FreezeInv
  <2> QED
    BY <1>2, <2>3, <2>4
<1> QED
  BY <1>3, <1>4 DEF FreezeInv, Latest, Natural

LEMMA IdsFinite == IsFiniteSet(Ids)
<1>1. PICK n \in Int : n = MaxStories
  BY ContentAssumption
<1>2. IsFiniteSet(1 .. n)
  BY FS_Interval
<1> QED
  BY <1>1, <1>2 DEF Ids

(* A selected story without news is one of the damped.                     *)
LEMMA StaleIsDamped ==
    ASSUME WorldInv, StoryInv, RowInv, FreezeInv, NEW to, NEW threaded \in BOOLEAN, IsLink(to), NEW d, DecidesOf(d, to, threaded), Ranked(d),
           d.story \notin shrunk, NEW e \in digests, e.window < sub.nextRun, sub.nextRun <= e.window + ContextHorizon,
           NEW j \in ItemsOf(e), j.story = d.story, ~ News(j, d.last, d.natural)
    PROVE  d.format = "note" /\ d.richness = "still developing"
<1>1. PICK k : k = Candidate(d.story, Linked(to)[d.story], sub.nextRun, threaded)
  OBVIOUS
<1>2. d.story \in Ids /\ Linked(to)[d.story] # {} /\ Linked(to)[d.story] \in SUBSET Clusters /\ \A c \in Linked(to)[d.story] : Born(c)
  BY DEF DecidesOf, IsLink
<1>3. k.last = Latest(Linked(to)[d.story]) /\ k.last \in Nat /\ k.shown = LastShown(d.story, sub.nextRun)
      /\ NaturalFormat(k) = Natural(Linked(to)[d.story])
  BY <1>1, <1>2, CandidateFacts
<1>4. k.last = d.last /\ NaturalFormat(k) = d.natural
  BY <1>3 DEF DecidesOf
<1>5. Resurfaced(k)
  BY <1>2, <1>3, <1>4, NoNewsResurfaces
<1> QED
  BY <1>1, <1>5 DEF DecidesOf

LEMMA GenerateBudget ==
    ASSUME WorldInv, StoryInv, RowInv, FreezeInv, BudgetInv, NEW to, NEW threaded \in BOOLEAN, NEW floor, NEW new, Generates(to, threaded, floor, new)
    PROVE  BudgetInv'
<1> DEFINE decisions == Decisions(to, threaded, floor)
           chosen == Selected(decisions)
           damped == {d \in chosen : d.richness = "still developing"}
<1>1. Covers(to) /\ IsLink(to) /\ IsNew(new, decisions) /\ shrunk \subseteq shrunk'
  BY DEF Generates, Relinks, Covers, Shrinks
<1>2. /\ \A d \in digests' : d = new \/ (d \in digests /\ d.window < sub.nextRun)
      /\ new.window = sub.nextRun /\ sub.nextRun \in Nat /\ \A d \in digests : d.window \in Nat
  BY GenerateRows DEF WorldInv, RowInv, IsRow
<1>3. Cfg.resurfaceCap \in Nat
  BY ContentAssumption
<1>4. \A d \in digests : IsFiniteSet(Stale(d)) /\ Cardinality(Stale(d)) \in Nat
  <2>1. \A d : Stale(d) \subseteq Ids
    BY DEF Stale
  <2> QED
    BY <2>1, IdsFinite, FS_Subset, FS_CardinalityType
<1>5. ASSUME NEW o \in digests, Stale(new)' \subseteq Stale(o) PROVE Cardinality(Stale(new)') <= Cfg.resurfaceCap
  <2>1. PICK T : T = Stale(new)'
    OBVIOUS
  <2>2. IsFiniteSet(T) /\ Cardinality(T) <= Cardinality(Stale(o)) /\ Cardinality(T) \in Nat
    BY <1>4, <1>5, <2>1, FS_Subset, FS_CardinalityType
  <2>3. Cardinality(Stale(o)) <= Cfg.resurfaceCap /\ Cardinality(Stale(o)) \in Nat
    BY <1>4 DEF BudgetInv
  <2> QED
    BY <1>3, <2>1, <2>2, <2>3
<1>6. ASSUME NEW d \in digests, d \in digests', d.window < sub.nextRun PROVE Cardinality(Stale(d)') <= Cfg.resurfaceCap
  <2>1. Stale(d)' \subseteq Stale(d)
    BY <1>1, <1>2, <1>6 DEF Stale, Earlier
  <2>2. PICK T : T = Stale(d)'
    OBVIOUS
  <2>3. IsFiniteSet(T) /\ Cardinality(T) <= Cardinality(Stale(d)) /\ Cardinality(T) \in Nat
    BY <1>4, <2>1, <2>2, FS_Subset, FS_CardinalityType
  <2>4. Cardinality(Stale(d)) <= Cfg.resurfaceCap /\ Cardinality(Stale(d)) \in Nat
    BY <1>4 DEF BudgetInv
  <2> QED
    BY <1>3, <2>2, <2>3, <2>4
<1>7. Cardinality(Stale(new)') <= Cfg.resurfaceCap
  <2>1. CASE FromRow(new, decisions)
    <3>1. PICK o \in digests : o.window = sub.nextRun /\ SameItems(o, new)
      BY <2>1 DEF FromRow
    <3>2. Stale(new)' \subseteq Stale(o)
      <4> SUFFICES ASSUME NEW i \in ItemsOf(new), NEW e \in digests', Earlier(e, new), NEW j \in ItemsOf(e),
                          i.story \in Ids \ shrunk, j.story = i.story, ~ News(j, i.last, i.format)
                   PROVE  i.story \in Stale(o)
        BY <1>1 DEF Stale
      <4>1. e \in digests /\ Earlier(e, o)
        BY <1>2, <3>1 DEF Earlier
      <4>2. PICK k \in ItemsOf(o) : k.story = i.story /\ k.last = i.last /\ k.format = i.format
        BY <3>1 DEF SameItems, Same
      <4> QED
        BY <4>1, <4>2 DEF Stale
    <3> QED
      BY <1>5, <3>2
  <2>2. CASE FromDecisions(new, decisions)
    <3>1. ASSUME NEW i \in ItemsOf(new), NEW e \in digests', Earlier(e, new), NEW j \in ItemsOf(e),
                 i.story \in Ids \ shrunk, j.story = i.story, ~ News(j, i.last, i.format)
          PROVE  \E d \in damped : d.story = i.story
      <4>1. PICK d \in chosen : Freezes(i, d)
        BY <2>2 DEF FromDecisions
      <4>2. e \in digests /\ e.window < sub.nextRun /\ sub.nextRun <= e.window + ContextHorizon
        BY <1>2, <3>1 DEF Earlier
      <4>3. DecidesOf(d, to, threaded) /\ Ranked(d)
        BY <1>1, WhatIsDecided DEF Selected, Ranked
      <4>4. j.story = d.story /\ ~ News(j, d.last, d.natural)
        BY <3>1, <4>1 DEF Freezes
      <4>5. d.richness = "still developing"
        BY <1>1, <3>1, <4>1, <4>2, <4>3, <4>4, StaleIsDamped DEF Freezes
      <4> QED
        BY <4>1, <4>5 DEF Freezes
    <3>2. Stale(new)' \subseteq {d.story : d \in damped}
      BY <1>1, <3>1 DEF Stale
    <3>3. IsFiniteSet(chosen) /\ Cardinality(damped) <= Cfg.resurfaceCap
      <4>1. Sound(Candidates(to, threaded)) /\ now \in Nat
        BY <1>1, CandidatesSound DEF WorldInv
      <4> QED
        BY <4>1, SelectedPlaces DEF Decisions
    <3>4. IsFiniteSet(damped) /\ Cardinality(damped) \in Nat
      BY <3>3, FS_Subset, FS_CardinalityType
    <3> DEFINE f == [d \in damped |-> d.story]
    <3>5. {d.story : d \in damped} = {f[d] : d \in damped}
      OBVIOUS
    <3>6. \A T : T \subseteq {f[d] : d \in damped} => Cardinality(T) <= Cfg.resurfaceCap
      <4> HIDE DEF f, damped
      <4>1. /\ IsFiniteSet({f[d] : d \in damped}) /\ Cardinality({f[d] : d \in damped}) \in Nat
            /\ Cardinality({f[d] : d \in damped}) <= Cardinality(damped)
        BY <3>4, ImageCount
      <4> TAKE T
      <4> HAVE T \subseteq {f[d] : d \in damped}
      <4>2. Cardinality(T) \in Nat /\ Cardinality(T) <= Cardinality({f[d] : d \in damped})
        BY <4>1, FS_Subset, FS_CardinalityType
      <4> QED
        BY <1>3, <3>3, <3>4, <4>1, <4>2
    <3>7. Stale(new)' \subseteq {f[d] : d \in damped}
      BY <3>2, <3>5
    <3> HIDE DEF f, damped
    <3> QED
      BY <3>6, <3>7
  <2> QED
    BY <1>1, <2>1, <2>2 DEF IsNew
<1> QED
  BY <1>2, <1>6, <1>7 DEF BudgetInv

(* What was decided of a story that is whole is no later than the story.   *)
LEMMA OldEntriesBehind ==
    ASSUME WorldInv, StoryInv, NEW to, Relinks(to), cluster' = cluster, NEW d, NEW l, EntryInv(d, l),
           l.story \notin shrunk', story'[l.story] # {}
    PROVE  l.last <= LatestOf(cluster', story'[l.story])
<1>1. Covers(to) /\ story' = Linked(to) /\ l.story \notin Shrinks(to)
  BY DEF Relinks
<1>2. l.story \in Ids /\ l.story <= minted /\ l.last \in Nat
  BY DEF EntryInv
<1>3. /\ l.story \notin shrunk /\ story[l.story] # {}
      /\ LatestOf(cluster, story[l.story]) <= LatestOf(cluster, Linked(to)[l.story])
      /\ LatestOf(cluster, story[l.story]) \in Nat /\ LatestOf(cluster, Linked(to)[l.story]) \in Nat
  BY <1>1, <1>2, WholeIsMore
<1>4. l.last <= LatestOf(cluster, story[l.story])
  BY <1>3 DEF EntryInv, Latest
<1> QED
  BY <1>1, <1>2, <1>3, <1>4

LEMMA GenerateLog ==
    ASSUME WorldInv, StoryInv, RowInv, FreezeInv, LogInv, NEW to, NEW threaded \in BOOLEAN, NEW floor, NEW new, Generates(to, threaded, floor, new)
    PROVE  LogInv'
<1> DEFINE decisions == Decisions(to, threaded, floor)
<1>1. Covers(to) /\ IsLink(to) /\ Relinks(to) /\ cluster' = cluster /\ IsNew(new, decisions) /\ shrunk \subseteq shrunk'
  BY DEF Generates, Relinks, Covers, Shrinks
<1>2. /\ \A d \in digests' : d = new \/ (d \in digests /\ d.window < sub.nextRun)
      /\ new.window = sub.nextRun /\ sub.nextRun \in Nat /\ \A d \in digests : d.window \in Nat
  BY GenerateRows DEF WorldInv, RowInv, IsRow
<1>3. ASSUME NEW s, NEW last, NEW format, NEW o \in digests, NEW d, d.window = o.window, o.window <= sub.nextRun,
             NewsWas(s, last, format, o)
      PROVE  NewsWas(s, last, format, d)'
  <2> SUFFICES ASSUME NEW e \in digests', Earlier(e, d), NEW j \in ItemsOf(e), j.story = s
               PROVE  News(j, last, format)
    BY DEF NewsWas
  <2>1. e \in digests /\ Earlier(e, o)
    BY <1>2, <1>3 DEF Earlier
  <2> QED
    BY <1>3, <2>1 DEF NewsWas
<1>4. ASSUME NEW o \in digests, NEW l \in o.log, NEW d, d.window = o.window, SameItems(o, d)
      PROVE  EntryInv(d, l)'
  <2>1. EntryInv(o, l) /\ o.window <= sub.nextRun
    BY DEF LogInv, RowInv
  <2>2. l.story \in Ids /\ l.story <= minted' /\ l.last \in Nat /\ l.natural \in {"note", "story"}
    BY <1>1, <2>1 DEF EntryInv, Relinks, StoryInv, Ids
  <2>3. ASSUME l.story \notin shrunk', story'[l.story] # {}
        PROVE  l.last <= LatestOf(cluster', story'[l.story])
    BY <1>1, <2>1, <2>3, OldEntriesBehind
  <2>4. ASSUME l.story \notin shrunk'
        PROVE  /\ \A i \in ItemsOf(d) : i.story = l.story => Behind(i, l.last, l.natural)
               /\ Ranked(l) /\ l.format = "story" => l.natural = "story" /\ NewsWas(l.story, l.last, l.natural, d)'
    <3>1. l.story \notin shrunk
      BY <1>1, <2>4
    <3>2. \A i \in ItemsOf(o) : i.story = l.story => Behind(i, l.last, l.natural)
      BY <2>1, <3>1 DEF EntryInv
    <3>3. \A i \in ItemsOf(d) : i.story = l.story => Behind(i, l.last, l.natural)
      BY <1>4, <3>2 DEF SameItems, Same, Behind
    <3>4. Ranked(l) /\ l.format = "story" => l.natural = "story" /\ NewsWas(l.story, l.last, l.natural, d)'
      BY <1>3, <1>4, <2>1, <3>1 DEF EntryInv
    <3> QED
      BY <3>3, <3>4
  <2> QED
    BY <2>2, <2>3, <2>4 DEF EntryInv, Latest
<1>5. ASSUME NEW l \in decisions PROVE EntryInv(new, l)'
  <2>1. DecidesOf(l, to, threaded)
    BY <1>1, WhatIsDecided
  <2>2. /\ l.story \in Ids /\ l.last \in Nat /\ l.natural \in {"note", "story"} /\ Linked(to)[l.story] # {}
        /\ l.last = Latest(Linked(to)[l.story]) /\ l.natural = Natural(Linked(to)[l.story])
    BY <2>1 DEF DecidesOf, Natural
  <2>3. l.story <= minted' /\ l.last <= LatestOf(cluster', story'[l.story])
    BY <1>1, <2>2 DEF Relinks, Latest
  <2>4. l.story \notin shrunk' => \A i \in ItemsOf(new) : i.story = l.story => Behind(i, l.last, l.natural)
    <3>1. shrunk' = Shrinks(to)
      BY <1>1 DEF Relinks
    <3> QED
      BY <1>1, <2>2, <3>1, NewItemsBehind
  <2>5. ASSUME l.story \notin shrunk', Ranked(l), l.format = "story"
        PROVE  l.natural = "story" /\ NewsWas(l.story, l.last, l.natural, new)'
    <3>1. l.natural = "story"
      BY <2>1, <2>5 DEF DecidesOf
    <3>2. ASSUME NEW e \in digests', Earlier(e, new), NEW j \in ItemsOf(e), j.story = l.story,
                 ~ News(j, l.last, l.natural)
          PROVE  FALSE
      <4>1. e \in digests /\ e.window < sub.nextRun /\ sub.nextRun <= e.window + ContextHorizon
        BY <1>2, <3>2 DEF Earlier
      <4>2. l.story \notin shrunk
        BY <1>1, <2>5
      <4>3. l.format = "note"
        BY <1>1, <2>1, <2>5, <3>2, <4>1, <4>2, StaleIsDamped
      <4> QED
        BY <2>5, <4>3
    <3> QED
      BY <3>1, <3>2 DEF NewsWas
  <2> QED
    BY <2>2, <2>3, <2>4, <2>5 DEF EntryInv, Latest
<1>6. \A d \in digests' : d = new \/ (d \in digests /\ SameItems(d, d))
  BY <1>2 DEF SameItems, Same
<1>7. new.log = decisions \/ new.log = {}
      \/ \E o \in digests : new.window = o.window /\ SameItems(o, new) /\ new.log = o.log
  BY <1>1, <1>2 DEF IsNew, FromDecisions, FromRow
<1>8. ASSUME NEW d \in digests', NEW l \in d.log PROVE EntryInv(d, l)'
  BY <1>4, <1>5, <1>6, <1>7, <1>8
<1>9. ASSUME NEW d \in digests', NEW k \in d.log, NEW l \in d.log, k.story = l.story PROVE k = l
  <2>1. \A o \in digests : \A x, y \in o.log : x.story = y.story => x = y
    BY DEF LogInv
  <2>2. \A x, y \in decisions : x.story = y.story => x = y
    BY <1>1, WhatIsDecided
  <2> HIDE DEF decisions
  <2> QED
    BY <1>6, <1>7, <1>9, <2>1, <2>2
<1> QED
  BY <1>8, <1>9 DEF LogInv

LEMMA GenerateMail ==
    ASSUME WorldInv, RowInv, MailInv, NEW to, NEW threaded \in BOOLEAN, NEW floor, NEW new, Generates(to, threaded, floor, new)
    PROVE  MailInv'
<1>1. mailed' = mailed /\ IsNew(new, Decisions(to, threaded, floor)) /\ shrunk \subseteq shrunk'
  BY DEF Generates, Relinks, Shrinks
<1>2. /\ \A d \in digests' : d = new \/ (d \in digests /\ d.window < sub.nextRun)
      /\ \A d \in digests : d.window < sub.nextRun => d \in digests'
      /\ new \in digests' /\ new.window = sub.nextRun /\ sub.nextRun \in Nat
      /\ \A d \in digests : d.window \in Nat /\ d.window <= sub.nextRun
  <2>1. sub.nextRun \in Nat /\ \A d \in digests : d.window \in Nat /\ d.window <= sub.nextRun
    BY DEF WorldInv, RowInv, IsRow
  <2>2. /\ \A d \in digests' : d = new \/ (d \in digests /\ d.window < sub.nextRun)
        /\ \A d \in digests : d.window < sub.nextRun => d \in digests' /\ d # new
        /\ new \in digests' /\ new.window = sub.nextRun
    BY GenerateRows
  <2> QED
    BY <2>1, <2>2
<1>3. ASSUME NEW m \in mailed PROVE \E d \in digests' : \E i \in ItemsOf(d) : MailOf(m, d, i)'
  <2>0. PICK o \in digests : \E k \in ItemsOf(o) : MailOf(m, o, k)
    BY <1>3 DEF MailInv
  <2>1. PICK k \in ItemsOf(o) : MailOf(m, o, k)
    BY <2>0
  <2>2. ASSUME NEW d \in digests', d.window = o.window, NEW i \in ItemsOf(d), Same(k, i) PROVE MailOf(m, d, i)'
    <3>1. NewsWas(m.story, m.last, m.natural, o) => NewsWas(m.story, m.last, m.natural, d)'
      <4> SUFFICES ASSUME NewsWas(m.story, m.last, m.natural, o),
                          NEW e \in digests', Earlier(e, d), NEW j \in ItemsOf(e), j.story = m.story
                   PROVE  News(j, m.last, m.natural)
        BY DEF NewsWas
      <4>1. e \in digests /\ Earlier(e, o)
        BY <1>2, <2>2 DEF Earlier
      <4> QED
        BY <4>1 DEF NewsWas
    <3> QED
      BY <1>1, <2>1, <2>2, <3>1 DEF MailOf, Same
  <2>3. CASE o.window < sub.nextRun
    <3>1. o \in digests' /\ Same(k, k)
      BY <1>2, <2>3 DEF Same
    <3> QED
      BY <2>2, <3>1
  <2>4. CASE o.window = sub.nextRun
    <3>1. PICK q \in digests : q.window = sub.nextRun /\ SameItems(q, new)
      BY <1>1, <2>4 DEF IsNew, FromDecisions, FromRow
    <3>2. q = o
      BY <2>4, <3>1 DEF RowInv
    <3>3. PICK i \in ItemsOf(new) : Same(k, i)
      BY <3>1, <3>2 DEF SameItems
    <3> QED
      BY <1>2, <2>2, <2>4, <3>3
  <2> QED
    BY <1>2, <2>3, <2>4
<1> QED
  BY <1>1, <1>3 DEF MailInv

LEMMA GenerateReplay ==
    ASSUME WorldInv, RowInv, ReplayInv, NEW to, NEW threaded \in BOOLEAN, NEW floor, NEW new, Generates(to, threaded, floor, new)
    PROVE  ReplayInv'
<1> DEFINE decisions == Decisions(to, threaded, floor)
           snapshot == Snapshot(Candidates(to, threaded))
<1>1. IsLink(to) /\ IsNew(new, decisions) /\ Recorded(new, decisions, snapshot) /\ floor \in Int
  BY DEF Generates, Relinks, Covers
<1>2. \A d \in digests' : d = new \/ d \in digests
  BY GenerateRows
<1>3. OfSnapshot(decisions, snapshot)
  <2>1. snapshot.candidates = Candidates(to, threaded) /\ snapshot.maxItems = MaxItems /\ snapshot.now = now
    BY DEF Snapshot
  <2>2. \A c \in Candidates(to, threaded) : c.last \in Nat
    BY <1>1, CandidatesSound DEF Sound
  <2> QED
    BY <1>1, <2>1, <2>2 DEF OfSnapshot, Decisions
<1>4. SoundLog(new.log)
  <2>1. SoundLog({})
    BY DEF SoundLog
  <2>2. SoundLog(decisions)
    BY <1>1, WhatIsDecided
  <2>3. \A o \in digests : SoundLog(o.log)
    BY DEF ReplayInv
  <2> HIDE DEF decisions
  <2> QED
    BY <1>1, <2>1, <2>2, <2>3 DEF IsNew, FromDecisions, FromRow
<1>5. ASSUME ~ new.torn
      PROVE  (new.log = {} /\ new.snapshot = {}) \/ \E s : new.snapshot = {s} /\ OfSnapshot(new.log, s)
  <2>1. \A o \in digests : ~ o.torn => (o.log = {} /\ o.snapshot = {}) \/ \E s : o.snapshot = {s} /\ OfSnapshot(o.log, s)
    BY DEF ReplayInv
  <2> HIDE DEF decisions, snapshot
  <2> QED
    BY <1>1, <1>3, <1>5, <2>1 DEF Recorded
<1> QED
  BY <1>2, <1>4, <1>5 DEF ReplayInv

(* An attempt that ends when it has linked keeps the invariant, too.       *)
LEMMA LinkOnlyKeeps ==
    ASSUME ContentInv, LinkOnly
    PROVE  ContentInv'
<1>1. PICK to : Relinks(to)
  BY PersistIs DEF LinkOnly, ContentInv
<1>2. UNCHANGED <<now, cluster, layer, sub, digests, attempt, mailed>>
  BY DEF LinkOnly, inputVars
<1>3. shrunk \subseteq shrunk' /\ shrunk' = Shrinks(to) /\ Covers(to) /\ story' = Linked(to)
  BY <1>1 DEF Relinks, Shrinks
<1>4. WorldInv' /\ StoryInv'
  BY <1>1, <1>2, RelinksWorld DEF ContentInv, WorldInv
<1>5. RowInv'
  BY <1>2 DEF ContentInv, RowInv
<1>6. FreezeInv'
  <2>1. ASSUME NEW d \in digests, NEW i \in ItemsOf(d)
        PROVE  /\ i.story <= minted'
               /\ i.story \notin shrunk' /\ story'[i.story] # {} =>
                     Behind(i, LatestOf(cluster', story'[i.story]),
                            IF FullOf(cluster', story'[i.story]) THEN "story" ELSE "note")
    <3>1. /\ i.story \in Ids /\ i.story <= minted
          /\ i.story \notin Shrinks(to) /\ Linked(to)[i.story] # {} =>
                Behind(i, Latest(Linked(to)[i.story]), Natural(Linked(to)[i.story]))
      BY <1>3, OldItemsBehind, ItemTypes DEF ContentInv
    <3>2. i.story <= minted'
      BY <1>1, <3>1 DEF Relinks, ContentInv, StoryInv, Ids
    <3> QED
      BY <1>2, <1>3, <3>1, <3>2 DEF Latest, Natural
  <2> QED
    BY <1>2, <1>3, <2>1 DEF ContentInv, FreezeInv, Latest, Natural
<1>7. BudgetInv'
  <2>1. ASSUME NEW d \in digests PROVE Cardinality(Stale(d)') <= Cfg.resurfaceCap
    <3>1. PICK S, T : S = Stale(d) /\ T = Stale(d)'
      OBVIOUS
    <3>2. T \subseteq S /\ S \subseteq Ids
      BY <1>2, <1>3, <3>1 DEF Stale, Earlier
    <3>3. Cardinality(T) \in Nat /\ Cardinality(S) \in Nat /\ Cardinality(T) <= Cardinality(S)
      BY <3>2, IdsFinite, FS_Subset, FS_CardinalityType
    <3>4. Cardinality(S) <= Cfg.resurfaceCap /\ Cfg.resurfaceCap \in Nat
      BY <3>1, ContentAssumption DEF ContentInv, BudgetInv
    <3> QED
      BY <3>1, <3>3, <3>4
  <2> QED
    BY <1>2, <2>1 DEF BudgetInv
<1>8. LogInv'
  <2>1. ASSUME NEW d \in digests, NEW l \in d.log PROVE EntryInv(d, l)'
    <3>1. EntryInv(d, l)
      BY DEF ContentInv, LogInv
    <3>2. l.story <= minted'
      BY <1>1, <3>1 DEF EntryInv, Relinks, ContentInv, StoryInv, Ids
    <3>3. l.story \notin shrunk' /\ story'[l.story] # {} => l.last <= LatestOf(cluster', story'[l.story])
      BY <1>1, <1>2, <3>1, OldEntriesBehind DEF ContentInv
    <3> QED
      BY <1>2, <1>3, <3>1, <3>2, <3>3 DEF EntryInv, Latest, NewsWas
  <2> QED
    BY <1>2, <2>1 DEF ContentInv, LogInv
<1>9. MailInv'
  BY <1>2, <1>3 DEF ContentInv, MailInv, MailOf, NewsWas
<1> QED
  BY <1>4, <1>5, <1>6, <1>7, <1>8, <1>9 DEF ContentInv

-----------------------------------------------------------------------------
(* The other steps.  An event adds to the news of its cluster, and nothing *)
(* that was frozen, decided or mailed can be ahead of it.                  *)
LEMMA EventKeeps ==
    ASSUME ContentInv, NEW c \in Clusters, Event(c)
    PROVE  ContentInv'
<1>1. /\ cluster' = [cluster EXCEPT ![c] = [last |-> now, events |-> @.events + 1]]
      /\ UNCHANGED <<now, story, minted, shrunk, layer, sub, digests, attempt, mailed>>
  BY DEF Event, storyVars
<1>2. cluster \in ClusterTable /\ now \in Nat /\ \A b \in Clusters : cluster[b].last <= now
  BY DEF ContentInv, WorldInv, ClusterTable
<1>3. cluster[c].events \in Nat /\ cluster[c].last \in Nat /\ cluster[c].last <= now
  BY <1>2 DEF ClusterTable
<1>4. cluster' \in ClusterTable
  BY <1>1, <1>2, <1>3 DEF ClusterTable
<1>5. \A b \in Clusters : /\ cluster[b].last <= cluster'[b].last /\ cluster[b].events <= cluster'[b].events
                          /\ cluster'[b].last <= now
  <2> TAKE b \in Clusters
  <2>1. CASE b = c
    <3>1. cluster'[b].last = now /\ cluster'[b].events = cluster[b].events + 1
      BY <1>1, <1>2, <2>1 DEF ClusterTable
    <3> QED
      BY <1>2, <1>3, <2>1, <3>1
  <2>2. CASE b # c
    <3>1. cluster'[b] = cluster[b] /\ cluster[b].last \in Nat /\ cluster[b].events \in Nat
      BY <1>1, <1>2, <2>2 DEF ClusterTable
    <3> QED
      BY <1>2, <3>1
  <2> QED
    BY <2>1, <2>2
<1>6. WorldInv'
  BY <1>1, <1>4, <1>5 DEF ContentInv, WorldInv, ClusterTable
<1>7. StoryInv'
  <2>1. \A b \in Clusters : Born(b) => Born(b)'
    BY <1>2, <1>4, <1>5 DEF Born, ClusterTable
  <2> QED
    BY <1>1, <2>1 DEF ContentInv, StoryInv
<1>8. ASSUME NEW s \in Ids, story[s] # {}
      PROVE  /\ LatestOf(cluster, story[s]) <= LatestOf(cluster', story[s])
             /\ FullOf(cluster, story[s]) => FullOf(cluster', story[s])
             /\ LatestOf(cluster, story[s]) \in Nat /\ LatestOf(cluster', story[s]) \in Nat
  <2>1. PICK members : members = story[s]
    OBVIOUS
  <2>2. members \in SUBSET Clusters /\ members \in SUBSET members /\ members # {}
    BY <1>8, <2>1 DEF ContentInv, StoryInv
  <2>3. \A b \in members : cluster[b].last <= cluster'[b].last /\ cluster[b].events <= cluster'[b].events
    BY <1>5, <2>2
  <2>4. LatestOf(cluster, members) <= LatestOf(cluster', members) /\ (FullOf(cluster, members) => FullOf(cluster', members))
    BY <1>2, <1>4, <2>2, <2>3, MoreIsMore
  <2>5. LatestOf(cluster, members) \in Nat /\ LatestOf(cluster', members) \in Nat
    BY <1>2, <1>4, <2>2, LatestIsLast
  <2> QED
    BY <2>1, <2>4, <2>5
<1>9. RowInv' /\ BudgetInv' /\ MailInv'
  BY <1>1 DEF ContentInv, RowInv, BudgetInv, Stale, MailInv, MailOf, NewsWas
<1>10. FreezeInv'
  <2>1. ASSUME NEW d \in digests, NEW i \in ItemsOf(d), i.story \notin shrunk, story[i.story] # {}
        PROVE  Behind(i, LatestOf(cluster', story[i.story]), IF FullOf(cluster', story[i.story]) THEN "story" ELSE "note")
    <3>1. i.story \in Ids /\ i.last \in Nat
      BY ItemTypes DEF ContentInv
    <3>2. Behind(i, LatestOf(cluster, story[i.story]), IF FullOf(cluster, story[i.story]) THEN "story" ELSE "note")
      BY <2>1 DEF ContentInv, FreezeInv, Latest, Natural
    <3> QED
      BY <1>8, <2>1, <3>1, <3>2 DEF Behind
  <2> QED
    BY <1>1, <2>1 DEF ContentInv, FreezeInv, Latest, Natural
<1>11. LogInv'
  <2>1. ASSUME NEW d \in digests, NEW l \in d.log PROVE EntryInv(d, l)'
    <3>1. EntryInv(d, l)
      BY DEF ContentInv, LogInv
    <3>2. l.story \notin shrunk /\ story[l.story] # {} => l.last <= LatestOf(cluster', story[l.story])
      BY <1>8, <3>1 DEF EntryInv, Latest
    <3> QED
      BY <1>1, <3>1, <3>2 DEF EntryInv, Latest, NewsWas
  <2> QED
    BY <1>1, <2>1 DEF ContentInv, LogInv
<1> QED
  BY <1>6, <1>7, <1>9, <1>10, <1>11 DEF ContentInv

(* The boundary after now is after every window that has been frozen.      *)
LEMMA NextRunAhead ==
    ASSUME now \in Nat, NEW phase \in Nat
    PROVE  NextRun(phase) \in Nat /\ NextRun(phase) > now
<1>1. Cadence \in Nat \ {0}
  BY ContentAssumption
<1>2. PICK n \in Nat, k \in Nat \ {0} : n = now /\ k = Cadence
  BY <1>1
<1>3. (phase - (n + 1)) % k \in 0 .. k - 1
  BY <1>2
<1>4. NextRun(phase) = n + 1 + ((phase - (n + 1)) % k)
  BY <1>2 DEF NextRun
<1> QED
  BY <1>2, <1>3, <1>4

LEMMA PreferencesKeep ==
    ASSUME ContentInv, NEW phase \in 0 .. Cadence - 1, ChangePreferences(phase)
    PROVE  ContentInv'
<1>1. /\ sub' = [sub EXCEPT !.phase = phase, !.nextRun = NextRun(phase)]
      /\ UNCHANGED <<now, cluster, story, minted, shrunk, layer, digests, attempt, mailed>>
  BY DEF ChangePreferences, storyVars
<1>2. now \in Nat /\ sub \in [phase : Nat, nextRun : Nat, lastRun : Int]
  BY DEF ContentInv, WorldInv
<1>3. phase \in Nat
  BY ContentAssumption
<1>4. NextRun(phase) \in Nat /\ NextRun(phase) > now
  BY <1>2, <1>3, NextRunAhead
<1>5. sub' \in [phase : Nat, nextRun : Nat, lastRun : Int] /\ sub'.nextRun = NextRun(phase)
  BY <1>1, <1>2, <1>3, <1>4
<1>6. WorldInv'
  BY <1>1, <1>5 DEF ContentInv, WorldInv
<1>7. RowInv'
  <2>1. \A d \in digests : d.window \in Nat /\ d.window <= now
    BY DEF ContentInv, RowInv, IsRow
  <2>2. \A d \in digests : d.window <= sub'.nextRun
    BY <1>2, <1>4, <1>5, <2>1
  <2> QED
    BY <1>1, <2>2 DEF ContentInv, RowInv
<1>8. StoryInv' /\ FreezeInv' /\ BudgetInv' /\ LogInv' /\ MailInv'
  BY <1>1 DEF ContentInv, StoryInv, Born, FreezeInv, Latest, Natural, BudgetInv, Stale, LogInv, EntryInv, NewsWas,
              MailInv, MailOf
<1> QED
  BY <1>6, <1>7, <1>8 DEF ContentInv

(* Sending mails the rendered items: each is of an item of the row, and is *)
(* rendered as the entry of the log for its story has it.                  *)
LEMMA SendKeeps ==
    ASSUME ContentInv, Send
    PROVE  ContentInv'
<1>1. /\ attempt.pc = "frozen" /\ attempt' = [attempt EXCEPT !.pc = "sent"]
      /\ mailed' = mailed \cup Rendered(attempt.window)
      /\ UNCHANGED <<now, cluster, layer, story, minted, shrunk, sub, digests>>
  BY DEF Send, inputVars, storyVars
<1>2. WorldInv'
  BY <1>1 DEF ContentInv, WorldInv
<1>3. RowInv'
  BY <1>1 DEF ContentInv, RowInv, WorldInv
<1>4. StoryInv' /\ FreezeInv' /\ BudgetInv' /\ LogInv'
  BY <1>1 DEF ContentInv, StoryInv, Born, FreezeInv, Latest, Natural, BudgetInv, Stale, LogInv, EntryInv, NewsWas
<1>5. PICK d \in digests : d.window = attempt.window /\ Row(attempt.window) = d
  <2>1. \E d \in digests : d.window = attempt.window
    BY <1>1 DEF ContentInv, RowInv
  <2> QED
    BY <2>1 DEF Row
<1>6. ASSUME NEW m \in Rendered(attempt.window) PROVE \E i \in ItemsOf(d) : MailOf(m, d, i)
  <2>1. PICK i \in ItemsOf(d) : story[i.story] # {} /\ m = Mail(attempt.window, i)
    BY <1>5, <1>6 DEF Rendered, Items, ItemsOf
  <2>2. i.story \in Ids /\ i.last \in Nat /\ i.format \in {"note", "story"}
    BY ItemTypes DEF ContentInv
  <2> DEFINE entry == {l \in d.log : l.story = i.story}
             latest == LatestOf(cluster, story[i.story])
  <2>3. /\ m.window = attempt.window /\ m.story = i.story /\ m.anchor = i.last /\ m.frozen = i.format
        /\ m.last = latest
        /\ m.ranked = (\E l \in entry : l.verdict \in {"selected", "over_cap"})
        /\ m.format = (IF entry = {} THEN "story" ELSE (CHOOSE l \in entry : TRUE).format)
        /\ m.natural = (IF entry = {} THEN i.format ELSE (CHOOSE l \in entry : TRUE).natural)
    BY <1>5, <2>1 DEF Mail, LatestOf
  <2>4. latest \in Nat /\ (i.story \notin shrunk => i.last <= latest)
    <3>1. i.story \notin shrunk => Behind(i, latest, Natural(story[i.story]))
      BY <2>1 DEF ContentInv, FreezeInv, Latest
    <3>2. story[i.story] \in SUBSET Clusters /\ cluster \in ClusterTable
      BY <2>2 DEF ContentInv, StoryInv, WorldInv, ClusterTable
    <3>3. latest \in Nat
      BY <2>1, <3>2, LatestIsLast
    <3> QED
      BY <3>1, <3>3 DEF Behind
  <2>5. ASSUME m.ranked, i.story \notin shrunk
        PROVE  /\ m.natural \in {"note", "story"} /\ (i.format = "story" => m.natural = "story")
               /\ m.format = "story" => m.natural = "story" /\ NewsWas(m.story, m.last, m.natural, d)
    <3>1. PICK l \in d.log : l.story = i.story /\ Ranked(l)
      BY <2>3, <2>5 DEF Ranked
    <3>2. entry = {l}
      BY <3>1 DEF ContentInv, LogInv
    <3>3. m.format = l.format /\ m.natural = l.natural
      BY <2>3, <3>2
    <3>4. EntryInv(d, l)
      BY DEF ContentInv, LogInv
    <3>5. l.last \in Nat /\ l.last <= latest /\ l.natural \in {"note", "story"} /\ Behind(i, l.last, l.natural)
          /\ (l.format = "story" => l.natural = "story" /\ NewsWas(l.story, l.last, l.natural, d))
      BY <2>1, <2>5, <3>1, <3>4 DEF EntryInv, Latest
    <3>6. ASSUME NewsWas(l.story, l.last, l.natural, d) PROVE NewsWas(m.story, m.last, m.natural, d)
      <4> SUFFICES ASSUME NEW e \in digests, Earlier(e, d), NEW j \in ItemsOf(e), j.story = m.story
                   PROVE  News(j, m.last, m.natural)
        BY DEF NewsWas
      <4>1. News(j, l.last, l.natural)
        BY <2>3, <3>1, <3>6 DEF NewsWas
      <4>2. j.last \in Nat
        BY ItemTypes DEF ContentInv
      <4> HIDE DEF latest
      <4> QED
        BY <2>3, <2>4, <3>3, <3>5, <4>1, <4>2 DEF News
    <3> QED
      BY <3>3, <3>5, <3>6 DEF Behind
  <2> HIDE DEF latest
  <2>6. MailOf(m, d, i)
    BY <1>5, <2>3, <2>4, <2>5 DEF MailOf
  <2> QED
    BY <2>6
<1>7. MailInv'
  <2>1. ASSUME NEW m \in mailed' PROVE \E e \in digests : \E i \in ItemsOf(e) : MailOf(m, e, i)
    BY <1>1, <1>6 DEF ContentInv, MailInv
  <2> QED
    BY <1>1, <2>1 DEF MailInv, MailOf, NewsWas
<1> QED
  BY <1>2, <1>3, <1>4, <1>7 DEF ContentInv

(* Marking a digest delivered leaves what it froze and what it decided.    *)
MarkedRow(d) == IF d.window = attempt.window THEN [d EXCEPT !.delivered = TRUE] ELSE d

LEMMA MarkRows ==
    ASSUME RowInv, Mark
    PROVE  /\ digests' = {MarkedRow(d) : d \in digests}
           /\ \A d \in digests : /\ IsRow(MarkedRow(d)) /\ MarkedRow(d).window = d.window
                                 /\ MarkedRow(d).items = d.items /\ MarkedRow(d).log = d.log
                                 /\ MarkedRow(d).snapshot = d.snapshot /\ MarkedRow(d).torn = d.torn
<1>1. digests' = {MarkedRow(d) : d \in digests}
  BY DEF Mark, MarkedRow
<1>2. ASSUME NEW d \in digests
      PROVE  /\ IsRow(MarkedRow(d)) /\ MarkedRow(d).window = d.window
             /\ MarkedRow(d).items = d.items /\ MarkedRow(d).log = d.log
             /\ MarkedRow(d).snapshot = d.snapshot /\ MarkedRow(d).torn = d.torn
  <2>1. d = [window |-> d.window, items |-> d.items, log |-> d.log, snapshot |-> d.snapshot,
             torn |-> d.torn, delivered |-> d.delivered]
        /\ d.window \in Nat /\ d.items \in Seq(Item) /\ d.torn \in BOOLEAN
    BY DEF RowInv, IsRow
  <2>2. CASE d.window = attempt.window
    <3>1. MarkedRow(d) = [window |-> d.window, items |-> d.items, log |-> d.log, snapshot |-> d.snapshot,
                          torn |-> d.torn, delivered |-> TRUE]
      BY <2>1, <2>2 DEF MarkedRow
    <3> QED
      BY <2>1, <3>1 DEF IsRow
  <2>3. CASE d.window # attempt.window
    BY <2>3 DEF MarkedRow, RowInv
  <2> QED
    BY <2>2, <2>3
<1> QED
  BY <1>1, <1>2

LEMMA MarkKeeps ==
    ASSUME ContentInv, Mark
    PROVE  ContentInv'
<1>1. /\ sub' = [sub EXCEPT !.nextRun = NextRun(sub.phase), !.lastRun = attempt.at]
      /\ attempt' = Idle /\ UNCHANGED <<now, cluster, layer, story, minted, shrunk, mailed>>
  BY DEF Mark, inputVars, storyVars
<1>2. /\ digests' = {MarkedRow(d) : d \in digests}
      /\ \A d \in digests : /\ IsRow(MarkedRow(d)) /\ MarkedRow(d).window = d.window
                            /\ MarkedRow(d).items = d.items /\ MarkedRow(d).log = d.log
  BY MarkRows DEF ContentInv
<1>3. now \in Nat /\ sub \in [phase : Nat, nextRun : Nat, lastRun : Int]
      /\ attempt \in [pc : {"idle", "frozen", "sent"}, window : Nat, at : Nat]
  BY DEF ContentInv, WorldInv
<1>4. NextRun(sub.phase) \in Nat /\ NextRun(sub.phase) > now
  BY <1>3, NextRunAhead
<1>5. WorldInv'
  <2>1. attempt' \in [pc : {"idle", "frozen", "sent"}, window : Nat, at : Nat]
    BY <1>1 DEF Idle
  <2>2. attempt.at \in Int
    BY <1>3
  <2>3. sub' \in [phase : Nat, nextRun : Nat, lastRun : Int]
    BY <1>1, <1>3, <1>4, <2>2
  <2> QED
    BY <1>1, <2>1, <2>3 DEF ContentInv, WorldInv
<1>6. \A e \in digests' : \E d \in digests : e = MarkedRow(d) /\ e.window = d.window /\ e.log = d.log /\ ItemsOf(e) = ItemsOf(d)
  BY <1>2 DEF ItemsOf
<1>7. \A d \in digests : MarkedRow(d) \in digests' /\ MarkedRow(d).window = d.window /\ ItemsOf(MarkedRow(d)) = ItemsOf(d)
  BY <1>2 DEF ItemsOf
<1>8. RowInv'
  <2>1. \A d \in digests : d.window \in Nat /\ d.window <= now
    BY DEF ContentInv, RowInv, IsRow
  <2>2. sub'.nextRun = NextRun(sub.phase)
    BY <1>1, <1>3
  <2>3. \A e \in digests' : IsRow(e) /\ e.window <= now /\ e.window <= sub'.nextRun
    BY <1>2, <1>3, <1>4, <2>1, <2>2
  <2>4. \A d, e \in digests' : d.window = e.window => d = e
    BY <1>6 DEF ContentInv, RowInv
  <2>5. attempt'.pc = "idle"
    BY <1>1 DEF Idle
  <2> QED
    BY <1>1, <2>3, <2>4, <2>5 DEF RowInv
<1>9. StoryInv'
  BY <1>1 DEF ContentInv, StoryInv, Born
<1>10. FreezeInv'
  BY <1>1, <1>6 DEF ContentInv, FreezeInv, Latest, Natural
<1>11. ASSUME NEW s, NEW last, NEW format, NEW d, NEW e, d.window = e.window, NewsWas(s, last, format, d)
       PROVE  NewsWas(s, last, format, e)'
  <2> SUFFICES ASSUME NEW q \in digests', Earlier(q, e), NEW j \in ItemsOf(q), j.story = s
               PROVE  News(j, last, format)
    BY DEF NewsWas
  <2>1. PICK p \in digests : q.window = p.window /\ ItemsOf(q) = ItemsOf(p)
    BY <1>6
  <2>2. Earlier(p, d)
    BY <1>11, <2>1 DEF Earlier
  <2> QED
    BY <1>11, <2>1, <2>2 DEF NewsWas
<1>12. BudgetInv'
  <2>1. ASSUME NEW e \in digests' PROVE \E d \in digests : Stale(e)' = Stale(d)
    <3>1. PICK d \in digests : e.window = d.window /\ ItemsOf(e) = ItemsOf(d)
      BY <1>6
    <3>2. \A q \in digests' : \E p \in digests : ItemsOf(q) = ItemsOf(p) /\ (Earlier(q, e) <=> Earlier(p, d))
      BY <1>6, <3>1 DEF Earlier
    <3>3. \A p \in digests : \E q \in digests' : ItemsOf(q) = ItemsOf(p) /\ (Earlier(q, e) <=> Earlier(p, d))
      BY <1>7, <3>1 DEF Earlier
    <3>4. Stale(e)' = Stale(d)
      BY <1>1, <3>1, <3>2, <3>3 DEF Stale
    <3> QED
      BY <3>4
  <2> QED
    BY <2>1 DEF ContentInv, BudgetInv
<1>13. LogInv'
  <2>1. ASSUME NEW e \in digests', NEW l \in e.log PROVE EntryInv(e, l)'
    <3>1. PICK d \in digests : e.window = d.window /\ ItemsOf(e) = ItemsOf(d) /\ e.log = d.log
      BY <1>6
    <3>2. EntryInv(d, l)
      BY <2>1, <3>1 DEF ContentInv, LogInv
    <3> QED
      BY <1>1, <1>11, <3>1, <3>2 DEF EntryInv, Latest
  <2>2. \A e \in digests' : \A k, l \in e.log : k.story = l.story => k = l
    BY <1>6 DEF ContentInv, LogInv
  <2> QED
    BY <2>1, <2>2 DEF LogInv
<1>14. MailInv'
  <2>1. ASSUME NEW m \in mailed PROVE \E e \in digests' : \E i \in ItemsOf(e) : MailOf(m, e, i)'
    <3>0. PICK d \in digests : \E i \in ItemsOf(d) : MailOf(m, d, i)
      BY DEF ContentInv, MailInv
    <3>1. PICK i \in ItemsOf(d) : MailOf(m, d, i)
      BY <3>0
    <3>2. PICK e \in digests' : e.window = d.window /\ ItemsOf(e) = ItemsOf(d)
      BY <1>7
    <3>3. MailOf(m, e, i)'
      BY <1>1, <1>11, <3>1, <3>2 DEF MailOf
    <3> QED
      BY <3>2, <3>3
  <2> QED
    BY <1>1, <2>1 DEF MailInv
<1> QED
  BY <1>5, <1>8, <1>9, <1>10, <1>12, <1>13, <1>14 DEF ContentInv

(* At the start there is nothing.                                          *)
LEMMA ContentStarts == ContentInit => ContentInv
<1> SUFFICES ASSUME ContentInit PROVE ContentInv
  OBVIOUS
<1>1. WorldInv
  <2>1. Cadence \in Nat
    BY ContentAssumption
  <2> QED
    BY <2>1 DEF ContentInit, WorldInv, Never, Idle
<1>2. StoryInv
  BY DEF ContentInit, StoryInv
<1>3. digests = {} /\ mailed = {} /\ attempt.pc = "idle"
  BY DEF ContentInit, Idle
<1> QED
  BY <1>1, <1>2, <1>3 DEF ContentInv, RowInv, FreezeInv, BudgetInv, LogInv, MailInv

LEMMA ContentKept == ContentInv /\ [ContentNext]_contentVars => ContentInv'
<1> SUFFICES ASSUME ContentInv, [ContentNext]_contentVars PROVE ContentInv'
  OBVIOUS
<1>1. CASE TimePasses
  <2>1. now' = now + 1 /\ UNCHANGED <<cluster, story, minted, shrunk, layer, sub, digests, attempt, mailed>>
    BY <1>1 DEF TimePasses, storyVars
  <2>2. now \in Nat /\ \A c \in Clusters : cluster[c].last \in Nat /\ cluster[c].last <= now
    BY DEF ContentInv, WorldInv
  <2>3. WorldInv'
    BY <2>1, <2>2 DEF ContentInv, WorldInv
  <2>4. RowInv'
    <3>1. \A d \in digests : d.window \in Nat
      BY DEF ContentInv, RowInv, IsRow
    <3> QED
      BY <2>1, <2>2, <3>1 DEF ContentInv, RowInv
  <2>5. StoryInv' /\ FreezeInv' /\ BudgetInv' /\ LogInv' /\ MailInv'
    BY <2>1 DEF ContentInv, StoryInv, Born, FreezeInv, Latest, Natural, BudgetInv, Stale, LogInv, EntryInv, NewsWas,
                MailInv, MailOf
  <2> QED
    BY <2>3, <2>4, <2>5 DEF ContentInv
<1>2. CASE \E c \in Clusters : Event(c)
  BY <1>2, EventKeeps
<1>3. CASE Maintain
  <2>1. layer' \in Layers /\ UNCHANGED <<now, cluster, story, minted, shrunk, sub, digests, attempt, mailed>>
    BY <1>3 DEF Maintain, storyVars
  <2>2. WorldInv' /\ RowInv'
    BY <2>1 DEF ContentInv, WorldInv, RowInv
  <2>3. StoryInv' /\ FreezeInv' /\ BudgetInv' /\ LogInv' /\ MailInv'
    BY <2>1 DEF ContentInv, StoryInv, Born, FreezeInv, Latest, Natural, BudgetInv, Stale, LogInv, EntryInv, NewsWas,
                MailInv, MailOf
  <2> QED
    BY <2>2, <2>3 DEF ContentInv
<1>4. CASE \E phase \in 0 .. Cadence - 1 : ChangePreferences(phase)
  BY <1>4, PreferencesKeep
<1>5. CASE Generate
  <2>1. PICK to, threaded, floor, new : threaded \in BOOLEAN /\ Generates(to, threaded, floor, new)
    BY <1>5, GenerateIs DEF ContentInv
  <2> QED
    BY <2>1, GenerateWorld, GenerateRows, GenerateFreeze, GenerateBudget, GenerateLog, GenerateMail DEF ContentInv
<1>6. CASE Send
  BY <1>6, SendKeeps
<1>7. CASE Mark
  BY <1>7, MarkKeeps
<1>8. CASE Fail
  <2>1. attempt' = Idle /\ UNCHANGED <<now, cluster, layer, story, minted, shrunk, sub, digests, mailed>>
    BY <1>8 DEF Fail, inputVars, storyVars
  <2>2. WorldInv' /\ RowInv'
    BY <2>1 DEF ContentInv, WorldInv, RowInv, Idle
  <2>3. StoryInv' /\ FreezeInv' /\ BudgetInv' /\ LogInv' /\ MailInv'
    BY <2>1 DEF ContentInv, StoryInv, Born, FreezeInv, Latest, Natural, BudgetInv, Stale, LogInv, EntryInv, NewsWas,
                MailInv, MailOf
  <2> QED
    BY <2>2, <2>3 DEF ContentInv
<1>9. CASE UNCHANGED contentVars
  <2>1. UNCHANGED <<now, cluster, story, minted, shrunk, layer, sub, digests, attempt, mailed>>
    BY <1>9 DEF contentVars
  <2>2. WorldInv' /\ RowInv'
    BY <2>1 DEF ContentInv, WorldInv, RowInv
  <2>3. StoryInv' /\ FreezeInv' /\ BudgetInv' /\ LogInv' /\ MailInv'
    BY <2>1 DEF ContentInv, StoryInv, Born, FreezeInv, Latest, Natural, BudgetInv, Stale, LogInv, EntryInv, NewsWas,
                MailInv, MailOf
  <2> QED
    BY <2>2, <2>3 DEF ContentInv
<1>10. CASE LinkOnly
  BY <1>10, LinkOnlyKeeps
<1> QED
  BY <1>1, <1>2, <1>3, <1>4, <1>5, <1>6, <1>7, <1>8, <1>9, <1>10 DEF ContentNext

-----------------------------------------------------------------------------
THEOREM ContentInvHolds == ContentSpec => []ContentInv
<1>1. ContentInit => ContentInv
  BY ContentStarts
<1>2. ContentInv /\ [ContentNext]_contentVars => ContentInv'
  BY ContentKept
<1> QED
  BY <1>1, <1>2, PTL DEF ContentSpec

(* A retry renders what an earlier attempt froze under its own link, and   *)
(* still no cluster is in two items of a mail: the clusters of two stories *)
(* are apart, whatever the link has merged, split or left out since.       *)
THEOREM NoClusterTwiceCorrect == ContentSpec => []NoClusterTwice
<1>1. ContentInv => NoClusterTwice
  <2> SUFFICES ASSUME ContentInv, NEW x \in Rendered(attempt.window), NEW y \in Rendered(attempt.window),
                      attempt.pc = "sent", x.story # y.story
               PROVE  x.clusters \cap y.clusters = {}
    BY DEF NoClusterTwice
  <2>1. PICK d \in digests : d.window = attempt.window /\ Row(attempt.window) = d
    <3>1. \E d \in digests : d.window = attempt.window
      BY DEF ContentInv, RowInv
    <3> QED
      BY <3>1 DEF Row
  <2>2. \A m \in Rendered(attempt.window) : m.story \in Ids /\ m.clusters = story[m.story]
    <3> TAKE m \in Rendered(attempt.window)
    <3>1. PICK i \in ItemsOf(d) : m = Mail(attempt.window, i)
      BY <2>1 DEF Rendered, Items, ItemsOf
    <3>2. i.story \in Ids
      BY ItemTypes DEF ContentInv
    <3> QED
      BY <3>1, <3>2 DEF Mail
  <2> QED
    BY <2>2 DEF ContentInv, StoryInv
<1> QED
  BY <1>1, ContentInvHolds, PTL

(* Neither damping nor a retry lets a story that was shown in full, and    *)
(* has lost no cluster, come back in full with nothing new since.          *)
THEOREM NoOscillationCorrect == ContentSpec => []NoOscillation
<1>1. ContentInv => NoOscillation
  <2> SUFFICES ASSUME ContentInv, NEW x \in mailed, NEW y \in mailed,
                      x.story = y.story, x.story \notin shrunk, x.window < y.window, y.window <= x.window + ContextHorizon,
                      Anchored(x), x.format = "story", y.format = "story", y.ranked
               PROVE  y.last > x.last
    BY DEF NoOscillation
  <2>1. PICK e \in digests : \E j \in ItemsOf(e) : MailOf(x, e, j)
    BY DEF ContentInv, MailInv
  <2>2. PICK j \in ItemsOf(e) : MailOf(x, e, j)
    BY <2>1
  <2>3. PICK d \in digests : \E i \in ItemsOf(d) : MailOf(y, d, i)
    BY DEF ContentInv, MailInv
  <2>4. PICK i \in ItemsOf(d) : MailOf(y, d, i)
    BY <2>3
  <2>5. Earlier(e, d)
    BY <2>2, <2>4 DEF MailOf, Earlier
  <2>6. NewsWas(y.story, y.last, y.natural, d)
    BY <2>4 DEF MailOf
  <2>7. j.story = y.story /\ j.last = x.last /\ j.format = x.natural /\ x.natural = "story"
    BY <2>2 DEF MailOf, Anchored
  <2>8. News(j, y.last, y.natural)
    BY <2>5, <2>6, <2>7 DEF NewsWas
  <2> QED
    BY <2>7, <2>8 DEF News
<1> QED
  BY <1>1, ContentInvHolds, PTL

(* What a mail repeats is among what its row froze without news, of which  *)
(* the selection admitted no more than its budget.                         *)
THEOREM RepeatsWithinBudgetCorrect == ContentSpec => []RepeatsWithinBudget
<1>1. ContentInv => RepeatsWithinBudget
  <2> SUFFICES ASSUME ContentInv, NEW d \in digests
               PROVE  Cardinality(Repeats(d.window)) <= Cfg.resurfaceCap
    BY DEF RepeatsWithinBudget
  <2>1. ASSUME NEW y \in mailed, y.window = d.window, y.ranked,
               NEW x \in mailed, x.story = y.story, x.window < d.window, d.window <= x.window + ContextHorizon,
               y.story \notin shrunk, Anchored(x), x.last = y.last, ~ (x.natural = "note" /\ y.natural = "story")
        PROVE  y.story \in Stale(d)
    <3>1. PICK e \in digests : \E j \in ItemsOf(e) : MailOf(x, e, j)
      BY DEF ContentInv, MailInv
    <3>2. PICK j \in ItemsOf(e) : MailOf(x, e, j)
      BY <3>1
    <3>3. PICK q \in digests : \E i \in ItemsOf(q) : MailOf(y, q, i)
      BY DEF ContentInv, MailInv
    <3>4. PICK i \in ItemsOf(q) : MailOf(y, q, i)
      BY <3>3
    <3>5. q = d
      BY <2>1, <3>4 DEF MailOf, ContentInv, RowInv
    <3>6. Earlier(e, d)
      BY <2>1, <3>2 DEF MailOf, Earlier
    <3>7. /\ j.story = y.story /\ j.last = y.last /\ j.format = x.natural
          /\ i.story = y.story /\ i.last <= y.last /\ (i.format = "story" => y.natural = "story")
      BY <2>1, <3>2, <3>4 DEF MailOf, Anchored
    <3>8. i.last \in Nat /\ j.last \in Nat /\ i.story \in Ids
      BY <3>5, ItemTypes DEF ContentInv
    <3>9. ~ News(j, i.last, i.format)
      BY <2>1, <3>7, <3>8 DEF News
    <3> QED
      BY <2>1, <3>5, <3>6, <3>7, <3>8, <3>9 DEF Stale
  <2>2. Repeats(d.window) \subseteq Stale(d)
    BY <2>1 DEF Repeats
  <2>3. IsFiniteSet(Stale(d))
    <3>1. Stale(d) \subseteq Ids
      BY DEF Stale
    <3> QED
      BY <3>1, IdsFinite, FS_Subset
  <2>4. PICK R, S : R = Repeats(d.window) /\ S = Stale(d)
    OBVIOUS
  <2>5. Cardinality(R) \in Nat /\ Cardinality(S) \in Nat /\ Cardinality(R) <= Cardinality(S)
    BY <2>2, <2>3, <2>4, FS_Subset, FS_CardinalityType
  <2>6. Cardinality(S) <= Cfg.resurfaceCap /\ Cfg.resurfaceCap \in Nat
    BY <2>4, ContentAssumption DEF ContentInv, BudgetInv
  <2> QED
    BY <2>4, <2>5, <2>6
<1> QED
  BY <1>1, ContentInvHolds, PTL

(* The logs are selections, as long as rows are rows.                      *)
LEMMA ReplayKept == ContentInv /\ ReplayInv /\ [ContentNext]_contentVars => ReplayInv'
<1> SUFFICES ASSUME ContentInv, ReplayInv, [ContentNext]_contentVars PROVE ReplayInv'
  OBVIOUS
<1>1. CASE digests' = digests
  BY <1>1 DEF ReplayInv
<1>2. CASE Generate
  <2>1. PICK to, threaded, floor, new : threaded \in BOOLEAN /\ Generates(to, threaded, floor, new)
    BY <1>2, GenerateIs DEF ContentInv
  <2> QED
    BY <2>1, GenerateReplay DEF ContentInv
<1>3. CASE Mark
  <2>1. /\ digests' = {MarkedRow(d) : d \in digests}
        /\ \A d \in digests : /\ MarkedRow(d).log = d.log /\ MarkedRow(d).snapshot = d.snapshot
                              /\ MarkedRow(d).torn = d.torn
    BY <1>3, MarkRows DEF ContentInv
  <2>2. \A e \in digests' : \E d \in digests : e.log = d.log /\ e.snapshot = d.snapshot /\ e.torn = d.torn
    BY <2>1
  <2> QED
    BY <2>2 DEF ReplayInv
<1> QED
  BY <1>1, <1>2, <1>3 DEF ContentNext, contentVars, TimePasses, Event, Maintain, ChangePreferences, LinkOnly, Send, Fail

THEOREM ReplayInvHolds == ContentSpec => []ReplayInv
<1>1. ContentInit => ReplayInv
  BY DEF ContentInit, ReplayInv
<1>2. ContentInv /\ ReplayInv /\ [ContentNext]_contentVars => ReplayInv'
  BY ReplayKept
<1> QED
  BY <1>1, <1>2, ContentInvHolds, PTL DEF ContentSpec

(* In the log of a digest, a story is over a cap only when better ones     *)
(* have used the cap up, and no cap is exceeded.                           *)
THEOREM OverCapOnlyWhenFullCorrect == ContentSpec => []OverCapOnlyWhenFull
<1>1. ReplayInv => OverCapOnlyWhenFull
  BY DEF ReplayInv, SoundLog, OverCapOnlyWhenFull
<1> QED
  BY <1>1, ReplayInvHolds, PTL

(* The snapshot has whatever selection read but the display floor, which   *)
(* decides only what is too stale.                                         *)
LEMMA FloorDecidesStale ==
    ASSUME NEW candidates, \A c \in candidates : c.last \in Nat, NEW maxItems, NEW n, NEW floor \in Int,
           \A d \in Select(candidates, Cfg, maxItems, n, floor) : d.verdict # "stale_for_cadence"
    PROVE  Select(candidates, Cfg, maxItems, n, floor) = Select(candidates, Cfg, maxItems, n, -1)
<1>1. \A c \in candidates : ~ c.last < floor
  <2> SUFFICES ASSUME NEW c \in candidates, c.last < floor PROVE FALSE
    OBVIOUS
  <2>1. Gate(c, Cfg, floor) = "stale_for_cadence"
    BY DEF Gate
  <2>2. Dropped(c, Cfg, floor) \in Select(candidates, Cfg, maxItems, n, floor)
    <3>1. c \in {d \in candidates : Gate(d, Cfg, floor) # "gated"}
      BY <2>1
    <3>2. Dropped(c, Cfg, floor) \in {Dropped(b, Cfg, floor) : b \in {d \in candidates : Gate(d, Cfg, floor) # "gated"}}
      BY <3>1
    <3> QED
      BY <3>2 DEF Select
  <2>3. Dropped(c, Cfg, floor).verdict = "stale_for_cadence"
    BY <2>1 DEF Dropped
  <2> QED
    BY <2>2, <2>3
<1>2. \A c \in candidates : ~ c.last < -1
  OBVIOUS
<1>3. \A c \in candidates : Gate(c, Cfg, floor) = Gate(c, Cfg, -1)
  BY <1>1, <1>2 DEF Gate
<1>4. \A c \in candidates : Dropped(c, Cfg, floor) = Dropped(c, Cfg, -1)
  BY <1>3 DEF Dropped
<1>5. {c \in candidates : Gate(c, Cfg, floor) = "gated"} = {c \in candidates : Gate(c, Cfg, -1) = "gated"}
  BY <1>3
<1>6. {c \in candidates : Gate(c, Cfg, floor) # "gated"} = {c \in candidates : Gate(c, Cfg, -1) # "gated"}
  BY <1>3
<1>7. {Dropped(c, Cfg, floor) : c \in {d \in candidates : Gate(d, Cfg, floor) # "gated"}}
        = {Dropped(c, Cfg, -1) : c \in {d \in candidates : Gate(d, Cfg, -1) # "gated"}}
  BY <1>4, <1>6
<1> QED
  BY <1>5, <1>7, Zenon DEF Select

THEOREM ReplayAgreesCorrect == ContentSpec => []ReplayAgrees
<1>1. ReplayInv => ReplayAgrees
  <2> SUFFICES ASSUME ReplayInv, NEW row \in digests, NEW snapshot \in row.snapshot, ~ row.torn,
                      \A d \in row.log : d.verdict # "stale_for_cadence"
               PROVE  Replay(snapshot, Cfg) = row.log
    BY DEF ReplayAgrees
  <2>1. OfSnapshot(row.log, snapshot)
    BY DEF ReplayInv
  <2>2. PICK floor \in Int : row.log = Select(snapshot.candidates, Cfg, snapshot.maxItems, snapshot.now, floor)
    BY <2>1 DEF OfSnapshot
  <2>3. \A c \in snapshot.candidates : c.last \in Nat
    BY <2>1 DEF OfSnapshot
  <2> QED
    BY <2>2, <2>3, FloorDecidesStale DEF Replay
<1> QED
  BY <1>1, ReplayInvHolds, PTL

-----------------------------------------------------------------------------
(* Type correctness, with the bounds of the model.                         *)
BoundInv ==
    /\ now <= Horizon
    /\ \A c \in Clusters : cluster[c].events <= 2
    /\ sub.phase <= Cadence - 1 /\ sub.lastRun \in Time \cup {Never}
    /\ attempt.at <= now

LEMMA BoundsKept == ContentInv /\ BoundInv /\ [ContentNext]_contentVars => BoundInv'
<1> SUFFICES ASSUME ContentInv, BoundInv, [ContentNext]_contentVars PROVE BoundInv'
  OBVIOUS
<1>0. /\ now \in Nat /\ cluster \in ClusterTable /\ sub \in [phase : Nat, nextRun : Nat, lastRun : Int]
      /\ attempt \in [pc : {"idle", "frozen", "sent"}, window : Nat, at : Nat]
      /\ Horizon \in Nat /\ Cadence \in Nat
  BY ContentAssumption DEF ContentInv, WorldInv, ClusterTable
<1>1. CASE TimePasses
  <2>1. now < Horizon /\ now' = now + 1 /\ UNCHANGED <<cluster, sub, attempt>>
    BY <1>1 DEF TimePasses
  <2> QED
    BY <1>0, <2>1 DEF BoundInv
<1>2. ASSUME NEW c \in Clusters, Event(c) PROVE BoundInv'
  <2>1. /\ cluster[c].events < 2 /\ cluster' = [cluster EXCEPT ![c] = [last |-> now, events |-> @.events + 1]]
        /\ UNCHANGED <<now, sub, attempt>>
    BY <1>2 DEF Event
  <2>2. \A b \in Clusters : cluster'[b].events = IF b = c THEN cluster[c].events + 1 ELSE cluster[b].events
    BY <1>0, <2>1 DEF ClusterTable
  <2>3. cluster[c].events \in Nat
    BY <1>0 DEF ClusterTable
  <2> QED
    BY <1>0, <2>1, <2>2, <2>3 DEF BoundInv
<1>3. CASE Maintain
  BY <1>3 DEF Maintain, BoundInv
<1>4. ASSUME NEW phase \in 0 .. Cadence - 1, ChangePreferences(phase) PROVE BoundInv'
  <2>1. sub' = [sub EXCEPT !.phase = phase, !.nextRun = NextRun(phase)] /\ UNCHANGED <<now, cluster, attempt>>
    BY <1>4 DEF ChangePreferences
  <2>2. sub'.phase = phase /\ sub'.lastRun = sub.lastRun
    BY <1>0, <2>1
  <2> QED
    BY <1>0, <2>1, <2>2 DEF BoundInv
<1>5. CASE Generate
  <2>1. /\ attempt' = [pc |-> "frozen", window |-> sub.nextRun, at |-> now] /\ UNCHANGED <<now, cluster, sub>>
    BY <1>5 DEF Generate, inputVars
  <2> QED
    BY <1>0, <2>1 DEF BoundInv
<1>6. CASE Send
  <2>1. attempt' = [attempt EXCEPT !.pc = "sent"] /\ UNCHANGED <<now, cluster, sub>>
    BY <1>6 DEF Send, inputVars
  <2>2. attempt'.at = attempt.at
    BY <1>0, <2>1
  <2> QED
    BY <2>1, <2>2 DEF BoundInv
<1>7. CASE Mark
  <2>1. /\ sub' = [sub EXCEPT !.nextRun = NextRun(sub.phase), !.lastRun = attempt.at]
        /\ attempt' = Idle /\ UNCHANGED <<now, cluster>>
    BY <1>7 DEF Mark, inputVars
  <2>2. sub'.phase = sub.phase /\ sub'.lastRun = attempt.at /\ attempt'.at = 0
    BY <1>0, <2>1 DEF Idle
  <2>3. attempt.at \in Time
    BY <1>0 DEF BoundInv, Time
  <2> QED
    BY <1>0, <2>1, <2>2, <2>3 DEF BoundInv
<1>8. CASE Fail
  <2>1. attempt' = Idle /\ UNCHANGED <<now, cluster, sub>>
    BY <1>8 DEF Fail, inputVars
  <2> QED
    BY <1>0, <2>1 DEF BoundInv, Idle
<1>9. CASE UNCHANGED contentVars
  BY <1>9 DEF contentVars, BoundInv
<1>10. CASE LinkOnly
  BY <1>10 DEF LinkOnly, inputVars, BoundInv
<1> QED
  BY <1>1, <1>2, <1>3, <1>4, <1>5, <1>6, <1>7, <1>8, <1>9, <1>10 DEF ContentNext

(* The tables of a subscriber's digests keep their types: a window has one *)
(* row, and a story that has clusters an id that was handed out, however   *)
(* the links of attempts merge, split and abandon stories.                 *)
THEOREM ContentTypeCorrect == ContentSpec => []ContentTypeOK
<1>1. ContentInit => BoundInv
  BY ContentAssumption DEF ContentInit, BoundInv, Idle, Never
<1>2. ContentInv /\ BoundInv => ContentTypeOK
  <2> SUFFICES ASSUME ContentInv, BoundInv PROVE ContentTypeOK
    OBVIOUS
  <2>0. /\ now \in Nat /\ cluster \in ClusterTable /\ sub \in [phase : Nat, nextRun : Nat, lastRun : Int]
        /\ attempt \in [pc : {"idle", "frozen", "sent"}, window : Nat, at : Nat]
        /\ Horizon \in Nat /\ Cadence \in Nat /\ layer \in Layers
    BY ContentAssumption DEF ContentInv, WorldInv, ClusterTable
  <2>1. cluster \in [Clusters -> [last : Time, events : 0 .. 2]]
    <3>1. \A c \in Clusters : cluster[c] \in [last : Nat, events : Nat] /\ cluster[c].last <= Horizon
      BY <2>0 DEF ClusterTable, ContentInv, WorldInv, BoundInv
    <3>2. \A c \in Clusters : cluster[c] \in [last : Time, events : 0 .. 2]
      BY <2>0, <3>1 DEF BoundInv, Time
    <3> QED
      BY <2>0, <3>2 DEF ClusterTable
  <2>2. story \in [Ids -> SUBSET Existing]
    <3>1. \A s \in Ids : story[s] \in SUBSET Existing
      BY DEF ContentInv, StoryInv, Existing
    <3> QED
      BY <3>1 DEF ContentInv, StoryInv
  <2>3. minted \in Nat /\ (\A s \in Ids : story[s] # {} => s <= minted) /\ shrunk \subseteq Ids
    BY DEF ContentInv, StoryInv
  <2>4. now \in Time /\ sub.phase \in 0 .. Cadence - 1
    BY <2>0 DEF BoundInv, Time
  <2> QED
    BY <2>0, <2>1, <2>2, <2>3, <2>4 DEF ContentTypeOK, BoundInv, ContentInv, RowInv
<1>3. ContentInv /\ BoundInv /\ [ContentNext]_contentVars => BoundInv'
  BY BoundsKept
<1> QED
  BY <1>1, <1>2, <1>3, ContentInvHolds, PTL DEF ContentSpec

================================================================================
