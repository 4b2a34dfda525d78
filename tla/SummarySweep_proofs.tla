------------------------ MODULE SummarySweep_proofs ------------------------
(***************************************************************************)
(* Proofs about SummarySweep, for every value of its constants.            *)
(***************************************************************************)
EXTENDS SummarySweep, TLAPS

\* The records the model writes keep their shape.
LEMMA RecordTypes ==
    /\ NewRow \in SummaryRow
    /\ NotReading \in DueCluster
    /\ NoSweep \in SweepRecord
    /\ NoAnnouncement \in Announcement
BY SummaryAssumption
DEF NewRow, SummaryRow, Times, Never, NoContent, Versions, NotReading, DueCluster,
    NoSweep, SweepRecord, NoAnnouncement, Announcement

LEMMA RowFields ==
    ASSUME NEW r \in SummaryRow
    PROVE  /\ r.updated \in Nat /\ r.summarized \in Times /\ r.quarantined \in Times
           /\ r.hash \in Versions /\ r.model \in Nat /\ r.attempts \in Nat
BY DEF SummaryRow

LEMMA SweepFields ==
    ASSUME NEW r \in SweepRecord
    PROVE  /\ r.pc \in {"idle", "walking", "calling"}
           /\ r.model \in Nat /\ r.todo \subseteq DueCluster /\ r.read \in Versions
           /\ r.at.cluster \in Clusters /\ r.at.hash \in Versions /\ r.at.attempts \in Nat
BY DEF SweepRecord, DueCluster

LEMMA OpenType ==
    ASSUME TypeOK, NEW c \in Clusters, NEW w \in Writers, Open(c, w)
    PROVE  announce[c][w].start \in Nat /\ announce[c][w].seen \in Versions
BY DEF TypeOK, Open, Announcement

LEMMA EntryType ==
    ASSUME TypeOK, NEW c \in Clusters
    PROVE  Entry(c) \in DueCluster
<1>1. row[c].hash \in Versions /\ row[c].attempts \in Nat
  BY RowFields DEF TypeOK
<1> QED
  BY <1>1 DEF Entry, DueCluster

LEMMA InitTypeOK == Init => TypeOK
<1> SUFFICES ASSUME Init PROVE TypeOK
  OBVIOUS
<1>1. 1 \in Versions /\ NoContent \in Versions
  BY SummaryAssumption DEF Versions, NoContent
<1> QED
  BY <1>1, RecordTypes DEF Init, TypeOK

\* A transaction that announces a change keeps the types.
LEMMA ChangeTypeOK ==
    ASSUME TypeOK, NEW c \in Clusters,
           Change(c) \/ \E w \in Writers : Rollback(c, w)
    PROVE  TypeOK'
<1>0. /\ content[c] \in Versions /\ clock \in Nat /\ announced[c] \in Versions
      /\ row[c] \in SummaryRow
  BY DEF TypeOK
<1>1. CASE Arrive(c)
  BY <1>0, <1>1, SummaryAssumption DEF Arrive, TypeOK, Versions, summaryVars
<1>2. ASSUME NEW w \in Writers, Begin(c, w)
      PROVE  announce' \in [Clusters -> [Writers -> Announcement]] /\ clock' \in Nat
  <2>1. [start |-> clock + 1, seen |-> content[c]] \in Announcement
    BY <1>0 DEF Announcement
  <2> QED
    BY <1>2, <1>0, <2>1 DEF Begin, TypeOK
<1>3. ASSUME NEW w \in Writers, NEW v \in Versions, Open(c, w), Announce(c, w, v)
      PROVE  /\ row' \in [Clusters -> SummaryRow]
             /\ announced' \in [Clusters -> Versions]
             /\ announce' \in [Clusters -> [Writers -> Announcement]]
             /\ failures' \in [Clusters -> Nat]
             /\ called' \in BOOLEAN
  <2>0. announce[c][w].start \in Nat
    BY <1>3, OpenType
  <2>1. [row[c] EXCEPT !.updated = announce[c][w].start] \in SummaryRow
    BY <1>0, <2>0 DEF SummaryRow
  <2>2. row' = [row EXCEPT ![c] = [row[c] EXCEPT !.updated = announce[c][w].start]]
    BY <1>3 DEF Announce, TypeOK
  <2>3. row' \in [Clusters -> SummaryRow]
    BY <2>1, <2>2 DEF TypeOK
  <2>4. announced' \in [Clusters -> Versions]
    BY <1>0, <1>3 DEF Announce, TypeOK
  <2>5. announce' \in [Clusters -> [Writers -> Announcement]]
    BY <1>3, RecordTypes DEF Announce, TypeOK
  <2>6. failures' \in [Clusters -> Nat]
    BY <1>3 DEF Announce, TypeOK
  <2>7. called' \in BOOLEAN
    BY <1>3 DEF Announce
  <2> QED
    BY <2>3, <2>4, <2>5, <2>6, <2>7
<1>4. "build" \in Writers /\ Fetchers \subseteq Writers
  BY DEF Writers
<1>5. CASE BeginBuild(c)
  BY <1>2, <1>4, <1>5 DEF BeginBuild, TypeOK, summaryVars
<1>6. ASSUME NEW f \in Fetchers, BeginFetch(c, f)
      PROVE  TypeOK'
  BY <1>2, <1>4, <1>6 DEF BeginFetch, TypeOK, summaryVars
<1>7. CASE CommitBuild(c)
  <2>1. announce[c]["build"].seen \in Versions
    BY <1>4, <1>7, OpenType DEF CommitBuild
  <2> QED
    BY <1>3, <1>4, <1>7, <2>1 DEF CommitBuild, TypeOK
<1>8. ASSUME NEW f \in Fetchers, CommitFetch(c, f)
      PROVE  TypeOK'
  <2>1. content[c] + 1 \in Versions
    BY <1>0, <1>8, SummaryAssumption DEF CommitFetch, Versions
  <2>2. content' \in [Clusters -> Versions]
    BY <1>8, <2>1 DEF CommitFetch, TypeOK
  <2> QED
    BY <1>3, <1>4, <1>8, <2>1, <2>2 DEF CommitFetch, TypeOK
<1>9. ASSUME NEW w \in Writers, Rollback(c, w)
      PROVE  TypeOK'
  BY <1>9, RecordTypes DEF Rollback, TypeOK, summaryVars
<1> QED
  BY <1>1, <1>5, <1>6, <1>7, <1>8, <1>9 DEF Change

\* A step of a sweep keeps the types.
LEMMA SweepTypeOK ==
    ASSUME TypeOK, NEW s \in Sweepers, Sweep(s) \/ TouchFails(s) \/ CrashSweep(s)
    PROVE  TypeOK'
<1> DEFINE c == sweep[s].at.cluster
<1>0. /\ sweep[s] \in SweepRecord /\ c \in Clusters /\ clock \in Times
      /\ row[c] \in SummaryRow /\ sweep[s].read \in Versions /\ sweep[s].at.attempts \in Nat
  BY SweepFields DEF TypeOK, Times
<1>1. CASE StartSweep(s)
  <2>1. PICK S \in SUBSET Clusters :
          sweep' = [sweep EXCEPT ![s] = [NoSweep EXCEPT !.pc = "walking", !.model = model,
                                                        !.todo = {Entry(d) : d \in S}]]
    BY <1>1 DEF StartSweep, Batches
  <2>2. {Entry(d) : d \in S} \subseteq DueCluster
    BY EntryType
  <2>3. [NoSweep EXCEPT !.pc = "walking", !.model = model,
                        !.todo = {Entry(d) : d \in S}] \in SweepRecord
    BY <2>2, RecordTypes DEF SweepRecord, TypeOK
  <2> QED
    BY <1>1, <2>1, <2>3 DEF StartSweep, TypeOK, changeVars, summaryVars
<1>2. CASE ReadEvents(s)
  <2>1. PICK d \in sweep[s].todo :
          sweep' = [sweep EXCEPT ![s] = [sweep[s] EXCEPT !.pc = "calling", !.at = d,
                                            !.todo = @ \ {d}, !.read = content[d.cluster]]]
    BY <1>0, <1>2 DEF ReadEvents, TypeOK
  <2>2. d \in DueCluster /\ content[d.cluster] \in Versions
    BY <1>0, SweepFields DEF TypeOK, DueCluster
  <2>3. [sweep[s] EXCEPT !.pc = "calling", !.at = d, !.todo = @ \ {d},
                         !.read = content[d.cluster]] \in SweepRecord
    BY <1>0, <2>2 DEF SweepRecord
  <2> QED
    BY <1>2, <2>1, <2>3 DEF ReadEvents, TypeOK, changeVars, summaryVars
<1>3. CASE FinishSweep(s)
  BY <1>3, RecordTypes DEF FinishSweep, TypeOK, changeVars, summaryVars
<1>4. CASE CrashSweep(s)
  BY <1>4, RecordTypes DEF CrashSweep, TypeOK, changeVars, summaryVars
<1>5. Walk(s) => sweep' \in [Sweepers -> SweepRecord]
  <2>0. NoContent \in Versions
    BY SummaryAssumption DEF NoContent, Versions
  <2>1. [sweep[s] EXCEPT !.pc = "walking", !.at = NotReading, !.read = NoContent] \in SweepRecord
    BY <1>0, <2>0, RecordTypes DEF SweepRecord
  <2> QED
    BY <2>1 DEF Walk, TypeOK
<1>6. Judge(s, c) => /\ judged' \in [Clusters -> Versions]
                     /\ raced' \in [Clusters -> BOOLEAN]
  <2>1. (announced[c] > sweep[s].read \/ \E w \in Writers : Open(c, w)) \in BOOLEAN
    OBVIOUS
  <2> QED
    BY <1>0, <2>1 DEF Judge, TypeOK
<1>7. CASE TouchFails(s)
  BY <1>5, <1>7 DEF TouchFails, TypeOK, changeVars, summaryVars
<1>8. CASE TouchSummarized(s)
  <2>1. row' = [row EXCEPT ![c] = [row[c] EXCEPT !.summarized = clock, !.attempts = 0,
                                                 !.quarantined = Never]]
    BY <1>8 DEF TouchSummarized, TypeOK
  <2>2. [row[c] EXCEPT !.summarized = clock, !.attempts = 0, !.quarantined = Never] \in SummaryRow
    BY <1>0 DEF SummaryRow, Times
  <2>3. row' \in [Clusters -> SummaryRow] /\ failures' \in [Clusters -> Nat]
    BY <1>8, <2>1, <2>2 DEF TouchSummarized, TypeOK
  <2> QED
    BY <1>5, <1>6, <1>8, <2>3 DEF TouchSummarized, TypeOK, changeVars
<1>9. CASE StoreSummary(s)
  <2>1. row' = [row EXCEPT ![c] = [row[c] EXCEPT !.summarized = clock, !.hash = sweep[s].read,
                                                 !.model = sweep[s].model, !.attempts = 0,
                                                 !.quarantined = Never]]
    BY <1>9 DEF StoreSummary, TypeOK
  <2>2. [row[c] EXCEPT !.summarized = clock, !.hash = sweep[s].read, !.model = sweep[s].model,
                       !.attempts = 0, !.quarantined = Never] \in SummaryRow
    BY <1>0, SweepFields DEF SummaryRow, Times
  <2>3. row' \in [Clusters -> SummaryRow]
    BY <2>1, <2>2 DEF TypeOK
  <2>4. failures' \in [Clusters -> Nat]
    BY <1>9 DEF StoreSummary, TypeOK
  <2> QED
    BY <1>5, <1>6, <1>9, <2>3, <2>4 DEF StoreSummary, TypeOK, changeVars
<1>10. CASE RecordFailure(s)
  <2>1. row' = [row EXCEPT ![c] = [row[c] EXCEPT !.attempts = NextAttempts(s),
                                                 !.quarantined = QuarantinedAt(s, c)]]
    BY <1>10 DEF RecordFailure, TypeOK
  <2>0. NextAttempts(s) \in Nat /\ QuarantinedAt(s, c) \in Times
    BY <1>0 DEF Times, NextAttempts, QuarantinedAt
  <2>2. [row[c] EXCEPT !.attempts = NextAttempts(s), !.quarantined = QuarantinedAt(s, c)]
          \in SummaryRow
    BY <1>0, <2>0 DEF SummaryRow
  <2>3. row' \in [Clusters -> SummaryRow]
    BY <2>1, <2>2 DEF TypeOK
  <2>4. failures' \in [Clusters -> Nat]
    <3>1. failures[c] \in Nat /\ failures[c] + 1 \in Nat
      BY <1>0 DEF TypeOK
    <3>2. failures' = [failures EXCEPT ![c] = IF failures[c] > MaxAttempts
                                              THEN failures[c] ELSE failures[c] + 1]
      BY <1>10 DEF RecordFailure, TypeOK
    <3> QED
      BY <3>1, <3>2 DEF TypeOK
  <2>5. judged' \in [Clusters -> Versions] /\ raced' \in [Clusters -> BOOLEAN]
    BY <1>6, <1>10 DEF RecordFailure, TypeOK
  <2> QED
    BY <1>5, <1>10, <2>3, <2>4, <2>5 DEF RecordFailure, TypeOK, changeVars
<1> QED
  BY <1>1, <1>2, <1>3, <1>4, <1>7, <1>8, <1>9, <1>10 DEF Sweep

LEMMA NextTypeOK == TypeOK /\ [Next]_vars => TypeOK'
<1> SUFFICES ASSUME TypeOK, [Next]_vars PROVE TypeOK'
  OBVIOUS
<1>1. CASE UNCHANGED vars
  BY <1>1 DEF vars, changeVars, summaryVars, TypeOK
<1>2. CASE Upgrade
  BY <1>2 DEF Upgrade, TypeOK, changeVars, summaryVars
<1>3. CASE BuildElsewhere
  BY <1>3 DEF BuildElsewhere, TypeOK, changeVars, summaryVars
<1>4. CASE DropSweep
  <2>1. crashes' \in Nat
    BY <1>4 DEF DropSweep, TypeOK
  <2>2. called' \in BOOLEAN
    BY <1>4 DEF DropSweep
  <2>3. UNCHANGED <<changeVars, summaryVars, model, sweep>>
    BY <1>4 DEF DropSweep
  <2> QED
    BY <2>1, <2>2, <2>3 DEF TypeOK, changeVars, summaryVars
<1> QED
  BY <1>1, <1>2, <1>3, <1>4, ChangeTypeOK, SweepTypeOK DEF Next

\* Every variable keeps its type.
THEOREM TypeCorrect == Spec => []TypeOK
BY InitTypeOK, NextTypeOK, PTL DEF Spec

LEMMA InitGate == Init => StampsPast /\ GateInv
BY SummaryAssumption, RecordTypes
DEF Init, StampsPast, GateInv, Open, NewRow, Never, NoContent

\* What a step that announces, or gives up, a change does to one cluster.
LEMMA ChangeGate ==
    ASSUME TypeOK, StampsPast, GateInv, NEW b \in Clusters,
           Change(b) \/ \E w \in Writers : Rollback(b, w)
    PROVE  StampsPast' /\ GateInv'
<1>0. /\ clock \in Nat /\ row \in [Clusters -> SummaryRow]
      /\ announced \in [Clusters -> Versions]
      /\ announce \in [Clusters -> [Writers -> Announcement]]
  BY DEF TypeOK
<1>1. "build" \in Writers /\ Fetchers \subseteq Writers
  BY DEF Writers
<1>2. ASSUME NEW w \in Writers, Begin(b, w), UNCHANGED <<announced, summaryVars>>
      PROVE  StampsPast' /\ GateInv'
  <2>1. StampsPast'
    <3> SUFFICES ASSUME NEW c \in Clusters
                 PROVE  row[c].summarized <= clock + 1 /\ row[c].quarantined <= clock + 1
      BY <1>2 DEF Begin, StampsPast, summaryVars
    <3>1. row[c].summarized \in Int /\ row[c].quarantined \in Int
      BY <1>0, RowFields DEF Times, Never
    <3> QED
      BY <1>0, <3>1 DEF StampsPast
  <2>2. ASSUME NEW c \in Clusters, ~ raced[c], NEW v \in Writers, Open(c, v)'
        PROVE  After(announce[c][v].start, c)'
    <3>1. row' = row /\ raced' = raced
      BY <1>2 DEF summaryVars
    <3>2. CASE c = b /\ v = w
      <4>1. announce'[c][v].start = clock + 1
        BY <1>0, <1>2, <3>2 DEF Begin
      <4>2. row[c].summarized \in Int /\ row[c].quarantined \in Int
        BY <1>0, RowFields DEF Times, Never
      <4> QED
        BY <1>0, <3>1, <4>1, <4>2 DEF After, StampsPast
    <3>3. CASE ~ (c = b /\ v = w)
      <4>1. announce'[c][v] = announce[c][v]
        BY <1>0, <1>2, <3>3 DEF Begin
      <4> QED
        BY <2>2, <3>1, <4>1 DEF GateInv, After, Open
    <3> QED
      BY <3>2, <3>3
  <2>3. ASSUME NEW c \in Clusters, ~ raced[c], announced[c] > judged[c]
        PROVE  \/ row[c].summarized = Never /\ row[c].quarantined = Never
               \/ After(row[c].updated, c)
    BY <2>3 DEF GateInv
  <2> QED
    BY <1>2, <2>1, <2>2, <2>3 DEF GateInv, summaryVars, After
<1>3. ASSUME NEW w \in Writers, NEW v \in Versions, Open(b, w), Announce(b, w, v),
             UNCHANGED <<clock, judged, raced>>
      PROVE  StampsPast' /\ GateInv'
  <2>1. ASSUME NEW c \in Clusters
        PROVE  /\ row'[c].summarized = row[c].summarized
               /\ row'[c].quarantined = row[c].quarantined
               /\ c # b => row'[c].updated = row[c].updated /\ announced'[c] = announced[c]
               /\ c = b => row'[c].updated = announce[b][w].start
    BY <1>0, <1>3 DEF Announce, SummaryRow
  <2>2. StampsPast'
    BY <1>3, <2>1 DEF StampsPast
  <2>3. ASSUME NEW c \in Clusters, NEW u \in Writers
        PROVE  Open(c, u)' => Open(c, u) /\ announce'[c][u] = announce[c][u]
    BY <1>0, <1>3 DEF Announce, Open
  <2>4. ASSUME NEW c \in Clusters, ~ raced[c], announced'[c] > judged[c]
        PROVE  \/ row'[c].summarized = Never /\ row'[c].quarantined = Never
               \/ After(row[c].updated, c)'
    <3>1. CASE c = b
      <4>1. After(announce[b][w].start, b)
        BY <1>3, <2>4, <3>1 DEF GateInv
      <4> QED
        BY <2>1, <3>1, <4>1 DEF After
    <3>2. CASE c # b
      BY <2>1, <2>4, <3>2 DEF GateInv, After
    <3> QED
      BY <3>1, <3>2
  <2>5. ASSUME NEW c \in Clusters, ~ raced[c], NEW u \in Writers, Open(c, u)'
        PROVE  After(announce[c][u].start, c)'
    <3>1. After(announce[c][u].start, c)
      BY <2>3, <2>5 DEF GateInv
    <3> QED
      BY <2>1, <2>3, <2>5, <3>1 DEF After
  <2> QED
    BY <1>3, <2>2, <2>4, <2>5 DEF GateInv
<1>4. CASE Arrive(b)
  BY <1>4 DEF Arrive, StampsPast, GateInv, Open, After, summaryVars
<1>5. CASE BeginBuild(b)
  BY <1>1, <1>2, <1>5 DEF BeginBuild
<1>6. ASSUME NEW f \in Fetchers, BeginFetch(b, f)
      PROVE  StampsPast' /\ GateInv'
  BY <1>1, <1>2, <1>6 DEF BeginFetch
<1>7. CASE CommitBuild(b)
  <2>1. announce[b]["build"].seen \in Versions
    BY <1>1, <1>7, OpenType DEF CommitBuild
  <2> QED
    BY <1>1, <1>3, <1>7, <2>1 DEF CommitBuild
<1>8. ASSUME NEW f \in Fetchers, CommitFetch(b, f)
      PROVE  StampsPast' /\ GateInv'
  <2>1. content[b] + 1 \in Versions
    BY <1>8, SummaryAssumption DEF CommitFetch, Versions, TypeOK
  <2> QED
    BY <1>1, <1>3, <1>8, <2>1 DEF CommitFetch
<1>9. ASSUME NEW w \in Writers, Rollback(b, w)
      PROVE  StampsPast' /\ GateInv'
  <2>1. ASSUME NEW c \in Clusters, NEW u \in Writers
        PROVE  Open(c, u)' => Open(c, u) /\ announce'[c][u] = announce[c][u]
    BY <1>0, <1>9 DEF Rollback, Open
  <2>2. row' = row /\ raced' = raced /\ judged' = judged /\ announced' = announced
        /\ clock' = clock
    BY <1>9 DEF Rollback, summaryVars
  <2> QED
    BY <2>1, <2>2 DEF StampsPast, GateInv, After
<1> QED
  BY <1>4, <1>5, <1>6, <1>7, <1>8, <1>9 DEF Change

\* What a write of a sweep does to the stamps and the history: it settles the
\* row at the clock (Judge), or it only lifts the quarantine.
LEMMA SweepWrites ==
    ASSUME TypeOK, NEW s \in Sweepers,
           TouchSummarized(s) \/ StoreSummary(s) \/ RecordFailure(s)
    PROVE  LET c == sweep[s].at.cluster IN
           /\ c \in Clusters /\ row' \in [Clusters -> SummaryRow]
           /\ \A d \in Clusters \ {c} : row'[d] = row[d]
           /\ row'[c].updated = row[c].updated
           /\ row'[c].summarized \in {row[c].summarized, clock}
           /\ row'[c].quarantined \in {Never, clock}
           /\ \/ Judge(s, c)
              \/ /\ row'[c].summarized = row[c].summarized /\ row'[c].quarantined = Never
                 /\ UNCHANGED <<judged, raced>>
<1> DEFINE c == sweep[s].at.cluster
<1>1. TypeOK'
  BY SweepTypeOK DEF Sweep
<1>2. /\ c \in Clusters /\ row' \in [Clusters -> SummaryRow]
      /\ row \in [Clusters -> SummaryRow] /\ row[c] \in SummaryRow
  BY <1>1, SweepFields DEF TypeOK
<1>3. CASE TouchSummarized(s)
  BY <1>2, <1>3 DEF TouchSummarized, SummaryRow
<1>4. CASE StoreSummary(s)
  BY <1>2, <1>4 DEF StoreSummary, SummaryRow
<1>5. CASE RecordFailure(s)
  <2>1. /\ \A d \in Clusters \ {c} : row'[d] = row[d]
        /\ row'[c].updated = row[c].updated
        /\ row'[c].summarized = row[c].summarized
        /\ row'[c].quarantined = QuarantinedAt(s, c)
    BY <1>2, <1>5 DEF RecordFailure, SummaryRow
  <2>2. CASE NextAttempts(s) >= MaxAttempts
    BY <1>2, <1>5, <2>1, <2>2 DEF RecordFailure, QuarantinedAt
  <2>3. CASE ~ (NextAttempts(s) >= MaxAttempts)
    BY <1>2, <1>5, <2>1, <2>3 DEF RecordFailure, QuarantinedAt
  <2> QED
    BY <2>2, <2>3
<1> QED
  BY <1>2, <1>3, <1>4, <1>5

LEMMA SweepGate ==
    ASSUME TypeOK, StampsPast, GateInv, NEW s \in Sweepers,
           Sweep(s) \/ TouchFails(s) \/ CrashSweep(s)
    PROVE  StampsPast' /\ GateInv'
<1>1. CASE StartSweep(s) \/ ReadEvents(s) \/ FinishSweep(s) \/ TouchFails(s) \/ CrashSweep(s)
  <2>1. UNCHANGED <<changeVars, summaryVars>>
    BY <1>1 DEF StartSweep, ReadEvents, FinishSweep, TouchFails, CrashSweep
  <2> QED
    BY <2>1 DEF changeVars, summaryVars, StampsPast, GateInv, Open, After
<1>2. CASE TouchSummarized(s) \/ StoreSummary(s) \/ RecordFailure(s)
  <2> DEFINE c == sweep[s].at.cluster
  <2>0. UNCHANGED changeVars
    BY <1>2 DEF TouchSummarized, StoreSummary, RecordFailure
  <2>1. /\ c \in Clusters /\ row' \in [Clusters -> SummaryRow]
        /\ \A d \in Clusters \ {c} : row'[d] = row[d]
        /\ row'[c].updated = row[c].updated
        /\ row'[c].summarized \in {row[c].summarized, clock}
        /\ row'[c].quarantined \in {Never, clock}
        /\ \/ Judge(s, c)
           \/ /\ row'[c].summarized = row[c].summarized /\ row'[c].quarantined = Never
              /\ UNCHANGED <<judged, raced>>
    BY <1>2, SweepWrites
  <2>2. /\ clock \in Nat /\ row \in [Clusters -> SummaryRow]
        /\ judged \in [Clusters -> Versions] /\ raced \in [Clusters -> BOOLEAN]
        /\ announced \in [Clusters -> Versions] /\ sweep[s].read \in Versions
    BY SweepFields DEF TypeOK
  <2>3. ASSUME NEW d \in Clusters
        PROVE  /\ row[d].summarized \in Int /\ row[d].summarized >= Never
               /\ row[d].quarantined \in Int /\ row[d].quarantined >= Never
               /\ row[d].updated \in Nat
    BY <2>2, RowFields DEF Times, Never
  <2>4. StampsPast'
    <3> SUFFICES ASSUME NEW d \in Clusters
                 PROVE  row'[d].summarized <= clock /\ row'[d].quarantined <= clock
      BY <2>0 DEF changeVars, StampsPast
    <3> QED
      BY <2>1, <2>2, <2>3 DEF StampsPast, Never
  <2>5. ASSUME NEW d \in Clusters, d # c
        PROVE  /\ row'[d] = row[d]
               /\ judged'[d] = judged[d] /\ raced'[d] = raced[d]
    BY <2>1, <2>2, <2>5 DEF Judge
  <2>6. ASSUME NEW d \in Clusters, ~ raced'[d], NEW w \in Writers, Open(d, w)
        PROVE  After(announce[d][w].start, d)'
    <3>0. announce' = announce
      BY <2>0 DEF changeVars
    <3>1. CASE d # c
      <4>1. After(announce[d][w].start, d)
        BY <2>5, <2>6, <3>1 DEF GateInv
      <4> QED
        BY <2>5, <3>0, <3>1, <4>1 DEF After
    <3>2. CASE d = c
      <4>1. ~ Judge(s, c)
        BY <2>1, <2>2, <2>6, <3>2 DEF Judge
      <4>2. /\ row'[c].summarized = row[c].summarized /\ row'[c].quarantined = Never
            /\ raced'[c] = raced[c]
        BY <2>1, <4>1
      <4>3. After(announce[c][w].start, c)
        BY <2>6, <3>2, <4>2 DEF GateInv
      <4>4. announce[c][w].start \in Nat
        BY <2>1, <2>6, <3>2, OpenType
      <4> QED
        BY <3>0, <3>2, <4>2, <4>3, <4>4 DEF After, Never
    <3> QED
      BY <3>1, <3>2
  <2>7. ASSUME NEW d \in Clusters, ~ raced'[d], announced[d] > judged'[d]
        PROVE  \/ row'[d].summarized = Never /\ row'[d].quarantined = Never
               \/ After(row[d].updated, d)'
    <3>1. CASE d # c
      BY <2>5, <2>7, <3>1 DEF GateInv, After
    <3>2. CASE d = c
      <4>1. ~ Judge(s, c)
        BY <2>1, <2>2, <2>7, <3>2 DEF Judge
      <4>2. /\ row'[c].summarized = row[c].summarized /\ row'[c].quarantined = Never
            /\ raced'[c] = raced[c] /\ judged'[c] = judged[c]
        BY <2>1, <4>1
      <4>3. \/ row[c].summarized = Never
            \/ After(row[c].updated, c)
        BY <2>7, <3>2, <4>2 DEF GateInv
      <4> QED
        BY <2>1, <2>3, <3>2, <4>2, <4>3 DEF After, Never
    <3> QED
      BY <3>1, <3>2
  <2>8. announced' = announced /\ \A d \in Clusters, w \in Writers : Open(d, w)' <=> Open(d, w)
    BY <2>0 DEF changeVars, Open
  <2> QED
    BY <2>4, <2>6, <2>7, <2>8 DEF GateInv
<1> QED
  BY <1>1, <1>2 DEF Sweep

(***************************************************************************)
(* A change announced after the last settling write of its cluster puts    *)
(* the cluster in the work queue, unless that write raced it.              *)
(***************************************************************************)
THEOREM NoChangeMissedUnlessRacedCorrect == Spec => []NoChangeMissedUnlessRaced
<1>1. Init => TypeOK /\ StampsPast /\ GateInv
  BY InitTypeOK, InitGate
<1>2. TypeOK /\ StampsPast /\ GateInv /\ [Next]_vars => TypeOK' /\ StampsPast' /\ GateInv'
  <2> SUFFICES ASSUME TypeOK, StampsPast, GateInv, [Next]_vars
               PROVE  StampsPast' /\ GateInv'
    BY NextTypeOK
  <2>1. CASE UNCHANGED vars \/ Upgrade \/ BuildElsewhere \/ DropSweep
    BY <2>1 DEF vars, Upgrade, BuildElsewhere, DropSweep, changeVars, summaryVars, StampsPast, GateInv, Open, After
  <2> QED
    BY <2>1, ChangeGate, SweepGate DEF Next
<1>3. TypeOK /\ GateInv => NoChangeMissedUnlessRaced
  BY DEF GateInv, NoChangeMissedUnlessRaced, Due, NeedsSummary, Stale, Retryable, After
<1> QED
  BY <1>1, <1>2, <1>3, PTL DEF Spec

-----------------------------------------------------------------------------
(***************************************************************************)
(* The retry budget, for the sweeps of one worker at a time: two sweeps    *)
(* over one cluster write each their own absolute count.                   *)
(***************************************************************************)
\* What a sweep has still to settle.
Pending(s) == sweep[s].todo \cup {d \in {sweep[s].at} : sweep[s].pc = "calling"}

\* No announcement starts in the future.
ChangesPast ==
    \A c \in Clusters :
        /\ row[c].updated <= clock
        /\ \A w \in Writers : Open(c, w) => announce[c][w].start <= clock

\* The row counts the failures; a change past the quarantine has cleared them.
RowBudget ==
    \A c \in Clusters :
        /\ row[c].quarantined = Never
              => failures[c] = row[c].attempts /\ row[c].attempts < MaxAttempts
        /\ row[c].quarantined # Never => failures[c] <= MaxAttempts
        /\ RetryReset(c) => failures[c] = 0

\* What a sweep has read of the count stays true until it writes.
PendingBudget ==
    \A s \in Sweepers :
        /\ \A d \in Pending(s) :
              /\ failures[d.cluster] = d.attempts /\ d.attempts < MaxAttempts
              /\ row[d.cluster].quarantined # Never => d.attempts = 0
        /\ \A d, e \in sweep[s].todo : d.cluster = e.cluster => d = e
        /\ sweep[s].pc = "calling" => \A d \in sweep[s].todo : d.cluster # sweep[s].at.cluster

BudgetInv == TypeOK /\ ChangesPast /\ RowBudget /\ PendingBudget

LEMMA PendingType ==
    ASSUME TypeOK, NEW s \in Sweepers, NEW d \in Pending(s)
    PROVE  d \in DueCluster /\ d.cluster \in Clusters /\ d.attempts \in Nat
<1>1. sweep[s] \in SweepRecord
  BY DEF TypeOK
<1>2. sweep[s].todo \subseteq DueCluster /\ sweep[s].at \in DueCluster
  BY <1>1 DEF SweepRecord
<1> QED
  BY <1>2 DEF Pending, DueCluster

\* An announcement lifts the update stamp of its cluster, and may clear the
\* failures of a quarantined one; it does nothing else to the budget.
LEMMA BudgetChange ==
    ASSUME BudgetInv, NEW b \in Clusters,
           Change(b) \/ \E w \in Writers : Rollback(b, w)
    PROVE  ChangesPast' /\ RowBudget' /\ PendingBudget'
<1>0. /\ clock \in Nat /\ row \in [Clusters -> SummaryRow] /\ failures \in [Clusters -> Nat]
      /\ announce \in [Clusters -> [Writers -> Announcement]]
      /\ TypeOK /\ MaxAttempts \in Nat \ {0}
  BY SummaryAssumption DEF BudgetInv, TypeOK
<1>1. "build" \in Writers /\ Fetchers \subseteq Writers
  BY DEF Writers
<1>2. sweep' = sweep
  BY DEF Change, Arrive, BeginBuild, CommitBuild, BeginFetch, CommitFetch, Rollback
<1>3. ASSUME row' = row, failures' = failures
      PROVE  RowBudget' /\ PendingBudget'
  BY <1>2, <1>3 DEF BudgetInv, RowBudget, RetryReset, PendingBudget, Pending
<1>4. ASSUME NEW w \in Writers, Begin(b, w), row' = row
      PROVE  ChangesPast'
  <2>1. clock' = clock + 1
    BY <1>4 DEF Begin
  <2>2. ASSUME NEW c \in Clusters, NEW v \in Writers, Open(c, v)'
        PROVE  announce'[c][v].start <= clock + 1
    <3>1. CASE c = b /\ v = w
      BY <1>0, <1>4, <3>1 DEF Begin
    <3>2. CASE ~ (c = b /\ v = w)
      <4>1. announce'[c][v] = announce[c][v]
        BY <1>0, <1>4, <3>2 DEF Begin
      <4>2. Open(c, v) /\ announce[c][v].start <= clock
        BY <2>2, <4>1 DEF Open, BudgetInv, ChangesPast
      <4> QED
        BY <1>0, <4>1, <4>2, OpenType
    <3> QED
      BY <3>1, <3>2
  <2>3. ASSUME NEW c \in Clusters
        PROVE  row[c].updated <= clock + 1
    BY <1>0, RowFields DEF BudgetInv, ChangesPast
  <2> QED
    BY <1>4, <2>1, <2>2, <2>3 DEF ChangesPast
<1>5. ASSUME NEW w \in Writers, NEW v \in Versions, Open(b, w), Announce(b, w, v), clock' = clock
      PROVE  ChangesPast' /\ RowBudget' /\ PendingBudget'
  <2>1. ASSUME NEW c \in Clusters
        PROVE  /\ row'[c].quarantined = row[c].quarantined /\ row'[c].attempts = row[c].attempts
               /\ c # b => row'[c].updated = row[c].updated /\ failures'[c] = failures[c]
               /\ c = b => row'[c].updated = announce[b][w].start
    BY <1>0, <1>5 DEF Announce, SummaryRow
  <2>2. failures'[b] = IF row[b].quarantined # Never /\ announce[b][w].start > row[b].quarantined
                       THEN 0 ELSE failures[b]
    BY <1>0, <1>5 DEF Announce
  <2>3. ASSUME NEW c \in Clusters, NEW u \in Writers
        PROVE  Open(c, u)' => Open(c, u) /\ announce'[c][u] = announce[c][u]
    BY <1>0, <1>5 DEF Announce, Open
  <2>4. ChangesPast'
    BY <1>5, <2>1, <2>3 DEF ChangesPast, BudgetInv
  <2>5. RowBudget'
    <3> SUFFICES ASSUME NEW c \in Clusters
                 PROVE  /\ row'[c].quarantined = Never
                             => failures'[c] = row'[c].attempts /\ row'[c].attempts < MaxAttempts
                        /\ row'[c].quarantined # Never => failures'[c] <= MaxAttempts
                        /\ RetryReset(c)' => failures'[c] = 0
      BY DEF RowBudget
    <3>1. CASE c = b
      BY <1>0, <2>1, <2>2, <3>1 DEF BudgetInv, RowBudget, RetryReset
    <3>2. CASE c # b
      BY <2>1, <3>2 DEF BudgetInv, RowBudget, RetryReset
    <3> QED
      BY <3>1, <3>2
  <2>6. ASSUME NEW c \in Clusters, row[c].quarantined # Never => failures[c] = 0
        PROVE  failures'[c] = failures[c]
    BY <1>0, <2>1, <2>2, <2>6
  <2>7. ASSUME NEW s \in Sweepers, NEW d \in Pending(s)
        PROVE  /\ failures'[d.cluster] = d.attempts /\ d.attempts < MaxAttempts
               /\ row'[d.cluster].quarantined # Never => d.attempts = 0
    BY <1>0, <2>1, <2>6, PendingType DEF BudgetInv, PendingBudget
  <2>8. PendingBudget'
    BY <1>2, <2>7 DEF BudgetInv, PendingBudget, Pending
  <2> QED
    BY <2>4, <2>5, <2>8
<1>6. CASE Arrive(b)
  BY <1>3, <1>6 DEF Arrive, summaryVars, BudgetInv, ChangesPast, Open
<1>7. CASE BeginBuild(b)
  BY <1>1, <1>3, <1>4, <1>7 DEF BeginBuild, summaryVars
<1>8. ASSUME NEW f \in Fetchers, BeginFetch(b, f)
      PROVE  ChangesPast' /\ RowBudget' /\ PendingBudget'
  BY <1>1, <1>3, <1>4, <1>8 DEF BeginFetch, summaryVars
<1>9. CASE CommitBuild(b)
  <2>1. announce[b]["build"].seen \in Versions
    BY <1>0, <1>1, <1>9, OpenType DEF CommitBuild
  <2> QED
    BY <1>1, <1>5, <1>9, <2>1 DEF CommitBuild
<1>10. ASSUME NEW f \in Fetchers, CommitFetch(b, f)
       PROVE  ChangesPast' /\ RowBudget' /\ PendingBudget'
  <2>1. content[b] + 1 \in Versions
    BY <1>0, <1>10, SummaryAssumption DEF CommitFetch, Versions, TypeOK
  <2> QED
    BY <1>1, <1>5, <1>10, <2>1 DEF CommitFetch
<1>11. ASSUME NEW w \in Writers, Rollback(b, w)
       PROVE  ChangesPast' /\ RowBudget' /\ PendingBudget'
  <2>1. ASSUME NEW c \in Clusters, NEW u \in Writers
        PROVE  Open(c, u)' => Open(c, u) /\ announce'[c][u] = announce[c][u]
    BY <1>0, <1>11 DEF Rollback, Open
  <2> QED
    BY <1>3, <1>11, <2>1 DEF Rollback, summaryVars, BudgetInv, ChangesPast
<1> QED
  BY <1>6, <1>7, <1>8, <1>9, <1>10, <1>11 DEF Change

\* What a write of a sweep does to the count of its cluster.
LEMMA BudgetWrites ==
    ASSUME TypeOK, NEW s \in Sweepers,
           TouchSummarized(s) \/ StoreSummary(s) \/ RecordFailure(s)
    PROVE  LET c == sweep[s].at.cluster IN
           /\ \A d \in Clusters \ {c} : failures'[d] = failures[d]
           /\ \/ failures'[c] = 0 /\ row'[c].attempts = 0 /\ row'[c].quarantined = Never
              \/ /\ failures'[c] = IF failures[c] > MaxAttempts THEN failures[c] ELSE failures[c] + 1
                 /\ row'[c].attempts = sweep[s].at.attempts + 1
                 /\ row'[c].quarantined = IF sweep[s].at.attempts + 1 >= MaxAttempts
                                          THEN clock ELSE Never
<1> DEFINE c == sweep[s].at.cluster
<1>1. c \in Clusters /\ row \in [Clusters -> SummaryRow] /\ failures \in [Clusters -> Nat]
  BY SweepFields DEF TypeOK
<1>2. CASE TouchSummarized(s) \/ StoreSummary(s)
  <2>1. failures' = [failures EXCEPT ![c] = 0]
    BY <1>2 DEF TouchSummarized, StoreSummary
  <2>2. row'[c].attempts = 0 /\ row'[c].quarantined = Never
    <3>1. CASE TouchSummarized(s)
      BY <1>1, <3>1 DEF TouchSummarized, SummaryRow
    <3>2. CASE StoreSummary(s)
      <4>1. row' = [row EXCEPT ![c] = [row[c] EXCEPT !.summarized = clock, !.hash = sweep[s].read,
                                                     !.model = sweep[s].model, !.attempts = 0,
                                                     !.quarantined = Never]]
        BY <1>1, <3>2 DEF StoreSummary
      <4>2. row[c] \in SummaryRow
        BY <1>1
      <4> HIDE DEF c
      <4> QED
        BY <1>1, <4>1, <4>2 DEF SummaryRow
    <3> QED
      BY <1>2, <3>1, <3>2
  <2> QED
    BY <1>1, <2>1, <2>2
<1>3. CASE RecordFailure(s)
  <2>1. failures' = [failures EXCEPT ![c] = IF @ > MaxAttempts THEN @ ELSE @ + 1]
    BY <1>3 DEF RecordFailure
  <2>2. /\ row'[c].attempts = NextAttempts(s) /\ row'[c].quarantined = QuarantinedAt(s, c)
    BY <1>1, <1>3 DEF RecordFailure, SummaryRow
  <2> QED
    BY <1>1, <2>1, <2>2 DEF NextAttempts, QuarantinedAt
<1> QED
  BY <1>2, <1>3

\* A sweep reads the count as the row has it, and is the only one to write
\* it: one more failure, or a success and a fresh count.
LEMMA BudgetSweep ==
    ASSUME BudgetInv, NEW s \in Sweepers, \A t \in Sweepers : t = s,
           Sweep(s) \/ TouchFails(s) \/ CrashSweep(s)
    PROVE  ChangesPast' /\ RowBudget' /\ PendingBudget'
<1>0. /\ clock \in Nat /\ row \in [Clusters -> SummaryRow] /\ failures \in [Clusters -> Nat]
      /\ sweep \in [Sweepers -> SweepRecord] /\ sweep[s] \in SweepRecord
      /\ TypeOK /\ MaxAttempts \in Nat \ {0}
  BY SummaryAssumption DEF BudgetInv, TypeOK
<1>1. ASSUME UNCHANGED <<changeVars, summaryVars>>
      PROVE  /\ ChangesPast' /\ RowBudget'
             /\ (\A d \in Pending(s)' : d \in Pending(s)) => \A d \in Pending(s)' :
                    /\ failures'[d.cluster] = d.attempts /\ d.attempts < MaxAttempts
                    /\ row'[d.cluster].quarantined # Never => d.attempts = 0
  BY <1>1 DEF changeVars, summaryVars, BudgetInv, ChangesPast, RowBudget, RetryReset, Open,
              PendingBudget
<1>2. CASE StartSweep(s)
  <2>1. PICK S \in Batches(model) : sweep' = [sweep EXCEPT ![s] =
          [NoSweep EXCEPT !.pc = "walking", !.model = model, !.todo = {Entry(c) : c \in S}]]
    BY <1>2 DEF StartSweep
  <2>2. sweep'[s] = [NoSweep EXCEPT !.pc = "walking", !.model = model,
                                    !.todo = {Entry(c) : c \in S}]
    BY <1>0, <2>1
  <2>3. sweep'[s].pc = "walking" /\ sweep'[s].todo = {Entry(c) : c \in S}
    BY <2>2 DEF NoSweep
  <2>4. Pending(s)' = {Entry(c) : c \in S}
    BY <2>3 DEF Pending
  <2>5. \A c \in S : c \in Clusters /\ Retryable(c)
    BY DEF Batches, NeedsSummary
  <2>6. UNCHANGED <<changeVars, summaryVars>>
    BY <1>2 DEF StartSweep
  <2>7. ASSUME NEW c \in S
        PROVE  /\ Entry(c).cluster = c
               /\ failures[c] = Entry(c).attempts /\ Entry(c).attempts < MaxAttempts
               /\ row[c].quarantined # Never => Entry(c).attempts = 0
    BY <1>0, <2>5, <2>7 DEF Entry, Retryable, RetryReset, BudgetInv, RowBudget
  <2>8. ASSUME NEW d \in Pending(s)'
        PROVE  /\ failures'[d.cluster] = d.attempts /\ d.attempts < MaxAttempts
               /\ row'[d.cluster].quarantined # Never => d.attempts = 0
    BY <2>4, <2>6, <2>7 DEF summaryVars
  <2>9. \A d, e \in sweep'[s].todo : d.cluster = e.cluster => d = e
    BY <2>3, <2>7
  <2> QED
    BY <1>1, <2>3, <2>6, <2>8, <2>9 DEF PendingBudget
<1>3. CASE ReadEvents(s)
  <2>1. PICK d \in sweep[s].todo :
          sweep' = [sweep EXCEPT ![s].pc = "calling", ![s].at = d, ![s].todo = @ \ {d},
                                 ![s].read = content[d.cluster]]
    BY <1>3 DEF ReadEvents
  <2>2. sweep'[s] = [sweep[s] EXCEPT !.pc = "calling", !.at = d, !.todo = @ \ {d},
                                     !.read = content[d.cluster]]
    BY <1>0, <2>1
  <2>3. sweep'[s].at = d /\ sweep'[s].todo = sweep[s].todo \ {d}
    BY <1>0, <2>2 DEF SweepRecord
  <2>4. Pending(s)' \subseteq Pending(s)
    BY <2>3 DEF Pending
  <2>5. UNCHANGED <<changeVars, summaryVars>>
    BY <1>3 DEF ReadEvents
  <2>6. \A e, f \in sweep[s].todo : e.cluster = f.cluster => e = f
    BY DEF BudgetInv, PendingBudget
  <2> QED
    BY <1>1, <2>3, <2>4, <2>5, <2>6 DEF PendingBudget
<1>4. CASE FinishSweep(s) \/ CrashSweep(s)
  <2>1. sweep' = [sweep EXCEPT ![s] = NoSweep]
    BY <1>4 DEF FinishSweep, CrashSweep
  <2>2. sweep'[s].pc = "idle" /\ sweep'[s].todo = {}
    BY <1>0, <2>1 DEF NoSweep
  <2>3. Pending(s)' = {}
    BY <2>2 DEF Pending
  <2>4. UNCHANGED <<changeVars, summaryVars>>
    BY <1>4 DEF FinishSweep, CrashSweep
  <2> QED
    BY <1>1, <2>2, <2>3, <2>4 DEF PendingBudget
<1>5. ASSUME Walk(s)
      PROVE  /\ sweep'[s].pc = "walking" /\ sweep'[s].todo = sweep[s].todo
             /\ Pending(s)' = sweep[s].todo
  <2>1. sweep'[s] = [sweep[s] EXCEPT !.pc = "walking", !.at = NotReading, !.read = NoContent]
    BY <1>0, <1>5 DEF Walk
  <2>2. sweep'[s].pc = "walking" /\ sweep'[s].todo = sweep[s].todo
    BY <1>0, <2>1 DEF SweepRecord
  <2> QED
    BY <2>2 DEF Pending
<1>6. CASE TouchFails(s)
  <2>1. Walk(s) /\ UNCHANGED <<changeVars, summaryVars>>
    BY <1>6 DEF TouchFails
  <2> QED
    BY <1>1, <1>5, <2>1 DEF PendingBudget, BudgetInv, Pending
<1>7. CASE TouchSummarized(s) \/ StoreSummary(s) \/ RecordFailure(s)
  <2>0. PICK c \in Clusters : c = sweep[s].at.cluster
    BY <1>0, SweepFields
  <2>1. /\ c \in Clusters /\ row' \in [Clusters -> SummaryRow]
        /\ \A d \in Clusters \ {c} : row'[d] = row[d]
        /\ row'[c].updated = row[c].updated
    BY <1>0, <1>7, <2>0, SweepWrites
  <2>2. /\ \A d \in Clusters \ {c} : failures'[d] = failures[d]
        /\ \/ failures'[c] = 0 /\ row'[c].attempts = 0 /\ row'[c].quarantined = Never
           \/ /\ failures'[c] = IF failures[c] > MaxAttempts THEN failures[c] ELSE failures[c] + 1
              /\ row'[c].attempts = sweep[s].at.attempts + 1
              /\ row'[c].quarantined = IF sweep[s].at.attempts + 1 >= MaxAttempts
                                       THEN clock ELSE Never
    BY <1>0, <1>7, <2>0, BudgetWrites
  <2>3. UNCHANGED changeVars /\ Walk(s) /\ sweep[s].pc = "calling"
    BY <1>7 DEF TouchSummarized, StoreSummary, RecordFailure
  <2>4. sweep[s].at \in Pending(s)
    BY <2>3 DEF Pending
  <2>5. failures[c] = sweep[s].at.attempts /\ failures[c] < MaxAttempts /\ failures[c] \in Nat
    BY <1>0, <2>0, <2>4 DEF BudgetInv, PendingBudget
  <2>6. row[c].updated <= clock /\ row[c].updated \in Nat
    BY <1>0, <2>1, RowFields DEF BudgetInv, ChangesPast
  <2>7. ChangesPast'
    BY <2>1, <2>3 DEF changeVars, BudgetInv, ChangesPast, Open
  <2>8. /\ row'[c].quarantined = Never
             => failures'[c] = row'[c].attempts /\ row'[c].attempts < MaxAttempts
        /\ row'[c].quarantined # Never => failures'[c] <= MaxAttempts
        /\ RetryReset(c)' => failures'[c] = 0
    <3>1. CASE failures'[c] = 0 /\ row'[c].attempts = 0 /\ row'[c].quarantined = Never
      BY <1>0, <3>1 DEF RetryReset
    <3>2. CASE sweep[s].at.attempts + 1 >= MaxAttempts /\ row'[c].quarantined = clock
               /\ failures'[c] = failures[c] + 1
      <4>1. ~ RetryReset(c)'
        BY <1>0, <2>1, <2>6, <3>2 DEF RetryReset
      <4> QED
        BY <1>0, <2>5, <3>2, <4>1 DEF Never
    <3>3. CASE sweep[s].at.attempts + 1 < MaxAttempts /\ row'[c].quarantined = Never
               /\ failures'[c] = failures[c] + 1 /\ row'[c].attempts = sweep[s].at.attempts + 1
      BY <1>0, <2>5, <3>3 DEF RetryReset
    <3> QED
      BY <1>0, <2>2, <2>5, <3>1, <3>2, <3>3
  <2>9. RowBudget'
    <3> SUFFICES ASSUME NEW d \in Clusters, d # c
                 PROVE  /\ row'[d].quarantined = Never
                             => failures'[d] = row'[d].attempts /\ row'[d].attempts < MaxAttempts
                        /\ row'[d].quarantined # Never => failures'[d] <= MaxAttempts
                        /\ RetryReset(d)' => failures'[d] = 0
      BY <2>8 DEF RowBudget
    <3>1. row'[d] = row[d] /\ failures'[d] = failures[d]
      BY <2>1, <2>2
    <3> QED
      BY <3>1 DEF RetryReset, BudgetInv, RowBudget
  <2>10. ASSUME NEW d \in sweep[s].todo
         PROVE  /\ failures'[d.cluster] = d.attempts /\ d.attempts < MaxAttempts
                /\ row'[d.cluster].quarantined # Never => d.attempts = 0
    <3>1. d \in Pending(s) /\ d.cluster \in Clusters
      BY <1>0, PendingType DEF Pending
    <3>2. d.cluster # c
      BY <2>0, <2>3 DEF BudgetInv, PendingBudget
    <3> QED
      BY <2>1, <2>2, <3>1, <3>2 DEF BudgetInv, PendingBudget
  <2> QED
    BY <1>5, <2>3, <2>7, <2>9, <2>10 DEF PendingBudget, BudgetInv
<1> QED
  BY <1>2, <1>3, <1>4, <1>6, <1>7 DEF Sweep

(***************************************************************************)
(* With one sweep at a time, whatever the builds and the article fetches   *)
(* announce meanwhile, a cluster is tried MAX_SUMMARY_ATTEMPTS times in a  *)
(* row, never more, and is in quarantine after the last.  (Two sweeps may  *)
(* both read a count before either writes it.)                             *)
(***************************************************************************)
THEOREM BudgetRespectedCorrect ==
    ASSUME \A s, t \in Sweepers : s = t
    PROVE  Spec => []BudgetRespected
<1>1. Init => BudgetInv
  <2> SUFFICES ASSUME Init PROVE ChangesPast /\ RowBudget /\ PendingBudget
    BY InitTypeOK DEF BudgetInv
  <2> QED
    BY SummaryAssumption
    DEF Init, ChangesPast, RowBudget, RetryReset, PendingBudget, Pending, Open, NewRow, NoSweep, Never
<1>2. BudgetInv /\ [Next]_vars => BudgetInv'
  <2> SUFFICES ASSUME BudgetInv, [Next]_vars
               PROVE  ChangesPast' /\ RowBudget' /\ PendingBudget'
    BY NextTypeOK DEF BudgetInv
  <2>1. CASE UNCHANGED vars \/ Upgrade \/ BuildElsewhere \/ DropSweep
    BY <2>1 DEF vars, Upgrade, BuildElsewhere, DropSweep, changeVars, summaryVars, BudgetInv, ChangesPast, RowBudget,
                RetryReset, PendingBudget, Pending, Open
  <2> QED
    BY <2>1, BudgetChange, BudgetSweep DEF Next
<1>3. BudgetInv => BudgetRespected
  <2> SUFFICES ASSUME BudgetInv, NEW c \in Clusters
               PROVE  /\ failures[c] <= MaxAttempts
                      /\ failures[c] = MaxAttempts => row[c].quarantined # Never
    BY DEF BudgetRespected
  <2>1. row[c] \in SummaryRow /\ failures[c] \in Nat /\ MaxAttempts \in Nat
    BY SummaryAssumption DEF BudgetInv, TypeOK
  <2> QED
    BY <2>1, RowFields DEF BudgetInv, RowBudget
<1> QED
  BY <1>1, <1>2, <1>3, PTL DEF Spec
=============================================================================
