----------------------- MODULE DigestDelivery_proofs -----------------------
(***************************************************************************)
(* Proofs about DigestDelivery, for every value of its constants.          *)
(***************************************************************************)
EXTENDS DigestDelivery, TLAPS

\* The next boundary is strictly after the reference instant (the SQL
\* function next_run), whatever the recurrence.
LEMMA NextRunLater ==
    ASSUME NEW s \in Recurrence, NEW t \in Int
    PROVE  NextRun(s, t) \in Int /\ NextRun(s, t) > t
<1>1. s.period \in Nat \ {0} /\ s.phase \in Nat
  BY DEF Recurrence
<1> DEFINE d == s.phase - (t + 1)
<1>2. d \in Int
  BY <1>1
<1>3. d % s.period \in 0 .. s.period - 1
  BY <1>1, <1>2
<1> QED
  BY <1>1, <1>3 DEF NextRun

\* The rows a step writes keep their shape.
LEMMA IdleRunType == IdleRun \in RunRecord
BY DeliveryAssumption DEF IdleRun, RunRecord, Phase, Instants, NoRun

LEMMA JobUpdate ==
    ASSUME NEW r \in JobRow, NEW s \in JobStatus
    PROVE  /\ [r EXCEPT !.status = s] \in JobRow
           /\ [r EXCEPT !.status = s, !.attempts = @ + 1] \in JobRow
<1>1. r.attempts + 1 \in Nat
  BY DEF JobRow
<1>2. [r EXCEPT !.status = s] \in JobRow
  BY DEF JobRow
<1>3. [r EXCEPT !.status = s, !.attempts = r.attempts + 1] \in JobRow
  BY <1>1 DEF JobRow
<1> QED
  BY <1>2, <1>3

LEMMA PhaseUpdate ==
    ASSUME NEW r \in RunRecord, NEW p \in Phase
    PROVE  [r EXCEPT !.pc = p] \in RunRecord
BY DEF RunRecord

LEMMA DeliveredUpdate ==
    ASSUME NEW r \in DigestRow
    PROVE  [r EXCEPT !.delivered = TRUE] \in DigestRow
BY DEF DigestRow

LEMMA RunFields ==
    ASSUME NEW r \in RunRecord
    PROVE  /\ r.pc \in Phase /\ r.win \in Instants /\ r.snap \in Instants
           /\ r.last \in Instants \cup {NoRun} /\ r.window \in Nat
           /\ r.read \in Instants /\ r.floor \in Int
BY DEF RunRecord

LEMMA InstantsInNat == Instants \subseteq Nat
BY DeliveryAssumption DEF Instants

\* What Load stores, for a window that is due.
LEMMA LoadedType ==
    ASSUME TypeOK, nextRun <= clock
    PROVE  [pc |-> "loaded", win |-> nextRun, snap |-> clock, last |-> lastRun,
            window |-> DisplayWindow(schedule), read |-> 0, floor |-> 0] \in RunRecord
<1>1. nextRun \in Instants /\ 0 \in Instants
  BY DeliveryAssumption DEF TypeOK, Instants
<1>2. DisplayWindow(schedule) \in Nat
  BY DeliveryAssumption DEF TypeOK, DisplayWindow, Recurrence
<1> QED
  BY <1>1, <1>2 DEF TypeOK, RunRecord, Phase

LEMMA InitTypeOK == Init => TypeOK
<1> SUFFICES ASSUME Init PROVE TypeOK
  OBVIOUS
<1>1. schedule \in Recurrence
  BY DeliveryAssumption DEF Init
<1>2. nextRun \in Nat
  BY <1>1, NextRunLater DEF Init
<1>3. job \in [Instants -> JobRow]
  BY DEF Init, JobRow, JobStatus
<1>4. digest \in [Instants -> DigestRow]
  BY DeliveryAssumption DEF Init, DigestRow, NoDigest, Instants
<1>5. run \in [Instants -> RunRecord] /\ sent \in [Instants -> Nat]
  BY IdleRunType DEF Init
<1>6. clock \in Instants
  BY DeliveryAssumption DEF Init, Instants
<1> QED
  BY <1>2, <1>3, <1>4, <1>5, <1>6, DeliveryAssumption DEF Init, TypeOK, NoRun

LEMMA AdvanceTypeOK == TypeOK /\ Advance => TypeOK'
BY DeliveryAssumption
DEF TypeOK, Advance, Instants, subscriberVars, historyVars, boundVars

LEMMA TickTypeOK == TypeOK /\ Tick => TypeOK'
<1> SUFFICES ASSUME TypeOK, Tick PROVE TypeOK'
  OBVIOUS
<1>1. nextRun \in Instants
  BY DeliveryAssumption DEF TypeOK, Tick, Instants
<1>2. job[nextRun] \in JobRow
  BY <1>1 DEF TypeOK
<1>3. [job[nextRun] EXCEPT !.status = "Pending"] \in JobRow
  BY <1>2, JobUpdate DEF JobStatus
<1>4. job' \in [Instants -> JobRow]
  BY <1>1, <1>3 DEF TypeOK, Tick
<1> QED
  BY <1>4 DEF TypeOK, Tick, subscriberVars, historyVars, boundVars

LEMMA ChangePreferencesTypeOK ==
    ASSUME TypeOK, NEW s \in Schedules, ChangePreferences(s)
    PROVE  TypeOK'
<1>1. s \in Recurrence /\ Later(clock, lastRun) \in Int /\ Later(clock, lastRun) >= 0
  BY DeliveryAssumption DEF TypeOK, Later, Instants, NoRun
<1>2. nextRun' \in Nat
  BY <1>1, NextRunLater DEF ChangePreferences
<1>3. changes' \in 0 .. MaxChanges
  BY DeliveryAssumption DEF TypeOK, ChangePreferences
<1> QED
  BY <1>2, <1>3 DEF TypeOK, ChangePreferences, historyVars

LEMMA AttemptTypeOK ==
    ASSUME TypeOK, NEW j \in Instants, Attempt(j)
    PROVE  TypeOK'
<1>1. job[j] \in JobRow /\ run[j] \in RunRecord /\ clock \in Int
  BY InstantsInNat DEF TypeOK
<1>2. run[j].win \in Instants /\ run[j].snap \in Instants /\ run[j].read \in Instants
      /\ run[j].floor \in Int /\ run[j].last \in Instants \cup {NoRun}
  BY <1>1, RunFields
<1>3. CASE Load(j)
  <2>2. [pc |-> "loaded", win |-> nextRun, snap |-> clock, last |-> lastRun,
         window |-> DisplayWindow(schedule), read |-> 0, floor |-> 0] \in RunRecord
    BY <1>3, LoadedType DEF Load
  <2>3. [job[j] EXCEPT !.status = "Running", !.attempts = @ + 1] \in JobRow
    BY <1>1, JobUpdate DEF JobStatus
  <2> QED
    BY <1>3, <2>2, <2>3 DEF TypeOK, Load, subscriberVars, historyVars, boundVars
<1>4. CASE LoadNotYetDue(j)
  <2>1. [job[j] EXCEPT !.status = "Done", !.attempts = @ + 1] \in JobRow
    BY <1>1, JobUpdate DEF JobStatus
  <2> QED
    BY <1>4, <2>1 DEF TypeOK, LoadNotYetDue, subscriberVars, historyVars, boundVars
<1>5. CASE Select(j)
  <2>1. DisplayFloor(run[j].window, run[j].last, clock) \in Int
    <3>1. run[j].last \in Int /\ run[j].window \in Nat
      BY <1>1, <1>2, RunFields, DeliveryAssumption DEF Instants, NoRun
    <3> QED
      BY <1>1, <3>1, DeliveryAssumption DEF DisplayFloor, NoRun
  <2>2. [run[j] EXCEPT !.pc = "selected", !.read = clock,
                       !.floor = DisplayFloor(run[j].window, run[j].last, clock)] \in RunRecord
    BY <1>1, <2>1 DEF TypeOK, RunRecord, Phase
  <2> QED
    BY <1>5, <2>2 DEF TypeOK, Select, subscriberVars, historyVars, boundVars
<1>6. CASE Freeze(j)
  <2>1. digest' \in [Instants -> DigestRow]
    BY <1>6, <1>2 DEF TypeOK, Freeze, GetOrCreate, DigestRow
  <2>2. [run[j] EXCEPT !.pc = "frozen"] \in RunRecord
    BY <1>1, PhaseUpdate DEF Phase
  <2>3. exposed' \subseteq Instants
    BY <1>6, <1>2 DEF TypeOK, Freeze
  <2> QED
    BY <1>6, <2>1, <2>2, <2>3 DEF TypeOK, Freeze, subscriberVars, boundVars
<1>7. CASE FreezeAlreadyDelivered(j)
  <2>1. [job[j] EXCEPT !.status = "Done"] \in JobRow
    BY <1>1, JobUpdate DEF JobStatus
  <2> QED
    BY <1>7, <2>1, IdleRunType
    DEF TypeOK, FreezeAlreadyDelivered, subscriberVars, historyVars, boundVars
<1>8. CASE Send(j)
  <2>1. [run[j] EXCEPT !.pc = "sent"] \in RunRecord
    BY <1>1, PhaseUpdate DEF Phase
  <2>2. sent' \in [Instants -> Nat]
    BY <1>8, <1>2 DEF TypeOK, Send
  <2> QED
    BY <1>8, <2>1, <2>2 DEF TypeOK, Send, subscriberVars, historyVars, boundVars
<1>9. CASE MarkDelivered(j)
  <2>1. nextRun' \in Int /\ nextRun' > clock
    BY <1>9, <1>1, NextRunLater, DeliveryAssumption DEF TypeOK, MarkDelivered
  <2>2. nextRun' \in Nat
    BY <2>1, InstantsInNat DEF TypeOK
  <2>3. seen' \subseteq Instants /\ passed' \subseteq Instants
    BY <1>9 DEF TypeOK, MarkDelivered, Considered
  <2>4. [run[j] EXCEPT !.pc = "marked"] \in RunRecord
    BY <1>1, PhaseUpdate DEF Phase
  <2>5. [digest[run[j].win] EXCEPT !.delivered = TRUE] \in DigestRow
    BY <1>2, DeliveredUpdate DEF TypeOK
  <2>6. digest' \in [Instants -> DigestRow]
    BY <1>9, <1>2, <2>5 DEF TypeOK, MarkDelivered
  <2> QED
    BY <1>9, <1>2, <2>2, <2>3, <2>4, <2>6 DEF TypeOK, MarkDelivered, boundVars
<1>10. CASE Acknowledge(j)
  <2>1. [job[j] EXCEPT !.status = "Done"] \in JobRow
    BY <1>1, JobUpdate DEF JobStatus
  <2> QED
    BY <1>10, <2>1, IdleRunType
    DEF TypeOK, Acknowledge, subscriberVars, historyVars, boundVars
<1> QED
  BY <1>3, <1>4, <1>5, <1>6, <1>7, <1>8, <1>9, <1>10 DEF Attempt

LEMMA FaultTypeOK ==
    ASSUME TypeOK, NEW j \in Instants, Fail(j) \/ Crash(j)
    PROVE  TypeOK'
<1>1. job[j] \in JobRow /\ run[j] \in RunRecord
  BY DEF TypeOK
<1>2. run[j].win \in Instants
  BY <1>1, RunFields
<1>3. run' \in [Instants -> RunRecord] /\ exposed' \subseteq Instants
  BY <1>2, IdleRunType DEF TypeOK, Fail, Crash, Abandon
<1>4. \A s \in JobStatus : [job[j] EXCEPT !.status = s] \in JobRow
  BY <1>1, JobUpdate
<1>5. job' \in [Instants -> JobRow]
  BY <1>4 DEF TypeOK, Fail, Crash, JobStatus
<1>6. failures' \in 0 .. MaxFailures /\ crashes' \in 0 .. MaxCrashes
  BY DeliveryAssumption DEF TypeOK, Fail, Crash
<1> QED
  BY <1>3, <1>5, <1>6 DEF TypeOK, Fail, Crash, subscriberVars

\* Every action keeps the type invariant.
LEMMA TypeOKStep == TypeOK /\ [Next]_vars => TypeOK'
<1> SUFFICES ASSUME TypeOK, [Next]_vars PROVE TypeOK'
  OBVIOUS
<1>1. CASE UNCHANGED vars
  BY <1>1 DEF TypeOK, vars
<1> QED
  BY <1>1, AdvanceTypeOK, TickTypeOK, ChangePreferencesTypeOK, AttemptTypeOK, FaultTypeOK
  DEF Next

\* The type invariant holds of every behaviour of the delivery flow.
THEOREM TypeCorrect == Spec => []TypeOK
BY InitTypeOK, TypeOKStep, PTL DEF Spec
-----------------------------------------------------------------------------
(***************************************************************************)
(* No digest is lost.  An attempt may only mark what it mailed, so the     *)
(* invariant carries the mail through the phases sent and marked.          *)
(***************************************************************************)
LEMMA MarkFollowsSendInit == Init => MarkFollowsSend
BY DEF Init, MarkFollowsSend, DeliveredWasSent, NoDigest, IdleRun

LEMMA MarkFollowsSendAttempt ==
    ASSUME TypeOK, MarkFollowsSend, NEW j \in Instants, Attempt(j) \/ Fail(j) \/ Crash(j)
    PROVE  MarkFollowsSend'
<1>1. run[j] \in RunRecord /\ run[j].win \in Instants
  BY RunFields DEF TypeOK
<1>2. CASE Load(j)
  BY <1>2 DEF TypeOK, MarkFollowsSend, DeliveredWasSent, Load
<1>3. CASE LoadNotYetDue(j)
  BY <1>3 DEF MarkFollowsSend, DeliveredWasSent, LoadNotYetDue
<1>4. CASE Select(j)
  BY <1>1, <1>4 DEF TypeOK, MarkFollowsSend, DeliveredWasSent, Select
<1>5. CASE Freeze(j)
  BY <1>1, <1>5 DEF TypeOK, MarkFollowsSend, DeliveredWasSent, Freeze, GetOrCreate
<1>6. CASE FreezeAlreadyDelivered(j) \/ Acknowledge(j) \/ Fail(j) \/ Crash(j)
  BY <1>1, <1>6 DEF TypeOK, MarkFollowsSend, DeliveredWasSent, IdleRun,
     FreezeAlreadyDelivered, Acknowledge, Fail, Crash, Abandon
<1>7. CASE Send(j)
  BY <1>1, <1>7 DEF TypeOK, MarkFollowsSend, DeliveredWasSent, Send
<1>8. CASE MarkDelivered(j)
  BY <1>1, <1>8 DEF TypeOK, MarkFollowsSend, DeliveredWasSent, MarkDelivered, ReadyToMark
<1> QED
  BY <1>2, <1>3, <1>4, <1>5, <1>6, <1>7, <1>8 DEF Attempt

LEMMA MarkFollowsSendStep == TypeOK /\ MarkFollowsSend /\ [Next]_vars => MarkFollowsSend'
<1> SUFFICES ASSUME TypeOK, MarkFollowsSend, [Next]_vars PROVE MarkFollowsSend'
  OBVIOUS
<1>1. ASSUME UNCHANGED <<run, digest, sent>> PROVE MarkFollowsSend'
  BY <1>1 DEF MarkFollowsSend, DeliveredWasSent
<1>2. ASSUME Advance \/ Tick \/ (\E s \in Schedules : ChangePreferences(s)) \/ UNCHANGED vars
      PROVE UNCHANGED <<run, digest, sent>>
  BY <1>2 DEF Advance, Tick, ChangePreferences, vars
<1> QED
  BY <1>1, <1>2, MarkFollowsSendAttempt DEF Next

\* A window is only recorded delivered after its mail went out.
THEOREM DeliveredWasSentCorrect == Spec => []DeliveredWasSent
<1>1. MarkFollowsSend => DeliveredWasSent
  BY DEF MarkFollowsSend
<1> QED
  BY <1>1, TypeCorrect, MarkFollowsSendInit, MarkFollowsSendStep, PTL DEF Spec

-----------------------------------------------------------------------------
(***************************************************************************)
(* Delivered implies the schedule moved.  Every reschedule is anchored on  *)
(* now or later, and only windows that were due are ever served.           *)
(***************************************************************************)
LEMMA ServedIsPastInit == Init => ServedIsPast
BY DEF Init, ServedIsPast, DeliveredNeverDueAgain, NoDigest, IdleRun

LEMMA ServedIsPastAttempt ==
    ASSUME TypeOK, ServedIsPast, NEW j \in Instants, Attempt(j) \/ Fail(j) \/ Crash(j)
    PROVE  ServedIsPast'
<1>1. run[j] \in RunRecord /\ run[j].win \in Instants
  BY RunFields DEF TypeOK
<1>2. CASE Load(j)
  BY <1>2 DEF TypeOK, ServedIsPast, DeliveredNeverDueAgain, Load, subscriberVars
<1>3. CASE LoadNotYetDue(j)
  BY <1>3 DEF ServedIsPast, DeliveredNeverDueAgain, LoadNotYetDue, subscriberVars
<1>4. CASE Select(j)
  BY <1>1, <1>4 DEF TypeOK, ServedIsPast, DeliveredNeverDueAgain, Select, subscriberVars
<1>5. CASE Freeze(j)
  BY <1>1, <1>5
  DEF TypeOK, ServedIsPast, DeliveredNeverDueAgain, Freeze, GetOrCreate, subscriberVars
<1>6. CASE FreezeAlreadyDelivered(j) \/ Acknowledge(j) \/ Fail(j) \/ Crash(j)
  BY <1>1, <1>6 DEF TypeOK, ServedIsPast, DeliveredNeverDueAgain, IdleRun, subscriberVars,
     FreezeAlreadyDelivered, Acknowledge, Fail, Crash, Abandon
<1>7. CASE Send(j)
  BY <1>1, <1>7 DEF TypeOK, ServedIsPast, DeliveredNeverDueAgain, Send, subscriberVars
<1>8. CASE MarkDelivered(j)
  <2>1. nextRun' > clock /\ nextRun' \in Int /\ clock \in Int
    BY <1>8, NextRunLater, InstantsInNat, DeliveryAssumption DEF TypeOK, MarkDelivered
  <2>2. run[j].win <= clock
    BY <1>8 DEF ServedIsPast, MarkDelivered, ReadyToMark
  <2>3. \A w \in Instants : digest'[w].delivered => digest[w].delivered \/ w = run[j].win
    BY <1>1, <1>8 DEF TypeOK, MarkDelivered
  <2>4. \A w \in Instants : digest'[w].delivered => w <= clock
    BY <2>2, <2>3 DEF ServedIsPast
  <2>5. \A w \in Instants : digest'[w].delivered => w < nextRun'
    BY <2>1, <2>4, InstantsInNat
  <2>6. \A i \in Instants : run'[i].pc # "idle" => run'[i].win <= clock
    BY <1>1, <1>8, <2>2 DEF TypeOK, ServedIsPast, MarkDelivered
  <2> QED
    BY <1>8, <2>4, <2>5, <2>6 DEF ServedIsPast, DeliveredNeverDueAgain, MarkDelivered
<1> QED
  BY <1>2, <1>3, <1>4, <1>5, <1>6, <1>7, <1>8 DEF Attempt

LEMMA ServedIsPastStep == TypeOK /\ ServedIsPast /\ [Next]_vars => ServedIsPast'
<1> SUFFICES ASSUME TypeOK, ServedIsPast, [Next]_vars PROVE ServedIsPast'
  OBVIOUS
<1>1. clock \in Nat /\ Instants \subseteq Nat
  BY InstantsInNat DEF TypeOK
<1>2. CASE Advance
  <2>1. \A n \in Nat : n <= clock => n <= clock'
    BY <1>1, <1>2 DEF Advance
  <2>2. \A j \in Instants : run[j].win \in Nat
    BY <1>1, RunFields DEF TypeOK
  <2> QED
    BY <1>1, <1>2, <2>1, <2>2 DEF ServedIsPast, DeliveredNeverDueAgain, Advance, subscriberVars
<1>3. ASSUME NEW s \in Schedules, ChangePreferences(s) PROVE ServedIsPast'
  <2>1. s \in Recurrence /\ Later(clock, lastRun) \in Int /\ Later(clock, lastRun) >= clock
    BY <1>1, DeliveryAssumption DEF TypeOK, Later, Instants, NoRun
  <2>2. nextRun' > clock /\ nextRun' \in Int
    BY <1>1, <1>3, <2>1, NextRunLater DEF ChangePreferences
  <2>3. \A w \in Instants : w <= clock => w < nextRun'
    BY <1>1, <2>2
  <2> QED
    BY <1>3, <2>3 DEF ServedIsPast, DeliveredNeverDueAgain, ChangePreferences
<1>4. CASE Tick \/ UNCHANGED vars
  BY <1>4 DEF ServedIsPast, DeliveredNeverDueAgain, Tick, vars, subscriberVars
<1> QED
  BY <1>2, <1>3, <1>4, ServedIsPastAttempt DEF Next

\* A delivered window is behind the schedule for good.
THEOREM DeliveredNeverDueAgainCorrect == Spec => []DeliveredNeverDueAgain
<1>1. ServedIsPast => DeliveredNeverDueAgain
  BY DEF ServedIsPast
<1> QED
  BY <1>1, TypeCorrect, ServedIsPastInit, ServedIsPastStep, PTL DEF Spec
-----------------------------------------------------------------------------
(***************************************************************************)
(* One mail per unexposed window.  The delivered check and the single      *)
(* committed attempt together fix the number of mails at every phase.      *)
(***************************************************************************)
LEMMA SendInvInit == Init => SendInv
BY DEF Init, SendInv, AttemptOwnsJob, OneCommitted, CommittedUndelivered, MailsByPhase,
   SentOnceUnlessExposed, Committed, NoDigest, IdleRun

\* An attempt moves between phases that are not past the delivered check, or
\* leaves them, and sends and marks nothing.
LEMMA QuietAttempt ==
    ASSUME TypeOK, SendInv, NEW j \in Instants,
           UNCHANGED <<digest, sent>>,
           NEW r \in RunRecord, run' = [run EXCEPT ![j] = r],
           r.pc \notin {"frozen", "sent"},
           exposed \subseteq exposed',
           run[j].pc = "sent" => run[j].win \in exposed'
    PROVE  OneCommitted' /\ CommittedUndelivered' /\ MailsByPhase' /\ SentOnceUnlessExposed'
<1>1. run'[j].pc = r.pc /\ \A i \in Instants \ {j} : run'[i] = run[i]
  BY DEF TypeOK
<1>2. \A i \in Instants : Committed(run'[i]) => i # j /\ Committed(run[i]) /\ run'[i] = run[i]
  BY <1>1 DEF Committed
<1>3. OneCommitted'
  BY <1>2 DEF SendInv, OneCommitted
<1>4. CommittedUndelivered'
  BY <1>2 DEF SendInv, CommittedUndelivered
<1>5. ASSUME NEW w \in Instants \ exposed',
             \A i \in Instants : run'[i].pc = "sent" => run'[i].win # w
      PROVE  \A i \in Instants : run[i].pc = "sent" => run[i].win # w
  BY <1>1, <1>5
<1>6. MailsByPhase'
  <2>1. SUFFICES ASSUME NEW w \in Instants \ exposed'
        PROVE  /\ \A i \in Instants : run'[i].pc = "frozen" /\ run'[i].win = w => sent'[w] = 0
               /\ \A i \in Instants : run'[i].pc = "sent" /\ run'[i].win = w => sent'[w] = 1
               /\ ~ digest'[w].delivered
                    /\ (\A i \in Instants : run'[i].pc = "sent" => run'[i].win # w)
                  => sent'[w] = 0
    BY DEF MailsByPhase
  <2>2. w \in Instants \ exposed
    OBVIOUS
  <2> QED
    BY <1>1, <1>2, <1>5, <2>2 DEF SendInv, MailsByPhase, Committed
<1>7. SentOnceUnlessExposed'
  BY DEF SendInv, SentOnceUnlessExposed
<1> QED
  BY <1>3, <1>4, <1>6, <1>7

LEMMA FreezeSendInv ==
    ASSUME TypeOK, SendInv, NEW j \in Instants, Freeze(j)
    PROVE  OneCommitted' /\ CommittedUndelivered' /\ MailsByPhase' /\ SentOnceUnlessExposed'
<1> DEFINE w == run[j].win
<1>1. w \in Instants /\ run[j] \in RunRecord
  BY RunFields DEF TypeOK
<1>2. /\ run'[j].pc = "frozen" /\ run'[j].win = w
      /\ \A i \in Instants \ {j} : run'[i] = run[i]
  BY <1>1 DEF TypeOK, Freeze, RunRecord
<1>3. exposed \subseteq exposed' /\ sent' = sent /\ run[j].pc = "selected"
  BY DEF Freeze
<1>4. \A v \in Instants : digest'[v].delivered <=> digest[v].delivered
  BY <1>1 DEF TypeOK, Freeze, GetOrCreate, AlreadyDelivered
<1>5. ~ digest[w].delivered
  BY DEF Freeze, AlreadyDelivered
<1>6. w \notin exposed' => \A i \in Instants \ {j} : ~ (Committed(run[i]) /\ run[i].win = w)
  BY DEF Freeze
<1>7. OneCommitted'
  BY <1>2, <1>3, <1>6 DEF SendInv, OneCommitted, Committed
<1>8. CommittedUndelivered'
  <2>1. ASSUME NEW i \in Instants, Committed(run'[i]), run'[i].win \notin exposed'
        PROVE  ~ digest'[run'[i].win].delivered
    <3>1. CASE i = j
      BY <1>1, <1>2, <1>4, <1>5, <3>1
    <3>2. CASE i # j
      <4>1. run'[i] = run[i] /\ run[i].win \in Instants
        BY <1>2, <3>2, RunFields DEF TypeOK
      <4> QED
        BY <1>3, <1>4, <2>1, <4>1 DEF SendInv, CommittedUndelivered
    <3> QED
      BY <3>1, <3>2
  <2> QED
    BY <2>1 DEF CommittedUndelivered
<1>9. w \notin exposed' => sent[w] = 0
  <2>1. w \notin exposed' => \A i \in Instants : run[i].pc = "sent" => run[i].win # w
    BY <1>3, <1>6 DEF Committed
  <2> QED
    BY <1>1, <1>3, <1>5, <2>1 DEF SendInv, MailsByPhase
<1>10. MailsByPhase'
  <2>1. SUFFICES ASSUME NEW v \in Instants \ exposed'
        PROVE  /\ \A i \in Instants : run'[i].pc = "frozen" /\ run'[i].win = v => sent'[v] = 0
               /\ \A i \in Instants : run'[i].pc = "sent" /\ run'[i].win = v => sent'[v] = 1
               /\ ~ digest'[v].delivered
                    /\ (\A i \in Instants : run'[i].pc = "sent" => run'[i].win # v)
                  => sent'[v] = 0
    BY DEF MailsByPhase
  <2>2. v \in Instants \ exposed
    BY <1>3
  <2>3. \A i \in Instants : run'[i].pc = "frozen" /\ run'[i].win = v => sent'[v] = 0
    BY <1>2, <1>3, <1>9, <2>2 DEF SendInv, MailsByPhase
  <2>4. \A i \in Instants : run'[i].pc = "sent" /\ run'[i].win = v => sent'[v] = 1
    BY <1>2, <1>3, <2>2 DEF SendInv, MailsByPhase
  <2>5. ASSUME ~ digest'[v].delivered,
               \A i \in Instants : run'[i].pc = "sent" => run'[i].win # v
        PROVE  sent'[v] = 0
    <3>1. \A i \in Instants : run[i].pc = "sent" => run[i].win # v
      BY <1>2, <1>3, <2>5
    <3> QED
      BY <1>3, <1>4, <2>2, <2>5, <3>1 DEF SendInv, MailsByPhase
  <2> QED
    BY <2>3, <2>4, <2>5
<1>11. SentOnceUnlessExposed'
  BY <1>3 DEF SendInv, SentOnceUnlessExposed
<1> QED
  BY <1>7, <1>8, <1>10, <1>11

LEMMA SendSendInv ==
    ASSUME TypeOK, SendInv, NEW j \in Instants, Send(j)
    PROVE  OneCommitted' /\ CommittedUndelivered' /\ MailsByPhase' /\ SentOnceUnlessExposed'
<1> DEFINE w == run[j].win
<1>1. w \in Instants /\ run[j] \in RunRecord
  BY RunFields DEF TypeOK
<1>2. /\ run'[j].pc = "sent" /\ run'[j].win = w
      /\ \A i \in Instants \ {j} : run'[i] = run[i]
  BY <1>1 DEF TypeOK, Send, RunRecord
<1>3. exposed' = exposed /\ digest' = digest /\ run[j].pc = "frozen"
  BY DEF Send, historyVars
<1>4. w \notin exposed => sent[w] = 0
  BY <1>1, <1>3 DEF SendInv, MailsByPhase
<1>5. /\ sent'[w] = sent[w] + 1
      /\ \A v \in Instants \ {w} : sent'[v] = sent[v]
  BY <1>1 DEF TypeOK, Send
<1>6. \A i \in Instants : Committed(run'[i]) <=> Committed(run[i])
  BY <1>2, <1>3 DEF Committed
<1>7. OneCommitted'
  BY <1>2, <1>3, <1>6 DEF SendInv, OneCommitted
<1>8. CommittedUndelivered'
  BY <1>2, <1>3, <1>6 DEF SendInv, CommittedUndelivered
<1>9. w \notin exposed => \A i \in Instants \ {j} : ~ (Committed(run[i]) /\ run[i].win = w)
  BY <1>1, <1>3 DEF SendInv, OneCommitted, Committed
<1>10. MailsByPhase'
  <2>1. SUFFICES ASSUME NEW v \in Instants \ exposed'
        PROVE  /\ \A i \in Instants : run'[i].pc = "frozen" /\ run'[i].win = v => sent'[v] = 0
               /\ \A i \in Instants : run'[i].pc = "sent" /\ run'[i].win = v => sent'[v] = 1
               /\ ~ digest'[v].delivered
                    /\ (\A i \in Instants : run'[i].pc = "sent" => run'[i].win # v)
                  => sent'[v] = 0
    BY DEF MailsByPhase
  <2>2. CASE v = w
    BY <1>2, <1>3, <1>4, <1>5, <1>9, <2>2 DEF Committed
  <2>3. CASE v # w
    <3>1. sent'[v] = sent[v] /\ v \in Instants \ exposed
      BY <1>3, <1>5, <2>3
    <3>2. \A i \in Instants : run'[i].win = v => i # j /\ run'[i] = run[i]
      BY <1>2, <2>3
    <3>3. (\A i \in Instants : run'[i].pc = "sent" => run'[i].win # v)
          => (\A i \in Instants : run[i].pc = "sent" => run[i].win # v)
      BY <1>2, <1>3
    <3> QED
      BY <1>3, <3>1, <3>2, <3>3 DEF SendInv, MailsByPhase
  <2> QED
    BY <2>2, <2>3
<1>11. SentOnceUnlessExposed'
  BY <1>1, <1>3, <1>4, <1>5 DEF SendInv, SentOnceUnlessExposed, TypeOK
<1> QED
  BY <1>7, <1>8, <1>10, <1>11

LEMMA MarkSendInv ==
    ASSUME TypeOK, SendInv, NEW j \in Instants, MarkDelivered(j)
    PROVE  OneCommitted' /\ CommittedUndelivered' /\ MailsByPhase' /\ SentOnceUnlessExposed'
<1> DEFINE w == run[j].win
<1>1. w \in Instants /\ run[j] \in RunRecord
  BY RunFields DEF TypeOK
<1>2. /\ run'[j].pc = "marked"
      /\ \A i \in Instants \ {j} : run'[i] = run[i]
  BY <1>1 DEF TypeOK, MarkDelivered
<1>3. exposed' = exposed /\ sent' = sent /\ run[j].pc = "sent"
  BY DEF MarkDelivered, ReadyToMark
<1>4. \A i \in Instants : Committed(run'[i]) => i # j /\ Committed(run[i]) /\ run'[i] = run[i]
  BY <1>2 DEF Committed
<1>5. /\ digest'[w].delivered
      /\ \A v \in Instants \ {w} : digest'[v] = digest[v]
  BY <1>1 DEF TypeOK, MarkDelivered, DigestRow
<1>6. w \notin exposed => \A i \in Instants \ {j} : ~ (Committed(run[i]) /\ run[i].win = w)
  BY <1>1, <1>3 DEF SendInv, OneCommitted, Committed
<1>7. OneCommitted'
  BY <1>3, <1>4 DEF SendInv, OneCommitted
<1>8. CommittedUndelivered'
  <2>1. ASSUME NEW i \in Instants, Committed(run'[i]), run'[i].win \notin exposed'
        PROVE  ~ digest'[run'[i].win].delivered
    <3>1. i # j /\ Committed(run[i]) /\ run'[i] = run[i] /\ run[i].win # w
      BY <1>3, <1>4, <1>6, <2>1
    <3>2. run[i].win \in Instants
      BY RunFields DEF TypeOK
    <3> QED
      BY <1>3, <1>5, <2>1, <3>1, <3>2 DEF SendInv, CommittedUndelivered
  <2> QED
    BY <2>1 DEF CommittedUndelivered
<1>9. MailsByPhase'
  <2>1. SUFFICES ASSUME NEW v \in Instants \ exposed'
        PROVE  /\ \A i \in Instants : run'[i].pc = "frozen" /\ run'[i].win = v => sent'[v] = 0
               /\ \A i \in Instants : run'[i].pc = "sent" /\ run'[i].win = v => sent'[v] = 1
               /\ ~ digest'[v].delivered
                    /\ (\A i \in Instants : run'[i].pc = "sent" => run'[i].win # v)
                  => sent'[v] = 0
    BY DEF MailsByPhase
  <2>2. v \in Instants \ exposed
    BY <1>3
  <2>3. \A i \in Instants : Committed(run'[i]) => run[i].pc = run'[i].pc /\ run[i].win = run'[i].win
    BY <1>4
  <2>4. ASSUME ~ digest'[v].delivered,
               \A i \in Instants : run'[i].pc = "sent" => run'[i].win # v
        PROVE  sent'[v] = 0
    <3>1. v # w /\ ~ digest[v].delivered
      BY <1>5, <2>4
    <3>2. \A i \in Instants : run[i].pc = "sent" => run[i].win # v
      BY <1>2, <2>4, <3>1
    <3> QED
      BY <1>3, <2>2, <3>1, <3>2 DEF SendInv, MailsByPhase
  <2> QED
    BY <1>3, <2>2, <2>3, <2>4 DEF SendInv, MailsByPhase, Committed
<1>10. SentOnceUnlessExposed'
  BY <1>3 DEF SendInv, SentOnceUnlessExposed
<1> QED
  BY <1>7, <1>8, <1>9, <1>10

\* Every step of an attempt keeps the job that owns it running.
LEMMA AttemptOwnsJobStep ==
    ASSUME TypeOK, AttemptOwnsJob, NEW j \in Instants, Attempt(j) \/ Fail(j) \/ Crash(j)
    PROVE  AttemptOwnsJob'
<1>1. CASE Load(j) \/ LoadNotYetDue(j)
  BY <1>1 DEF TypeOK, JobRow, AttemptOwnsJob, Load, LoadNotYetDue, Runnable
<1>2. CASE Select(j) \/ Freeze(j) \/ Send(j) \/ MarkDelivered(j)
  BY <1>2 DEF TypeOK, RunRecord, AttemptOwnsJob, Select, Freeze, Send, MarkDelivered, ReadyToMark
<1>3. CASE FreezeAlreadyDelivered(j) \/ Acknowledge(j) \/ Fail(j) \/ Crash(j)
  BY <1>3 DEF TypeOK, AttemptOwnsJob, IdleRun,
     FreezeAlreadyDelivered, Acknowledge, Fail, Crash, Abandon
<1> QED
  BY <1>1, <1>2, <1>3 DEF Attempt

LEMMA SendInvAttempt ==
    ASSUME TypeOK, SendInv, NEW j \in Instants, Attempt(j) \/ Fail(j) \/ Crash(j)
    PROVE  SendInv'
<1>1. run[j] \in RunRecord /\ run[j].win \in Instants
  BY RunFields DEF TypeOK
<1>2. TypeOK'
  BY AttemptTypeOK, FaultTypeOK
<1>3. AttemptOwnsJob'
  BY AttemptOwnsJobStep DEF SendInv
<1>4. run'[j] \in RunRecord
  BY <1>2 DEF TypeOK
<1>5. CASE Load(j) \/ LoadNotYetDue(j) \/ Select(j) \/ FreezeAlreadyDelivered(j) \/ Acknowledge(j)
           \/ Fail(j) \/ Crash(j)
  <2>1. UNCHANGED <<digest, sent>> /\ exposed \subseteq exposed'
    BY <1>5 DEF Load, LoadNotYetDue, Select, FreezeAlreadyDelivered, Acknowledge, Fail, Crash,
       Abandon, historyVars
  <2>2. run' = [run EXCEPT ![j] = run'[j]]
    BY <1>5 DEF TypeOK, Load, LoadNotYetDue, Select, FreezeAlreadyDelivered, Acknowledge, Fail, Crash,
       Abandon
  <2>3. run'[j].pc \notin {"frozen", "sent"}
    BY <1>1, <1>5 DEF TypeOK, SendInv, AttemptOwnsJob, RunRecord, IdleRun, Load, LoadNotYetDue, Runnable,
       Select, FreezeAlreadyDelivered, Acknowledge, Fail, Crash, Abandon
  <2>4. run[j].pc = "sent" => run[j].win \in exposed'
    BY <1>5 DEF SendInv, AttemptOwnsJob, Load, LoadNotYetDue, Runnable,
       Select, FreezeAlreadyDelivered, Acknowledge, Fail, Crash, Abandon
  <2> QED
    BY <1>3, <1>4, <2>1, <2>2, <2>3, <2>4, QuietAttempt DEF SendInv
<1> QED
  BY <1>3, <1>5, FreezeSendInv, SendSendInv, MarkSendInv DEF Attempt, SendInv

LEMMA SendInvStep == TypeOK /\ SendInv /\ [Next]_vars => SendInv'
<1> SUFFICES ASSUME TypeOK, SendInv, [Next]_vars PROVE SendInv'
  OBVIOUS
<1>1. ASSUME UNCHANGED <<run, digest, sent, exposed>>
      PROVE  OneCommitted' /\ CommittedUndelivered' /\ MailsByPhase' /\ SentOnceUnlessExposed'
  BY <1>1 DEF SendInv, OneCommitted, CommittedUndelivered, MailsByPhase, SentOnceUnlessExposed
<1>2. ASSUME Advance \/ Tick \/ (\E s \in Schedules : ChangePreferences(s)) \/ UNCHANGED vars
      PROVE  UNCHANGED <<run, digest, sent, exposed>> /\ AttemptOwnsJob'
  <2>1. UNCHANGED <<run, digest, sent, exposed>>
    BY <1>2 DEF Advance, Tick, ChangePreferences, vars, historyVars
  <2>2. CASE Tick
    BY <2>1, <2>2 DEF TypeOK, JobRow, SendInv, AttemptOwnsJob, Tick
  <2>3. CASE UNCHANGED job
    BY <2>1, <2>3 DEF SendInv, AttemptOwnsJob
  <2> QED
    BY <1>2, <2>1, <2>2, <2>3 DEF Advance, ChangePreferences, vars
<1> QED
  BY <1>1, <1>2, SendInvAttempt DEF Next, SendInv

\* A window is mailed at most once, whatever the interleaving, the retries and
\* the preference changes, unless an attempt was lost between its mail and its
\* mark or two attempts of the window were past the delivered check together.
THEOREM SentOnceUnlessExposedCorrect == Spec => []SentOnceUnlessExposed
<1>1. SendInv => SentOnceUnlessExposed
  BY DEF SendInv
<1> QED
  BY <1>1, TypeCorrect, SendInvInit, SendInvStep, PTL DEF Spec
-----------------------------------------------------------------------------
(***************************************************************************)
(* The delivery implements the promise: an attempt past the delivered      *)
(* check holds its window, and what the schedule moves to is beyond every  *)
(* window that is recorded, as the invariant ServedIsPast says.            *)
(***************************************************************************)
LEMMA HeldUpdate ==
    ASSUME TypeOK, NEW j \in Instants, NEW r, run' = [run EXCEPT ![j] = r]
    PROVE  Holds' = [Holds EXCEPT ![j] = Held(r)]
BY DEF TypeOK, Holds

LEMMA HeldSame ==
    ASSUME TypeOK, NEW j \in Instants, NEW r, run' = [run EXCEPT ![j] = r], Held(r) = Held(run[j])
    PROVE  Holds' = Holds
BY DEF TypeOK, Holds

LEMMA PromiseInit == Init => Promise!Init
<1> SUFFICES ASSUME Init PROVE Promise!Init
  OBVIOUS
<1>1. nextRun \in Nat
  BY InitTypeOK DEF TypeOK
<1>2. Holds = [j \in Instants |-> Promise!Nothing]
  BY DEF Init, Holds, Held, Committed, IdleRun, Promise!Nothing
<1>3. Recorded = {}
  BY DEF Init, Recorded, NoDigest
<1> QED
  BY <1>1, <1>2, <1>3 DEF Init, Promise!Init

\* Steps of an attempt that neither take, mail nor record anything.
LEMMA QuietPromise ==
    ASSUME TypeOK, NEW j \in Instants, Load(j) \/ LoadNotYetDue(j) \/ Select(j)
                       \/ FreezeAlreadyDelivered(j) \/ Acknowledge(j), AttemptOwnsJob
    PROVE  UNCHANGED Promise!vars
<1>1. UNCHANGED <<nextRun, sent, exposed, digest>>
  BY DEF Load, LoadNotYetDue, Select, FreezeAlreadyDelivered, Acknowledge, subscriberVars, historyVars
<1>2. Recorded' = Recorded
  BY <1>1 DEF Recorded
<1>3. Holds' = Holds
  <2>1. CASE Load(j)
    <3>1. ~ Committed(run[j])
      BY <2>1 DEF TypeOK, JobRow, AttemptOwnsJob, Load, Runnable, Committed
    <3> QED
      BY <2>1, <3>1, HeldSame DEF Load, Held, Committed
  <2>2. CASE LoadNotYetDue(j)
    BY <2>2 DEF LoadNotYetDue, Holds
  <2>3. CASE Select(j)
    <3>1. [run[j] EXCEPT !.pc = "selected", !.read = clock,
                         !.floor = DisplayFloor(run[j].window, run[j].last, clock)].pc = "selected"
      BY DEF TypeOK, RunRecord
    <3>2. run' = [run EXCEPT ![j] = [run[j] EXCEPT !.pc = "selected", !.read = clock,
                         !.floor = DisplayFloor(run[j].window, run[j].last, clock)]]
      BY <2>3 DEF Select, TypeOK
    <3> QED
      BY <2>3, <3>1, <3>2, HeldSame DEF Select, Held, Committed
  <2>4. CASE FreezeAlreadyDelivered(j) \/ Acknowledge(j)
    BY <2>4, HeldSame DEF FreezeAlreadyDelivered, Acknowledge, Held, Committed, IdleRun
  <2> QED
    BY <2>1, <2>2, <2>3, <2>4
<1> QED
  BY <1>1, <1>2, <1>3 DEF Promise!vars

LEMMA FreezeTakes ==
    ASSUME TypeOK, NEW j \in Instants, Freeze(j)
    PROVE  Promise!Take(j, run[j].win)
<1> DEFINE w == run[j].win
<1>1. w \in Instants /\ run[j] \in RunRecord
  BY RunFields DEF TypeOK
<1>2. ~ Holds[j].busy
  BY DEF Freeze, Holds, Held, Committed
<1>3. w \notin Recorded
  BY DEF Freeze, AlreadyDelivered, Recorded
<1>4. Holds' = [Holds EXCEPT ![j] = Promise!Holding(w, FALSE)]
  <2>1. run' = [run EXCEPT ![j] = [run[j] EXCEPT !.pc = "frozen"]]
    BY DEF Freeze, TypeOK
  <2>2. /\ [run[j] EXCEPT !.pc = "frozen"].pc = "frozen"
        /\ [run[j] EXCEPT !.pc = "frozen"].win = w
    BY <1>1 DEF RunRecord
  <2>3. Held([run[j] EXCEPT !.pc = "frozen"]) = Promise!Holding(w, FALSE)
    BY <2>2 DEF Held, Committed, Promise!Holding
  <2> QED
    BY <2>1, <2>3, HeldUpdate
<1>5. exposed' = IF \E g \in Instants : Promise!HeldBy(g, w) THEN exposed \cup {w} ELSE exposed
  <2>1. \A g \in Instants : Promise!HeldBy(g, w) <=> Committed(run[g]) /\ run[g].win = w
    BY DEF Promise!HeldBy, Holds, Held
  <2>2. ~ Committed(run[j])
    BY DEF Freeze, Committed
  <2>3. (\E g \in Instants : Promise!HeldBy(g, w))
        <=> \E i \in Instants \ {j} : Committed(run[i]) /\ run[i].win = w
    BY <2>1, <2>2
  <2> QED
    BY <2>3 DEF Freeze
<1>6. UNCHANGED <<nextRun, sent, Recorded>>
  <2>1. \A v \in Instants : digest'[v].delivered <=> digest[v].delivered
    BY <1>1 DEF TypeOK, Freeze, GetOrCreate, AlreadyDelivered
  <2> QED
    BY <2>1 DEF Recorded, Freeze, subscriberVars
<1> QED
  BY <1>2, <1>3, <1>4, <1>5, <1>6 DEF Promise!Take

LEMMA SendMails ==
    ASSUME TypeOK, NEW j \in Instants, Send(j)
    PROVE  Promise!Mail(j, run[j].win)
<1> DEFINE w == run[j].win
<1>1. w \in Instants /\ run[j] \in RunRecord
  BY RunFields DEF TypeOK
<1>2. Holds[j] = Promise!Holding(w, FALSE)
  BY DEF Send, Holds, Held, Committed, Promise!Holding
<1>3. Holds' = [Holds EXCEPT ![j] = Promise!Holding(w, TRUE)]
  <2>1. run' = [run EXCEPT ![j] = [run[j] EXCEPT !.pc = "sent"]]
    BY DEF Send, TypeOK
  <2>2. /\ [run[j] EXCEPT !.pc = "sent"].pc = "sent"
        /\ [run[j] EXCEPT !.pc = "sent"].win = w
    BY <1>1 DEF RunRecord
  <2>3. Held([run[j] EXCEPT !.pc = "sent"]) = Promise!Holding(w, TRUE)
    BY <2>2 DEF Held, Committed, Promise!Holding
  <2> QED
    BY <2>1, <2>3, HeldUpdate
<1>4. UNCHANGED <<nextRun, Recorded, exposed>>
  BY DEF Send, Recorded, subscriberVars, historyVars
<1> QED
  BY <1>2, <1>3, <1>4 DEF Promise!Mail, Send

LEMMA MarkRecords ==
    ASSUME TypeOK, ServedIsPast, ServedIsPast', TypeOK', NEW j \in Instants, MarkDelivered(j)
    PROVE  Promise!Record(j, run[j].win)
<1> DEFINE w == run[j].win
<1>1. w \in Instants /\ run[j] \in RunRecord
  BY RunFields DEF TypeOK
<1>2. Holds[j] = Promise!Holding(w, TRUE)
  BY DEF MarkDelivered, ReadyToMark, Holds, Held, Committed, Promise!Holding
<1>3. Holds' = [Holds EXCEPT ![j] = Promise!Nothing]
  <2>1. run' = [run EXCEPT ![j] = [run[j] EXCEPT !.pc = "marked"]]
    BY DEF MarkDelivered, TypeOK
  <2>2. [run[j] EXCEPT !.pc = "marked"].pc = "marked"
    BY <1>1 DEF RunRecord
  <2>3. Held([run[j] EXCEPT !.pc = "marked"]) = Promise!Nothing
    BY <2>2 DEF Held, Committed, Promise!Nothing
  <2> QED
    BY <2>1, <2>3, HeldUpdate
<1>4. Recorded' = Recorded \cup {w}
  BY <1>1 DEF Recorded, MarkDelivered, TypeOK, DigestRow
<1>5. Promise!Beyond(nextRun')
  BY DEF Promise!Beyond, ServedIsPast, DeliveredNeverDueAgain, TypeOK, Recorded
<1>6. UNCHANGED <<sent, exposed>>
  BY DEF MarkDelivered
<1> QED
  BY <1>2, <1>3, <1>4, <1>5, <1>6 DEF Promise!Record

\* An attempt that ends early lets its window go, if it had taken one.
LEMMA FaultLetsGo ==
    ASSUME TypeOK, NEW j \in Instants, Fail(j) \/ Crash(j)
    PROVE  Promise!LetGo(j, run[j].win) \/ UNCHANGED Promise!vars
<1> DEFINE w == run[j].win
<1>1. UNCHANGED <<nextRun, sent, Recorded>> /\ Abandon(j)
  BY DEF Fail, Crash, Recorded, subscriberVars
<1>2. Holds' = [Holds EXCEPT ![j] = Promise!Nothing]
  <2>1. Held(IdleRun) = Promise!Nothing
    BY DEF Held, Committed, IdleRun, Promise!Nothing
  <2> QED
    BY <1>1, <2>1, HeldUpdate DEF Abandon
<1>3. CASE Committed(run[j])
  <2>1. Promise!HeldBy(j, w) /\ (Holds[j].mailed <=> run[j].pc = "sent")
    BY <1>3 DEF Promise!HeldBy, Holds, Held
  <2> QED
    BY <1>1, <1>2, <2>1 DEF Promise!LetGo, Abandon
<1>4. CASE ~ Committed(run[j])
  <2>1. Holds[j] = Promise!Nothing /\ Holds = [i \in Instants |-> Holds[i]]
    BY <1>4 DEF Holds, Held, Promise!Nothing
  <2>2. Holds' = Holds
    BY <1>2, <2>1
  <2>3. exposed' = exposed
    BY <1>1, <1>4 DEF Abandon, Committed
  <2> QED
    BY <1>1, <2>2, <2>3 DEF Promise!vars
<1> QED
  BY <1>3, <1>4

LEMMA PromiseStep ==
    TypeOK /\ TypeOK' /\ SendInv /\ ServedIsPast /\ ServedIsPast' /\ [Next]_vars => [Promise!Next]_(Promise!vars)
<1> SUFFICES ASSUME TypeOK, TypeOK', SendInv, ServedIsPast, ServedIsPast', [Next]_vars
             PROVE  Promise!Next \/ UNCHANGED Promise!vars
  OBVIOUS
<1>1. \A j \in Instants : run[j].win \in Instants
  BY RunFields DEF TypeOK
<1>2. ASSUME NEW j \in Instants, Attempt(j) \/ Fail(j) \/ Crash(j)
      PROVE  Promise!Next \/ UNCHANGED Promise!vars
  <2>1. AttemptOwnsJob
    BY DEF SendInv
  <2> QED
    BY <1>1, <1>2, <2>1, QuietPromise, FreezeTakes, SendMails, MarkRecords, FaultLetsGo
    DEF Attempt, Promise!Next
<1>3. ASSUME NEW s \in Schedules, ChangePreferences(s)
      PROVE  Promise!Next
  <2>1. UNCHANGED <<Holds, sent, Recorded, exposed>>
    BY <1>3 DEF ChangePreferences, Holds, Recorded, historyVars
  <2>2. Promise!Beyond(nextRun')
    BY DEF Promise!Beyond, ServedIsPast, DeliveredNeverDueAgain, TypeOK, Recorded
  <2> QED
    BY <2>1, <2>2 DEF Promise!Next, Promise!Reschedule
<1>4. CASE Advance \/ Tick \/ UNCHANGED vars
  BY <1>4 DEF Advance, Tick, vars, subscriberVars, historyVars, Promise!vars, Holds, Recorded
<1> QED
  BY <1>2, <1>3, <1>4 DEF Next

\* Every behaviour of the delivery flow is one of the promise: whatever the
\* queue, the retries, the crashes and the preference changes do.
THEOREM KeepsPromiseCorrect == Spec => KeepsPromise
<1> QED
  BY TypeCorrect, SendInvInit, SendInvStep, ServedIsPastInit, ServedIsPastStep, InitTypeOK, TypeOKStep,
     PromiseInit, PromiseStep, PTL DEF Spec, KeepsPromise, Promise!Spec

-----------------------------------------------------------------------------
(***************************************************************************)
(* Consideration.  Every instant behind last_run_at is accounted for: a    *)
(* delivered digest considered it, a mark passed over it, or it is older   *)
(* than a digest that knew of no delivery reaches.  A floor is never       *)
(* later than the last_run_at its attempt loaded, so what a digest leaves  *)
(* behind its floor was accounted for before.                              *)
(***************************************************************************)
Forfeited(e) == \E w \in Recorded : digest[w].first /\ e < digest[w].floor
Accounted(e) == e \in seen \cup passed \/ Forfeited(e)
Behind(t) == \A e \in Instants : e < t => Accounted(e)

\* The interval of a selection reaches back at least the window of a cadence.
Windowed(floor, read) == \E s \in Schedules : floor <= read - DisplayWindow(s)

RunInv(r) ==
    /\ r.pc # "idle" => Behind(r.last)
    /\ r.pc = "loaded" => \E s \in Schedules : r.window = DisplayWindow(s)
    /\ r.pc = "selected" => Windowed(r.floor, r.read) /\ (r.last = NoRun \/ r.floor <= r.last)
    /\ Committed(r) => digest[r.win].exists

RowInv(d) ==
    /\ d.exists => Windowed(d.floor, d.read) /\ (d.first \/ Behind(d.floor))
    /\ d.delivered => d.exists /\ Considered(d.floor, d.read) \subseteq seen

CoverInv ==
    /\ Behind(lastRun)
    /\ \A j \in Instants : RunInv(run[j])
    /\ \A w \in Instants : RowInv(digest[w])

LEMMA CoverInvInit == Init => CoverInv
BY InstantsInNat DEF Init, CoverInv, Behind, RunInv, RowInv, Committed, NoDigest, IdleRun, NoRun

\* What was accounted for stays so, as long as the history only grows and a
\* delivered row is left alone.
LEMMA BehindStays ==
    ASSUME seen \subseteq seen', passed \subseteq passed',
           \A w \in Instants : digest[w].delivered => digest'[w] = digest[w],
           NEW t, Behind(t)
    PROVE  \A e \in Instants : e < t => Accounted(e)'
BY DEF Behind, Accounted, Forfeited, Recorded

\* A step that only moves an attempt.
LEMMA CoverInvMoves ==
    ASSUME TypeOK, CoverInv, UNCHANGED <<digest, seen, passed, lastRun>>,
           NEW j \in Instants, NEW r \in RunRecord, run' = [run EXCEPT ![j] = r], RunInv(r)
    PROVE  CoverInv'
<1>1. \A t : Behind(t) => \A e \in Instants : e < t => Accounted(e)'
  BY BehindStays
<1>2. \A i \in Instants : RunInv(run'[i])
  BY DEF TypeOK, CoverInv
<1>3. \A i \in Instants : RunInv(run[i])'
  BY <1>1, <1>2 DEF RunInv, Behind, Committed
<1>4. \A w \in Instants : RowInv(digest[w])'
  BY <1>1 DEF CoverInv, RowInv, Behind
<1>5. Behind(lastRun)'
  BY <1>1 DEF CoverInv, Behind
<1> QED
  BY <1>3, <1>4, <1>5 DEF CoverInv

\* A floor is no later than a window of its read and than the last delivery.
LEMMA FloorReaches ==
    ASSUME NEW s \in Schedules, NEW window \in Nat, window = DisplayWindow(s),
           NEW last \in Int, NEW now \in Nat
    PROVE  /\ DisplayFloor(window, last, now) \in Int
           /\ Windowed(DisplayFloor(window, last, now), now)
           /\ last = NoRun \/ DisplayFloor(window, last, now) <= last
<1>1. DisplayFloor(window, last, now) \in Int /\ DisplayFloor(window, last, now) <= now - window
  BY DEF DisplayFloor
<1>2. last = NoRun \/ DisplayFloor(window, last, now) <= last
  BY DEF DisplayFloor
<1> QED
  BY <1>1, <1>2 DEF Windowed

LEMMA FreezeCoverInv ==
    ASSUME TypeOK, CoverInv, NEW j \in Instants, Freeze(j)
    PROVE  CoverInv'
<1> DEFINE w == run[j].win
<1>0. run[j] \in RunRecord /\ Instants \subseteq Int /\ NoRun \in Int
  BY InstantsInNat DEF TypeOK, NoRun
<1>1. w \in Instants /\ run[j] \in RunRecord /\ run[j].last \in Int /\ run[j].floor \in Int
  BY <1>0, RunFields
<1>2. /\ run'[j] = [run[j] EXCEPT !.pc = "frozen"]
      /\ \A i \in Instants \ {j} : run'[i] = run[i]
  BY DEF TypeOK, Freeze
<1>3. run'[j].pc = "frozen" /\ run'[j].win = w /\ run'[j].last = run[j].last
  BY <1>1, <1>2 DEF RunRecord
<1>4. UNCHANGED <<seen, passed, lastRun>> /\ run[j].pc = "selected" /\ ~ digest[w].delivered
  BY DEF Freeze, subscriberVars, AlreadyDelivered
<1>5. \A v \in Instants \ {w} : digest'[v] = digest[v]
  BY <1>1 DEF TypeOK, Freeze, GetOrCreate
<1>6. digest[w].exists => digest'[w] = digest[w]
  BY <1>1 DEF TypeOK, Freeze, GetOrCreate
<1>7. ~ digest[w].exists =>
        /\ digest'[w].exists /\ ~ digest'[w].delivered
        /\ digest'[w].first = (run[j].last = NoRun)
        /\ digest'[w].floor = run[j].floor /\ digest'[w].read = run[j].read
  BY <1>1 DEF TypeOK, Freeze, GetOrCreate
<1>8. \A v \in Instants : digest[v].delivered => digest'[v] = digest[v]
  BY <1>4, <1>5
<1>9. \A t : Behind(t) => \A e \in Instants : e < t => Accounted(e)'
  BY <1>4, <1>8, BehindStays
<1>10. \A v \in Instants : digest[v].exists => digest'[v].exists
  BY <1>5, <1>6
<1>11. ASSUME NEW i \in Instants PROVE RunInv(run[i])'
  <2>1. CASE i = j
    <3>1. Behind(run[j].last)
      BY <1>4 DEF CoverInv, RunInv
    <3>2. digest'[w].exists
      BY <1>6, <1>7
    <3> QED
      BY <1>3, <1>9, <2>1, <3>1, <3>2 DEF RunInv, Behind, Committed
  <2>2. CASE i # j
    <3>1. run'[i] = run[i] /\ RunInv(run[i]) /\ run[i].win \in Instants
      BY <1>2, <2>2, RunFields DEF CoverInv, TypeOK
    <3> QED
      BY <1>9, <1>10, <3>1 DEF RunInv, Behind, Committed
  <2> QED
    BY <2>1, <2>2
<1>12. ASSUME NEW v \in Instants PROVE RowInv(digest[v])'
  <2>1. CASE digest'[v] = digest[v]
    BY <1>4, <1>9, <2>1 DEF CoverInv, RowInv, Behind
  <2>2. CASE v = w /\ ~ digest[w].exists
    <3>1. /\ Behind(run[j].last) /\ Windowed(run[j].floor, run[j].read)
          /\ run[j].last = NoRun \/ run[j].floor <= run[j].last
      BY <1>4 DEF CoverInv, RunInv
    <3>2. run[j].last # NoRun => \A e \in Instants : e < run[j].floor => Accounted(e)'
      BY <1>1, <1>9, <3>1, InstantsInNat DEF Behind
    <3> QED
      BY <1>7, <2>2, <3>1, <3>2 DEF RowInv, Behind
  <2> QED
    BY <1>5, <1>6, <2>1, <2>2
<1>13. Behind(lastRun)'
  BY <1>4, <1>9 DEF CoverInv, Behind
<1> QED
  BY <1>11, <1>12, <1>13 DEF CoverInv

LEMMA MarkCoverInv ==
    ASSUME TypeOK, CoverInv, NEW j \in Instants, MarkDelivered(j)
    PROVE  CoverInv'
<1>1. PICK w \in Instants : w = run[j].win
  BY RunFields DEF TypeOK
<1>0. run[j] \in RunRecord /\ digest[w] \in DigestRow /\ Instants \subseteq Int
  BY InstantsInNat DEF TypeOK
<1>2. /\ run[j] \in RunRecord /\ run[j].snap \in Int /\ digest[w] \in DigestRow
      /\ digest[w].floor \in Int /\ digest[w].read \in Int
  BY <1>0, RunFields DEF DigestRow
<1>3. /\ run'[j].pc = "marked" /\ run'[j].last = run[j].last
      /\ \A i \in Instants \ {j} : run'[i] = run[i]
  BY <1>2 DEF TypeOK, MarkDelivered, RunRecord
<1>4. /\ digest'[w] = [digest[w] EXCEPT !.delivered = TRUE]
      /\ \A v \in Instants \ {w} : digest'[v] = digest[v]
  BY <1>1 DEF TypeOK, MarkDelivered
<1>5. /\ digest'[w].delivered /\ digest'[w].first = digest[w].first
      /\ digest'[w].exists = digest[w].exists
      /\ digest'[w].floor = digest[w].floor /\ digest'[w].read = digest[w].read
  BY <1>2, <1>4 DEF DigestRow
<1>6. /\ lastRun' = run[j].snap
      /\ seen' = seen \cup Considered(digest[w].floor, digest[w].read)
      /\ passed' = passed \cup {e \in Instants : e < run[j].snap /\ e + Lag > digest[w].read}
  BY <1>1 DEF MarkDelivered
<1>7. /\ digest[w].exists /\ Windowed(digest[w].floor, digest[w].read)
      /\ digest[w].first \/ Behind(digest[w].floor)
      /\ Behind(run[j].last)
  BY <1>1 DEF MarkDelivered, ReadyToMark, CoverInv, RunInv, RowInv, Committed
<1>8. \A v \in Instants : digest[v].delivered => digest'[v] = digest[v]
  BY <1>2, <1>4 DEF DigestRow
<1>9. \A t : Behind(t) => \A e \in Instants : e < t => Accounted(e)'
  BY <1>6, <1>8, BehindStays
<1>10. Behind(lastRun)'
  <2>1. SUFFICES ASSUME NEW e \in Instants, e < run[j].snap PROVE Accounted(e)'
    BY <1>6 DEF Behind
  <2>2. e \in Int /\ Lag \in Int
    BY InstantsInNat, DeliveryAssumption
  <2>3. CASE e + Lag > digest[w].read
    BY <1>6, <2>1, <2>3 DEF Accounted
  <2>4. CASE e + Lag <= digest[w].read /\ digest[w].floor <= e
    BY <1>6, <2>4 DEF Accounted, Considered
  <2>5. CASE e < digest[w].floor
    <3>1. CASE digest[w].first
      BY <1>5, <2>5, <3>1 DEF Accounted, Forfeited, Recorded
    <3>2. CASE Behind(digest[w].floor)
      BY <1>9, <2>5, <3>2
    <3> QED
      BY <1>7, <3>1, <3>2
  <2> QED
    BY <1>2, <2>2, <2>3, <2>4, <2>5
<1>11. ASSUME NEW i \in Instants PROVE RunInv(run[i])'
  <2>1. CASE i = j
    BY <1>3, <1>7, <1>9, <2>1 DEF RunInv, Behind, Committed
  <2>2. CASE i # j
    <3>1. run'[i] = run[i] /\ RunInv(run[i]) /\ run[i].win \in Instants
      BY <1>3, <2>2, RunFields DEF CoverInv, TypeOK
    <3>2. \A v \in Instants : digest[v].exists => digest'[v].exists
      BY <1>4, <1>5
    <3> QED
      BY <1>9, <3>1, <3>2 DEF RunInv, Behind, Committed
  <2> QED
    BY <2>1, <2>2
<1>12. ASSUME NEW v \in Instants PROVE RowInv(digest[v])'
  <2>1. CASE v = w
    <3>1. Considered(digest[w].floor, digest[w].read) \subseteq seen'
      BY <1>6
    <3>2. digest[w].first \/ \A e \in Instants : e < digest[w].floor => Accounted(e)'
      BY <1>7, <1>9
    <3> QED
      BY <1>5, <1>7, <2>1, <3>1, <3>2 DEF RowInv, Behind
  <2>2. CASE v # w
    BY <1>4, <1>6, <1>9, <2>2 DEF CoverInv, RowInv, Behind
  <2> QED
    BY <2>1, <2>2
<1> QED
  BY <1>10, <1>11, <1>12 DEF CoverInv

LEMMA CoverInvAttempt ==
    ASSUME TypeOK, CoverInv, NEW j \in Instants, Attempt(j) \/ Fail(j) \/ Crash(j)
    PROVE  CoverInv'
<1>0. run[j] \in RunRecord /\ clock \in Nat /\ Instants \subseteq Nat /\ NoRun \in Int
  BY InstantsInNat DEF TypeOK, NoRun
<1>1. run[j] \in RunRecord /\ clock \in Nat /\ run[j].last \in Int
  <2>1. run[j].last \in Instants \cup {NoRun}
    BY <1>0 DEF RunRecord
  <2>2. CASE run[j].last = NoRun
    BY <1>0, <2>2
  <2>3. CASE run[j].last \in Instants
    <3>1. run[j].last \in Nat
      BY <1>0, <2>3
    <3> QED
      BY <1>0, <3>1
  <2> QED
    BY <2>1, <2>2, <2>3
<1>2. CASE Load(j)
  <2> DEFINE r == [pc |-> "loaded", win |-> nextRun, snap |-> clock, last |-> lastRun,
                   window |-> DisplayWindow(schedule), read |-> 0, floor |-> 0]
  <2>1. r \in RunRecord
    BY <1>2, LoadedType DEF Load
  <2>2. UNCHANGED <<digest, seen, passed, lastRun>> /\ run' = [run EXCEPT ![j] = r]
    BY <1>2 DEF Load, historyVars, subscriberVars
  <2>3. RunInv(r)
    BY DEF TypeOK, CoverInv, RunInv, Committed
  <2> HIDE DEF r
  <2> QED
    BY <2>1, <2>2, <2>3, CoverInvMoves
<1>3. CASE LoadNotYetDue(j)
  BY <1>3 DEF LoadNotYetDue, historyVars, subscriberVars, CoverInv, RunInv, RowInv, Behind,
     Accounted, Forfeited, Recorded, Committed
<1>4. CASE Select(j)
  <2> DEFINE r == [run[j] EXCEPT !.pc = "selected", !.read = clock,
                                 !.floor = DisplayFloor(run[j].window, run[j].last, clock)]
  <2>1. PICK s \in Schedules : run[j].window = DisplayWindow(s)
    BY <1>4 DEF Select, CoverInv, RunInv
  <2>2. run[j].window \in Nat
    BY <1>1, RunFields
  <2>3. /\ DisplayFloor(run[j].window, run[j].last, clock) \in Int
        /\ Windowed(DisplayFloor(run[j].window, run[j].last, clock), clock)
        /\ \/ run[j].last = NoRun
           \/ DisplayFloor(run[j].window, run[j].last, clock) <= run[j].last
    BY <1>1, <2>1, <2>2, FloorReaches
  <2>4. /\ r \in RunRecord /\ r.pc = "selected" /\ r.read = clock /\ r.last = run[j].last
        /\ r.floor = DisplayFloor(run[j].window, run[j].last, clock)
    BY <1>1, <2>3 DEF TypeOK, RunRecord, Phase
  <2>5. UNCHANGED <<digest, seen, passed, lastRun>> /\ run' = [run EXCEPT ![j] = r]
    BY <1>4 DEF Select, historyVars, subscriberVars
  <2>6. Behind(run[j].last)
    BY <1>4 DEF Select, CoverInv, RunInv
  <2> HIDE DEF r
  <2>7. RunInv(r)
    BY <2>3, <2>4, <2>6 DEF RunInv, Committed
  <2> QED
    BY <2>4, <2>5, <2>7, CoverInvMoves
<1>5. CASE FreezeAlreadyDelivered(j) \/ Acknowledge(j) \/ Fail(j) \/ Crash(j)
  <2>1. UNCHANGED <<digest, seen, passed, lastRun>> /\ run' = [run EXCEPT ![j] = IdleRun]
    BY <1>5
    DEF FreezeAlreadyDelivered, Acknowledge, Fail, Crash, Abandon, historyVars, subscriberVars
  <2>2. RunInv(IdleRun)
    BY DEF RunInv, IdleRun, Committed
  <2> QED
    BY <2>1, <2>2, IdleRunType, CoverInvMoves
<1>6. CASE Send(j)
  <2> DEFINE r == [run[j] EXCEPT !.pc = "sent"]
  <2>1. UNCHANGED <<digest, seen, passed, lastRun>> /\ run' = [run EXCEPT ![j] = r]
    BY <1>6 DEF Send, historyVars, subscriberVars
  <2>2. r \in RunRecord /\ r.pc = "sent" /\ r.win = run[j].win /\ r.last = run[j].last
    BY <1>1 DEF RunRecord, Phase
  <2>3. digest[run[j].win].exists /\ Behind(run[j].last)
    BY <1>6 DEF Send, CoverInv, RunInv, Committed
  <2> HIDE DEF r
  <2>4. RunInv(r)
    BY <2>2, <2>3 DEF RunInv, Committed
  <2> QED
    BY <2>1, <2>2, <2>4, CoverInvMoves
<1> QED
  BY <1>2, <1>3, <1>4, <1>5, <1>6, FreezeCoverInv, MarkCoverInv DEF Attempt

LEMMA CoverInvStep == TypeOK /\ CoverInv /\ [Next]_vars => CoverInv'
<1> SUFFICES ASSUME TypeOK, CoverInv, [Next]_vars PROVE CoverInv'
  OBVIOUS
<1>1. CASE Advance \/ Tick \/ (\E s \in Schedules : ChangePreferences(s)) \/ UNCHANGED vars
  <2>1. UNCHANGED <<run, digest, seen, passed, lastRun>>
    BY <1>1 DEF Advance, Tick, ChangePreferences, vars, historyVars, subscriberVars
  <2> QED
    BY <2>1 DEF CoverInv, RunInv, RowInv, Behind, Accounted, Forfeited, Recorded, Committed
<1> QED
  BY <1>1, CoverInvAttempt DEF Next

LEMMA CoverInvTells == TypeOK /\ CoverInv => NoItemSkipped
<1> SUFFICES ASSUME TypeOK, CoverInv, NEW e \in Instants, Owed(e), e \notin seen, ~ (lastRun <= e)
             PROVE  e \in passed /\ \A w \in Recorded : ~ InTime(e, digest[w].read)
  BY DEF NoItemSkipped
<1>1. e \in Int /\ lastRun \in Int
  BY InstantsInNat DEF TypeOK, NoRun
<1>2. ~ Forfeited(e)
  <2>1. \A w \in Recorded : digest[w].floor \in Int
    BY DEF TypeOK, DigestRow, Recorded
  <2> QED
    BY <1>1, <2>1 DEF Owed, Forfeited
<1>3. Accounted(e)
  BY <1>1 DEF CoverInv, Behind
<1>4. ASSUME NEW w \in Recorded, InTime(e, digest[w].read) PROVE FALSE
  <2>1. w \in Instants /\ RowInv(digest[w]) /\ digest[w].delivered
    BY DEF CoverInv, Recorded
  <2>2. PICK s \in Schedules : digest[w].floor <= digest[w].read - DisplayWindow(s)
    BY <2>1 DEF RowInv, Windowed
  <2>3. digest[w].read - DisplayWindow(s) <= e /\ e + Lag <= digest[w].read
    BY <1>4 DEF InTime
  <2>4. digest[w].floor \in Int /\ digest[w].read \in Int /\ DisplayWindow(s) \in Int
    <3>1. digest[w] \in DigestRow /\ Instants \subseteq Int
      BY <2>1, InstantsInNat DEF TypeOK
    <3>2. DisplayWindow(s) \in Int
      BY DeliveryAssumption DEF DisplayWindow, Recurrence
    <3> QED
      BY <3>1, <3>2 DEF DigestRow
  <2>5. digest[w].floor <= e
    BY <1>1, <2>2, <2>3, <2>4
  <2> QED
    BY <2>1, <2>3, <2>5 DEF RowInv, Considered
<1> QED
  BY <1>2, <1>3, <1>4 DEF Accounted

\* No item falls between two digests (system-design.md 9.4), however late,
\* retried, overlapping or rescheduled they are: what is behind last_run_at
\* and within the first digest's reach was considered, or was passed over by
\* the mark of an attempt later than its digest's read and then by every
\* digest that could have had it within its window.
THEOREM NoItemSkippedCorrect == Spec => []NoItemSkipped
<1>1. Init => CoverInv
  BY CoverInvInit
<1> QED
  BY <1>1, TypeCorrect, CoverInvStep, CoverInvTells, PTL DEF Spec

=============================================================================
