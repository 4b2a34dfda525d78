---------------------------- MODULE DigestPromise ----------------------------
(***************************************************************************)
(* What the delivery of digests promises, without the queue, its retries,  *)
(* the clock, the selection and the steps of an attempt.  A window is      *)
(* taken while it is not recorded as delivered, mailed by who has taken    *)
(* it, and recorded after the mail by the same hand; with the record the   *)
(* schedule moves past it.  The outcome is in doubt once two hands hold a  *)
(* window together, or one lets go of it after its mail.                   *)
(***************************************************************************)
EXTENDS Naturals

CONSTANTS
    Windows,  \* the windows a digest may end at
    Hands     \* who may work at one

VARIABLES
    due,       \* the window the schedule stands at
    holds,     \* what each hand works at
    mails,     \* mails per window
    recorded,  \* the windows recorded as delivered
    doubtful

vars == <<due, holds, mails, recorded, doubtful>>

Nothing == [busy |-> FALSE, window |-> 0, mailed |-> FALSE]
Holding(w, mailed) == [busy |-> TRUE, window |-> w, mailed |-> mailed]
HeldBy(h, w) == holds[h].busy /\ holds[h].window = w

Init ==
    /\ due \in Nat
    /\ holds = [h \in Hands |-> Nothing]
    /\ mails = [w \in Windows |-> 0]
    /\ recorded = {}
    /\ doubtful = {}

\* The schedule never comes back to a window that was recorded.
Beyond(t) == t \in Nat /\ \A w \in recorded' : w < t

Take(h, w) ==
    /\ ~ holds[h].busy
    /\ w \notin recorded
    /\ holds' = [holds EXCEPT ![h] = Holding(w, FALSE)]
    /\ doubtful' = IF \E g \in Hands : HeldBy(g, w) THEN doubtful \cup {w} ELSE doubtful
    /\ UNCHANGED <<due, mails, recorded>>

Mail(h, w) ==
    /\ holds[h] = Holding(w, FALSE)
    /\ holds' = [holds EXCEPT ![h] = Holding(w, TRUE)]
    /\ mails' = [mails EXCEPT ![w] = @ + 1]
    /\ UNCHANGED <<due, recorded, doubtful>>

Record(h, w) ==
    /\ holds[h] = Holding(w, TRUE)
    /\ holds' = [holds EXCEPT ![h] = Nothing]
    /\ recorded' = recorded \cup {w}
    /\ Beyond(due')
    /\ UNCHANGED <<mails, doubtful>>

LetGo(h, w) ==
    /\ HeldBy(h, w)
    /\ holds' = [holds EXCEPT ![h] = Nothing]
    /\ doubtful' = IF holds[h].mailed THEN doubtful \cup {w} ELSE doubtful
    /\ UNCHANGED <<due, mails, recorded>>

Reschedule ==
    /\ UNCHANGED <<holds, mails, recorded, doubtful>>
    /\ Beyond(due')

Next ==
    \/ Reschedule
    \/ \E h \in Hands, w \in Windows : Take(h, w) \/ Mail(h, w) \/ Record(h, w) \/ LetGo(h, w)

Spec == Init /\ [][Next]_vars
=============================================================================
