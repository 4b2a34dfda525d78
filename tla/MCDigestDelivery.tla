-------------------------- MODULE MCDigestDelivery --------------------------
(***************************************************************************)
(* Model values for DigestDelivery: a short cadence and a long one, with   *)
(* windows that a digest can be too late for.  The long one's grace is     *)
(* less than an instant.                                                   *)
(***************************************************************************)
EXTENDS DigestDelivery

MCTwoCadences == {[period |-> 2, phase |-> 1, grace |-> 0], [period |-> 3, phase |-> 2, grace |-> 1]}
=============================================================================
