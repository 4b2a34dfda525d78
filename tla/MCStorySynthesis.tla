-------------------------- MODULE MCStorySynthesis --------------------------
(***************************************************************************)
(* Model values for StorySynthesis: a repository and an article about it,  *)
(* whose full text brings another number.                                  *)
(***************************************************************************)
EXTENDS StorySynthesis

CONSTANTS acme, beta, site, n1, n2, n3, n9

MCEvent(t, entities, title, text, rich) ==
    [time |-> t, entities |-> entities, title |-> title, text |-> text, rich |-> rich]
MCPosts ==
    {[cluster |-> 1, event |-> MCEvent(1, {acme, site}, {}, {n1}, TRUE), article |-> {}],
     [cluster |-> 2, event |-> MCEvent(2, {acme, beta}, {n1}, {}, FALSE), article |-> {n2, n3}]}

MCDraft(refs, numbers, flaws) == [refs |-> refs, numbers |-> numbers, faults |-> flaws]
MCDrafts == {MCDraft({acme}, {n1}, {"url"}), MCDraft({beta}, {n9}, {})}
MCLabels == {MCDraft({}, {n9}, {}), MCDraft({}, {}, {"banned"})}

MCReadings == {[tentative |-> FALSE, state |-> "none", subjects |-> {}]}

\* The clusters of these posts are told apart by their hashes.
ASSUME MCHashesTell == HashesTell
=============================================================================
