---------------------------- MODULE MCStoryLink ----------------------------
EXTENDS StoryLink, TLC

\* Two clusters apart, the third no candidate; all three linked weakly, in a
\* chain; and linked strongly and weakly.
MCDays == {
    [candidates |-> {1, 2}, strong |-> <<>>, weak |-> <<>>],
    [candidates |-> {1, 2, 3}, strong |-> <<>>, weak |-> <<<<1, 2>>, <<2, 3>>>>],
    [candidates |-> {1, 2, 3}, strong |-> <<<<1, 3>>>>, weak |-> <<<<2, 3>>>>]}

\* Attempts are interchangeable.
Alike == Permutations(Workers)

\* A behaviour ends when an assignment is persisted over a newer one.
UpToOverlap == ~ overlapped
=============================================================================
