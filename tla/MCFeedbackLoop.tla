---------------------------- MODULE MCFeedbackLoop ----------------------------
EXTENDS FeedbackLoop, TLC

CONSTANTS s1, s2, s3

\* 1 and 2 are spelled alike, 2 and 3 only so-so; 4 is of another namespace.
MCKind == [e \in Tokens |-> IF e = 4 THEN "repo" ELSE "person"]
MCSimilarity == [p \in Tokens \X Tokens |->
    IF {p[1], p[2]} = {1, 2} THEN 85 ELSE IF {p[1], p[2]} = {2, 3} THEN 70 ELSE 0]
MCMentions == [s \in Stories |-> IF s = s1 THEN {1, 4} ELSE IF s = s2 THEN {2, 3} ELSE {3, 4}]
MCCorrectable == {<<2, 1>>, <<1, 2>>, <<2, 3>>}
=============================================================================
