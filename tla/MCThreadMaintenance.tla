------------------------- MODULE MCThreadMaintenance -------------------------
EXTENDS ThreadMaintenance, TLC

CONSTANTS a, b, c, d, s1

\* Two topics apart, and as one life.
MCApart == <<{a, b}, {c, d}>>
MCDetected == {MCApart, <<{a, b, c, d}>>}
MCOneStory == [s \in Stories |-> {a}]
=============================================================================
