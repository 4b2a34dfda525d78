--------------------------- MODULE MCClusterBuild ---------------------------
EXTENDS ClusterBuild, TLC

CONSTANTS e1, e2, g1

MCOneGroup == [e \in Events |-> g1]

MCWorkerSymmetry == Permutations(Workers)
MCSymmetry == Permutations(Workers) \cup Permutations(Events)
=============================================================================
