--------------------------- MODULE MCSummarySweep ---------------------------
EXTENDS SummarySweep, TLC

\* Article fetches and sweeps have no identity; the clusters keep theirs, for
\* an idle sweep points at one of them.
MCSymmetry == Permutations(Fetchers) \cup Permutations(Sweepers)
=============================================================================
