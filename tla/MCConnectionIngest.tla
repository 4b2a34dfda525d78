------------------------- MODULE MCConnectionIngest -------------------------
EXTENDS ConnectionIngest, TLC

\* A private activity between public ones.
MCScope == [i \in Activities |-> IF i = 2 THEN "owner" ELSE "public"]
=============================================================================
