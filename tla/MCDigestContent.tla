--------------------------- MODULE MCDigestContent ---------------------------
EXTENDS DigestContent, TLC

\* An article, a release and a message of the subscriber's own, on two topics.
MCAttr == <<[source |-> "rss", depth |-> "longform", severity |-> 0, private |-> FALSE, entities |-> {1}],
            [source |-> "github", depth |-> "announcement", severity |-> 4, private |-> FALSE, entities |-> {1, 2}],
            [source |-> "github", depth |-> "message", severity |-> 0, private |-> TRUE, entities |-> {2}]>>

MCThread(id, entities, affinity, state) ==
    [id |-> id, entities |-> entities, affinity |-> affinity, state |-> state]
MCLayers ==
    {[threads |-> {MCThread(1, {1, 2}, 2, "active"), MCThread(2, {2}, 3, "dormant")}, weights |-> <<300, 500>>],
     [threads |-> {MCThread(1, {1, 2}, 1, "dormant"), MCThread(2, {2}, 1, "archived")}, weights |-> <<200, 0>>]}

MCCfg == [relevanceFloor |-> 1100, scopeBonus |-> 500, severityWeight |-> 100, storyCap |-> 1, noteCap |-> 2,
          threadCap |-> 1, resurfaceDivisor |-> 4, resurfaceCap |-> 1]
==============================================================================
