SPECIFICATION FairSpec
CONSTANTS
    e1 = e1
    e2 = e2
    g1 = g1
    Events = {e1, e2}
    Groups = {g1}
    GroupOf <- MCOneGroup
    NoWorker = NoWorker
    Workers = {w1, w2}
    Enrich = TRUE
    Grace = 2
    EnrichLimit = 1
    MaxTx = 1
    MaxQueue = 1
    MaxCrashes = 1
    Horizon = 4
INVARIANT TypeOK
INVARIANT NoEventStranded
INVARIANT TokensRolledUp
PROPERTY ClusterNeverForgets
PROPERTY EventClustered
CHECK_DEADLOCK FALSE
