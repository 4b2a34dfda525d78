SPECIFICATION FairSpec
CONSTANTS
    acme = acme
    beta = beta
    site = site
    n1 = n1
    n2 = n2
    n3 = n3
    n9 = n9
    Names = {acme, beta}
    WebKeys = {site}
    Numbers = {n1, n2, n3, n9}
    RelationGate = TRUE
    Clusters = {1, 2}
    Events <- MCPosts
    Drafts <- MCDrafts
    Labels <- MCLabels
    Readings <- MCReadings
    Counts = {}
    MaxAttempts = 2
    MaxFires = 2
    MaxFaults = 1
INVARIANT GroundedInSources
INVARIANT MembershipReachesSynthesis
INVARIANT NewsIsCounted
PROPERTY DueSettles
CHECK_DEADLOCK FALSE
