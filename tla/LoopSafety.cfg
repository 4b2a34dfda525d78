SPECIFICATION LoopSpec
CONSTANTS
    s1 = s1
    s2 = s2
    s3 = s3
    Tokens = {1, 2, 3, 4}
    Kind <- MCKind
    Similarity <- MCSimilarity
    Stories = {s1, s2, s3}
    Mentions <- MCMentions
    Theta = 80
    MaxIters = 3
    AffinityMax = 256
    MaxThreads = 2
    Correctable <- MCCorrectable
    MaxInputs = 4
    Horizon = 3
INVARIANT IdentityIsReachability
INVARIANT CorrectionTakesEffect
INVARIANT WeightsAreProjection
CHECK_DEADLOCK FALSE
