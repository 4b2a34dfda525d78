SPECIFICATION ContentSpec
CONSTANTS
    Clusters = {1, 2, 3}
    Attr <- MCAttr
    Layers <- MCLayers
    Cfg <- MCCfg
    MaxItems = 2
    Cadence = 2
    DisplayWindow = 3
    ContextHorizon = 60
    Horizon = 6
    MaxInputs = 3
    MaxStories = 4
    MaxDelay = 0
    MaxFailures = 1
INVARIANT NoClusterTwice
INVARIANT NoOscillation
INVARIANT RepeatsWithinBudget
INVARIANT OverCapOnlyWhenFull
INVARIANT ReplayAgrees
CHECK_DEADLOCK FALSE
