SPECIFICATION Spec
CONSTANTS
    a = a
    b = b
    c = c
    d = d
    s1 = s1
    Feedback = {f1}
    Stories = {s1}
    Entities = {a, b, c, d}
    StoryEntities <- MCOneStory
    Detected <- MCDetected
    Cadence = 1
    MaxAttempts = 1
    MaxThreads = 4
    MaxItems = 1
    MaxFaults = 1
    Horizon = 2
INVARIANT CareFoldedOnce
INVARIANT StoryNeverTwice
CHECK_DEADLOCK FALSE
