SPECIFICATION Spec
CONSTANTS
    Clusters = {1, 2, 3}
    Days <- MCDays
    Workers = {w1, w2}
    Windows = 2
    MaxStories = 4
INVARIANT OneLiveStory
PROPERTY ForwardsToOlder
PROPERTY WeakNeverMergesDelivered
CHECK_DEADLOCK FALSE
SYMMETRY Alike
CONSTRAINT UpToOverlap
