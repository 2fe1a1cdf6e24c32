\* Two instances and workers, two questions, passes and revisions, one fault.
SPECIFICATION Spec
CONSTANTS
    i1 = i1
    i2 = i2
    x = x
    y = y
    None = None
    Instances = {i1, i2}
    Texts = {x, y}
    MaxRequests = 4
    MaxWorkers = 2
    Chats = 2
    Passes = 2
    MaxRevisions = 2
    MaxFaults = 1
SYMMETRY Symmetric
INVARIANTS TotalComplete OldTargetsExplained CacheAsFrozen
PROPERTIES TargetsNotResampled
CHECK_DEADLOCK FALSE
