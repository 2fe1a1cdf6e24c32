\* Three instances, two workers, two invocations, one fault.
SPECIFICATION Spec
CONSTANTS
    Dataset <- MCDataset
    Repo <- MCRepo
    Env <- MCEnv
    Patch <- MCPatch
    Workers = {0, 1}
    Calls <- MCCalls
    Happenings <- MCHappenings
    MinCount = 2
    Num = 1
    Den = 2
    MaxRuns = 2
    MaxFaults = 1
    None = None
INVARIANTS FreshCountsItself ValidMeansHealthy VerdictsSound
PROPERTIES ResumeLosesNothing EvaluationEnds
CHECK_DEADLOCK FALSE
