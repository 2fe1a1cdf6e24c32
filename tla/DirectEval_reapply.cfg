\* One instance whose golden patch creates files and changes the build,
\* everything that may happen to it.
SPECIFICATION Spec
CONSTANTS
    Dataset <- OneDataset
    Repo <- MCRepo
    Env <- MCEnv
    Patch <- MCPatch
    Workers = {0}
    Calls <- OneCalls
    Happenings <- OneHappenings
    MinCount = 2
    Num = 1
    Den = 2
    MaxRuns = 1
    MaxFaults = 0
    None = None
INVARIANT GoldenPatchReapplies
CHECK_DEADLOCK FALSE
