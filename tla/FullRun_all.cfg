\* Two instances, two workers, two revisions, two faults; evaluation only of
\* complete runs; fair workers, script and operator.
SPECIFICATION FairFullSpec
CONSTANTS
    i1 = i1
    i2 = i2
    Instances = {i1, i2}
    MaxWorkers = 2
    MaxRevisions = 2
    MaxFaults = 2
    AllowIncomplete = FALSE
INVARIANTS LateBounded ZeroMeansDone PauseReported EvaluatesSettledRun OldTestsExplained
PROPERTIES CompletedSafe ResumeDrains EvaluationReached
