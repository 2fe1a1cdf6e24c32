\* Three seeds, both routes, two revisions, one pause or failure.
SPECIFICATION ControllerSpec
CONSTANTS
    TargetOf <- MCTargetOf
    Codes <- MCCodes
    Outcomes <- MCOutcomes
    Opinions <- MCOpinions
    NumSeeds = 3
    MaxRuns = 2
    MaxFailures = 1
    None = None
INVARIANTS ExportOfThisRun FallbackExhaustive
CHECK_DEADLOCK FALSE
