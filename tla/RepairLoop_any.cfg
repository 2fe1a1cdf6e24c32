\* One seed's pipeline: three rounds, one pause or failure.
SPECIFICATION Spec
CONSTANTS
    Target <- MCTarget
    Codes <- MCCodes
    Outcomes <- MCOutcomes
    Opinions <- MCOpinions
    Rounds = 3
    MaxFaults = 1
    None = None
INVARIANTS EvidenceMatches PublishedWhole
PROPERTIES ImplementsBestOfRounds
CHECK_DEADLOCK FALSE
