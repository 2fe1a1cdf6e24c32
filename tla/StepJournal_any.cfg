\* A pipeline that may ask anything, one identity.
SPECIFICATION Spec
CONSTANTS
    Identities = {id1}
    Requests = {q1, q2}
    Results = {good, timeout, infra}
    NotReusable = {timeout}
    Infra = {infra}
    Failed = Failed
    None = None
    q1 = q1
    q2 = q2
    good = good
    timeout = timeout
    setup = setup
    infra = infra
    Asks <- Capricious
    Declines <- ByLastAnswer
    MaxSteps = 3
    MaxSessions = 1
    MaxFaults = 2
    ArchiveMayFail = FALSE
SYMMETRY RequestSymmetry
CHECK_DEADLOCK FALSE
INVARIANTS OneHistory SamePast CompleteAgrees
PROPERTIES ImplementsReplayLog
