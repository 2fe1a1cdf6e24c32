\* A pipeline that is a function of what it was told, identities that change.
SPECIFICATION FairSpec
CONSTANTS
    Identities = {id1, id2}
    Requests = {q1, q2}
    Results = {good, timeout, setup, infra}
    NotReusable = {timeout}
    Infra = {infra}
    Failed = Failed
    None = None
    q1 = q1
    q2 = q2
    good = good
    timeout = timeout
    setup = setup
    infra = infra
    Asks <- Faithful
    Declines <- ByLastAnswer
    MaxSteps = 3
    MaxSessions = 2
    MaxFaults = 1
    ArchiveMayFail = TRUE
PROPERTIES NoRework ResumeCompletes
