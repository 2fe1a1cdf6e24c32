\* Two processes, each twice, two contracts, every beginning, two faults.
SPECIFICATION Spec
CONSTANTS
    w1 = w1
    w2 = w2
    canonical = canonical
    legacy = legacy
    leftover = leftover
    c1 = c1
    c2 = c2
    i1 = i1
    i2 = i2
    i3 = i3
    Absent = Absent
    None = None
    Workers = {w1, w2}
    Templates = {canonical, legacy, leftover}
    Contracts = {c1, c2}
    Issues = {i1, i2, i3}
    Explicit = {c1}
    Jobs <- MCJobs
    Beginnings <- MCBeginnings
    Canonical <- MCCanonical
    MaxRuns = 2
    MaxFaults = 2
INVARIANTS CloneFaithful NeverBlocked
PROPERTIES RequestsEnd
CHECK_DEADLOCK FALSE
