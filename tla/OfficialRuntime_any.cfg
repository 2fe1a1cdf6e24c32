\* Two workers, helpers that fail early or late, a registry of either age, two
\* addresses; images are not rebuilt.
SPECIFICATION Spec
CONSTANTS
    w1 = w1
    w2 = w2
    h1 = h1
    h2 = h2
    h3 = h3
    a1 = a1
    a2 = a2
    g1 = g1
    None = None
    Instances = {1, 2}
    Groups = {g1}
    GroupOf <- TwoInstances
    Workers = {w1, w2}
    Helpers = {h1, h2}
    Addresses = {a1, a2}
    MaxHarness = 1
    Rebuilds = {FALSE}
    Retries = 1
    MaxFaults = 2
    Deaths = FALSE
    EarlyFailure = TRUE
    Legacy = TRUE
SYMMETRY Symmetric
INVARIANTS NeverShared
PROPERTIES OwnershipExclusive InUseUndisturbed CleanupSparesOthers
