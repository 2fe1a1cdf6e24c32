\* One worker, killed again and again while its helpers live on; helpers fail
\* early; images are rebuilt while the harness changes, or are not.
SPECIFICATION FairSpec
CONSTANTS
    w1 = w1
    w2 = w2
    h1 = h1
    h2 = h2
    h3 = h3
    a1 = a1
    a2 = a2
    g1 = g1
    None = None
    Instances = {1, 2}
    Groups = {g1}
    GroupOf <- TwoInstances
    Workers = {w1}
    Helpers = {h1, h2}
    Addresses = {a1}
    MaxHarness = 2
    Rebuilds = {TRUE, FALSE}
    Retries = 1
    MaxFaults = 1
    Deaths = TRUE
    EarlyFailure = TRUE
    Legacy = FALSE
PROPERTIES StartsSucceed
