\* Two clients on two endpoints, patient and impatient chats.
SPECIFICATION FairSpec
CONSTANTS
    c1 = c1
    c2 = c2
    Clients = {c1, c2}
    Size = 2
    Limit = 2
    Patience = {TRUE, FALSE}
    Streams = TRUE
    Doublings = 1
    MaxTroubles = 2
INVARIANTS PauseJustified RequestsBounded FailureThorough
PROPERTIES ChatEnds
