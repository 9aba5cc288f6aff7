SPECIFICATION FairSpec
CONSTANTS
    c1 = c1
    c2 = c2
    Connections = {c1}
    NoConnection = NoConnection
    MaxCommands = 2
    MaxOutstanding = 2
    MaxAsks = 0
    SpuriousWakes = TRUE
CHECK_DEADLOCK FALSE
PROPERTY EveryCommandAnswered
