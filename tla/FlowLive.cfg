SPECIFICATION FairSpec
CONSTANTS
    c1 = c1
    c2 = c2
    Connections = {c1}
    NoConnection = NoConnection
    MaxCommands = 3
    MaxOutstanding = 1
    MaxAsks = 1
    SpuriousWakes = TRUE
CHECK_DEADLOCK FALSE
INVARIANTS NoLockCycle OneOnItsWay StructsBounded
PROPERTIES EveryCommandAnswered ServiceFairSpec
