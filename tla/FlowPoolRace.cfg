SPECIFICATION Spec
CONSTANTS
    c1 = c1
    c2 = c2
    Connections = {c1, c2}
    NoConnection = NoConnection
    MaxCommands = 1
    MaxOutstanding = 1
    MaxAsks = 0
    SpuriousWakes = TRUE
CHECK_DEADLOCK FALSE
INVARIANT PoolGivesCommand
