SPECIFICATION Spec
CONSTANTS
    c1 = c1
    c2 = c2
    Connections = {c1, c2}
    NoConnection = NoConnection
    MaxCommands = 2
    MaxOutstanding = 2
    MaxAsks = 0
    SpuriousWakes = TRUE
CHECK_DEADLOCK FALSE
SYMMETRY Interchangeable
INVARIANTS TypeOK LockDiscipline NoLostWakeup GreetingFirst StructsConserved
PROPERTY ServiceSpec
