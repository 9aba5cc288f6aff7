SPECIFICATION Spec
CONSTANTS
    u1 = u1
    u2 = u2
    a1 = a1
    a2 = a2
    Users = {u1, u2}
    NoUser = NoUser
    Addresses = {a1, a2}
    NoAddress = NoAddress
    Sockets <- Descriptors
    MaxKeys = 2
    MaxHangUps = 1
    ThreadsFail = TRUE
    SpuriousWakes = TRUE
CONSTRAINT Bounded
CHECK_DEADLOCK FALSE
SYMMETRY Interchangeable
INVARIANTS TypeOK UndefinedOnlyBy OwnScreen OneInside StayersServed
