SPECIFICATION FairSpec
CONSTANTS
    Keys <- Keyboard
    Sizes <- Windows
    TypeLists <- Clients
    Longest = 13
    MaxWire = 1
INVARIANTS
    TypeOK
    KeysUnderstood
    WindowKnown
    
PROPERTIES
    NegotiationEnds
