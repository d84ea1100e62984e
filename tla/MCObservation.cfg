CONSTANTS
    LastCounter = 31
    Modulus = 32
    Window = 16
    FreshAfter = 5
    MaxAge = 4
    MaxWrites = 36
SPECIFICATION Spec
INVARIANTS
    NeverDropsNews
PROPERTIES
    InOrder
