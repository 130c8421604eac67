SPECIFICATION LiveSpec
CONSTANTS
    MaxCards = 3
    MaxOps = 2
    Served <- SecondCard
INVARIANTS
    ConnectionIsClean
    CardsAreNotMixedUp
PROPERTIES
    SecretsAreErased
    HoldIsRestored
