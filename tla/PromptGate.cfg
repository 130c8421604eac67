CONSTANTS
    o1 = o1
    o2 = o2
    c1 = c1
    Op <- Ops
    Card <- Cards
    cardOf <- CardOf
    MaxTickets = 3
SPECIFICATION LiveSpec
INVARIANTS
    NoLostWakeup
    OneDialogPerCard
PROPERTIES
    ImplementsSlot
    EveryWaiterLeaves
CHECK_DEADLOCK FALSE
