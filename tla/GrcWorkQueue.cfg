CONSTANTS
    Null = Null
    Tables <- MCTables
    Headers <- MCHeaders
    TwoDays = 1
    Week = 2
    Fortnight = 3
    Month = 4
    Day = 5
    Limit = 1
    MaxNow = 10

SPECIFICATION QueueSpec

INVARIANTS
    PageHonest

PROPERTIES
    WaitingRaises
