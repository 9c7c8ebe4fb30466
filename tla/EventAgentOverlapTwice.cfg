SPECIFICATION Safety
CONSTANTS
    c1 = c1
    c2 = c2
    c3 = c3
    o1 = o1
    o2 = o2
    o3 = o3
    i1 = i1
    i2 = i2
    None = None
    Calls <- MCCalls
    Objects <- MCObjects
    Ids <- MCIds
    IdOf <- MCIdOf
    MaxRetriesOf <- ShortBudgets
    AsyncHandler = FALSE
INVARIANTS
    ExecutedAtMostOnce
CHECK_DEADLOCK FALSE
