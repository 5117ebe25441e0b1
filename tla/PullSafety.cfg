SPECIFICATION Spec
CONSTANTS
    Names = {a, b}
    Contents = {1, 2, 3}
    SizeOf <- MCSizeOf
    Limit = 1
    Retries = 1
    Sweeps = 1
    Depth = 1
    Cards <- MCCards
    Few = 2
    Budgets <- MCBudgets
INVARIANTS StaysInBounds
PROPERTIES EraseOnlySaved OutcomeIsHonest RunEnds
CHECK_DEADLOCK FALSE
