SPECIFICATION Spec
CONSTANTS
    Files = {1, 2}
    Limit = 1
    MaxPercent = 50
    Still = {1, 2}
    Apart = TRUE
    Few = 2
    Budgets <- MCBudgets
INVARIANTS NothingWronglyRemoved
PROPERTIES DecidedOnWhatIs IndexFollowsShare
CHECK_DEADLOCK FALSE
