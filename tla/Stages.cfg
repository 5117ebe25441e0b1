SPECIFICATION MCSpec
CONSTANTS
    Recs = {1, 2}
    Analysed = {2}
    Workers = 2
    Few = 1
    Budgets <- MCBudgets
INVARIANTS PicturesExist ResultsAgree
PROPERTIES JobsEnd
CHECK_DEADLOCK FALSE
