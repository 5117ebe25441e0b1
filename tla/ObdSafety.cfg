SPECIFICATION Spec
CONSTANTS
    Drives = {1, 2}
    Bundles <- MCBundles
    Valid <- MCValid
    Payload <- MCPayload
    Few = 2
    Budgets <- MCBudgets
    Apart = TRUE
INVARIANTS KeptAndImportedOnce
PROPERTIES DrivesGetThrough
CHECK_DEADLOCK FALSE
