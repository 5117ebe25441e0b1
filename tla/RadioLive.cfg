SPECIFICATION FairSpec
CONSTANTS
  Servers = {s1}
  Budgets <- LiveBudgets
PROPERTIES
  ImplementsObligation
  EverythingReturned
CHECK_DEADLOCK FALSE
