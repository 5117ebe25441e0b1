SPECIFICATION Spec
CONSTANTS
  Servers = {s1, s2}
  Budgets <- SafetyBudgets
INVARIANTS
  OneController
  DebtsRecorded
PROPERTIES
  ResumeAtHome
VIEW Observable
SYMMETRY Interchangeable
CHECK_DEADLOCK FALSE
