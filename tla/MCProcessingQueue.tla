------------------------- MODULE MCProcessingQueue -------------------------
(***************************************************************************)
(* Instances of ProcessingQueue for TLC. Each alternative of a run's       *)
(* budgets is chosen so that the hazards it is about can meet.             *)
(***************************************************************************)
EXTENDS ProcessingQueue

Spending(events) == [e \in Events |-> IF e \in DOMAIN events THEN events[e] ELSE 0]

MCOneRecording == {1}

SafetyBudgets ==
  {Spending([force |-> 1, lost |-> 1, silence |-> 1, crash |-> 1, retry |-> 1]),
   Spending([cancel |-> 1, force |-> 1, retry |-> 1, silence |-> 1]),
   Spending([reset |-> 1, policy |-> 1, shutdown |-> 1, linger |-> 1, retry |-> 1]),
   Spending([reset |-> 1, cancel |-> 1, silence |-> 1, pause |-> 1])}

LiveBudgets ==
  {Spending([force |-> 1, lost |-> 1, raise |-> 1, crash |-> 1]),
   Spending([reset |-> 1, silence |-> 1, force |-> 1]),
   Spending([reset |-> 1, linger |-> 1, crash |-> 1])}
=============================================================================
