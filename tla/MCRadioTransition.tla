------------------------- MODULE MCRadioTransition -------------------------
(***************************************************************************)
(* Instances of RadioTransition for TLC. Each alternative of a run's       *)
(* budgets is a mix of faults that can meet.                               *)
(***************************************************************************)
EXTENDS RadioTransition, TLC

Spending(events) == [e \in Events |-> IF e \in DOMAIN events THEN events[e] ELSE 0]

\* One backup among the faults of servers, unit and network; two backups around a
\* crash; and owners that outlive their leases.
SafetyBudgets ==
  {Spending([begin |-> 1, crash |-> 1, stall |-> 1, sleep |-> 1, cut |-> 1]),
   Spending([begin |-> 1, crash |-> 1, refuse |-> 1, reboot |-> 1]),
   Spending([begin |-> 1, sleep |-> 1, refuse |-> 1, cut |-> 1]),
   Spending([begin |-> 2, crash |-> 1]),
   Spending([begin |-> 1, stall |-> 2, halt |-> 1, wdfail |-> 1])}

LiveBudgets == {Spending([begin |-> 1, crash |-> 1, sleep |-> 1, refuse |-> 1])}

Interchangeable == Permutations(Servers)

\* What an idle process remembers is overwritten before it is read again.
Observable ==
  <<rows, pc, radio, rearm, watchdog, logger, capsules, awake, reports, home, spent,
    [s \in Servers |-> IF pc[s] = "idle" THEN <<>> ELSE <<mine[s], mem[s]>>]>>
=============================================================================
