-------------------------- MODULE RadioObligation --------------------------
(***************************************************************************)
(* What a backup promises about the radios of the head unit: it borrows    *)
(* them under a durable debt, they are away from the operator's settings   *)
(* only while the debt is recorded, and the debt is written off only when  *)
(* they are back.                                                          *)
(***************************************************************************)
VARIABLES
  owed,  \* a debt is recorded
  away   \* a radio is not as the operator left it

Init == owed = FALSE /\ away = FALSE

Borrow == ~ owed /\ owed' = TRUE /\ UNCHANGED away

Change == owed /\ away' = ~ away /\ UNCHANGED owed

Repay == owed /\ ~ away /\ owed' = FALSE /\ UNCHANGED away

Next == Borrow \/ Change \/ Repay

Spec == Init /\ [][Next]_<<owed, away>>
=============================================================================
