---------------------------- MODULE MCObdTransfer ----------------------------
(* Instances of ObdTransfer: two drives; 1 and 2 are two exports of the same  *)
(* rows, 3 is an export with other rows, 4 does not pass validation.          *)
EXTENDS ObdTransfer

MCBundles == 1 .. 4
MCValid == 1 .. 3
MCPayload == <<10, 10, 30, 40>>
\* Beside any two events:
MCBudgets == {{"export", "fault", "cancel"}, {"export", "drop", "validate"},
              {"export", "validate", "restart"}, {"export", "validate", "rebuild"},
              {"damage", "fault", "cancel"}, {"damage", "cancel", "rebuild"},
              {"damage", "cancel", "validate", "restart"}}
=============================================================================
