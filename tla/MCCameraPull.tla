----------------------------- MODULE MCCameraPull -----------------------------
(* Small instances of CameraPull for TLC. *)
EXTENDS CameraPull

\* Contents 1 and 2 are of one size, 3 is longer.
MCSizeOf == [c \in Contents |-> IF c < 3 THEN 1 ELSE 2]

First == CHOOSE n \in Names : TRUE
Card(c, d) == [s \in Slots |-> IF s[2] = "pre" THEN 0
                               ELSE IF s[1] = First THEN c ELSE d]
MCCards == {Card(1, 0), Card(3, 0), Card(1, 3)}

MCBudgets == {{"write", "recycle", "power"}}
=============================================================================
