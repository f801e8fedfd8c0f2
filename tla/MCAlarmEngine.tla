--------------------------- MODULE MCAlarmEngine ---------------------------
(* A template with both levels, on a metric whose samples are fine (0),      *)
(* above the warning threshold (1) or above the critical one (2).            *)
EXTENDS AlarmEngine

MCRule == {"crit", "warn"}
MCParent == [r \in MCRule |-> IF r = "warn" THEN "crit" ELSE NoRule]
MCOp == [r \in MCRule |-> ">"]
MCThreshold == [r \in MCRule |-> IF r = "warn" THEN 0 ELSE 1]
MCForDuration == [r \in MCRule |-> IF r = "warn" THEN 2 ELSE 1]
MCWindows == {[start |-> 3, end |-> 4]}
=============================================================================
