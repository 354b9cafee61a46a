--------------------------- MODULE MCConquestMatch ---------------------------
(* Three territories; thresholds, window and timer short enough that one   *)
(* match holds a recovery, a failed recovery and several eliminations.     *)
EXTENDS ConquestMatch

MCIds == <<1, 2, 3>>
MCUnits == [t \in Territory |-> IF t = 1 THEN 1 ELSE 0]
=============================================================================
