---------------------------- MODULE MCBuildMatch ----------------------------
(* A contract of two milestones, the second behind a reboot of the guest. *)
EXTENDS BuildMatch

MCIds == <<1, 2>>
MCContract == <<"service", "durability">>
MCDependsOn == [m \in Milestone |-> IF m = "durability" THEN {"service"} ELSE {}]
MCPoints == [m \in Milestone |-> IF m = "durability" THEN 2 ELSE 1]
=============================================================================
