--------------------------- MODULE MCBuildReferee ---------------------------
(* A contract of two milestones; together they saturate the points. *)
EXTENDS BuildReferee

MCThree == <<1, 2, 3>>

MCMilestones == {"backup", "durability"}
MCPoints == [m \in MCMilestones |-> IF m = "durability" THEN 2 ELSE 1]
=============================================================================
