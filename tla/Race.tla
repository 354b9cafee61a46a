-------------------------------- MODULE Race --------------------------------
(***************************************************************************)
(* What a build match promises whoever watches it: milestones are scored   *)
(* only while it runs, each after the ones it depends on; a match that     *)
(* stops at the first durable deployment ends in the very step that scores *)
(* the completion milestone and names that competitor; an aborted match    *)
(* has no winner; and the result, once there, is final.                    *)
(***************************************************************************)
CONSTANTS Competitor, Milestone, Completion, DependsOn, StopOnFirstDurable, None

VARIABLES
  phase,     \* "preparing", "running", "finished" or "aborted"
  scored,    \* scored[t]: the milestones credited to t
  champion   \* None until somebody wins

vars == <<phase, scored, champion>>

Init ==
  /\ phase = "preparing"
  /\ scored = [t \in Competitor |-> {}]
  /\ champion = None

Start == phase = "preparing" /\ phase' = "running" /\ UNCHANGED <<scored, champion>>

Score(t, m) ==
  /\ phase = "running"
  /\ m \notin scored[t]
  /\ DependsOn[m] \subseteq scored[t]
  /\ scored' = [scored EXCEPT ![t] = @ \cup {m}]
  /\ IF m = Completion /\ StopOnFirstDurable
     THEN phase' = "finished" /\ champion' = t
     ELSE UNCHANGED <<phase, champion>>

(* The timer expires: nobody is durable, or the match does not stop there. *)
Expire ==
  /\ phase = "running"
  /\ phase' = "finished"
  /\ champion' \in Competitor \cup {None}
  /\ UNCHANGED scored

Abort == phase = "running" /\ phase' = "aborted" /\ UNCHANGED <<scored, champion>>

Next ==
  \/ Start
  \/ \E t \in Competitor, m \in Milestone : Score(t, m)
  \/ Expire
  \/ Abort

Spec == Init /\ [][Next]_vars
=============================================================================
