---------------------------- MODULE WorldReducer ----------------------------
(***************************************************************************)
(* The event reducer (crates/replay/src/reducer.rs): the WorldState that   *)
(* live rendering, replay and reports derive from the events, and that the *)
(* runner itself reads back to decide which milestones are eligible.       *)
(* Maps are functions on the keys present; entry(k).or_default() is Entry. *)
(* Wording (details, reasons, evidence) is left out; points saturate at    *)
(* u64::MAX, and that other counters do so too is left out.                *)
(***************************************************************************)
EXTENDS Integers, Sequences, UsageDelta

CONSTANT MaxPoints   \* u64::MAX, where a territory's points saturate

DefaultMilestone == [evaluating |-> FALSE, passed |-> FALSE, points |-> 0, failed |-> FALSE]

DefaultTerritory ==
  [ agent      |-> None,          state     |-> "provisioning",
    resources  |-> 0,             healthy   |-> None,
    eliminated |-> None,          \* elimination_source
    competitor |-> None,          milestones |-> <<>>,
    points     |-> 0,             durableAt |-> None ]

DefaultAgent ==
  [ territory |-> None,  running  |-> FALSE,  successful |-> None,
    source    |-> None,  terminal |-> None,
    units     |-> 0,     tokens   |-> 0,      cost |-> 0,
    costComplete |-> None ]

DefaultWorld ==
  [ match    |-> "preparing",  territories |-> <<>>,  agents |-> <<>>,
    winner   |-> None,         infrastructureFailures |-> 0,
    lastSequence |-> None,     elapsed |-> 0 ]

Entry(map, key, default) == IF key \in DOMAIN map THEN map[key] ELSE default
Put(map, key, value) ==
  [k \in DOMAIN map \cup {key} |-> IF k = key THEN value ELSE map[k]]

TerritoryOf(w, t) == Entry(w.territories, t, DefaultTerritory)
MilestoneOf(view, m) == Entry(view.milestones, m, DefaultMilestone)
AgentOf(w, a) == Entry(w.agents, a, DefaultAgent)

SetTerritory(w, t, view) == [w EXCEPT !.territories = Put(@, t, view)]
SetMilestone(view, m, milestone) == [view EXCEPT !.milestones = Put(@, m, milestone)]
SetAgent(w, a, view) == [w EXCEPT !.agents = Put(@, a, view)]

(* How an agent stopped: the four terminal events differ only in these.    *)
Stopped(w, a, successful, source, terminal) ==
  SetAgent(w, a, [AgentOf(w, a) EXCEPT !.running = FALSE, !.successful = successful,
                                       !.source = source, !.terminal = terminal])

PassedFor(points) == [evaluating |-> FALSE, passed |-> TRUE, points |-> points, failed |-> FALSE]

AddPoints(a, b) == IF a + b <= MaxPoints THEN a + b ELSE MaxPoints

(* Mutant: the points of the last milestone replace the others. *)
PassReplacing(w, t, m, points) ==
  SetTerritory(w, t, [SetMilestone(TerritoryOf(w, t), m, PassedFor(points))
                        EXCEPT !.points = points])

(* Points are added for a milestone not passed before and taken back for a *)
(* passed one that is revoked.                                             *)
Pass(w, t, m, points) ==
  LET view == TerritoryOf(w, t)
      total == IF MilestoneOf(view, m).passed THEN view.points
               ELSE AddPoints(view.points, points)
  IN SetTerritory(w, t, [SetMilestone(view, m, PassedFor(points)) EXCEPT !.points = total])

StartEvaluation(w, t, m) ==
  LET view == TerritoryOf(w, t) IN
  SetTerritory(w, t, SetMilestone(view, m, [MilestoneOf(view, m) EXCEPT !.evaluating = TRUE]))

Fail(w, t, m) ==
  LET view == TerritoryOf(w, t) IN
  SetTerritory(w, t, SetMilestone(view, m,
    [MilestoneOf(view, m) EXCEPT !.evaluating = FALSE, !.failed = TRUE]))

Revoke(w, t, m) ==
  LET view == TerritoryOf(w, t)
      old == MilestoneOf(view, m)
      total == IF ~old.passed THEN view.points
               ELSE IF view.points >= old.points THEN view.points - old.points ELSE 0
  IN SetTerritory(w, t,
       [SetMilestone(view, m, [old EXCEPT !.evaluating = FALSE, !.passed = FALSE])
          EXCEPT !.points = total])

ApplyUsage(w, a, charge) == SetAgent(w, a, Charged(AgentOf(w, a), charge))

Apply(w, e) ==
  CASE e.kind = "territory_registered" ->
         SetTerritory(w, e.territory, [TerritoryOf(w, e.territory) EXCEPT !.agent = e.agent])
    [] e.kind = "match_state_changed" -> [w EXCEPT !.match = e.to]
    [] e.kind = "territory_state_changed" ->
         SetTerritory(w, e.territory, [TerritoryOf(w, e.territory) EXCEPT !.state = e.to])
    [] e.kind = "health_observed" ->
         SetTerritory(w, e.territory, [TerritoryOf(w, e.territory) EXCEPT !.healthy = e.healthy])
    [] e.kind = "agent_started" ->
         SetAgent(w, e.agent,
                  [DefaultAgent EXCEPT !.territory = e.territory, !.running = TRUE])
    [] e.kind = "agent_finished" ->
         Stopped(w, e.agent, e.success, e.source,
                 IF e.success THEN "completed" ELSE "failed")
    [] e.kind = "agent_interrupted" -> Stopped(w, e.agent, None, e.source, "interrupted")
    [] e.kind = "agent_terminated" -> Stopped(w, e.agent, None, "controller", "terminated")
    [] e.kind = "agent_outraced" -> Stopped(w, e.agent, FALSE, "player", "incomplete")
    [] e.kind = "usage_charged" -> ApplyUsage(w, e.agent, e.charge)
    [] e.kind \in {"drain_started", "drain_finished"} -> w
    [] e.kind = "competitor_state_changed" ->
         SetTerritory(w, e.territory, [TerritoryOf(w, e.territory) EXCEPT !.competitor = e.to])
    [] e.kind = "milestone_evaluation_started" -> StartEvaluation(w, e.territory, e.milestone)
    [] e.kind = "milestone_passed" -> Pass(w, e.territory, e.milestone, e.points)
    [] e.kind = "milestone_failed" -> Fail(w, e.territory, e.milestone)
    [] e.kind = "milestone_revoked" -> Revoke(w, e.territory, e.milestone)
    [] e.kind = "durable_deployment_completed" ->
         SetTerritory(w, e.territory,
           [TerritoryOf(w, e.territory) EXCEPT !.competitor = "durable",
                                               !.durableAt = e.elapsed])
    [] e.kind = "resources_changed" ->
         SetTerritory(w, e.territory,
           [TerritoryOf(w, e.territory) EXCEPT !.resources = e.remaining])
    [] e.kind = "territory_eliminated" ->
         SetTerritory(w, e.territory,
           [TerritoryOf(w, e.territory) EXCEPT !.state = "eliminated",
                                               !.eliminated = e.source])
    [] e.kind = "infrastructure_failure" ->
         [w EXCEPT !.infrastructureFailures = @ + 1]
    [] e.kind = "match_finished" ->
         [w EXCEPT !.winner = e.winner,
                   !.match = IF @ = "aborted" THEN @ ELSE "finished"]

ApplyAll(w, events) ==
  LET after[i \in 0..Len(events)] == IF i = 0 THEN w ELSE Apply(after[i - 1], events[i])
  IN after[Len(events)]

(* reduce over the events one call returned: they share elapsed_ms and are *)
(* numbered up to next - 1.                                                *)
Reduce(w, events, next, time) ==
  IF events = <<>> THEN w
  ELSE [ApplyAll(w, events) EXCEPT !.lastSequence = next - 1, !.elapsed = time]
=============================================================================
