----------------------------- MODULE UsageLedger -----------------------------
(***************************************************************************)
(* One agent's usage account: usage_seen and the usage_charged events of   *)
(* crates/controller/src/runner.rs on one side, the counters apply_usage   *)
(* adds up in crates/replay/src/reducer.rs on the other.  An agent reports *)
(* cumulative usage any number of times: checkpoints while it runs and one *)
(* result at the end; a report may lag behind an earlier one and may leave *)
(* tokens or cost out.                                                     *)
(***************************************************************************)
EXTENDS UsageDelta, FiniteSets

CONSTANT MaxUsage    \* bound on every reported counter

ASSUME UsageConstants == MaxUsage \in Nat /\ None \notin Nat

VARIABLES
  seen,      \* usage_seen[agent]
  account,   \* the counters of the agent's AgentView
  reports,   \* every report made so far
  final      \* whether the result has been recorded

vars == <<seen, account, reports, final>>

Counter == 0..MaxUsage
Report == [units : Counter, tokens : Counter \cup {None}, cost : Counter \cup {None}]

Init ==
  /\ seen = NoUsage
  /\ account = [units |-> 0, tokens |-> 0, cost |-> 0, costComplete |-> None]
  /\ reports = {}
  /\ final = FALSE

Reported(report) ==
  /\ seen' = Seen(seen, report)
  /\ reports' = reports \cup {report}

(* record_build_usage_checkpoints: an increment of nothing is not charged. *)
Checkpoint(report) ==
  /\ Reported(report)
  /\ account' = IF IsEmpty(Delta(seen, report)) THEN account
                ELSE Charged(account, Delta(seen, report))
  /\ UNCHANGED final

(* record_build_agent_results charges whatever the increment is. *)
Result(report) ==
  /\ ~final
  /\ Reported(report)
  /\ account' = Charged(account, Delta(seen, report))
  /\ final' = TRUE

Next == \E report \in Report : Checkpoint(report) \/ Result(report)

Spec == Init /\ [][Next]_vars

-----------------------------------------------------------------------------
(* n is the largest value in S, or 0 when S has none: what was reported of *)
(* one counter.                                                            *)
IsLargest(n, S) == (\A k \in S : k <= n) /\ (n \in S \/ (n = 0 /\ S = {}))

(* The charges add up to the largest value ever reported of each counter,  *)
(* one by one: overlapping, repeated and late reports are charged once,    *)
(* and a report that omits a counter does not reset it.                    *)
ChargesAreLargest ==
  /\ IsLargest(account.units, {r.units : r \in reports})
  /\ IsLargest(account.tokens, {r.tokens : r \in {x \in reports : x.tokens # None}})
  /\ IsLargest(account.cost, {r.cost : r \in {x \in reports : x.cost # None}})
=============================================================================
