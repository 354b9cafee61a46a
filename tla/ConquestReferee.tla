--------------------------- MODULE ConquestReferee ---------------------------
(***************************************************************************)
(* The referee of a match without a build contract                         *)
(* (crates/referee/src/rules.rs), as functions on its state: health        *)
(* observations degrade, recover or eliminate a territory, ticks pay the   *)
(* healthy ones, and the last territory standing or the best at the timer  *)
(* wins.  emitted is what the last call returned; the numbers of the       *)
(* envelopes are left out, and so is saturation at u64.                    *)
(***************************************************************************)
EXTENDS Integers, Sequences, FiniteSets

CONSTANTS
  Ids,          \* the territories' ids in sorted order, as numbers
  Threshold,    \* health.consecutive_failures, at least 1
  Window,       \* health.recovery_window_seconds in ticks, at least 1
  Duration,     \* rules.duration_seconds in ticks
  Bonus,        \* rules.healthy_resources_per_tick
  Budget,       \* budget.resource_units of the agents
  None

Territory == {Ids[i] : i \in 1..Len(Ids)}

ASSUME ConquestConstants ==
  /\ Ids \in Seq(Nat) /\ Len(Ids) >= 2
  /\ \A i, j \in 1..Len(Ids) : i < j => Ids[i] < Ids[j]
  /\ Threshold \in Nat \ {0} /\ Window \in Nat \ {0}
  /\ Duration \in Nat \ {0} /\ Bonus \in Nat /\ Budget \in Nat

(* An Option that is Some is neither a number, an outcome nor a name.      *)
ASSUME NoneIsNothing ==
  /\ None \notin Nat
  /\ \A w \in Territory \cup {None} : [winner |-> w] # None

Fresh ==
  [ match |-> "preparing",
    territories |-> [t \in Territory |->
      [ state |-> "provisioning", failures |-> 0, recoveries |-> 0, deadline |-> None,
        accounted |-> 0, degraded |-> 0, uptime |-> 0, resources |-> Budget ]],
    lastTime |-> 0, outcome |-> None, emitted |-> <<>>, reply |-> "ok" ]

Down(record) == record.state \in {"degraded", "recovering"}
Active(territories) == {t \in Territory : territories[t].state # "eliminated"}

TerritoryStateChanged(t, from, to) ==
  [kind |-> "territory_state_changed", territory |-> t, from |-> from, to |-> to]
TerritoryEliminated(t) == [kind |-> "territory_eliminated", territory |-> t]
MatchFinished(w) == [kind |-> "match_finished", winner |-> w]
ResourcesChanged(t) == [kind |-> "resources_changed", territory |-> t]

-----------------------------------------------------------------------------
(* ensure_time alone, and ensure_running before it. *)
Timed(r, time, after) ==
  IF time < r.lastTime THEN [r EXCEPT !.emitted = <<>>, !.reply = "time_moved_backward"]
  ELSE after

Checked(r, time, after) ==
  IF r.match # "running" THEN [r EXCEPT !.emitted = <<>>, !.reply = "match_not_running"]
  ELSE Timed(r, time, after)

(* The state in which an accepted call begins. *)
Enter(r, time) == [r EXCEPT !.lastTime = time, !.emitted = <<>>, !.reply = "ok"]

(* Mutant: the time a territory was healthy is left to be accounted. *)
AccountDown(record, time) ==
  IF Down(record)
  THEN [record EXCEPT !.degraded = @ + (time - record.accounted), !.accounted = time]
  ELSE record

Account(record, time) ==
  [record EXCEPT !.degraded = IF Down(record) THEN @ + (time - record.accounted) ELSE @,
                 !.accounted = time]

-----------------------------------------------------------------------------
(* finish: the sort key, field by field, and the leader unless the runner- *)
(* up ties with it in state too.                                           *)
Tied(c, t, u) ==
  /\ c[t].state = c[u].state
  /\ c[t].uptime = c[u].uptime
  /\ c[t].resources = c[u].resources
  /\ c[t].degraded = c[u].degraded

(* Mutant: downtime counts for the leader. *)
KeyByDowntime(c, t) ==
  << IF c[t].state = "eliminated" THEN 1 ELSE 0,
     -c[t].uptime, -c[t].resources, -c[t].degraded, t >>

Key(c, t) ==
  << IF c[t].state = "eliminated" THEN 1 ELSE 0,
     -c[t].uptime, -c[t].resources, c[t].degraded, t >>

SortsBefore(c, t, u) ==
  \E i \in 1..5 : /\ Key(c, t)[i] < Key(c, u)[i]
                  /\ \A j \in 1..i - 1 : Key(c, t)[j] = Key(c, u)[j]

FirstOf(c, S) == CHOOSE t \in S : \A u \in S \ {t} : SortsBefore(c, t, u)

Winner(c) ==
  LET leader == FirstOf(c, Territory)
      runnerUp == FirstOf(c, Territory \ {leader})
  IN IF c[leader].state = "eliminated" \/ Tied(c, leader, runnerUp) THEN None ELSE leader

Finish(r, time) ==
  LET c == [t \in Territory |-> Account(r.territories[t], time)] IN
  [r EXCEPT !.territories = c, !.match = "finished",
            !.outcome = [winner |-> Winner(c)],
            !.emitted = @ \o <<[kind |-> "match_state_changed"], MatchFinished(Winner(c))>>]

LastStanding(territories) == Cardinality(Active(territories)) <= 1

Fallen(record, time) ==
  [Account(record, time) EXCEPT !.state = "eliminated", !.deadline = None]

Eliminate(r, t, time) ==
  LET c == [r.territories EXCEPT ![t] = Fallen(@, time)]
      out == [r EXCEPT !.territories = c,
                !.emitted = @ \o <<TerritoryStateChanged(t, r.territories[t].state, "eliminated"),
                                   TerritoryEliminated(t)>>]
  IN IF LastStanding(c) THEN Finish(out, time) ELSE out

-----------------------------------------------------------------------------
Start(r) ==
  IF r.match # "preparing" THEN [r EXCEPT !.emitted = <<>>, !.reply = "match_not_running"]
  ELSE [r EXCEPT !.match = "running",
         !.territories = [t \in Territory |-> [@[t] EXCEPT !.state = "healthy"]],
         !.emitted = <<[kind |-> "match_state_changed"]>> \o
           [i \in 1..Len(Ids) |-> TerritoryStateChanged(Ids[i], "provisioning", "healthy")],
         !.reply = "ok"]

(* Mutant: a failed recovery opens a new window. *)
SickAgain(record, time) ==
  LET failures == IF record.state = "healthy" THEN record.failures + 1 ELSE record.failures
      falls == record.state = "recovering"
               \/ (record.state = "healthy" /\ failures >= Threshold)
  IN [record EXCEPT !.recoveries = 0, !.failures = failures,
        !.state = IF falls THEN "degraded" ELSE @,
        !.deadline = IF falls THEN time + Window ELSE @]

(* A healthy and an unhealthy observation of a record that is neither      *)
(* eliminated nor expired.                                                 *)
Well(record) ==
  LET recoveries == record.recoveries + 1 IN
  IF ~Down(record) THEN [record EXCEPT !.failures = 0]
  ELSE IF recoveries >= Threshold
  THEN [record EXCEPT !.failures = 0, !.recoveries = 0, !.state = "healthy", !.deadline = None]
  ELSE [record EXCEPT !.failures = 0, !.recoveries = recoveries, !.state = "recovering"]

Sick(record, time) ==
  LET failures == IF record.state = "healthy" THEN record.failures + 1 ELSE record.failures
      falls == record.state = "healthy" /\ failures >= Threshold
  IN [record EXCEPT !.recoveries = 0, !.failures = failures,
        !.state = IF falls \/ @ = "recovering" THEN "degraded" ELSE @,
        !.deadline = IF falls THEN time + Window ELSE @]

(* Mutant: only a tick ends the recovery window. *)
NeverExpired(record, time) == FALSE

Expired(record, time) ==
  record.state # "healthy" /\ record.deadline # None /\ time >= record.deadline

Observe(r, t, healthy, time) ==
  LET c == [r.territories EXCEPT ![t] = Account(@, time)]
      seen == [Enter(r, time) EXCEPT !.territories = c,
                                     !.emitted = <<[kind |-> "health_observed"]>>]
      next == IF healthy THEN Well(c[t]) ELSE Sick(c[t], time)
  IN Checked(r, time,
       IF c[t].state = "eliminated" THEN seen
       ELSE IF Expired(c[t], time) THEN Eliminate(seen, t, time)
       ELSE [seen EXCEPT !.territories[t] = next,
               !.emitted = @ \o IF next.state = c[t].state THEN <<>>
                                ELSE <<TerritoryStateChanged(t, c[t].state, next.state)>>])

Paid(record) ==
  IF record.state = "healthy"
  THEN [record EXCEPT !.uptime = @ + 1, !.resources = @ + Bonus]
  ELSE record

Late(record, time) == Down(record) /\ record.deadline # None /\ time >= record.deadline

(* One tick goes through the territories in order. It pays a healthy one   *)
(* and eliminates one whose recovery window is over, even after an earlier *)
(* elimination of the same tick has finished the match.                    *)
TickOne(r, t, time) ==
  LET record == Account(r.territories[t], time)
      paid == [r EXCEPT
        !.territories[t] = Paid(record),
        !.emitted = IF record.state = "healthy" /\ Bonus > 0
                    THEN Append(@, ResourcesChanged(t)) ELSE @]
  IN IF Late(record, time) THEN Eliminate(paid, t, time) ELSE paid

Ticked(r, time) ==
  LET after[i \in 0..Len(Ids)] ==
        IF i = 0 THEN Enter(r, time) ELSE TickOne(after[i - 1], Ids[i], time)
  IN after[Len(Ids)]

Tick(r, time) ==
  LET ticked == Ticked(r, time) IN
  Checked(r, time,
    IF time >= Duration /\ ticked.match = "running" THEN Finish(ticked, time) ELSE ticked)

Spent(units, from) == IF from >= units THEN from - units ELSE 0

Charge(r, t, units, time) ==
  Checked(r, time,
    [Enter(r, time) EXCEPT !.territories[t].resources = Spent(units, @),
                           !.emitted = <<ResourcesChanged(t)>>])

(* record and infrastructure_failure. *)
Record(r, event, time) == Timed(r, time, [Enter(r, time) EXCEPT !.emitted = <<event>>])

Abort(r, time) ==
  Checked(r, time,
    [Enter(r, time) EXCEPT !.match = "aborted",
       !.emitted = <<[kind |-> "match_state_changed"], MatchFinished(None)>>])
=============================================================================
