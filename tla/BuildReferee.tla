---------------------------- MODULE BuildReferee ----------------------------
(***************************************************************************)
(* The referee of a build race (crates/referee/src/build.rs): it owns the  *)
(* match state, each competitor's passed milestones, points and durable    *)
(* time, and the outcome.  Every public method of BuildReferee is one      *)
(* action; a method that returns Err is the same action taking a refusing  *)
(* disjunct.  emitted is the Vec<EventEnvelope> the last call returned     *)
(* (every envelope of it carries elapsed_ms = lastTime, and its i-th one   *)
(* the number sequence - Len(emitted) + i - 1); reply is "ok" or the       *)
(* RefereeError of that call.                                              *)
(***************************************************************************)
EXTENDS Integers, Sequences, FiniteSets, FiniteSetsExt

CONSTANTS
  Ids,                 \* the competing territories' ids, sorted; a number
                       \* stands for an id and compares as the id does
  Named,               \* names a caller may pass: Territory and unknown ones
  Milestone,           \* milestone ids of the build contract
  Completion,          \* completion_milestone
  StopOnFirstDurable,  \* stop_on_first_durable
  Points,              \* Points[m]: what the contract pays for milestone m
  MaxPoints,           \* u64::MAX, where the points counter saturates
  MaxTime,             \* bound on elapsed_ms
  MaxEvents,           \* bound on sequence, so that TLC's graph is finite
  None                 \* Option::None

Territory == {Ids[i] : i \in 1..Len(Ids)}

ASSUME RefereeConstants ==
  /\ Ids \in Seq(Nat)
  /\ \A i, j \in 1..Len(Ids) : i < j => Ids[i] < Ids[j]
  /\ Territory \subseteq Named
  /\ Completion \in Milestone /\ IsFiniteSet(Milestone)
  /\ StopOnFirstDurable \in BOOLEAN
  /\ MaxPoints \in Nat /\ Points \in [Milestone -> 0..MaxPoints]
  /\ MaxTime \in Nat /\ MaxEvents \in Nat
  /\ None \notin Nat

VARIABLES
  matchState,   \* match_state
  competitors,  \* competitors[t]: CompetitorRecord
  sequence,     \* number of the next envelope
  lastTime,     \* last_time_ms
  outcome,      \* None, or [winner |-> a territory or None]
  emitted,      \* events returned by the last call
  reply         \* "ok" or the error of the last call

vars == <<matchState, competitors, sequence, lastTime, outcome, emitted, reply>>

MatchStates == {"preparing", "running", "finished", "aborted"}
Replies == {"ok", "match_not_running", "time_moved_backward", "unknown_territory"}
CompetitorRecord ==
  [ state     : {"preparing", "building", "verifying", "durable"},
    passed    : SUBSET Milestone,
    points    : 0..MaxPoints,
    durableAt : Nat \cup {None} ]
Outcome == [winner : Territory \cup {None}]

(* Mutant: points that do not saturate. *)
PlainAdd(a, b) == a + b

SaturatingAdd(a, b) == IF a + b <= MaxPoints THEN a + b ELSE MaxPoints

Init ==
  /\ matchState = "preparing"
  /\ competitors = [t \in Territory |->
       [state |-> "preparing", passed |-> {}, points |-> 0, durableAt |-> None]]
  /\ sequence = 0
  /\ lastTime = 0
  /\ outcome = None
  /\ emitted = <<>>
  /\ reply = "ok"

-----------------------------------------------------------------------------
(* The events a call returns. *)
MatchStateChanged(from, to) == [kind |-> "match_state_changed", from |-> from, to |-> to]
CompetitorStateChanged(t, from, to) ==
  [kind |-> "competitor_state_changed", territory |-> t, from |-> from, to |-> to]
EvaluationStarted(t, m) ==
  [kind |-> "milestone_evaluation_started", territory |-> t, milestone |-> m]
MilestonePassed(t, m, points) ==
  [kind |-> "milestone_passed", territory |-> t, milestone |-> m, points |-> points]
MilestoneFailed(t, m) == [kind |-> "milestone_failed", territory |-> t, milestone |-> m]
DurableCompleted(t, time) ==
  [kind |-> "durable_deployment_completed", territory |-> t, elapsed |-> time]
MatchFinished(w) == [kind |-> "match_finished", winner |-> w]

Emit(events, time) ==
  /\ emitted' = events
  /\ sequence' = sequence + Len(events)
  /\ lastTime' = time
  /\ reply' = "ok"

-----------------------------------------------------------------------------
(* finish_inner sorts the standings and names the leader unless the        *)
(* runner-up has the same durable time, points and passed count.           *)
Passed(c, t) == Cardinality(c[t].passed)

Tied(c, t, u) ==
  /\ c[t].durableAt = c[u].durableAt
  /\ c[t].points = c[u].points
  /\ Passed(c, t) = Passed(c, u)

(* Mutant: the key is the Option itself, and None sorts first. *)
NoneFirst(c, t, u) ==
  \/ c[t].durableAt = None /\ c[u].durableAt # None
  \/ Tied(c, t, u) /\ t < u

SortsBefore(c, t, u) ==
  \/ c[t].durableAt # None /\ c[u].durableAt = None
  \/ /\ c[t].durableAt # None /\ c[u].durableAt # None
     /\ c[t].durableAt < c[u].durableAt
  \/ /\ c[t].durableAt = c[u].durableAt
     /\ c[t].points > c[u].points
  \/ /\ c[t].durableAt = c[u].durableAt
     /\ c[t].points = c[u].points
     /\ Passed(c, t) > Passed(c, u)
  \/ Tied(c, t, u) /\ t < u

FirstOf(c, t, S) == t \in S /\ \A u \in S \ {t} : SortsBefore(c, t, u)

(* Mutant: the leader wins, tied or not. *)
LeaderWins(c) == CHOOSE t \in Territory : FirstOf(c, t, Territory)

Winner(c) ==
  LET clear == {t \in Territory :
                  /\ FirstOf(c, t, Territory)
                  /\ \A u \in Territory \ {t} :
                       FirstOf(c, u, Territory \ {t}) => ~Tied(c, t, u)}
  IN IF clear = {} THEN None ELSE CHOOSE t \in clear : TRUE

FinishEvents(w) == <<MatchStateChanged("running", "finished"), MatchFinished(w)>>

-----------------------------------------------------------------------------
(* Mutant: ensure_running is forgotten. *)
AcceptsAnytime(time) == time >= lastTime

(* ensure_running, then ensure_time: neither changes anything on refusal.  *)
Accepts(time) == matchState = "running" /\ time >= lastTime

Refused(time) ==
  /\ ~Accepts(time)
  /\ reply' = IF matchState # "running" THEN "match_not_running"
                                       ELSE "time_moved_backward"
  /\ emitted' = <<>>
  /\ UNCHANGED <<matchState, competitors, sequence, lastTime, outcome>>

(* The territory is looked up after ensure_time moved the clock. *)
UnknownTerritory(t, time) ==
  /\ Accepts(time)
  /\ t \notin Territory
  /\ reply' = "unknown_territory"
  /\ emitted' = <<>>
  /\ lastTime' = time
  /\ UNCHANGED <<matchState, competitors, sequence, outcome>>

Start ==
  \/ /\ matchState # "preparing"
     /\ reply' = "match_not_running"
     /\ emitted' = <<>>
     /\ UNCHANGED <<matchState, competitors, sequence, lastTime, outcome>>
  \/ /\ matchState = "preparing"
     /\ matchState' = "running"
     /\ competitors' = [t \in Territory |-> [competitors[t] EXCEPT !.state = "building"]]
     /\ Emit(<<MatchStateChanged("preparing", "running")>> \o
             [i \in 1..Len(Ids) |->
                CompetitorStateChanged(Ids[i], "preparing", "building")], lastTime)
     /\ UNCHANGED outcome

(* record only ensures time: it is accepted before and after the match. *)
Record(events, time) ==
  \/ /\ time < lastTime
     /\ reply' = "time_moved_backward"
     /\ emitted' = <<>>
     /\ UNCHANGED <<matchState, competitors, sequence, lastTime, outcome>>
  \/ /\ time >= lastTime
     /\ Emit(events, time)
     /\ UNCHANGED <<matchState, competitors, outcome>>

BeginMilestone(t, m, time) ==
  \/ Refused(time)
  \/ UnknownTerritory(t, time)
  \/ /\ Accepts(time)
     /\ t \in Territory
     /\ LET building == competitors[t].state = "building" IN
        /\ competitors' = IF building
                          THEN [competitors EXCEPT ![t].state = "verifying"]
                          ELSE competitors
        /\ Emit((IF building
                 THEN <<CompetitorStateChanged(t, "building", "verifying")>>
                 ELSE <<>>) \o <<EvaluationStarted(t, m)>>, time)
     /\ UNCHANGED <<matchState, outcome>>

(* Mutant: every milestone sets the durable time. *)
CreditEarly(record, m, points, time) ==
  [ state     |-> IF m = Completion THEN "durable" ELSE record.state,
    passed    |-> record.passed \cup {m},
    points    |-> SaturatingAdd(record.points, points),
    durableAt |-> time ]

(* What a newly passed milestone makes of a competitor's record. *)
Credit(record, m, points, time) ==
  [ state     |-> IF m = Completion THEN "durable" ELSE record.state,
    passed    |-> record.passed \cup {m},
    points    |-> SaturatingAdd(record.points, points),
    durableAt |-> IF m = Completion THEN time ELSE record.durableAt ]

PassMilestone(t, m, points, time) ==
  \/ Refused(time)
  \/ UnknownTerritory(t, time)
  \/ /\ Accepts(time)                    \* already passed: nothing to say
     /\ t \in Territory
     /\ m \in competitors[t].passed
     /\ Emit(<<>>, time)
     /\ UNCHANGED <<matchState, competitors, outcome>>
  \/ /\ Accepts(time)
     /\ t \in Territory
     /\ m \notin competitors[t].passed
     /\ LET after   == [competitors EXCEPT ![t] = Credit(@, m, points, time)]
            ends    == m = Completion /\ StopOnFirstDurable
            durable == IF m = Completion
                       THEN <<CompetitorStateChanged(t, "verifying", "durable"),
                              DurableCompleted(t, time)>>
                       ELSE <<>>
        IN /\ competitors' = after
           /\ matchState' = IF ends THEN "finished" ELSE matchState
           /\ outcome' = IF ends THEN [winner |-> Winner(after)] ELSE outcome
           /\ Emit(<<MilestonePassed(t, m, points)>> \o durable \o
                   (IF ends THEN FinishEvents(Winner(after)) ELSE <<>>), time)

FailMilestone(t, m, time) ==
  \/ Refused(time)
  \/ UnknownTerritory(t, time)
  \/ /\ Accepts(time)
     /\ t \in Territory
     /\ Emit(<<MilestoneFailed(t, m)>>, time)
     /\ UNCHANGED <<matchState, competitors, outcome>>

Finish(time) ==
  \/ Refused(time)
  \/ /\ Accepts(time)
     /\ matchState' = "finished"
     /\ outcome' = [winner |-> Winner(competitors)]
     /\ Emit(FinishEvents(Winner(competitors)), time)
     /\ UNCHANGED competitors

(* abort leaves outcome at None. *)
Abort(time) ==
  \/ Refused(time)
  \/ /\ Accepts(time)
     /\ matchState' = "aborted"
     /\ Emit(<<MatchStateChanged("running", "aborted"), MatchFinished(None)>>, time)
     /\ UNCHANGED <<competitors, outcome>>

(* Any caller, any order: events recorded for others stand as one kind. *)
Next ==
  /\ sequence < MaxEvents
  /\ \/ Start
     \/ \E time \in 0..MaxTime :
          \/ Record(<<[kind |-> "recorded"]>>, time)
          \/ Finish(time)
          \/ Abort(time)
          \/ \E t \in Named, m \in Milestone :
               \/ BeginMilestone(t, m, time)
               \/ PassMilestone(t, m, Points[m], time)
               \/ FailMilestone(t, m, time)

Spec == Init /\ [][Next]_vars

-----------------------------------------------------------------------------
(* Type invariant: the fields of BuildReferee keep their Rust types. *)
TypeOK ==
  /\ matchState \in MatchStates
  /\ competitors \in [Territory -> CompetitorRecord]
  /\ sequence \in Nat
  /\ lastTime \in Nat
  /\ outcome \in Outcome \cup {None}
  /\ reply \in Replies

(* A competitor is durable, has a durable time, and has passed the         *)
(* completion milestone all at once: three fields pass_milestone writes    *)
(* at different places never disagree, and no durable time lies ahead.     *)
DurableAgrees ==
  \A t \in Territory :
    LET c == competitors[t] IN
    /\ (c.state = "durable") <=> (Completion \in c.passed)
    /\ (c.durableAt # None) <=> (Completion \in c.passed)
    /\ c.durableAt # None => c.durableAt <= lastTime

(* When the contract stops at the first durable deployment, the first      *)
(* competitor to become durable wins, alone: pass_milestone ends the match *)
(* in the same call and the sort of finish_inner can name nobody else.     *)
FirstDurableWins ==
  StopOnFirstDurable =>
    \A t \in Territory :
      competitors[t].state = "durable" =>
        /\ matchState = "finished" /\ outcome = [winner |-> t]
        /\ \A u \in Territory : competitors[u].state = "durable" => u = t

(* Reference for the ranking, without a sort and as far as SPEC.md agrees  *)
(* with the code: t's result is better than u's by its durable time, else  *)
(* by its points, else by how many milestones it passed.                   *)
Better(c, t, u) ==
  LET early(x, y) == x # None /\ (y = None \/ x < y) IN
  \/ early(c[t].durableAt, c[u].durableAt)
  \/ /\ ~early(c[u].durableAt, c[t].durableAt)
     /\ \/ c[t].points > c[u].points
        \/ /\ c[t].points = c[u].points
           /\ Passed(c, t) > Passed(c, u)

(* The winner finish_inner reads off the sorted standings: whoever is      *)
(* better than every rival wins, nobody wins whom a rival beats, and of    *)
(* those that finished none is crowned beside an equal; comparing with the *)
(* runner-up only, and sorting ties by id, is enough for all three.  Equal *)
(* competitors that did not finish are left out: the code names no winner, *)
(* SPEC.md:169-175 goes on to stage times, cost and tokens.                *)
WinnerBeatsEveryRival ==
  outcome # None =>
    \A t \in Territory :
      LET better(u) == Better(competitors, t, u)
      IN /\ (\A u \in Territory \ {t} : better(u)) => outcome.winner = t
         /\ outcome.winner = t =>
              \A u \in Territory \ {t} :
                /\ ~Better(competitors, u, t)
                /\ competitors[t].durableAt # None => better(u)

(* Once the match is finished or aborted no call changes the standings,    *)
(* the outcome or the match state, whatever is still recorded.             *)
FrozenAfterEnd ==
  [][(matchState \in {"finished", "aborted"}) =>
       UNCHANGED <<matchState, competitors, outcome>>]_vars

=============================================================================
