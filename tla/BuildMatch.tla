----------------------------- MODULE BuildMatch -----------------------------
(***************************************************************************)
(* One build race as the controller drives it (run_booted_build_match and  *)
(* drain_build_agents, crates/controller/src/runner.rs): the runner task,  *)
(* the agents, the milestone verifiers and the clock, around the referee   *)
(* of BuildReferee and the world its events reduce to (WorldReducer).      *)
(*                                                                         *)
(* Each agent is assigned one territory and goes by its number.  clock is  *)
(* started.elapsed() in ticks; it moves on while the runner sleeps and     *)
(* while it waits for verifiers.  Synchronous code between two awaits is   *)
(* one step.  The event log is left out here: an append is Reduce.         *)
(***************************************************************************)
EXTENDS Integers, Sequences, FiniteSets, FiniteSetsExt

CONSTANTS
  Ids,                 \* the territories, in manifest order
  Contract,            \* build.milestones: the milestone ids in order
  DependsOn,           \* DependsOn[m]: milestones m depends on
  Reboots,             \* milestones whose operation is host_reboot
  Completion, StopOnFirstDurable, Points, MaxPoints,
  Deadline,            \* rules.duration_seconds, in ticks
  Overrun,             \* bound on how long the last checks outlast it
  Status,              \* ways in which an agent may end
  MaxUnits,            \* bound on the resource units an agent spends
  CtrlC,               \* whether the operator may interrupt the match
  None

VARIABLES
  \* the referee
  matchState, competitors, sequence, lastTime, outcome, emitted, reply,
  \* the runner
  pc,          \* where the runner task is
  clock,       \* started.elapsed()
  world,       \* WorldState reduced from every event so far
  current,     \* index in Contract of the milestone being swept
  checks,      \* territories whose check of that milestone is pending
  seen,        \* usage_seen
  frozen,      \* frozen_elapsed_ms
  drain,       \* pending_agents and captured_agents
  \* the agents
  worker,      \* worker[a]: building, ended or killed; what it spent, and
               \* what its result told of that
  channel      \* agent_results

Milestone == {Contract[i] : i \in 1..Len(Contract)}
Territory == {Ids[i] : i \in 1..Len(Ids)}
MaxClock == Deadline + Overrun

Referee == INSTANCE BuildReferee
             WITH Named <- Territory, MaxTime <- MaxClock, MaxEvents <- 0
World == INSTANCE WorldReducer
Usage == INSTANCE UsageDelta

ASSUME MatchConstants ==
  /\ Ids \in Seq(Nat)
  /\ \A i, j \in 1..Len(Ids) : i < j => Ids[i] < Ids[j]
  /\ Contract \in Seq(Milestone)
  /\ \A i, j \in 1..Len(Contract) : Contract[i] = Contract[j] => i = j
  /\ Completion \in Milestone
  /\ StopOnFirstDurable \in BOOLEAN
  /\ MaxPoints \in Nat /\ Points \in [Milestone -> 0..MaxPoints]
  /\ DependsOn \in [Milestone -> SUBSET Milestone]
  /\ Reboots \subseteq Milestone
  /\ Status \subseteq {"completed", "failed", "unavailable", "interrupted", "harness_error"}
  /\ Deadline \in Nat /\ Overrun \in Nat /\ MaxUnits \in Nat
  /\ CtrlC \in BOOLEAN

(* Option::None is no number and no outcome. *)
ASSUME NoneIsNothing ==
  /\ None \notin Nat
  /\ \A w \in Territory \cup {None} : [winner |-> w] # None

refereeVars == <<matchState, competitors, sequence, lastTime, outcome, emitted, reply>>
agentVars == <<worker, channel>>
runnerVars == <<current, checks, seen, frozen, drain>>
vars == <<refereeVars, pc, clock, world, runnerVars, agentVars>>

(* The lists of a list, one behind the other. *)
Joined(lists) ==
  LET upTo[i \in 0..Len(lists)] == IF i = 0 THEN <<>> ELSE upTo[i - 1] \o lists[i]
  IN upTo[Len(lists)]

Report(units) == [units |-> units, tokens |-> None, cost |-> None]

Init ==
  /\ Referee!Init
  /\ pc = "boot"
  /\ clock = 0
  /\ world = World!DefaultWorld
  /\ current = 1
  /\ checks = {}
  /\ seen = [a \in Territory |-> Usage!NoUsage]
  /\ frozen = None
  /\ drain = [pending |-> 0, captured |-> 0]
  /\ worker = [a \in Territory |-> [state |-> "waiting", spent |-> 0, told |-> 0]]
  /\ channel = <<>>

-----------------------------------------------------------------------------
(* append(log, world, events, call?): what the referee returned is reduced *)
(* into the world, and a RefereeError ends the run with that error.        *)
Call(A, next) ==
  /\ A
  /\ world' = World!Reduce(world, emitted', sequence', lastTime')
  /\ pc' = IF reply' = "ok" THEN next ELSE "failed"

NoCall(next) == pc' = next /\ UNCHANGED <<refereeVars, world>>

(* The referee starts the match. *)
Boot ==
  /\ pc = "boot"
  /\ Call(Referee!Start, "register")
  /\ UNCHANGED <<clock, runnerVars, agentVars>>

(* register_build_competitors, AgentStarted for every invocation, and the  *)
(* agent task is spawned.                                                  *)
Register ==
  LET registered(t) == [kind |-> "territory_registered", territory |-> t, agent |-> t]
      started(t) == [kind |-> "agent_started", territory |-> t, agent |-> t]
      events == [i \in 1..Len(Ids) |-> registered(Ids[i])] \o
                [i \in 1..Len(Ids) |-> started(Ids[i])]
  IN /\ pc = "register"
     /\ Call(Referee!Record(events, 0), "loop")
     /\ worker' = [a \in Territory |-> [worker[a] EXCEPT !.state = "building"]]
     /\ UNCHANGED <<clock, runnerVars, channel>>

-----------------------------------------------------------------------------
(* The main loop: one tick of sleep, or Ctrl-C first. *)
Open == outcome = None /\ clock < Deadline

Tick ==
  /\ pc = "loop" /\ Open
  /\ clock' = clock + 1
  /\ NoCall("collect")
  /\ UNCHANGED <<runnerVars, agentVars>>

Interrupt ==
  /\ CtrlC
  /\ pc = "loop" /\ Open
  /\ Call(Referee!Abort(clock), "over")
  /\ UNCHANGED <<clock, runnerVars, agentVars>>

(* record_build_agent_results: the terminal event of each result, what it  *)
(* adds to the usage charged so far and, when the agent completed after    *)
(* the end without a durable deployment, that it was outraced.             *)
Source(status) ==
  CASE status = "unavailable"   -> "provider"
    [] status = "harness_error" -> "harness"
    [] status = "interrupted"   -> "arena"
    [] OTHER                    -> "player"

Terminal(r) ==
  IF r.status = "interrupted"
  THEN [kind |-> "agent_interrupted", agent |-> r.agent, source |-> Source(r.status)]
  ELSE [kind |-> "agent_finished", agent |-> r.agent, source |-> Source(r.status),
        success |-> r.status = "completed"]

Outraced(a) == [kind |-> "agent_outraced", agent |-> a]

Charge(a, charge) == [kind |-> "usage_charged", agent |-> a, charge |-> charge]

CompletedAfterFinish(r) ==
  /\ r.status = "completed"
  /\ world.match = "finished"
  /\ world.territories[r.agent].durableAt = None

ResultEvents(r) ==
  <<Terminal(r), Charge(r.agent, Usage!Delta(seen[r.agent], Report(r.units)))>> \o
  (IF CompletedAfterFinish(r) THEN <<Outraced(r.agent)>> ELSE <<>>)

RecordResults(results, time, next) ==
  /\ IF results = <<>> THEN NoCall(next)
     ELSE Call(Referee!Record(Joined([i \in 1..Len(results) |->
                                        ResultEvents(results[i])]), time), next)
  /\ seen' = [a \in Territory |->
                LET own == {i \in 1..Len(results) : results[i].agent = a} IN
                IF own = {} THEN seen[a]
                ELSE Usage!Seen(seen[a], Report(results[Min(own)].units))]

Collect ==
  /\ pc = "collect"
  /\ RecordResults(channel, clock, "contest")
  /\ channel' = <<>>
  /\ UNCHANGED <<clock, current, checks, frozen, drain, worker>>

AllFailedInHarness ==
  /\ Territory # {}
  /\ \A a \in Territory : ~world.agents[a].running /\ world.agents[a].source = "harness"

NoContest ==
  /\ pc = "contest" /\ AllFailedInHarness
  /\ Call(Referee!Abort(clock), "over")
  /\ UNCHANGED <<clock, runnerVars, agentVars>>

Contest ==
  /\ pc = "contest" /\ ~AllFailedInHarness
  /\ NoCall("sweep")
  /\ current' = 1
  /\ UNCHANGED <<clock, checks, seen, frozen, drain, agentVars>>

-----------------------------------------------------------------------------
(* The sweep over the contract's milestones. *)
Milestones(t) == world.territories[t].milestones

(* Mutant: a milestone does not wait for the ones it depends on. *)
EligibleAtOnce(t, m) ==
  m \in DOMAIN Milestones(t) =>
    ~Milestones(t)[m].passed /\ ~Milestones(t)[m].evaluating

Eligible(t, m) ==
  /\ m \in DOMAIN Milestones(t) =>
       ~Milestones(t)[m].passed /\ ~Milestones(t)[m].evaluating
  /\ \A d \in DependsOn[m] : d \in DOMAIN Milestones(t) /\ Milestones(t)[d].passed

(* The next milestone some territory is eligible for, unless the match is  *)
(* over or there is none left in this sweep.                               *)
Sweep ==
  LET next == {i \in current..Len(Contract) :
                 \E t \in Territory : Eligible(t, Contract[i])}
  IN /\ pc = "sweep"
     /\ IF outcome # None \/ next = {}
        THEN NoCall("checkpoint") /\ UNCHANGED current
        ELSE NoCall("begin") /\ current' = Min(next)
     /\ UNCHANGED <<clock, checks, seen, frozen, drain, agentVars>>

(* begin_milestone for every eligible territory; a milestone that is being *)
(* evaluated is eligible no more, so the next one is the first still so.   *)
Begin ==
  LET m == Contract[current]
      eligible == {t \in Territory : Eligible(t, m)}
  IN /\ pc = "begin"
     /\ IF eligible = {}
        THEN NoCall("verify") /\ UNCHANGED checks
        ELSE /\ Call(Referee!BeginMilestone(Min(eligible), m, clock), "begin")
             /\ checks' = checks \cup {Min(eligible)}
     /\ UNCHANGED <<clock, current, seen, frozen, drain, agentVars>>

(* record_milestone_checks: results in the order the checks complete, each *)
(* a verifier's verdict; the checks still pending when the match is over   *)
(* are dropped.                                                            *)
Verdict(t) ==
  LET m == Contract[current] IN
  /\ pc = "verify" /\ outcome = None
  /\ t \in checks
  /\ \/ Call(Referee!PassMilestone(t, m, Points[m], clock), "verify")
     \/ Call(Referee!FailMilestone(t, m, clock), "verify")
  /\ checks' = checks \ {t}
  /\ UNCHANGED <<clock, current, seen, frozen, drain, agentVars>>

(* The guest did not go down, or did not come back: check? leaves the loop *)
(* and the run with it.                                                    *)
RebootLost(t) ==
  /\ pc = "verify" /\ outcome = None
  /\ t \in checks
  /\ Contract[current] \in Reboots
  /\ NoCall("failed")
  /\ UNCHANGED <<clock, runnerVars, agentVars>>

ChecksDone ==
  /\ pc = "verify"
  /\ outcome # None \/ checks = {}
  /\ NoCall("sweep")
  /\ checks' = {}
  /\ current' = current + 1
  /\ UNCHANGED <<clock, seen, frozen, drain, agentVars>>

-----------------------------------------------------------------------------
(* record_build_usage_checkpoints: reads[a] is what a's usage.json says    *)
(* when it is read, None when it is missing or unreadable.                 *)
Reads == [Territory -> 0..MaxUnits \cup {None}]

Published(reads) == \A a \in Territory : reads[a] # None => reads[a] <= worker[a].spent

Due(reads, a) == reads[a] # None /\ ~Usage!IsEmpty(Usage!Delta(seen[a], Report(reads[a])))

Charges(reads) ==
  Joined([i \in 1..Len(Ids) |->
            IF Due(reads, Ids[i])
            THEN <<Charge(Ids[i], Usage!Delta(seen[Ids[i]], Report(reads[Ids[i]])))>>
            ELSE <<>>])

RecordUsage(reads, time, next) ==
  /\ Published(reads)
  /\ IF \A a \in Territory : ~Due(reads, a) THEN NoCall(next)
     ELSE Call(Referee!Record(Charges(reads), time), next)
  /\ seen' = [a \in Territory |->
                IF reads[a] = None THEN seen[a]
                ELSE Usage!Seen(seen[a], Report(reads[a]))]

Checkpoint ==
  /\ pc = "checkpoint"
  /\ \E reads \in Reads : RecordUsage(reads, clock, "loop")
  /\ UNCHANGED <<clock, current, checks, frozen, drain, agentVars>>

(* After the loop. An abort leaves it with no outcome, so finish is called *)
(* then too.                                                               *)
LoopOver == pc = "over" \/ (pc = "loop" /\ ~Open)

Expire ==
  /\ LoopOver /\ outcome = None
  /\ Call(Referee!Finish(clock), "freeze")
  /\ UNCHANGED <<clock, runnerVars, agentVars>>

Finished ==
  /\ LoopOver /\ outcome # None
  /\ NoCall("freeze")
  /\ UNCHANGED <<clock, runnerVars, agentVars>>

-----------------------------------------------------------------------------
(* drain_build_agents *)
Running == {a \in Territory : world.agents[a].running}

(* Mutant: the clock is frozen at the durable time of the winner. *)
DurableClock ==
  LET reached == {competitors[a].durableAt : a \in DOMAIN competitors} \ {None}
  IN  IF reached = {} THEN world.elapsed ELSE CHOOSE t \in reached : TRUE

FrozenClock == world.elapsed

Freeze ==
  /\ pc = "freeze"
  /\ frozen' = FrozenClock
  /\ drain' = [pending |-> Cardinality(Running), captured |-> 0]
  /\ Call(Referee!Record(<<[kind |-> "drain_started"]>>, FrozenClock), "drain")
  /\ UNCHANGED <<clock, current, checks, seen, agentVars>>

Receive ==
  /\ pc = "drain" /\ channel # <<>>
  /\ RecordResults(<<Head(channel)>>, frozen, "drain")
  /\ channel' = Tail(channel)
  /\ drain' = [drain EXCEPT !.captured = @ + 1]
  /\ UNCHANGED <<clock, current, checks, frozen, worker>>

(* Nothing came for the rest of the drain, or nobody is left to send: the  *)
(* agent task is aborted, and what it had already sent is still recorded.  *)
AbortAgents ==
  /\ pc = "drain"
  /\ RecordResults(channel, frozen, "tally")
  /\ channel' = <<>>
  /\ worker' = [a \in Territory |->
                  IF worker[a].state = "building"
                  THEN [worker[a] EXCEPT !.state = "killed"] ELSE worker[a]]
  /\ UNCHANGED <<clock, current, checks, frozen>>

(* Mutants: results queued when the drain ends are recorded but not        *)
(* counted; the drain has no time limit.                                   *)
DrainUncounted == AbortAgents /\ UNCHANGED drain

DrainUnbounded ==
  /\ AbortAgents
  /\ \A a \in Territory : worker[a].state = "ended"
  /\ drain' = [drain EXCEPT !.captured = @ + Len(channel)]

DrainOver ==
  /\ AbortAgents
  /\ drain' = [drain EXCEPT !.captured = @ + Len(channel)]

Tally ==
  /\ pc = "tally"
  /\ \E reads \in Reads : RecordUsage(reads, frozen, "close")
  /\ UNCHANGED <<clock, current, checks, frozen, drain, agentVars>>

Unfinished ==
  Joined([i \in 1..Len(Ids) |->
            IF Ids[i] \in Running THEN <<Outraced(Ids[i])>> ELSE <<>>])

Close ==
  /\ pc = "close"
  /\ Call(Referee!Record(Unfinished \o
            <<[kind |-> "drain_finished", captured |-> drain.captured,
               terminated |-> Cardinality(Running)]>>, frozen), "done")
  /\ UNCHANGED <<clock, runnerVars, agentVars>>

-----------------------------------------------------------------------------
(* What goes on beside the runner: time passes while it waits for a check, *)
(* agents spend resources and end, their results queue in the channel.     *)
Elapse ==
  /\ pc = "verify" /\ clock < MaxClock
  /\ clock' = clock + 1
  /\ UNCHANGED <<refereeVars, pc, world, runnerVars, agentVars>>

Spend(a) ==
  /\ worker[a].state = "building" /\ worker[a].spent < MaxUnits
  /\ worker' = [worker EXCEPT ![a].spent = @ + 1]
  /\ UNCHANGED <<refereeVars, pc, clock, world, runnerVars, channel>>

(* A result made up by the controller carries no usage. *)
End(a, status) ==
  /\ worker[a].state = "building"
  /\ \E units \in {0, worker[a].spent} :
       /\ worker' = [worker EXCEPT ![a].state = "ended", ![a].told = units]
       /\ channel' = Append(channel, [agent |-> a, status |-> status, units |-> units])
  /\ UNCHANGED <<refereeVars, pc, clock, world, runnerVars>>

Stopped == pc \in {"done", "failed"} /\ UNCHANGED vars

Runner ==
  \/ Boot \/ Register
  \/ Tick \/ Interrupt \/ Collect \/ NoContest \/ Contest
  \/ Sweep \/ Begin \/ ChecksDone
  \/ \E t \in Territory : Verdict(t) \/ RebootLost(t)
  \/ Checkpoint \/ Expire \/ Finished
  \/ Freeze \/ Receive \/ DrainOver \/ Tally \/ Close

Agents == \E a \in Territory : Spend(a) \/ \E status \in Status : End(a, status)

Next == Runner \/ Elapse \/ Agents \/ Stopped

(* The runner goes on: every wait of it is cut off by a timeout. *)
Spec == Init /\ [][Next]_vars /\ WF_vars(Runner)

-----------------------------------------------------------------------------

(* The referee refuses no call of the runner unless the match was aborted: *)
(* what the drain records is dated by the world's clock, and that is never *)
(* behind the referee's, whatever usage was charged after the result.      *)
RefereeNeverRefuses == matchState # "aborted" => reply = "ok"

(* The world reduced from the events says what the referee's own records   *)
(* say, after every step: two ledgers kept by different code agree on the  *)
(* milestones, the points, the durable time, the state and the winner.     *)
WorldFollowsReferee ==
  /\ world.match = matchState
  /\ world.winner = IF outcome = None THEN None ELSE outcome.winner
  /\ world.elapsed = lastTime
  /\ \A t \in DOMAIN world.territories :
       LET view == world.territories[t] IN
       /\ {m \in DOMAIN view.milestones : view.milestones[m].passed}
            = competitors[t].passed
       /\ view.points = competitors[t].points
       /\ view.durableAt = competitors[t].durableAt
       /\ view.competitor = competitors[t].state

(* When the contract stops at the first durable deployment, the first      *)
(* competitor to become durable wins, alone: pass_milestone ends the match *)
(* in the same call, the sort of finish_inner can name nobody else, and    *)
(* neither a check that is still pending, the timer nor an interrupt takes *)
(* the win away (build.rs:157-174, 230-276; runner.rs:510-545).            *)
FirstDurableWins == Referee!FirstDurableWins

(* When the drain is over no agent is left running, and each one that was  *)
(* running when it began is counted once: captured or terminated.          *)
EveryAgentCounted ==
  pc = "done" =>
    /\ Running = {}
    /\ LET finished == emitted[Len(emitted)] IN
       finished.captured + finished.terminated = drain.pending

(* Usage is charged once: however checkpoints and the final result overlap *)
(* the charges never add up to more than was spent, and in the end cover   *)
(* what the results that were received told.                               *)
UsageChargedOnce ==
  \A a \in DOMAIN world.agents :
    /\ world.agents[a].units <= worker[a].spent
    /\ pc = "done" /\ worker[a].state = "ended"
         => world.agents[a].units >= worker[a].told

(* Every match comes to an end, however agents and verifiers behave. *)
Settles == <>(pc \in {"done", "failed"})

(* A run that ends with an aborted match returns its world, as season.rs   *)
(* expects of an aborted heat.                                             *)
AbortedMatchReturns == pc = "failed" => matchState # "aborted"

(* What Race calls phase, scored and champion is read off the world, and   *)
(* the match keeps the promises of Race.                                   *)
Scored(t) ==
  IF t \notin DOMAIN world.territories THEN {}
  ELSE {m \in DOMAIN Milestones(t) : Milestones(t)[m].passed}

Promise == INSTANCE Race WITH
  Competitor <- Territory, phase <- world.match,
  scored <- [t \in Territory |-> Scored(t)], champion <- world.winner

KeepsPromise == Promise!Spec
=============================================================================
