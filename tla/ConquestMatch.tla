---------------------------- MODULE ConquestMatch ----------------------------
(***************************************************************************)
(* A match without a build contract as the controller drives it            *)
(* (run_booted_match, crates/controller/src/runner.rs): one probe per      *)
(* territory and tick, the referee of ConquestReferee, the supervisor that *)
(* powers off whoever is eliminated, and the agents' results, which come   *)
(* all at once.  Every call of a round is dated with the moment the round  *)
(* began, however long its probes take.  The world and the log are those   *)
(* of BuildMatch and EventLog and are left out here.                       *)
(***************************************************************************)
EXTENDS ConquestReferee

CONSTANTS
  Overrun,     \* bound on the ticks the probes of one round take
  Units,       \* Units[t]: the resource units the result of t's agent charges
  CtrlC        \* whether the operator may interrupt the match

ASSUME RunnerConstants == Overrun \in Nat /\ Units \in [Territory -> Nat] /\ CtrlC \in BOOLEAN

VARIABLES
  referee,
  pc,        \* where the runner task is
  clock,     \* started.elapsed() in ticks
  elapsed,   \* what it was when this round began
  turn,      \* index of the territory probed next
  results,   \* agent_task: "running", "finished" or "recorded"
  powered,   \* the supervisor's running guests
  downtime   \* history: since when each territory is down, and for how long
             \* it has been down in all

vars == <<referee, pc, clock, elapsed, turn, results, powered, downtime>>

Over == referee.outcome # None

Init ==
  /\ referee = Fresh
  /\ pc = "boot"
  /\ clock = 0 /\ elapsed = 0
  /\ turn = 1
  /\ results = "running"
  /\ powered = Territory
  /\ downtime = [t \in Territory |-> [since |-> None, total |-> 0]]

(* The history of a call: what an observer of the states alone would say.  *)
Track ==
  LET before(t) == referee.territories[t]
      after(t) == referee'.territories[t]
      passed == referee'.lastTime - referee.lastTime
  IN downtime' = [t \in Territory |->
       [ total |-> downtime[t].total + IF Down(before(t)) THEN passed ELSE 0,
         since |-> IF ~Down(after(t)) /\ after(t).state # "eliminated" THEN None
                   ELSE IF downtime[t].since = None THEN referee'.lastTime
                   ELSE downtime[t].since ]]

(* append(log, world, events, call?). *)
Call(after, next) ==
  /\ referee' = after
  /\ pc' = IF after.reply = "ok" THEN next ELSE "failed"
  /\ Track

NoCall(next) == pc' = next /\ UNCHANGED <<referee, downtime>>

-----------------------------------------------------------------------------
Boot ==
  /\ pc = "boot"
  /\ Call(Start(referee), "loop")
  /\ UNCHANGED <<clock, elapsed, turn, results, powered>>

(* One tick of sleep, or Ctrl-C first: an abort leaves the loop. *)
Round ==
  /\ pc = "loop" /\ ~Over
  /\ clock' = clock + 1 /\ elapsed' = clock'
  /\ turn' = 1
  /\ NoCall("probe")
  /\ UNCHANGED <<results, powered>>

Interrupt ==
  /\ CtrlC
  /\ pc = "loop" /\ ~Over
  /\ Call(Abort(referee, clock), "done")
  /\ UNCHANGED <<clock, elapsed, turn, results, powered>>

Probe(healthy) ==
  /\ pc = "probe" /\ ~Over /\ turn <= Len(Ids)
  /\ LET t == Ids[turn]
         after == Observe(referee, t, healthy, elapsed)
         eliminated == \E i \in 1..Len(after.emitted) :
                         after.emitted[i] = TerritoryEliminated(t)
     IN /\ Call(after, IF eliminated THEN "power_off" ELSE "probe")
        /\ turn' = IF eliminated THEN turn ELSE turn + 1
  /\ UNCHANGED <<clock, elapsed, results, powered>>

(* supervisor.stop: the guest leaves running first; an unknown guest and a *)
(* driver that fails end the run.                                          *)
PowerOff ==
  /\ pc = "power_off"
  /\ powered' = powered \ {Ids[turn]}
  /\ \/ Ids[turn] \in powered /\ NoCall("probe")
     \/ NoCall("failed")
  /\ turn' = turn + 1
  /\ UNCHANGED <<clock, elapsed, results>>

(* The tick and, once agent_task has finished, the results it holds. The   *)
(* probes took time that nobody looked at.                                 *)
ProbesDone ==
  LET next == IF results = "finished" THEN "record" ELSE "loop" IN
  /\ pc = "probe"
  /\ Over \/ turn > Len(Ids)
  /\ IF Over THEN NoCall(next) ELSE Call(Tick(referee, elapsed), next)
  /\ clock' \in clock..elapsed + Overrun
  /\ turn' = 1
  /\ UNCHANGED <<elapsed, results, powered>>

(* record_agent_results, one result at a time: its two events and, while   *)
(* the match goes on, what it charges.  They come in the order in which    *)
(* the agents ended; charges of different territories commute, so that of  *)
(* the ids stands for all orders.                                          *)
RecordResult ==
  LET recorded == Record(referee, [kind |-> "agent_finished"], elapsed) IN
  /\ pc = "record" /\ turn <= Len(Ids)
  /\ Call(IF Over THEN recorded ELSE Charge(recorded, Ids[turn], Units[Ids[turn]], elapsed), "record")
  /\ turn' = turn + 1
  /\ UNCHANGED <<clock, elapsed, results, powered>>

ResultsRecorded ==
  /\ pc = "record" /\ turn > Len(Ids)
  /\ NoCall("loop")
  /\ results' = "recorded"
  /\ UNCHANGED <<clock, elapsed, turn, powered>>

(* The agent task is aborted and the world returned. *)
Done ==
  /\ pc = "loop" /\ Over
  /\ NoCall("done")
  /\ UNCHANGED <<clock, elapsed, turn, results, powered>>

-----------------------------------------------------------------------------
(* At some moment every agent has ended. *)
AgentsEnd ==
  /\ results = "running" /\ pc \notin {"boot", "done", "failed"}
  /\ results' = "finished"
  /\ UNCHANGED <<referee, pc, clock, elapsed, turn, powered, downtime>>

Stopped == pc \in {"done", "failed"} /\ UNCHANGED vars

Runner ==
  \/ Boot \/ Round \/ Interrupt
  \/ \E healthy \in BOOLEAN : Probe(healthy)
  \/ PowerOff \/ ProbesDone \/ RecordResult \/ ResultsRecorded \/ Done

Next == Runner \/ AgentsEnd \/ Stopped

Spec == Init /\ [][Next]_vars

-----------------------------------------------------------------------------

(* Whoever is eliminated is powered off, and nobody else is: although tick *)
(* eliminates too, and only what observe eliminates is ever stopped.       *)
EliminatedArePoweredOff ==
  pc \in {"loop", "record"} => powered = Active(referee.territories)

(* A territory is eliminated exactly when it has been down for its whole   *)
(* recovery window: one failed recovery does not prolong the window, and   *)
(* nobody who is still in the match has outstayed it when a round ends.    *)
WindowDecides ==
  \A t \in Territory :
    LET since == downtime[t].since
        down == since # None /\ referee.lastTime - since >= Window
    IN /\ referee.territories[t].state = "eliminated" => down
       /\ pc = "loop" /\ ~Over /\ down => referee.territories[t].state = "eliminated"

(* The downtime the standings rank by is the time the territory really was *)
(* degraded or recovering, whoever accounted for it and when.              *)
DowntimeIsAccounted ==
  \A t \in Territory :
    LET c == referee.territories[t] IN
    downtime[t].total = c.degraded + IF Down(c) THEN referee.lastTime - c.accounted ELSE 0

(* Reference for the ranking of two territories, without a sort.           *)
Better(t, u) ==
  LET a == referee.territories[t]
      b == referee.territories[u]
  IN \/ a.uptime > b.uptime
     \/ a.uptime = b.uptime /\ a.resources > b.resources
     \/ a.uptime = b.uptime /\ a.resources = b.resources /\ a.degraded < b.degraded

(* The winner is in the match and no other territory in it is better; the  *)
(* last one standing always wins.                                          *)
WinnerIsUnbeaten ==
  LET active == Active(referee.territories)
      w == IF Over THEN referee.outcome.winner ELSE None
  IN /\ w # None => w \in active /\ ~\E u \in active : Better(u, w)
     /\ Cardinality(active) = 1 => active = {w}

=============================================================================
