-------------------------------- MODULE Seat --------------------------------
(***************************************************************************)
(* One seat of a match: a guest, the adapter process that drives an agent  *)
(* in it over SSH, and the controller's CommandAdapter that runs and reads *)
(* the adapter (crates/agent/src/command.rs, controller.rs; adapters/).    *)
(* What the agent does in the guest is what it leaves in its event stream: *)
(* how much it spent, and how it says it fared.  Seconds are not counted:  *)
(* a wait that has a limit may end at any time.                            *)
(***************************************************************************)
EXTENDS Integers, FiniteSets

CONSTANTS Ids,          \* territories
          MaxSpent,     \* bound: what a session may spend
          Failures,     \* bound: how an error in an event stream is classed
          Budget,       \* budget.max_cost_microusd
          MaxFaults,    \* bound: accidents in one match
          None

VARIABLES guest,        \* the guest of each territory
          seat,         \* its adapter and the controller's view of it
          late,         \* the agents' timeout has passed
          faults        \* the accidents so far: <<what, territory>>

(* A guest: off -> up (or failed) -> going, asked to reboot -> down -> up; *)
(* lost when its QEMU has ended.  SSH reaches it until it is down, and may *)
(* fail at any time.                                                       *)
Running(t) == guest[t] \in {"up", "going", "down"}
Reachable(t) == guest[t] \in {"up", "going"}

(* The exit of the session's ssh: 0 after a whole turn, 130 or 143, 137,   *)
(* 255, or any other.                                                      *)
Exits == {"complete", "terminated", "killed", "lost", "quit"}

(* How the result of a seat is labelled. *)
Statuses == { "completed", "unavailable", "harness_error", "failed", "interrupted",
              "timed_out", "budget_exceeded" }

NoEvents == [spent |-> 0, outcome |-> "open"]

EmptySeat ==
    [ harness |-> None,     \* the adapter of the seat
      adapter |-> "none",   \* setup, polling, awaiting, answered, forsaken, closing,
                            \* ended or killed
      session |-> "none",   \* live, or its exit
      cut |-> FALSE,        \* the referee's reboot ended it
      children |-> FALSE,   \* proxy, tunnel, ssh: the adapter's group
      marker |-> FALSE,     \* the file referee-reboot
      stream |-> NoEvents,  \* the event stream in the guest
      copy |-> NoEvents,    \* its last copy on the host
      file |-> None,        \* result.json: [status, cost]
      run |-> "none",       \* waiting, expired, reported or dropped
      report |-> None ]     \* what the controller made of it

Update(t, new) == seat' = [seat EXCEPT ![t] = new]

Reported(t) == seat[t].run = "reported"

(* The session is one of the adapter's children. *)
Live(t) == seat[t].session = "live" /\ seat[t].children

-----------------------------------------------------------------------------
(* The adapter: set up over SSH, then poll the session and copy its events *)
(* every other second, and in the end terminate its children and replace   *)
(* result.json in one step.                                                *)

(* An exception ends a Python adapter in an orderly way, with what it has  *)
(* counted so far; claux.sh stops without a result.                        *)
Broken(s) ==
    [s EXCEPT !.adapter = "ended", !.children = FALSE,
              !.file = IF s.harness = "claux" THEN None
                       ELSE [status |-> "harness_error", cost |-> s.copy.spent]]

SetupDone(t) ==
    /\ seat[t].adapter = "setup" /\ Reachable(t)
    /\ Update(t, [seat[t] EXCEPT !.adapter = "polling", !.session = "live"])
    /\ UNCHANGED <<guest, late, faults>>

SetupFails(t) ==
    /\ seat[t].adapter = "setup"
    /\ Update(t, Broken(seat[t]))
    /\ UNCHANGED <<guest, late, faults>>

Collect(t) ==
    /\ seat[t].adapter = "polling" /\ Reachable(t)
    /\ Update(t, [seat[t] EXCEPT !.copy = seat[t].stream])
    /\ UNCHANGED <<guest, late, faults>>

(* ssh ends with 255 when its connection goes; what the marker says then   *)
(* decides whose doing it was.                                             *)
Marked(s) == s.session = "lost" /\ s.marker

(* agent.poll() returned: the exit is judged by the marker as it is now. *)
Notice(t) ==
    /\ seat[t].adapter = "polling" /\ seat[t].session \in Exits
    /\ Update(t, [seat[t] EXCEPT !.adapter = IF Marked(seat[t]) THEN "awaiting"
                                               ELSE "closing"])
    /\ UNCHANGED <<guest, late, faults>>

(* Mutant: waits for the guest for as long as it takes. *)
WaitForGuest(t) ==
    /\ seat[t].adapter = "awaiting" /\ Reachable(t)
    /\ Update(t, [seat[t] EXCEPT !.adapter = "answered"])
    /\ UNCHANGED <<guest, late, faults>>

(* After a marked disconnect the adapter waits for the guest, a minute at  *)
(* most; the referee may give it two to come up.                           *)
Wait(t) ==
    /\ seat[t].adapter = "awaiting"
    /\ \E end \in {"answered", "forsaken"} :
         /\ end = "answered" => Reachable(t)
         /\ Update(t, [seat[t] EXCEPT !.adapter = end])
    /\ UNCHANGED <<guest, late, faults>>

(* To claux.sh a marked disconnect is a reboot if the guest came back. *)
Rebooted(s) == s.adapter = "answered" \/ (s.adapter = "forsaken" /\ s.harness # "claux")

(* opencode looks at errors first, term_llm at the transport, and claux at *)
(* a result that says completed, if it could be fetched.  Claux's exit     *)
(* tells the kind of an error too.                                         *)
OpencodeLabel(s) ==
    IF s.copy.outcome \in Failures THEN s.copy.outcome
    ELSE IF s.session = "terminated" \/ Rebooted(s) THEN "interrupted"
    ELSE IF s.session \in {"lost", "killed"} THEN "harness_error"
    ELSE IF s.session = "complete" /\ s.copy.outcome = "completed" THEN "completed"
    ELSE IF s.copy.spent > 0 THEN "failed" ELSE "harness_error"

TermLlmLabel(s) ==
    IF s.session = "terminated" \/ Rebooted(s) THEN "interrupted"
    ELSE IF s.session \in {"lost", "killed"} THEN "harness_error"
    ELSE IF s.copy.outcome \in Failures THEN s.copy.outcome
    ELSE IF s.session = "complete" /\ s.copy.outcome = "completed" THEN "completed"
    ELSE "harness_error"

ClauxLabel(s, fetched) ==
    LET kind == IF s.session = "quit" THEN s.stream.outcome ELSE s.copy.outcome
    IN IF fetched /\ s.copy.outcome = "completed" THEN "completed"
       ELSE IF Rebooted(s) THEN "interrupted"
       ELSE IF kind \in Failures THEN kind
       ELSE IF s.session = "lost" \/ s.copy.spent = 0 THEN "harness_error"
       ELSE "failed"

Label(s, fetched) ==
    IF s.harness = "claux" THEN ClauxLabel(s, fetched)
    ELSE IF s.harness = "term_llm" THEN TermLlmLabel(s)
    ELSE OpencodeLabel(s)

(* The last copy, and the result.  A copy that fails leaves the one before. *)
Close(t) ==
    /\ seat[t].adapter \in {"answered", "forsaken", "closing"}
    /\ \E fetched \in BOOLEAN :
         /\ fetched => Reachable(t)
         /\ LET s == IF fetched THEN [seat[t] EXCEPT !.copy = seat[t].stream] ELSE seat[t]
            IN Update(t, [s EXCEPT !.adapter = "ended", !.children = FALSE,
                                   !.file = [ status |-> Label(s, fetched),
                                              cost |-> s.copy.spent ]])
    /\ UNCHANGED <<guest, late, faults>>

-----------------------------------------------------------------------------
(* The controller: CommandAdapter::run, AgentController::pending.          *)

ApplyBudget(result) ==
    IF result.cost > Budget THEN [result EXCEPT !.status = "budget_exceeded"] ELSE result

ControllerResult(status) == [status |-> status, cost |-> 0]

(* Mutant: only the leader is killed. *)
LeaderKilled(s) == s

(* kill_on_drop for the leader and the guard for its process group. *)
GroupKilled(s) == [s EXCEPT !.children = FALSE]

Report(s, result) ==
    [GroupKilled(s) EXCEPT !.run = "reported", !.report = ApplyBudget(result)]

Spawn(t, harness) ==
    /\ seat[t].run = "none"
    /\ Update(t, [seat[t] EXCEPT !.harness = harness, !.run = "waiting",
                               !.adapter = "setup", !.children = TRUE])
    /\ UNCHANGED <<guest, late, faults>>

Reap(t) ==
    /\ seat[t].run = "waiting" /\ seat[t].adapter = "ended"
    /\ LET result == IF seat[t].file = None THEN ControllerResult("harness_error")
                     ELSE seat[t].file
       IN Update(t, Report(seat[t], result))
    /\ UNCHANGED <<guest, late, faults>>

(* Mutant: the leader's end is not waited for. *)
Signalled(s) == [s EXCEPT !.run = "expired"]

(* At the timeout the leader is killed and waited for ... *)
Expired(s) == [s EXCEPT !.run = "expired", !.adapter = "killed"]

Expire(t) ==
    /\ late /\ seat[t].run = "waiting"
    /\ Update(t, Expired(seat[t]))
    /\ UNCHANGED <<guest, late, faults>>

(* ... before the file is looked at. *)
Timeout(t) ==
    /\ seat[t].run = "expired"
    /\ LET result == IF seat[t].file = None THEN ControllerResult("timed_out")
                     ELSE [seat[t].file EXCEPT !.status = "timed_out"]
       IN Update(t, Report(seat[t], result))
    /\ UNCHANGED <<guest, late, faults>>

(* The task of a seat is aborted and its locals are dropped. *)
Dropped(s) ==
    IF s.run \notin {"waiting", "expired"} THEN s
    ELSE [GroupKilled(s) EXCEPT !.run = "dropped", !.adapter = "killed"]

-----------------------------------------------------------------------------
(* What happens in and to the guest.                                       *)

Work(t) ==
    /\ Live(t) /\ Reachable(t)
    /\ \/ /\ seat[t].stream.outcome = "open" /\ seat[t].stream.spent < MaxSpent
          /\ Update(t, [seat[t] EXCEPT !.stream.spent = @ + 1])
       \/ /\ seat[t].stream.outcome = "open"
          /\ \E outcome \in {"completed"} \union Failures :
               Update(t, [seat[t] EXCEPT !.stream.outcome = outcome])
       \/ \E exit \in Exits \ {"lost"} :
            /\ exit = "complete" => seat[t].stream.outcome = "completed"
            /\ Update(t, [seat[t] EXCEPT !.session = exit])
    /\ UNCHANGED <<guest, late, faults>>

(* The connection of a session goes: with its guest, by the referee's      *)
(* reboot (cut) or otherwise.  A guest that shuts down in good order may   *)
(* have terminated the agent first.                                        *)
Ended(t, exit, cut) ==
    IF Live(t) THEN Update(t, [seat[t] EXCEPT !.session = exit, !.cut = cut])
    ELSE UNCHANGED seat

GoesDown(t) ==
    /\ guest[t] = "going"
    /\ guest' = [guest EXCEPT ![t] = "down"]
    /\ \E exit \in {"terminated", "lost"} : Ended(t, exit, TRUE)
    /\ UNCHANGED <<late, faults>>

ComesUp(t) ==
    /\ guest[t] = "down"
    /\ guest' = [guest EXCEPT ![t] = "up"]
    /\ UNCHANGED <<seat, late, faults>>

Accident(what, t) ==
    Cardinality(faults) < MaxFaults /\ faults' = faults \union {<<what, t>>}

(* The connection drops, the agent reboots its own guest, or QEMU ends. *)
Disconnects(t) ==
    /\ Live(t) /\ Accident("drop", t)
    /\ Ended(t, "lost", FALSE)
    /\ UNCHANGED <<guest, late>>

RebootsItself(t) ==
    /\ guest[t] = "up" /\ Live(t) /\ Accident("reboot", t)
    /\ guest' = [guest EXCEPT ![t] = "down"]
    /\ \E exit \in {"terminated", "lost"} : Ended(t, exit, FALSE)
    /\ UNCHANGED late

Lost(t) ==
    /\ Running(t) /\ Accident("lost", t)
    /\ guest' = [guest EXCEPT ![t] = "lost"]
    /\ Ended(t, "lost", FALSE)
    /\ UNCHANGED late

(* The adapter dies without its finally clause, and its children live on; *)
(* or it breaks: a stream it cannot read, a probe of its wait that hangs,  *)
(* in claux.sh a result of the agent that arrives torn.                    *)
AdapterDies(t) ==
    /\ seat[t].adapter \in {"setup", "polling", "awaiting", "answered", "forsaken", "closing"}
    /\ Accident("adapter", t)
    /\ Update(t, [seat[t] EXCEPT !.adapter = "ended"])
    /\ UNCHANGED <<guest, late>>

AdapterBreaks(t) ==
    /\ seat[t].adapter \in {"answered", "forsaken", "closing"}
         \union (IF seat[t].harness = "claux" THEN {} ELSE {"polling", "awaiting"})
    /\ Accident("adapter", t)
    /\ Update(t, Broken(seat[t]))
    /\ UNCHANGED <<guest, late>>
=============================================================================
