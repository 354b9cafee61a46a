-------------------------------- MODULE Host --------------------------------
(***************************************************************************)
(* run_match around its loop: the manifest is validated, the guests boot   *)
(* concurrently, the seats play while the referee reboots guests and runs  *)
(* verifiers, and whatever ends the match, the guests are stopped          *)
(* (crates/controller/src/runner.rs; crates/runtime/src/supervisor.rs,     *)
(* nix.rs, network.rs).  The standings are BuildMatch's subject, the seats *)
(* Seat's; here is what one costs the other.                               *)
(***************************************************************************)
EXTENDS Seat, Sequences, SequencesExt

CONSTANTS Manifests,    \* what arena.toml may say
          Seated,       \* bound: the territories whose seats are played
          Adapters,     \* the adapters named on the command line
          BasePort, MaxPort,
          MaxAttempts   \* bound: verifications of one territory

VARIABLES manifest, phase,
          leak,         \* <<t, s>>: the guest of t has the string s in it
          audited,      \* the <<t, s>> that were found clean
          error,        \* what run_match returns
          stuck,        \* guests whose stop failed
          check         \* the verification under way in each territory

INSTANCE Contract

vars == <<guest, seat, late, faults, manifest, leak, audited, phase, error, stuck, check>>
arena == <<manifest, leak, audited>>
match == <<arena, phase, error, stuck>>

ASSUME HostAssumption ==
    /\ Seated \subseteq Ids
    /\ {MaxAttempts, MaxFaults, MaxSpent, Budget, BasePort, MaxPort} \subseteq Nat
    /\ Failures \subseteq {"unavailable", "harness_error", "failed", "interrupted"}
    /\ None \notin {"manifest", "start", "leak", "match", "stop"}
    /\ None \notin [status : Statuses, cost : Nat]

ASSUME ManifestsAssumption == \A m \in Manifests : WellTyped(m)

Milestones == IF manifest.build = None THEN {} ELSE ToSet(manifest.build.milestones)
Names == {m.id : m \in Milestones}

Forbidden ==
    IF manifest.fog = None THEN {}
    ELSE IF manifest.fog.audit = None THEN {}
    ELSE Ids \X ToSet(manifest.fog.audit.forbidden)

(* No verification under way.  evidence: the milestones whose evidence file *)
(* is there and can be read, whichever attempt left it; booted: the guest   *)
(* has booted since the attempt began.                                      *)
Idle == [ step |-> "idle", milestone |-> None, attempt |-> 0, booted |-> FALSE,
          evidence |-> {}, passed |-> {} ]

Init ==
    /\ manifest \in Manifests
    /\ leak \in SUBSET Forbidden /\ audited = {}
    /\ phase = "load" /\ error = None /\ stuck = {}
    /\ guest = [t \in Ids |-> "off"]
    /\ seat = [t \in Ids |-> EmptySeat]
    /\ check = [t \in Ids |-> Idle]
    /\ late = FALSE /\ faults = {}

-----------------------------------------------------------------------------
(* Before the match.                                                       *)

(* NetworkPlan::from_manifest: an SSH and a service port for each guest. *)
PortsFit(territories) == territories <= 240 /\ BasePort + 2 * territories <= MaxPort

AdaptersKnown == \A i \in DOMAIN manifest.agents : manifest.agents[i].adapter \in Adapters
AdapterOf(t) ==
    LET agents == manifest.agents
    IN agents[CHOOSE i \in DOMAIN agents : agents[i].territory = t].adapter

(* preflight_opencode asks for models only if some agent wants OpenCode.   *)
Preflight(answered) ==
    (\E i \in DOMAIN manifest.agents : manifest.agents[i].adapter = "opencode") => answered

(* ArenaManifest::load refuses first; then the adapters, the models and    *)
(* the ports.  Nothing has been booted.                                    *)
Load ==
    /\ phase = "load"
    /\ \E wrong \in {Errors(manifest)}, answered \in BOOLEAN :
         LET refused == IF wrong # {} THEN "manifest"
                        ELSE IF AdaptersKnown /\ Preflight(answered)
                                /\ PortsFit(Len(manifest.territories)) THEN None
                        ELSE "start"
         IN /\ error' = refused
            /\ phase' = IF refused = None THEN "boot" ELSE "exited"
    /\ UNCHANGED <<guest, seat, late, faults, arena, stuck, check>>

(* Guests boot concurrently; a runner that does not build or start fails. *)
Boot(t) ==
    /\ phase = "boot" /\ guest[t] = "off"
    /\ \E outcome \in {"up", "failed"} : guest' = [guest EXCEPT ![t] = outcome]
    /\ UNCHANGED <<seat, late, faults, match, check>>

BootAll ==
    /\ phase = "boot" /\ \A t \in Ids : guest[t] # "off"
    /\ IF \E t \in Ids : guest[t] = "failed"
       THEN phase' = "teardown" /\ error' = "start"
       ELSE phase' = "ready" /\ UNCHANGED error
    /\ UNCHANGED <<guest, seat, late, faults, arena, stuck, check>>

GiveUp(reason) == phase' = "teardown" /\ error' = reason

(* Every guest has to answer at once, within two minutes. *)
WaitForSsh ==
    /\ phase = "ready"
    /\ \/ (\A t \in Ids : guest[t] = "up") /\ phase' = "audit" /\ UNCHANGED error
       \/ GiveUp("start")
    /\ UNCHANGED <<guest, seat, late, faults, arena, stuck, check>>

(* Mutant: a guest that answered once is taken to have answered again. *)
FoundCleanOnce(t, text, answered) == answered \/ \E found \in audited : found[1] = t

FoundClean(t, text, answered) == answered

(* audit_fog_of_war: each forbidden string is searched for in each guest,  *)
(* in up to five attempts.                                                 *)
Audit(t, text) ==
    /\ phase = "audit" /\ <<t, text>> \in Forbidden \ audited
    /\ \E answered \in BOOLEAN :
         /\ answered => guest[t] = "up"
         /\ IF answered /\ <<t, text>> \in leak THEN GiveUp("leak") /\ UNCHANGED audited
            ELSE IF FoundClean(t, text, answered)
            THEN audited' = audited \union {<<t, text>>} /\ UNCHANGED <<phase, error>>
            ELSE GiveUp("start") /\ UNCHANGED audited
    /\ UNCHANGED <<guest, seat, late, faults, manifest, leak, stuck, check>>

(* invocations: what an agent is told comes from files of the arena: under *)
(* fog the player's brief alone, else its territory's instruction and, in  *)
(* a build race, the contract of the service.                              *)
MissingInstruction(t) ==
    IF manifest.fog # None THEN ~manifest.files.brief
    ELSE \/ manifest.mode = "build_race" /\ ~manifest.files.contract
         \/ t \notin manifest.files.instructions

StartMatch ==
    /\ phase = "audit" /\ Forbidden \subseteq audited
    /\ IF \E t \in Ids : MissingInstruction(t) THEN GiveUp("match")
       ELSE phase' = "match" /\ UNCHANGED error
    /\ UNCHANGED <<guest, seat, late, faults, arena, stuck, check>>

-----------------------------------------------------------------------------
(* The referee's verification of a milestone.                              *)

SetCheck(t, new) == check' = [check EXCEPT ![t] = new]

Eligible(t, m) ==
    m.id \notin check[t].passed /\ m.depends_on \subseteq check[t].passed

(* Mutant: it is marked once the guest is seen going. *)
MarkGoing(t) == Update(t, [seat[t] EXCEPT !.marker = guest[t] # "up"])

(* A host reboot is marked before it is asked for. *)
Mark(t) == Update(t, [seat[t] EXCEPT !.marker = TRUE])

BeginCheck(t) ==
    /\ phase = "match" /\ check[t].step = "idle" /\ check[t].attempt < MaxAttempts
    /\ \E m \in Milestones :
         /\ Eligible(t, m)
         /\ SetCheck(t, [check[t] EXCEPT
                          !.step = IF m.reboot THEN "marked" ELSE "verifying",
                          !.milestone = m.id, !.attempt = @ + 1, !.booted = FALSE])
         /\ IF m.reboot THEN Mark(t) ELSE UNCHANGED seat
    /\ UNCHANGED <<guest, late, faults, match>>

(* `systemctl reboot` over SSH, whatever comes of it: the request may be lost. *)
AskReboot(t) ==
    /\ phase = "match" /\ check[t].step = "marked"
    /\ \/ guest[t] = "up" /\ guest' = [guest EXCEPT ![t] = "going"]
       \/ UNCHANGED guest
    /\ SetCheck(t, [check[t] EXCEPT !.step = "stopping"])
    /\ UNCHANGED <<seat, late, faults, match>>

(* wait_for_one_ssh_cycle: one failed probe, for whatever reason, is taken *)
(* for a guest that stops, one that succeeds for a guest that came back.   *)
SeeStopped(t) ==
    /\ phase = "match" /\ check[t].step = "stopping"
    /\ SetCheck(t, [check[t] EXCEPT !.step = "starting"])
    /\ UNCHANGED <<guest, seat, late, faults, match>>

SeeStarted(t) ==
    /\ phase = "match" /\ check[t].step = "starting" /\ Reachable(t)
    /\ SetCheck(t, [check[t] EXCEPT !.step = "verifying"])
    /\ UNCHANGED <<guest, seat, late, faults, match>>

(* run_milestone_verifier.  A verifier succeeds with a guest that answers; *)
(* however it ends it may have left a file, whole or not, and what is read *)
(* when it succeeded is the file that is there.                            *)
Verify(t) ==
    /\ phase = "match" /\ check[t].step = "verifying"
    /\ \E exit \in {"success", "failure", "timeout"}, left \in {"nothing", "invalid", "valid"} :
         /\ exit = "success" => Reachable(t)
         /\ LET m == check[t].milestone
                there == CASE left = "nothing" -> check[t].evidence
                           [] left = "invalid" -> check[t].evidence \ {m}
                           [] left = "valid" -> check[t].evidence \union {m}
            IN SetCheck(t, [check[t] EXCEPT
                              !.step = "idle", !.milestone = None, !.booted = FALSE,
                              !.evidence = there,
                              !.passed = IF exit = "success" THEN @ \union ({m} \intersect there)
                                         ELSE @])
    /\ UNCHANGED <<guest, seat, late, faults, match>>

-----------------------------------------------------------------------------
(* The end of the match, of the run and of the process.                    *)

AllIdle == [t \in Ids |-> Idle]

TimeIsUp ==
    /\ phase \in {"match", "drain"} /\ ~late
    /\ late' = TRUE
    /\ UNCHANGED <<guest, seat, faults, match, check>>

(* The first completion ends the match and drops the checks of the others. *)
Complete(t) == manifest.build.completion \in check[t].passed

Finish ==
    /\ phase = "match"
    /\ \/ \E t \in Ids : Complete(t)
       \/ late /\ \A t \in Ids : check[t].step = "idle"
    /\ phase' = "drain" /\ check' = AllIdle
    /\ UNCHANGED <<guest, seat, late, faults, arena, error, stuck>>

(* The drain takes what arrives in its time, then aborts the agents' task. *)
Drain ==
    /\ phase = "drain"
    /\ seat' = [t \in Ids |-> Dropped(seat[t])]
    /\ phase' = "teardown"
    /\ UNCHANGED <<guest, late, faults, arena, error, stuck, check>>

(* An error of the match leaves it at once: the agents' task is detached.  *)
Leave ==
    /\ phase = "match" /\ phase' = "teardown" /\ error' = "match" /\ check' = AllIdle
    /\ UNCHANGED <<guest, seat, late, arena, stuck>>

(* Mutant: waits for a guest to come back for as long as it takes.        *)
LostBeforeReboot ==
    /\ \E t \in Ids : check[t].step = "stopping"
    /\ Leave /\ UNCHANGED faults

(* A guest that is not seen to stop within 30 seconds, or to come back     *)
(* within two minutes, is such an error, and so is, by way of finish,      *)
(* every abort of the referee.                                             *)
LostInReboot ==
    /\ \E t \in Ids : check[t].step \in {"stopping", "starting"}
    /\ Leave /\ UNCHANGED faults

Abort == \E t \in Seated : Accident("abort", t) /\ Leave

(* Mutant: handles are kept only when every guest has booted. *)
HeldTogether ==
    IF \E t \in Ids : guest[t] = "failed" THEN {}
    ELSE {t \in Ids : guest[t] \notin {"off", "failed"}} \ stuck

(* stop_all, of every guest the supervisor holds a handle of. *)
Held == {t \in Ids : guest[t] \notin {"off", "failed"}} \ stuck

Stop(t) ==
    /\ phase = "teardown" /\ t \in Held
    /\ \/ guest' = [guest EXCEPT ![t] = "off"] /\ Ended(t, "lost", FALSE)
          /\ UNCHANGED <<stuck, faults>>
       \/ /\ Running(t) /\ Accident("stop", t) /\ stuck' = stuck \union {t}
          /\ UNCHANGED <<guest, seat>>
    /\ UNCHANGED <<late, arena, phase, error, check>>

(* The match's error goes before those of the cleanup.  Then main returns, *)
(* and the runtime drops the tasks it has; or it prints the error and      *)
(* calls process::exit, which drops nothing: the group of a seat that is   *)
(* still waited for lives on.                                              *)
Exit ==
    /\ phase = "teardown" /\ Held = {}
    /\ phase' = "exited"
    /\ error' = IF error = None /\ stuck # {} THEN "stop" ELSE error
    /\ seat' = IF error' = None THEN [t \in Ids |-> Dropped(seat[t])] ELSE seat
    /\ UNCHANGED <<guest, late, faults, arena, stuck, check>>

-----------------------------------------------------------------------------
ControllerStep(t) ==
    \/ phase = "match" /\ Spawn(t, AdapterOf(t)) /\ UNCHANGED <<match, check>>
    \/ phase # "exited" /\ (Reap(t) \/ Expire(t) \/ Timeout(t)) /\ UNCHANGED <<match, check>>
    \/ BeginCheck(t) \/ AskReboot(t) \/ SeeStopped(t) \/ SeeStarted(t) \/ Verify(t)

AdapterStep(t) ==
    /\ SetupDone(t) \/ SetupFails(t) \/ Collect(t) \/ Notice(t) \/ Wait(t) \/ Close(t)
    /\ UNCHANGED <<match, check>>

GuestStep(t) ==
    \/ (Work(t) \/ GoesDown(t)) /\ UNCHANGED <<match, check>>
    \/ /\ ComesUp(t) /\ UNCHANGED match
       /\ SetCheck(t, [check[t] EXCEPT !.booted = check[t].step # "idle"])

AccidentStep(t) ==
    /\ \/ Disconnects(t) \/ RebootsItself(t) \/ Lost(t)
       \/ AdapterDies(t) \/ AdapterBreaks(t)
    /\ UNCHANGED <<match, check>>

RunStep ==
    \/ Load \/ BootAll \/ WaitForSsh \/ (\E cell \in Forbidden : Audit(cell[1], cell[2]))
    \/ StartMatch \/ Finish \/ Drain \/ Exit \/ TimeIsUp
TeardownStep == \E t \in Ids : Boot(t) \/ Stop(t)

Next ==
    \/ RunStep \/ TeardownStep \/ LostInReboot \/ Abort
    \/ \E t \in Seated : ControllerStep(t) \/ AdapterStep(t) \/ GuestStep(t) \/ AccidentStep(t)

(* The controller and every adapter keep going, the programs they run end; *)
(* no guest and no agent has to do anything, and no accident has to happen. *)
Spec ==
    /\ Init /\ [][Next]_vars
    /\ WF_vars(RunStep \/ TeardownStep)
    /\ WF_vars(\E t \in Seated : ControllerStep(t) \/ LostInReboot)
    /\ \A t \in Seated : WF_vars(AdapterStep(t))

-----------------------------------------------------------------------------
(* What is played can be played: a manifest that loads has milestones that *)
(* can all be passed, a completion among them and one agent for each       *)
(* territory, as the runner's expect() calls take for granted; and no      *)
(* manifest is refused for its contract alone unless that fails            *)
(* (manifest.rs:491-600, runner.rs:644, 747, 1232).                        *)
AcceptedIsPlayable ==
    phase # "load" =>
      IF error # "manifest" THEN ContractPlayable(manifest) /\ SeatsPlayable(manifest)
      ELSE ContractErrors(manifest) = Errors(manifest) => ~ContractPlayable(manifest)

(* Nothing that is hidden reaches a seat: whatever strings and guests were *)
(* searched in however many attempts, no seat is played while the image of *)
(* some territory has a forbidden string in it (runner.rs:1075-1140).      *)
NothingLeaks == \A t \in Ids : seat[t].run # "none" => leak = {}

(* Whatever went wrong, a partial boot, an audit, a lost guest or an       *)
(* interrupt, once run_match returns the only guests left running are      *)
(* those whose stop failed, and then it has returned an error              *)
(* (supervisor.rs:98-110, runner.rs:130-148).                              *)
NoGuestLeft ==
    phase = "exited" =>
      \A t \in Ids : Running(t) => t \in stuck /\ error # None

(* No proxy, tunnel or ssh of an adapter outlives the task that waits for  *)
(* the adapter: neither a timeout, an adapter that died, an aborted drain  *)
(* nor a plain end of the process leaves the group behind.  Past the end   *)
(* of the process it does so only where an error of the match has detached *)
(* the agents' task, for process::exit kills nothing (command.rs:11-27,    *)
(* 120-158; runner.rs:527, 604-607; main.rs:38-43).                        *)
NoChildOutlives ==
    \A t \in Ids : seat[t].children =>
      seat[t].run \in {"waiting", "expired"} /\ (phase = "exited" => error = "match")

(* What such an exit leaves behind goes by itself: the guests have been    *)
(* stopped, every adapter notices and terminates its children, however it  *)
(* was caught.  An adapter that had died, one that the controller has just *)
(* killed, and one whose guest could not be stopped are the exceptions     *)
(* (opencode_adapter.py:325-366, claux.sh:123-138).                        *)
OrphansEnd ==
    \A t \in Seated :
      <>[](phase = "exited" => \/ ~seat[t].children
                               \/ Running(t)
                               \/ <<"adapter", t>> \in faults
                               \/ seat[t].run = "expired")

(* A session that the referee's own reboot cut is not held against the     *)
(* agent: every adapter reports it as interrupted, or as having overrun    *)
(* its time or budget, unless the agent's own stream says how it ended.    *)
(* Only a harness that broke, and claux.sh, which may give up waiting or   *)
(* see the agent terminated before the connection goes, say otherwise.     *)
(* Conversely a session whose connection went is called interrupted only   *)
(* if a reboot was marked or the stream says so (README.md:159,            *)
(* docs/opencode-adapter.md:62-63; runner.rs:413-420,                      *)
(* opencode_adapter.py:107-136, term_llm_adapter.py:68-88,                  *)
(* claux.sh:286-434).                                                      *)
RebootIsNotBlamed ==
    \A t \in Ids : Reported(t) =>
      LET s == seat[t]
          status == s.report.status
      IN /\ s.cut =>
              \/ status \in {"interrupted", "timed_out", "budget_exceeded", s.copy.outcome}
              \/ status = "harness_error" /\ <<"adapter", t>> \in faults
              \/ s.harness = "claux" /\ (status = "harness_error" \/ s.session = "terminated")
         /\ s.session = "lost" /\ status = "interrupted" =>
              s.marker \/ s.copy.outcome = "interrupted"

(* An answer that comes as the time runs out is counted or is not there:   *)
(* whatever an adapter has left, before, while or after it is killed, the  *)
(* controller's report has all of its cost (command.rs:127-158).           *)
LateAnswerCounts ==
    \A t \in Ids :
      Reported(t) /\ seat[t].file # None => seat[t].report.cost = seat[t].file.cost

(* Each guest reboots: what a host-reboot milestone verifies is a guest    *)
(* that has booted since the attempt began (runner.rs:411, SPEC.md:24).    *)
(* It does not hold: a request that is lost and a probe that fails look    *)
(* the same as a reboot (runner.rs:435, 837-841).                          *)
RebootIsReal ==
    \A t \in Ids :
      check[t].step = "verifying" =>
        \A m \in Milestones : m.id = check[t].milestone /\ m.reboot => check[t].booted

(* run_match returns, with guests that never answer or never come back,    *)
(* agents that never end and stops that fail (runner.rs:89-149, 345-500).  *)
MatchReturns == <>[](phase = "exited")
=============================================================================
