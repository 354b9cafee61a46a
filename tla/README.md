# Agents of Empires: verification project

TLA+ models of the match engine of this repository, TLC configurations that
check them on small instances, and TLAPS proofs for every value of the
constants. The code is the reference: every definition is translated from
`src/` and `PROJECT.json` ("map") names the lines it stands for.

## 1. The system

A *match* boots one NixOS guest per *territory*, gives each to an agent (an
external harness run as a process), and lets a *referee* decide from outside.
In a **build race** the agents deploy a service through *milestones* that
controller-side verifiers check, and the first *durable* deployment wins. In
the older **conquest** mode a probe watches each territory's health, and the
last one standing wins. Every fact becomes an event in an append-only log; the
*world* is whatever those events reduce to. *Series*, *benchmarks* and
*seasons* run many matches and resume from checkpoints.

| component | state | operations | how it interacts |
|---|---|---|---|
| build referee (`referee/build.rs`) | match state, per competitor: state, passed, points, durable time; clock, sequence, outcome | start, record, begin/pass/fail milestone, finish, abort | called by the runner; returns events |
| conquest referee (`referee/rules.rs`) | match state, per territory: state, streaks, recovery deadline, downtime, uptime, resources | start, observe, tick, charge, record, abort | called by the runner; returns events |
| runner (`controller/runner.rs`) | position in its loop, clock, world, `usage_seen`, drain counters | load, boot, audit, run match, record results, sweep milestones, reboot, verify, record usage, drain, clean up | owns referee, log, world; receives agents' results through a channel |
| reducer (`replay/reducer.rs`) | `WorldState` | reduce | every event, live and in replay; the runner reads the world back to find eligible milestones |
| event log (`replay/log.rs`) | file, buffer, next sequence | open, append, load | written by the runner, read by watchers, replay and reports |
| usage accounting (`runner.rs`, `reducer.rs`) | `usage_seen`, counters of each agent | delta of a cumulative report, charge | checkpoints (`usage.json`) and results race |
| agents (`agent/`) | adapter processes and their groups, result channel | run_all, run_stream, budget, timeout | a result per agent, in completion order |
| adapters (`adapters/`) | SSH session, copy of the agent's events, result file | set up, poll, copy, tell a reboot from a disconnect, close | read the marker `referee-reboot` that the runner writes |
| supervisor (`runtime/`) | running guests, ports | boot_all, stop, stop_all | conquest stops the eliminated; everything stops at the end |
| verifier (`runner.rs:735`) | evidence files | run with a timeout | one check per eligible territory, concurrently |
| manifest (`domain/manifest.rs`) | none | parse, validate | milestone dependencies must be acyclic |
| season (`controller/season.rs`) | `seed.secret`, `draw.json`, `week.json`, a journal per heat, a directory per attempt | draw, run week, replay, settle, rank, resume | every attempt is a match |
| model pool (`season/model_pool.rs`) | none | resolve a registry for a provider | gives a season its fleet |
| series (`controller/series.rs`) | `series.json`, a directory per round | run, resume, rotate seats, archive, summarize | every round is a match |
| benchmark (`controller/benchmark.rs`) | `benchmark.json` | load suite, run, resume, summarize, rank | every arena is a series |
| provenance (`controller/provenance.rs`) | `match.json` | digest, compatibility key | compared by series, benchmark and season before they count a match |
| reports, analysis, TUI, CLI, snapshots, probes | none of a match | read or render | |

What makes it hard: checks complete in any order and are dropped when the match
ends; results, usage checkpoints, the timer and the operator's interrupt race;
eligibility is read from a *second* ledger (the world), not from the referee;
the drain works with a clock frozen before it; the referee reboots guests under
the agents that work in them; guests, adapters and stops fail one by one;
conquest rounds are dated when they begin although their probes take seconds;
downtime is accounted lazily in four places; the log may be cut anywhere; weeks
and benchmarks take days and are resumed, from several files, after a stop
between any two writes, over arenas that may have been edited. What is hard to
test is listed, line by line, under "hazards" in `PROJECT.json`, with the
properties aimed at it.

What must hold, per component:

* referees: a result is final and announced once; the winner is who the
  ranking says, never an artefact of the sort; records of one competitor agree;
  eliminations follow the recovery window; downtime is what really passed.
* runner: the referee never refuses what the runner asks; both ledgers agree;
  every agent is counted once; the match ends, and its process; eliminated
  guests, and only they, are off; no guest and no child process is left behind.
* around the loop: what is accepted can be played; nothing hidden reaches a
  seat; a reboot that is verified took place (it need not: section 6) and is
  nobody's failure; a late answer is counted.
* usage: cumulative reports are charged once. Log: nothing synchronized is lost.
* season: whatever the field, a bracket ends in one final; a resumed week draws
  what it drew, plays each heat once, keeps its evidence and settles; who
  forfeits does not advance; the standings add up.
* benchmark: what is compared was played under one plan and says what the kept
  directories say; everybody has played from every seat; it settles.

## 2. Modules

| module | models | notes |
|---|---|---|
| `BuildReferee` | `build.rs` | a state machine open to any caller: one action per public method, refusals included |
| `BuildRefereeProofs` | | TLAPS |
| `Race` | (abstract) | what a build match promises whoever watches: phase, scored milestones, champion |
| `WorldReducer` | `reducer.rs` | pure: `Apply(world, event)`, `Reduce` |
| `UsageDelta` | `usage_delta`, `apply_usage` | pure |
| `UsageLedger`, `UsageLedgerProofs` | one agent's account against everything it reported | TLAPS |
| `BuildMatch`, `BuildMatchProofs` | `run_booted_build_match`, `drain_build_agents`, agents, verdicts, clock | composes `BuildReferee`, `WorldReducer`, `UsageDelta`; refines `Race`; TLAPS |
| `ConquestReferee` | `rules.rs` | pure functions on the referee's state; `tick` is a recursive function along the territories |
| `ConquestMatch`, `ConquestProofs` | `run_booted_match`, `supervisor.stop` | one probe per territory and round; TLAPS |
| `EventLog`, `EventLogProofs` | `log.rs` | a file of pieces, a process that is killed, a machine that loses power; what a reader makes of it is a set of lines; TLAPS |
| `Contract` | `manifest.rs` | pure: `Errors(manifest)`, and, from the runner's side, `ContractPlayable` and `SeatsPlayable` |
| `Seat` | `command.rs`, `controller.rs`, the three adapters | a guest, the adapter process in front of it, the controller's hold of that process, and accidents |
| `Host`, `HostProofs` | `run_match` around its loop, `supervisor.rs`, `nix.rs`, ports | composes `Contract` and the `Seat`s: boot, audit, reboot and verification, cleanup; TLAPS |
| `Bracket` | `bracket_shape` | pure; a recursive function of the field |
| `Option`, `Order` | `Option`, `sort_by` | an option that is none; a finite set laid out by a strict order, as a recursive function |
| `Heat` | `heat_result`, `needs_replay`, `rank_wildcards` | pure |
| `ModelPool` | `model_pool.rs`, `SeasonManifest::load` | pure |
| `Season`, `SeasonProofs` | `draw_week`, `run_week` | composes the four above; files on disk, a process that is killed; refines `Cup`; TLAPS |
| `Cup` | (abstract) | a knockout, as whoever reads the results sees it |
| `Series`, `Provenance` | `series.rs`, `provenance.rs` and the reckoning of `benchmark.rs` | pure |
| `Benchmark`, `BenchmarkProofs` | `run_benchmark`, `run_series` | composes the two above; files on disk, edits, a process that is killed; TLAPS |
| `MC...` | | constants for TLC |

Correspondence. A method that returns `Err` is the same action taking a
refusing disjunct: `reply` holds the error and `emitted` the events returned.
In `BuildMatch`, `Call(A, next)` is `append(log, world, events, call?)`: the
action `A` of the referee, its events reduced into `world`, and `pc` moved to
`next`, or to `failed` when the `?` leaves the run. Code between two awaits is
one step where other actors could tell the difference; `pc` (`phase` in `Host`)
names the place in the function. Agents end with any status at any moment
(`End`), their results wait in `channel` (an mpsc channel with room for all),
and what they publish in `usage.json` is any value up to what they spent, or
unreadable. Operators whose comment begins with "Mutant" are bugs the
properties are tried against; no specification uses them.

In `ConquestMatch` the probes' time is added at the end of a round, because
nobody reads the clock in between; `downtime` is a history variable that
watches the states alone.

`Host` and `BuildMatch` cut the same function twice. `BuildMatch` has the
standings, the clock and the drain, and of a verification only its verdict;
`Host` has what a verification does to its guest and to the seat in it, and of
the standings only which milestones were accepted. A verification in `Host` goes
from `marked` through `stopping` and `starting` (`wait_for_one_ssh_cycle` takes
any probe that fails for a stop, and then one that succeeds for a start, so
`SeeStopped` has no condition) to `verifying`; the request in between may be
lost. `booted` is a history variable: the guest has really booted since.
`evidence` is the set of evidence files on disk, whichever attempt left them; an
attempt may leave a whole file, a torn one, or the old one.

A seat is one record: the session in the guest or its exit, the adapter's place
(`polling`, `awaiting` a guest after a marked disconnect for a minute at most,
`answered` or `forsaken`, `closing`), its children, the agent's event `stream`
in the guest and the last `copy` of it, `result.json` (`file`) and what the
controller made of it (`report`). A stream is reduced to what was spent and how
it says it ended, which may be an error of any class. The label of a result is
made in each adapter's own order: opencode looks at errors before the exit,
term-llm at the exit before errors, claux at a fetched result first, and at its
marker only if the guest answered. `cut` is a history variable: the referee's
reboot ended the session. `Broken` is what an exception leaves (the Python
adapters report a `harness_error`, `claux.sh` nothing); a probe of the wait that
hangs longer than its 20 s is one cause, and `AdapterBreaks` an accident.
At the timeout the leader is killed and waited for (`Expire`) before its file is
read (`Timeout`).

`Exit` is main.rs:38-43. A match that succeeded returns from `main` and the
runtime drops the tasks that are left; every error ends in `process::exit(1)`,
which drops nothing. An error of the match detaches the agents' task, so that
its adapters, in process groups of their own, are left to themselves. `leak` is
the images the guests were built from.

`Season` and `Benchmark` split their variables into what is on disk and what a
process holds; `Crash` clears the second and may come between any two writes,
each of which replaces a file atomically (a partial file, then a rename). A
`week.json` that is missing is read as a new week, a `benchmark.json` that is
missing as a record without a plan. A match
is one step whose final world is any member of a constant; `artifacts` (`dirs`)
says of the directory of an attempt (of a round) whether its match has ended in it.
`DrawRng` is a position: what it yields is fixed by the seed, so a shuffle drawn
at position `p` is a fixed rotation by `p * p`, and a resume that draws more or
less than the first run did is noticed. `Benchmark!Edit` changes the arenas on
disk at any moment; a digest is taken for what it is a digest of.

Abstractions: names, reasons, evidence and details are left out; the two token
counters are one; envelope numbers are kept where the world or the log use them
and left out in conquest; milliseconds are ticks; an attempt costs each of its
seats one unit; the leaderboard's milestones and failures are left out.

## 3. Runs

Run with `tlc -workers 2 -config <cfg> <module>`.

| run | what it asks | bounds, and why they are enough |
|---|---|---|
| `referee` | any calls in any order, unknown names: do records agree, is the winner better than every rival, is the result final | 3 competitors and an unknown one, 2 milestones (one completing), clock 0..2, time going back, 14 events and no stop at the first durable: three-way ties, ties in time, points and count; points saturate at 2. That the first durable competitor wins is asked in `match_race`, whose contract stops there |
| `match_race` | a whole match: ledgers, refusals, drain, usage, the first durable competitor wins, `Race` | 2 agents, 2 milestones behind each other, the second a reboot; 2 ticks and 1 of overrun; results before, between and after the checks and the drain |
| `match_faults` | an end, with interrupts, harness errors, no stop at the first durable | 2 agents, 2 ticks |
| `match_abort`, `season_draw`, `host_reboot` | disagreements, see section 6 | 1 tick; one cup; the bounds of `host` |
| `usage_ledger` | do charges add up to the largest report of each counter | counters 0..2, at most 2 different reports told apart, any number of repetitions: the proof covers the rest |
| `event_log` | a log stopped anywhere | 8 events, one writer per log as the runner enforces (`runner.rs:93-99`) |
| `conquest_match` | eliminations, power-off, windows, downtime, ranking, results after the end | 3 territories, threshold 2, window 3, timer 6, rounds that take up to 1 tick: recoveries, failed recoveries, several eliminations in one round, a timer with ties; one agent charges a unit |
| `host` | what is accepted, audit, boot, reboot, cleanup, children, late answers, what an exit leaves | 2 territories, one of them played (`Seated`; the other boots or fails to, and stops; guests that reboot or are lost are the played one), once with each adapter; 2 milestones, the second with a reboot; 2 verifications (`MaxAttempts`: one that fails, one that passes), one accident (`MaxFaults`: a dropped connection, a lost guest, a reboot of the agent's own, an adapter that dies or breaks, an abort, a stop that fails), one unit spent (`MaxSpent`), one class of errors (`Failures`); every dependency graph over 3 milestones and an unknown one, and every small list of territories and of agents |
| `season` | draw, replays, forfeits, wildcards, resume, standings, `Cup`, an end | five weeks: 4 players in heats of 3 with a replay of each kind (bye and wildcards), 4 drawn out of a pool of 5 in heats of 2 (two heats, then a final), 6 in heats of 3 without replays, two that run out of ports, before a heat or within it; 17 season files and registries that are refused; every ending of a match that `heat_result` tells apart, turned over the seats; brackets for every field up to 24 in heats of 2 to 5 |
| `benchmark` | one plan, leaderboard, seats, aborts, an end | an arena of three rounds, as many as seats, and one of a single round; three agents of two models, declared in different orders, one that does not always report; three editions of the arenas, of which two are compatible; the same with ports for one round only; seven suites that are refused |

`referee` and `event_log` allow the system to stop (calls bounded by
`MaxEvents`), so they do not check deadlock; neither do `host`, `season` and
`benchmark`, where a process has exited or a week is settled. `usage_ledger` and
the match runs check it: the latter only stutter at `done` or `failed`. No symmetry is declared: ids are
ordered. `host` has the constraint `OnlyPlayed`: manifests that are there for
`Contract` are not followed beyond their loading when they are accepted; no
liveness depends on them, as they are cut off before the match that the played
ones go through.

Fairness. `BuildMatch!Spec` has `WF_vars(Runner)`: the runner is one task whose
every wait is cut off by a timeout (`tick` sleep, the verifier's timeout, 30 s
and 120 s for a reboot, 3 s per probe, 30 s for the drain). No fairness is
assumed of agents, verifiers' verdicts, results or the clock: `Settles` holds
though no agent ever ends. Verdicts come from `Runner` because a verifier that
does not answer fails by its timeout.

`Host!Spec` has weak fairness for the run with its cleanup, for the controller's
work on the seats, and for each adapter. The waits of the runner and the adapters
have timeouts (`GiveUp`, `LostInReboot`, `Timeout` and `forsaken` stand for them),
with two exceptions that are assumed to end: `nix build` before a boot
(nix.rs:56-65) and `child.kill().await` at an agent's timeout or a stop. No guest
has to come up, no agent to end, no accident to happen, no stop to succeed. An
adapter keeps going when the controller has exited (`OrphansEnd`). `Season!Spec` and `Benchmark!Spec` have
`WF_vars(Step)`: the operator runs the command again as long as it has not
settled (README.md: an interrupted week or series "resumes"). Their liveness
is about runs that are stopped, fail and are edited finitely often; what is left
as an outcome that is not an end is named in the property: a week short of
players or ports, a season or suite that is invalid, a benchmark whose records
stay incompatible with its arenas.

## 4. Proofs

`tlapm <module>` checks every proof of `BuildRefereeProofs`, `BuildMatchProofs`,
`UsageLedgerProofs`, `ConquestProofs`, `EventLogProofs`, `HostProofs`,
`SeasonProofs` and `BenchmarkProofs`. They use the named assumptions on the
constants and nothing else; the modules that declare the constants state them, TLC
evaluates them on every run, and they say what `manifest.rs`, the season file and
the Rust types guarantee: ids are distinct and sorted, milestones and territories
are finite, amounts and times are natural numbers, an option is not one of its
values, a final world says of each territory when it was durable and what was spent. The theorems are listed, each with its property, in `PROJECT.json`. All the
safety arguments are inductive invariants; what each one adds to the property is:

**`BuildReferee`.**

* `TypeCorrect`, `DurableAgreement`, `FirstDurableIsWinner`: the records'
  agreement is inductive once it is stated together with the type invariant
  and with "nothing is earned before the start": without that, `start` (which
  sets every state to building) could hide a durable competitor. For the first
  durable competitor one needs besides that, while the match runs and stops at
  the first durable, nobody is durable: then the one that becomes durable is
  the only one with a durable time and sorts before everyone.
* `ResultFrozen`: an action property; every accepting disjunct needs
  `matchState = "running"` except `record`, which changes no standing.
* `WinnerRule`: no induction. `SortsBefore` is a strict total order on the
  territories; the leader that is not tied with the runner-up is better than
  the runner-up and therefore than everybody, and conversely who is better
  than everybody leads. This is where comparing with the runner-up alone
  could have been wrong. `Better` is the ranking of SPEC.md:161-175 as far as the
  referee can know it. Two competitors that have not finished and are equal in
  score and stage are not compared by the property: the document ranks them by
  time, cost and tokens, the code calls them tied (section 6).

**`BuildMatch`.** The events of a call are a sequence, and the world is what
folding over it gives; the lemmas say what one event, then one call, makes of a
world, as a relation between before and after, and that the events of distinct agents do
not disturb one another, so that the sequences of a collection, a checkpoint and
the end of the drain are inductions over agents. On these rests one invariant over
the runner, the agents and the clock:

* `LedgersOK`: what the world says of match, winner, clock and every competitor
  is what the referee's records say (`LedgersAgree`). It needs that a pending
  check is of a milestone not yet passed (`ChecksOK`), because the world adds
  points for what it has not seen passed.
* `PhaseOK`: the referee's clock is not ahead of `started.elapsed()` and, from the
  freeze on, is the frozen time. So no call is refused (`NeverRefused`), except
  by a match that was aborted: section 6.
* `AgentsOK`, `ChannelOK`: an account is what `usage_seen` says, never above what
  the agent spent, and covers what a result told unless that result is still in
  the channel; there it is the only one of its agent, and that agent is still
  running (`ChargedOnce`).
* `DrainOK`: captured and running together are those pending when the drain
  began, and after the results are in nobody is building (`AgentsCounted`).

`PromiseKept` is the refinement of `Race`: by the invariant the phase, the scored
milestones and the champion that `Race` speaks of are the referee's, and each
call of the referee that changes them is one step of `Race`. That the passing
competitor is the champion there needs `DurableOK` (nobody is durable yet) and the
sort: the only durable competitor comes first and ties with nobody. The same two
facts give `FirstDurableCrowned`: who is durable has a durable time, so that before
the end nobody is, and after it nothing changes the standings.

**`UsageLedger`.** `UsageChargedExactly`: `usage_seen` is the largest value
reported of each counter and the account has been charged exactly what
`usage_seen` says; each report then adds the difference.

**`ConquestMatch`.** Downtime is accounted lazily, so the invariant relates a
record to the history of its states: what is accounted plus what has accrued
since is the downtime so far, and a deadline is the moment the territory went
down plus the window (`Tracked`). `DowntimeIsAccountedHolds` and half of
`WindowDecidesHolds` follow. The other half, and `EliminatedArePoweredOffHolds`,
rest on `WindowOK`: who has been probed in this round and is still down has time
left, by the round's date. Everybody is probed before the tick, which has the same
date, so no tick eliminates anybody and the runner, which stops only what an
observation eliminated, stops everybody who should be. `tick` is a recursive
function along the territories and its lemma an induction on them.
`WinnerIsUnbeatenHolds`: the sort key is a strict total order, so every non-empty set
of territories has a leader (induction on its size).

**`EventLog`.** The invariant gives the file piece by piece: event `k` is at
`2k + 1`, whole, or cut at the very end; what is safe is on disk. That
what `load_events` reads of such a file is a prefix is then counted
(`NothingSyncedIsLostHolds`, `ReadersKeepUpHolds`). Both hold of a log that is
written once (`~Reopens`), as the runner enforces; of a log that is opened again they
are false (section 6).

**`Host`.** One predicate on a seat says how far the session, the adapter, its copy
and the files have come together (`Sound`), one which labels a result may have
(`Blameless`), and one what each phase leaves behind (`PhaseOK`).
`RebootIsNotBlamedHolds` goes by adapter: a session cut by the referee was
marked first, so unless the agent was terminated in good order the adapter
waits; what it then says is one case of its own label for each outcome of the
copy. `NoChildOutlivesHolds`: children are there only while the
controller waits for their adapter, and what is detached at the exit is so only
by an error of the match. `LateAnswerCountsHolds`: a file, once its leader has
been killed and waited for, changes no more. `NoGuestLeftHolds`: a guest runs
after `Exit` only if its stop failed. `NothingLeaksHolds` needs that the audit has
gone through every guest before `match`. That a verified reboot took place is
not provable, because it is false (section 6).

`AcceptedIsPlayableHolds` is about `Contract`, for every manifest of the types of
`ArenaManifest` (`ManifestsAssumption`). Both the depth-first search of
`milestone_has_cycle` and the order in which milestones can be passed come down to the
same thing, a set of milestones each of which waits for another of the set.
`HasCycleIs`: the search has exactly one answer, the one that reports such a set
(any two answers agree, by induction on the milestones that are not on the path).
`AllPassableIs`: as many turns as there are milestones pass all of them just when
there is no such set. So the validation refuses a contract exactly when it
cannot be played (`ContractIsRight`), and one agent for each territory is a
bijection (`SeatsAreRight`).

**`Season`.** `EveryBracketEnds`: `bracket_shape` is a recursive function of the
field, unrolled by an induction on the field; each round is filled exactly by
the winners, byes and wildcards of the one before, down to one final, for every
size of heat and every fleet. The inductive invariant about the disk (`Inv`)
is that the draw of every round recorded in `draw.json` is at the position the
recursion reaches (`ResumeFindsItsDrawHolds`: a resume recomputes the
same positions), that the directories kept are the attempts of the journal and at most one more
(`EvidenceIsKeptHolds`), and that a heat's journal has no more replays of a kind than
allowed, and one less while another is to be played (`ReplaysAreBoundedHolds`).

Two more invariants are inductive beside it. `Fair` says who plays: every draw of a
round shares its entries out among heats and byes, nobody twice (`Partition`), a
heat's result is of the players drawn into it, and a heat is won by nobody whose
result stayed unavailable. It needs that sorts, shuffles and cuts keep the places of a
list distinct (`InOrderFacts`, `RotatedFacts`, `DistinctPart`), and gives
`AdvanceOnMeritHolds`. `Accounted` relates the two records of a heat: what
`week.json` has of it is what its journal says, a heat without a journal is in
no round, and the standings are those of the rounds recorded.
`StandingsAgreeHolds` counts from there in two ways: what the players paid, summed over the
fleet, is what the heats cost, summed over the seats of each heat
(`TotalTwice`, from sums over finite sets proved by induction on the set). That
the champion alone is past the final needs that the final is one heat without byes or
wildcards (`EveryBracketEnds`).

`DecidedStandsHolds` is the refinement of `Cup`: the field is everybody drawn, then
those who enter the round that has results; the first heat of a round shrinks it,
because some of the field always lost (`FieldShrinks`: a round that is entered is smaller
than the one before); every other step that writes leaves what is published as it is.

**`Benchmark`.** An arena has as many directories as recorded rounds, or one
more, unless its series has ended; only the last round may be aborted; the arenas in
`benchmark.json` have ended under its plan's key, and the process holds what is
on disk (`OneEditionHolds`, `NothingAfterAbortHolds`). For `EverySeatOnceHolds` rounds
rotate seats, and a rotation by each number below the number of seats takes
every agent to every seat exactly once.

`LeaderboardMatchesEvidenceHolds` needs `Counted` beside it: a recorded round is the
summary of a world that was played and whose directory is kept, and an arena in
`benchmark.json` that of its recorded rounds. From there it follows the sums the code
takes. A row is an `Account` of a set of sittings (one agent in one kept round) when
its appearances, wins, durable times, reports and cost are those of the set. An agent's
standing in a series is one of its own rounds (`StandingAccount`); accounts of disjoint
sets add up to an account of their union (`TotalAccount`), which is used twice, over
the agents of a model and over the arenas. `MedianIs` says of times in any order that
the one chosen has at most half of them before it and fewer than half behind.

The library states induction with an operator as parameter, which the provers
cannot instantiate. `Least` and `SetInduction` state it for sets, from the
well-foundedness of `<`; recursive functions (`bracket_shape`, positions of the
draw, the lines of a log, `tick`) are proved with them. A fold over a set is
unfolded through the function it is defined by (`Sums`, `Unfolds`); `SelectSeq`
and `SortSeq` stay opaque to the provers, so that `Season` filters and sorts with
recursive functions of its own (`Winners`, `InOrder`), and the times of a standing in
`Series` are a family, of which the median is the one in the middle: the code
sorts a vector to find it, and the sorted order is all that `benchmark.json` adds.

Every invariant and action property of the passing runs, and both refinements, are
stated by theorems. Only model-checked is liveness (`Settles` and its like), which is
out of the prover's reach.

## 5. Mutants

Each property of each passing run is paired in `PROJECT.json` with a plausible
bug of a mapped definition that breaks it: a dropped guard (`AcceptsAnytime`,
`EligibleAtOnce`, `NeverExpired`), a wrong sort key (`NoneFirst`,
`KeyByDowntime`), a swapped order (`SyncEarly`, `MarkGoing`), a wait that is left
out (`Signalled`) or has no end (`WaitForGuest`), a window that starts again (`SickAgain`), a shared allowance
(`NeedsReplayShared`), a draw that is skipped on resume (`RoundDrawResumed`), a
reused directory (`ReusedAttempt`), and so on.

## 6. Where code and text disagree

* **An aborted match returns an error** (`match_abort`). After an interrupt or
  a no-contest abort there is no outcome, and `runner.rs:478` takes that for
  the timer: `finish` is refused, the agents are not drained and `world.json`
  is not written. `season.rs:743` expects an aborted heat to be inspectable.
* **A reboot that was not** (`host_reboot`). `runner.rs:435` drops the result of the
  request to reboot, and `wait_for_one_ssh_cycle` (837-841) takes one SSH probe that
  fails, for whatever reason, for a guest that has stopped. A request that is lost and
  one failed probe pass for a reboot, and the milestone is verified on a guest that
  never went down; `runner.rs:411` says that each guest reboots, and `SPEC.md:22-24` that
  the controller proves that the deployment survives it.
* **A drawn heat has a winner** (`season_draw`). `season.rs:1313` takes the
  match's winner, the leader in points at the deadline, before it looks for a
  durable seat; `README.md:380` and the comment at `season.rs:1330` say that a
  heat without a durable finisher is a draw. It is replayed as one, and then the
  leader advances. (The final is settled by `durable_heat_winner`.)

Observed while modelling, and run by no configuration:

* One guest lost in its reboot ends the match of all (`check?`, `runner.rs:527`),
  where the comment at `runner.rs:411` says that each guest reboots, recovers
  and verifies independently. A winner whose agent is still running after the
  drain is recorded as outraced (`runner.rs:633`), which `event.rs:63-65` reserves for
  those a rival beat. The latest cumulative report may have no cost and
  `cost_complete` stays true (`reducer.rs:34`).
* Opening a log whose last line is torn appends to that line and spoils the log
  (`EventLog` with `Reopens = TRUE`; the runner never does it).
* The conquest referee's `tick` alone can announce two results and eliminate a
  territory that nobody powers off; the runner keeps it from happening by
  observing everybody with the same time just before. Of two conquest leaders
  equal in everything but one being degraded, the smaller id wins, because the
  tie check compares the states and the sort does not.
* A controller that is killed leaves its guests running on their ports; an
  operator's interrupt before the loop is not handled at all.
* An error that leaves the match (`runner.rs:464`, 483, 527) detaches the agents'
  task, and `main.rs:42` then exits without running a destructor: neither
  `kill_on_drop` nor `ProcessGroupGuard` fires, and adapters, which are in groups
  of their own, outlive the controller until they notice that their guests are
  gone (`OrphansEnd`). The children of an adapter that had died, or that was being
  killed at its timeout, are left for good.
* The evidence file of an earlier attempt is never removed (`runner.rs:754`), and what
  is read after a verifier exits 0 is whatever file is there (797-803): one that
  succeeds without writing is accepted on old evidence. A verifier that is killed
  at its timeout leaves its own children, which may still write the file. Nothing in the
  repository promises otherwise; `Host` has both, and no property.
* A result file torn by a writer that does not rename (`oracle-*.sh`) becomes a
  `harness_error`.
* `README.md:159` says that an agent disconnected by a referee's reboot is recorded as
  interrupted. `claux.sh` asks that the guest is back within a minute, where the
  controller waits two: a slow guest gives a `harness_error`. `opencode` judges
  errors in the stream before the marked disconnect, so that an error written as
  the network goes gives `unavailable`, `failed` or `harness_error`; so does a
  probe of its wait that hangs (a Python adapter: `harness_error`). A claux
  session that the shutdown terminated first (exit 143) is judged as any other
  failure. An adapter that is still setting up when its guest is rebooted is a
  `harness_error`. `RebootIsNotBlamed` names these exceptions and excludes all others.
* `docs/opencode-adapter.md:62-63` says that an unexplained SSH loss remains a harness
  failure and a marked referee reboot is an interruption. The marker is never removed, so every later disconnect of
  that seat, and one just before the marker is written, is called interrupted too.
* `SPEC.md:169-175` ranks competitors that have not finished by score, stage, time of
  reaching it, cost and tokens. `build.rs:246-262` compares score and number of
  milestones only and calls equals tied: then there is no winner.
* `series` and `benchmark` record an aborted round and stop behind it. By the first
  finding `run_match` returns an error on every abort of a build race, so that such a
  round is not recorded today; their code is modelled as written.
* The audit's search discards its errors (`2>/dev/null`), so that a `find` that
  fails counts as clean; the model takes what a search answers for true.
* A match that has finished and is not journaled when the process is killed is
  moved aside and played again: its spending is in no standings.
* A series loads its manifest once and each round's `match.json` is made of the
  file as it is then; an arena that was edited before its series starts and
  restored before a round starts is played as edited and recorded as restored.
  Edits during a series are noticed when it is resumed or summarized.
* In a ranking of a series or a benchmark no median (no cost) sorts before some.
  A usage that reports tokens only counts as cost 0. `README.md:198` says that
  rounds use the same port range, and `round_ports` gives each its own.

## 7. Not modelled, and why

Reports, social cards, analysis, trajectories, TUI, the parsing of the command
line, scaffolding and snapshots read or render finished data. `Contract` leaves out
the syntax of names and paths and some numeric limits: it accepts more than the
code, and what it accepts is playable all the same. The conquest referee has one
health policy for all territories, as the shipped arenas have. Guest images, prompts and what an agent
or a verifier does in a guest are external: their contract is the statuses, the
usage files and the exit codes. `ArenaSupervisor::reboot` is called by nobody:
the referee reboots guests over SSH. Port numbers are only counted. `load_committed_arena`, which compares an
arena with its draw before every heat, fails as a match does (`FailAttempt`).
The suite, the season file and the adapters are not edited during a run.
Two matches at the same time, which only their ports and directories would keep
apart, are not modelled.

## 8. Plan

1. done: the referees, the reducer, usage, `Race` and `BuildMatch`, `EventLog`,
   conquest.
2. done: `Season` with `Bracket`, `Heat`, `ModelPool` and `Cup`; `Benchmark`
   with `Series` and `Provenance`; `Host` with `Contract` and `Seat`.
3. done: proofs of `BuildMatch`, `ConquestMatch`, `EventLog`, `Host`, `Season` and
   `Benchmark`, with `BuildMatch` as a `Race` and `Season` as a `Cup`.
4. Modules to be proved about keep recursion in functions.
