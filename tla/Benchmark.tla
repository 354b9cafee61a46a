------------------------------ MODULE Benchmark ------------------------------
(***************************************************************************)
(* A benchmark (run_benchmark, controller/src/benchmark.rs): a series of   *)
(* rounds (run_series, series.rs) in each arena of a suite, and the files  *)
(* a stopped process resumes from.  bench, series, dirs and edition are on *)
(* disk; pc, planned and error belong to the process, which Crash ends     *)
(* between any two writes, while somebody edits the arenas (Edit).         *)
(***************************************************************************)
EXTENDS Series

CONSTANTS
  Suites,     \* a sequence of suite files: rounds, and the arenas, each
              \*   with its manifest's path, its id, mode and fleet (the
              \*   configuration of each agent), and rounds of its own or
              \*   None; and ports, from the base port to the last one
  Editions,   \* states the files of the suite's arenas may be in
  FilesOf,    \* FilesOf[e]: the files of an arena in edition e
  Worlds      \* the final worlds of a match

INSTANCE Provenance

ASSUME BenchmarkConstants ==
  /\ DOMAIN FilesOf = Editions
  /\ \A e \in Editions : {"fog", "rest"} \subseteq DOMAIN FilesOf[e].manifest
  /\ Seats \in Nat \ {0}
  /\ \A s \in Range(Suites) : s.arenas \in Seq(Range(s.arenas))
  /\ \A s \in Range(Suites) : \A arena \in Range(s.arenas) :
       /\ {s.rounds, s.ports} \cup ({arena.rounds} \ {None}) \subseteq Nat
       /\ DOMAIN arena.fleet = Agents

(* A world says of each territory when it was durable and what was spent.  *)
ASSUME BenchmarkWorlds ==
  /\ None \notin Nat
  /\ \A world \in Worlds :
       /\ world.winner \in Agents \cup {None}
       /\ {world.durable, world.spent} \subseteq [Agents -> Nat \cup {None}]

VARIABLES
  file,       \* which of the Suites is run
  edition,    \* its arenas as they are on disk now
  bench,      \* benchmark.json: the plan's key, None when there is no such
              \*   file yet, and the arena summaries
  series,     \* series[i]: the rounds of arena i's series.json
  dirs,       \* dirs[i][k]: round-k, with match.json, arena.json and world.json;
              \* of match.json it has the edition its digests were taken of
  pc,         \* where the process is; "off" when none runs
  planned,    \* the key of its plan
  error       \* the error of the last run, or "none"

vars == <<file, edition, bench, series, dirs, pc, planned, error>>

suite == Suites[file]
Arenas == DOMAIN suite.arenas

Requested(s, i) ==
  IF s.arenas[i].rounds = None THEN s.rounds ELSE s.arenas[i].rounds

(* How many agents of each configuration: the fleet sorted, in load_plan.  *)
FleetIdentity(fleet) ==
  [m \in Range(fleet) |-> Cardinality({a \in DOMAIN fleet : fleet[a] = m})]

(* What load_plan accepts: the same fleet in different build races.        *)
ValidSuites ==
  {s \in Range(Suites) :
     /\ s.rounds > 0 /\ s.arenas # <<>>
     /\ \A i, j \in DOMAIN s.arenas : i # j =>
          /\ s.arenas[i].manifest # s.arenas[j].manifest
          /\ s.arenas[i].id # s.arenas[j].id
          /\ FleetIdentity(s.arenas[i].fleet) = FleetIdentity(s.arenas[j].fleet)
     /\ \A i \in DOMAIN s.arenas :
          s.arenas[i].mode = "build_race" /\ Requested(s, i) > 0}

(* arena_compatibility_key, and the key in a match.json.                   *)
KeyOf(e) == MatchProvenance(FilesOf[e]).key
KeyIn(dir) == KeyOf(dir.edition)

ASSUME KeysAreNotNone == None \notin {KeyOf(e) : e \in Editions}

Init ==
  /\ file \in DOMAIN Suites
  /\ edition \in Editions
  /\ bench = [plan |-> None, arenas |-> <<>>]
  /\ series = [i \in Arenas |-> <<>>]
  /\ dirs = [i \in Arenas |-> <<>>]
  /\ pc = "off" /\ planned = None /\ error = "none"

(* run_benchmark returns the summary as it is.                             *)
Settled ==
  /\ bench.arenas # <<>>
  /\ Stops(Last(bench.arenas)) \/ Len(bench.arenas) = Len(suite.arenas)

Exit(kind) == pc' = "off" /\ planned' = None /\ error' = kind

(* load_plan and load_checkpoint: the plan has the arenas' keys in it.     *)
StartBenchmark ==
  /\ pc = "off" /\ suite \in ValidSuites /\ ~Settled
  /\ bench.plan \in {None, KeyOf(edition)}
  /\ bench' = [bench EXCEPT !.plan = KeyOf(edition)]
  /\ pc' = "arena" /\ planned' = KeyOf(edition) /\ error' = "none"
  /\ UNCHANGED <<file, edition, series, dirs>>

RefuseSuite ==
  /\ pc = "off" /\ suite \notin ValidSuites
  /\ Exit("invalid")
  /\ UNCHANGED <<file, edition, bench, series, dirs>>

(* ResumeMismatch: the checkpoint is of another plan.                      *)
RefuseBenchmark ==
  /\ pc = "off" /\ ~Settled
  /\ bench.plan \notin {None, KeyOf(edition)}
  /\ Exit("mismatch")
  /\ UNCHANGED <<file, edition, bench, series, dirs>>

Current == Len(bench.arenas) + 1
Recorded == series[Current]

(* Mutant: the directory of an interrupted round is compared as well. *)
AllCompatible(i, key) == \A k \in DOMAIN dirs[i] : KeyIn(dirs[i][k]) = key

(* Mutant: the last round speaks for those before it. *)
LastCompatible(i, key) == series[i] # <<>> => KeyIn(dirs[i][Len(series[i])]) = key

(* The recorded rounds of arena i were played under this key.              *)
Compatible(i, key) == \A k \in DOMAIN series[i] : KeyIn(dirs[i][k]) = key

Evidence(i) == [k \in DOMAIN series[i] |-> dirs[i][k].world]

SeriesEnds(i, rounds) ==
  \/ rounds # <<>> /\ dirs[i][Len(rounds)].world.aborted
  \/ Len(rounds) = Requested(suite, i)

(* run_series and its load_checkpoint: the key is computed once more.      *)
StartSeries ==
  /\ pc = "arena" /\ Compatible(Current, KeyOf(edition))
  /\ pc' = IF SeriesEnds(Current, Recorded) THEN "played" ELSE "round"
  /\ UNCHANGED <<file, edition, bench, series, dirs, planned, error>>

RefuseSeries ==
  /\ pc = "arena" /\ ~Compatible(Current, KeyOf(edition))
  /\ Exit("mismatch")
  /\ UNCHANGED <<file, edition, bench, series, dirs>>

(* The rounds' directories once round-k, if it is there, is moved aside.    *)
ArchiveIncompleteRound == SubSeq(dirs[Current], 1, Len(Recorded))

(* round_ports: two for each seat of every round before this one; the     *)
(* network plan then wants as many for this one.                           *)
RoundPorts == 2 * Seats * Len(Recorded)
PortsFit == RoundPorts + 2 * Seats <= suite.ports

(* The match leaves its manifest and its provenance in a new directory.    *)
WithRound ==
  [dirs EXCEPT ![Current] =
     ArchiveIncompleteRound
       \o <<[edition |-> edition, seats |-> RotateSeats(Len(Recorded)), world |-> None]>>]

StartRound ==
  /\ pc = "round" /\ PortsFit
  /\ dirs' = WithRound
  /\ pc' = "match"
  /\ UNCHANGED <<file, edition, bench, series, planned, error>>

(* A match is begun, and refused its network, when there is a base port.   *)
NoPorts ==
  /\ pc = "round" /\ ~PortsFit
  /\ dirs' = IF RoundPorts <= suite.ports THEN WithRound
             ELSE [dirs EXCEPT ![Current] = ArchiveIncompleteRound]
  /\ Exit("ports")
  /\ UNCHANGED <<file, edition, bench, series>>

EndMatch(world) ==
  /\ pc = "match"
  /\ dirs' = [dirs EXCEPT ![Current][Len(Recorded) + 1].world = world]
  /\ pc' = "ended"
  /\ UNCHANGED <<file, edition, bench, series, planned, error>>

(* run_match_with_manifest fails: SeriesError::Round.                      *)
FailMatch ==
  /\ pc = "match"
  /\ Exit("round")
  /\ UNCHANGED <<file, edition, bench, series, dirs>>

(* The round is pushed and series.json replaced.                           *)
RecordRound ==
  /\ pc = "ended"
  /\ LET dir == Last(dirs[Current])
         rounds == Append(Recorded, RoundSummary(dir.seats, dir.world))
     IN /\ series' = [series EXCEPT ![Current] = rounds]
        /\ pc' = IF SeriesEnds(Current, rounds) THEN "played" ELSE "round"
  /\ UNCHANGED <<file, edition, bench, dirs, planned, error>>

(* summarize_arena reads the rounds' files again; benchmark.json follows.  *)
FinishArena ==
  /\ pc = "played" /\ Compatible(Current, planned)
  /\ \E fleet \in {suite.arenas[Current].fleet}, worlds \in {Evidence(Current)} :
     \E arena \in {SummarizeArena(fleet, Requested(suite, Current), Recorded, worlds)} :
       /\ bench' = [bench EXCEPT !.arenas = Append(@, arena)]
       /\ IF Stops(arena) \/ Current = Len(suite.arenas) THEN Exit("none")
          ELSE pc' = "arena" /\ UNCHANGED <<planned, error>>
  /\ UNCHANGED <<file, edition, series, dirs>>

RefuseArena ==
  /\ pc = "played" /\ ~Compatible(Current, planned)
  /\ Exit("mismatch")
  /\ UNCHANGED <<file, edition, bench, series, dirs>>

(* Somebody changes, or restores, a manifest or a verifier of the suite.   *)
Edit ==
  /\ edition' \in Editions \ {edition}
  /\ UNCHANGED <<file, bench, series, dirs, pc, planned, error>>

Crash ==
  /\ pc # "off"
  /\ Exit("none")
  /\ UNCHANGED <<file, edition, bench, series, dirs>>

Step ==
  \/ RefuseSuite \/ StartBenchmark \/ RefuseBenchmark
  \/ StartSeries \/ RefuseSeries
  \/ StartRound \/ NoPorts \/ (\E world \in Worlds : EndMatch(world)) \/ RecordRound
  \/ FinishArena \/ RefuseArena

Next == Step \/ FailMatch \/ Edit \/ Crash

(* The operator runs the command again as long as it is not settled.       *)
Spec == Init /\ [][Next]_vars /\ WF_vars(Step)

-----------------------------------------------------------------------------
(* Whatever was edited, stopped and resumed in between, the rounds counted *)
(* of an arena are recorded under the key of the plan, and what was given  *)
(* to the players and asked by the referee was the same in all of them.    *)
OneEdition ==
  \A i \in DOMAIN bench.arenas : \A k, l \in DOMAIN dirs[i] :
    LET one == FilesOf[dirs[i][k].edition]
        other == FilesOf[dirs[i][l].edition]
    IN /\ KeyIn(dirs[i][k]) = bench.plan
       /\ one.verifiers = other.verifiers
       /\ one.manifest.rest = other.manifest.rest
       /\ one.manifest.fog =>
            one.brief = other.brief /\ one.artifacts = other.artifacts

(* Every (arena, round) in which a model sat, with the seat it had there.  *)
Sittings(m) ==
  UNION {{[world |-> dirs[i][k].world, arena |-> i, round |-> k, seat |-> dirs[i][k].seats[a]]
            : k \in DOMAIN dirs[i], a \in {a \in Agents : suite.arenas[i].fleet[a] = m}}
         : i \in DOMAIN bench.arenas}

(* The leaderboard is what the kept directories say, whichever run played  *)
(* them, and fair: every round counted has the same agents of a model.     *)
(* Wins and durable times are its own, each as often as it happened, its   *)
(* median has no more than half of them on either side, and its cost is    *)
(* published only if all its appearances reported theirs.                  *)
LeaderboardMatchesEvidence ==
  pc = "off" /\ bench.arenas # <<>> =>
    LET published == Standings(bench.arenas)
        counted == SumOf([i \in DOMAIN bench.arenas |-> bench.arenas[i].completed])
    IN \A m \in Range(suite.arenas[1].fleet) :
      LET row == published[m]
          sat == Sittings(m)
          Time(s) == s.world.durable[s.seat]
          durable == {s \in sat : Time(s) # None}
          Quicker(t) == Cardinality({s \in durable : Time(s) < t})
          Slower(t) == Cardinality({s \in durable : Time(s) > t})
          silent == \E s \in sat : s.world.spent[s.seat] = None
      IN /\ row.appearances = Cardinality(sat)
         /\ row.appearances = counted * FleetIdentity(suite.arenas[1].fleet)[m]
         /\ row.wins = Cardinality({s \in sat : s.world.winner = s.seat})
         /\ \A t \in Range(row.times) \cup {Time(s) : s \in durable} :
              Cardinality({x \in DOMAIN row.times : row.times[x] = t})
                = Cardinality({s \in durable : Time(s) = t})
         /\ IF durable = {} THEN row.median = None
            ELSE /\ 2 * Quicker(row.median) <= Cardinality(durable)
                 /\ 2 * Slower(row.median) < Cardinality(durable)
         /\ row.cost = IF silent THEN None
                       ELSE SumOf([s \in sat |-> s.world.spent[s.seat]])

(* After as many rounds as there are seats every agent has played from     *)
(* each of them once, however often the series was resumed.                *)
EverySeatOnce ==
  \A i \in Arenas :
    Len(series[i]) = Seats =>
      \A a \in Agents : {series[i][k].seats[a] : k \in DOMAIN series[i]} = Agents

(* A round that was aborted and recorded is the last of the benchmark: not *)
(* in its arena nor in a later one is anything played after it.            *)
NothingAfterAbort ==
  \A i \in Arenas : \A k \in DOMAIN series[i] :
    dirs[i][k].world.aborted =>
      Len(dirs[i]) = k /\ \A j \in Arenas : j > i => dirs[j] = <<>>

Mixed ==
  /\ bench.plan # None /\ ~Settled
  /\ \/ bench.plan # KeyOf(edition)
     \/ \E k \in DOMAIN Recorded : KeyIn(dirs[Current][k]) # KeyOf(edition)

(* If the command is always run again and is stopped, edited under or      *)
(* failed by a match finitely often, the benchmark settles, unless its     *)
(* suite is invalid, its ports run out, or what is recorded stays          *)
(* incompatible with the arenas.                                           *)
BenchmarkSettles ==
  <>[][~Crash /\ ~FailMatch /\ ~Edit]_vars =>
    <>(Settled \/ error \in {"invalid", "ports"}) \/ <>[]Mixed
=============================================================================
