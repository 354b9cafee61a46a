-------------------------- MODULE BenchmarkProofs --------------------------
(***************************************************************************)
(* What holds of a benchmark for every number of seats, every suite, every *)
(* history of edits and wherever the process stops.  The inductive         *)
(* invariant is about the disk: how many directories an arena has beside   *)
(* its recorded rounds (RoundsOK), what an arena counts on once it is in   *)
(* benchmark.json (BenchOK), that nothing follows an abort (AbortOK), and  *)
(* what the process may take for granted of the disk where it is           *)
(* (ProcessOK).  Beside it, Counted relates the records to the worlds that *)
(* were played; the leaderboard is then an Account of them, put together   *)
(* from those of agents, of models and of arenas.                          *)
(***************************************************************************)
EXTENDS Benchmark, SequenceTheorems, FiniteSetTheorems, WellFoundedInduction, TLAPS

IsSeq(s) == Len(s) \in Nat /\ s = [k \in 1..Len(s) |-> s[k]]

Dir == [edition : Editions, seats : [Agents -> Agents], world : Worlds \union {None}]
Round == {RoundSummary(dir.seats, dir.world) : dir \in Dir}

TypeOK ==
  /\ file \in DOMAIN Suites /\ edition \in Editions
  /\ series \in [Arenas -> Seq(Round)]
  /\ dirs \in [Arenas -> Seq(Dir)]
  /\ pc \in {"off", "arena", "round", "match", "ended", "played"}
  /\ bench = [plan |-> bench.plan, arenas |-> bench.arenas]
  /\ bench.plan \in {None} \union {KeyOf(e) : e \in Editions}
  /\ IsSeq(bench.arenas) /\ Len(bench.arenas) <= Len(suite.arenas)

(* The arenas in benchmark.json, and whether a recorded round was aborted. *)
Done == Len(bench.arenas)
Aborted(i) == \E k \in DOMAIN series[i] : dirs[i][k].world.aborted

(* A directory that is not recorded is the last, of an arena that goes on. *)
ArenaOK(i) ==
  /\ Len(series[i]) <= Len(dirs[i]) /\ Len(dirs[i]) <= Len(series[i]) + 1
  /\ SeriesEnds(i, series[i]) => Len(dirs[i]) = Len(series[i])
  /\ \A k \in 1..Len(series[i]) : series[i][k].seats = RotateSeats(k - 1)
  /\ \A k \in 1..Len(dirs[i]) : dirs[i][k].seats = RotateSeats(k - 1)
  /\ \A k \in 1..Len(series[i]) : k < Len(series[i]) => ~dirs[i][k].world.aborted

RoundsOK ==
  \A i \in Arenas :
    /\ ArenaOK(i)
    /\ i > Done + 1 => series[i] = <<>> /\ dirs[i] = <<>>

BenchOK ==
  /\ bench.plan = None => bench.arenas = <<>>
  /\ \A i \in 1..Done :
       /\ bench.arenas[i].aborted <=> Aborted(i)
       /\ SeriesEnds(i, series[i])
       /\ \A k \in DOMAIN dirs[i] : KeyIn(dirs[i][k]) = bench.plan

AbortOK ==
  \A i \in 1..Done : Aborted(i) => i = Done /\ \A j \in Arenas : j > i => dirs[j] = <<>>

ProcessOK ==
  pc # "off" =>
    /\ bench.plan # None /\ planned = bench.plan /\ ~Settled /\ Current \in Arenas
    /\ pc \in {"round", "match", "ended"} => ~SeriesEnds(Current, Recorded)
    /\ pc \in {"match", "ended"} => Len(dirs[Current]) = Len(Recorded) + 1
    /\ pc = "played" => SeriesEnds(Current, Recorded)

Inv == TypeOK /\ RoundsOK /\ BenchOK /\ AbortOK /\ ProcessOK

-----------------------------------------------------------------------------
LEMMA SuiteFacts ==
  ASSUME file \in DOMAIN Suites
  PROVE  /\ Arenas = 1..Len(suite.arenas) /\ Len(suite.arenas) \in Nat
         /\ suite.arenas # <<>> => Len(suite.arenas) > 0
<1>1. suite \in Range(Suites)
  BY DEF suite, Range
<1>2. suite.arenas \in Seq(Range(suite.arenas))
  BY <1>1, BenchmarkConstants
<1> QED BY <1>2 DEF Arenas

LEMMA RotateType == \A n \in Nat : RotateSeats(n) \in [Agents -> Agents]
BY BenchmarkConstants DEF RotateSeats, Agents

(* What the proofs use of the types, at an arena.                          *)
LEMMA ArenaTypes ==
  ASSUME TypeOK, NEW i \in Arenas
  PROVE  /\ series[i] \in Seq(Round) /\ dirs[i] \in Seq(Dir)
         /\ Len(series[i]) \in Nat /\ DOMAIN series[i] = 1..Len(series[i])
         /\ Len(dirs[i]) \in Nat /\ DOMAIN dirs[i] = 1..Len(dirs[i])
BY DEF TypeOK

(* bench.arenas is a sequence, of whatever the summaries are.              *)
LEMMA AppendTo ==
  ASSUME NEW s, IsSeq(s), NEW e
  PROVE  /\ IsSeq(Append(s, e)) /\ Len(Append(s, e)) = Len(s) + 1
         /\ \A k \in 1..Len(s) : Append(s, e)[k] = s[k]
         /\ Append(s, e)[Len(s) + 1] = e
<1> DEFINE S == {s[k] : k \in 1..Len(s)} \union {e}
<1>1. s \in Seq(S)
  <2>1. [k \in 1..Len(s) |-> s[k]] \in Seq(S)
    BY DEF IsSeq
  <2> QED BY <2>1 DEF IsSeq
<1>2. e \in S
  OBVIOUS
<1> HIDE DEF S
<1>3. Append(s, e) \in Seq(S)
  BY <1>1, <1>2, AppendProperties
<1>4. IsSeq(Append(s, e))
  <2> DEFINE t == Append(s, e)
  <2>1. Len(t) \in Nat /\ t \in [1..Len(t) -> S]
    BY <1>3, LenProperties
  <2> HIDE DEF t
  <2>2. IsSeq(t)
    BY <2>1 DEF IsSeq
  <2> QED BY <2>2 DEF t
<1> QED BY <1>1, <1>2, <1>4, AppendProperties

(* A benchmark that is not settled goes on after unaborted arenas only.    *)
LEMMA NoneAborted ==
  ASSUME Inv, ~Settled
  PROVE  \A i \in 1..Done : ~Aborted(i)
<1> SUFFICES ASSUME NEW i \in 1..Done, Aborted(i) PROVE FALSE
  OBVIOUS
<1>1. i = Done /\ bench.arenas[i].aborted
  BY DEF Inv, AbortOK, BenchOK
<1>2. Len(bench.arenas) \in Nat /\ Len(bench.arenas) > 0
  BY DEF Done, Inv, TypeOK, IsSeq
<1>3. bench.arenas # <<>>
  BY <1>2
<1>4. Stops(Last(bench.arenas))
  BY <1>1, <1>2 DEF Done, Stops, Last
<1> QED BY <1>3, <1>4 DEF Settled

(* In an arena that goes on no recorded round was aborted.                 *)
LEMMA NotAborted ==
  ASSUME Inv, NEW i \in Arenas, ~SeriesEnds(i, series[i])
  PROVE  \A k \in 1..Len(series[i]) : ~dirs[i][k].world.aborted
<1>1. ArenaOK(i) /\ Len(series[i]) \in Nat
  BY ArenaTypes DEF Inv, RoundsOK
<1>2. SUFFICES ASSUME Len(series[i]) > 0 PROVE ~dirs[i][Len(series[i])].world.aborted
  BY <1>1 DEF ArenaOK
<1>3. series[i] # <<>>
  BY <1>2
<1> QED BY <1>3 DEF SeriesEnds

(* A process that writes to the current arena's series keeps the rest.     *)
LEMMA OnlyCurrent ==
  ASSUME Inv, pc # "off", UNCHANGED <<file, bench>>, ArenaOK(Current)',
         \A i \in Arenas \ {Current} : series'[i] = series[i] /\ dirs'[i] = dirs[i]
  PROVE  RoundsOK' /\ BenchOK' /\ AbortOK' /\ (Settled' <=> Settled)
<1>1. /\ Arenas = 1..Len(suite.arenas) /\ Len(suite.arenas) \in Nat /\ Len(bench.arenas) \in Nat
      /\ suite' = suite /\ Arenas' = Arenas /\ Current' = Current /\ Done' = Done
  BY SuiteFacts DEF Inv, TypeOK, IsSeq, suite, Arenas, Current, Done
<1>2. Current = Done + 1 /\ Done \in Nat /\ 1..Done \subseteq Arenas \ {Current} /\ ~Settled
  BY <1>1 DEF Current, Done, Inv, ProcessOK, TypeOK
<1>3. ASSUME NEW i \in Arenas \ {Current}
      PROVE  /\ ArenaOK(i)' <=> ArenaOK(i)
             /\ Aborted(i)' <=> Aborted(i)
             /\ SeriesEnds(i, series[i])' <=> SeriesEnds(i, series[i])
  BY <1>1 DEF ArenaOK, SeriesEnds, Requested, Aborted
<1>4. RoundsOK'
  BY <1>1, <1>2, <1>3 DEF RoundsOK, Inv
<1>5. BenchOK'
  <2>1. ASSUME NEW i \in 1..Done PROVE dirs'[i] = dirs[i]
    BY <1>2
  <2> QED BY <1>1, <1>2, <1>3, <2>1 DEF BenchOK, Inv, KeyIn
<1>6. AbortOK'
  BY <1>1, <1>2, <1>3, NoneAborted DEF AbortOK
<1> QED BY <1>1, <1>4, <1>5, <1>6 DEF Settled

(* What a step that writes no file leaves true of the disk.                *)
LEMMA SameDisk ==
  ASSUME Inv, UNCHANGED <<file, bench, series, dirs>>, edition' \in Editions,
         pc' \in {"off", "arena", "round", "match", "ended", "played"}
  PROVE  TypeOK' /\ RoundsOK' /\ BenchOK' /\ AbortOK' /\ (Settled' <=> Settled)
<1>1. suite' = suite /\ Arenas' = Arenas /\ Done' = Done
  BY DEF suite, Arenas, Done
<1>2. TypeOK'
  BY <1>1 DEF Inv, TypeOK
<1>3. ASSUME NEW i \in Arenas
      PROVE  (ArenaOK(i)' <=> ArenaOK(i)) /\ (Aborted(i)' <=> Aborted(i))
             /\ (SeriesEnds(i, series[i])' <=> SeriesEnds(i, series[i]))
  BY <1>1 DEF ArenaOK, SeriesEnds, Requested, Aborted
<1>4. 1..Done \subseteq Arenas
  BY SuiteFacts DEF Inv, TypeOK, IsSeq, Done
<1>5. RoundsOK'
  BY <1>1, <1>3 DEF RoundsOK, Inv
<1>6. BenchOK'
  BY <1>1, <1>3, <1>4 DEF BenchOK, Inv, KeyIn
<1>7. AbortOK'
  BY <1>1, <1>3, <1>4 DEF AbortOK, Inv
<1> QED BY <1>1, <1>2, <1>5, <1>6, <1>7 DEF Settled

(* The next arena is there as long as the benchmark is not settled.        *)
LEMMA CurrentInArenas ==
  ASSUME Inv, ~Settled, suite.arenas # <<>>
  PROVE  Current \in Arenas
<1>1. /\ Arenas = 1..Len(suite.arenas) /\ Len(suite.arenas) \in Nat
      /\ Len(bench.arenas) \in Nat /\ Len(bench.arenas) <= Len(suite.arenas)
  BY SuiteFacts DEF Inv, TypeOK, IsSeq
<1>2. CASE bench.arenas = <<>>
  <2>1. Len(bench.arenas) = 0 
    BY <1>2
  <2>2. Len(suite.arenas) > 0
    BY SuiteFacts DEF Inv, TypeOK
  <2> QED BY <1>1, <2>1, <2>2 DEF Current
<1>3. CASE bench.arenas # <<>>
  BY <1>1, <1>3 DEF Current, Settled
<1> QED BY <1>2, <1>3

-----------------------------------------------------------------------------
LEMMA InitInv == Init => Inv
<1> SUFFICES ASSUME Init PROVE Inv
  OBVIOUS
<1>1. /\ bench.arenas = <<>> /\ Len(bench.arenas) = 0 /\ Done = 0
      /\ \A i \in Arenas : /\ series[i] = <<>> /\ dirs[i] = <<>>
                           /\ Len(series[i]) = 0 /\ Len(dirs[i]) = 0
  BY DEF Init, Done
<1>2. TypeOK
  <2>1. series \in [Arenas -> Seq(Round)] /\ dirs \in [Arenas -> Seq(Dir)]
    BY DEF Init
  <2>2. IsSeq(<<>>)
    BY DEF IsSeq
  <2> QED BY <1>1, <2>1, <2>2, SuiteFacts DEF Init, TypeOK
<1>3. RoundsOK
  BY <1>1 DEF RoundsOK, ArenaOK
<1>4. BenchOK /\ AbortOK /\ ProcessOK
  BY <1>1 DEF BenchOK, AbortOK, ProcessOK, Init
<1> QED BY <1>2, <1>3, <1>4 DEF Inv

(* The steps that write no file: a process that starts, refuses, goes on   *)
(* to the next arena or stops, and whoever edits the arenas.               *)
LEMMA QuietInv ==
  ASSUME Inv,
         \/ RefuseSuite \/ RefuseBenchmark \/ StartSeries \/ RefuseSeries
         \/ FailMatch \/ RefuseArena \/ Edit \/ Crash
  PROVE  Inv'
<1>1. /\ UNCHANGED <<file, bench, series, dirs>> /\ edition' \in Editions
      /\ pc' \in {"off", "arena", "round", "match", "ended", "played"}
  BY DEF Inv, TypeOK, RefuseSuite, RefuseBenchmark, StartSeries, RefuseSeries,
         FailMatch, RefuseArena, Edit, Crash, Exit
<1>2. TypeOK' /\ RoundsOK' /\ BenchOK' /\ AbortOK' /\ (Settled' <=> Settled)
  BY <1>1, SameDisk
<1>3. Current' = Current /\ Recorded' = Recorded /\ Arenas' = Arenas /\ suite' = suite
  BY <1>1 DEF Current, Recorded, Arenas, suite
<1>4. SeriesEnds(Current, Recorded)' <=> SeriesEnds(Current, Recorded)
  BY <1>1, <1>3 DEF SeriesEnds, Requested
<1>5. ProcessOK'
  <2>1. CASE pc' = "off"
    BY <2>1 DEF ProcessOK
  <2>2. CASE Edit
    BY <2>2, <1>1, <1>2, <1>3, <1>4 DEF Edit, ProcessOK, Inv
  <2>3. CASE StartSeries
    BY <2>3, <1>1, <1>2, <1>3, <1>4 DEF StartSeries, ProcessOK, Inv
  <2> QED BY <2>1, <2>2, <2>3
            DEF RefuseSuite, RefuseBenchmark, RefuseSeries, FailMatch, RefuseArena, Crash, Exit
<1> QED BY <1>2, <1>5 DEF Inv

LEMMA StartBenchmarkInv ==
  ASSUME Inv, StartBenchmark
  PROVE  Inv'
<1>1. /\ UNCHANGED <<file, edition, series, dirs>> /\ pc' = "arena" /\ planned' = KeyOf(edition)
      /\ bench' = [bench EXCEPT !.plan = KeyOf(edition)]
      /\ bench.plan \in {None, KeyOf(edition)} /\ ~Settled /\ suite \in ValidSuites
  BY DEF StartBenchmark
<1>2. /\ bench'.arenas = bench.arenas /\ bench'.plan = KeyOf(edition)
      /\ bench' = [plan |-> bench'.plan, arenas |-> bench'.arenas]
  BY <1>1 DEF Inv, TypeOK
<1>3. KeyOf(edition) # None /\ KeyOf(edition) \in {KeyOf(e) : e \in Editions}
  BY KeysAreNotNone DEF Inv, TypeOK
<1>4. /\ suite' = suite /\ Arenas' = Arenas /\ Done' = Done /\ Current' = Current
      /\ Settled' <=> Settled
  BY <1>1, <1>2 DEF suite, Arenas, Done, Current, Settled
<1>5. ASSUME NEW i \in Arenas
      PROVE  (ArenaOK(i)' <=> ArenaOK(i)) /\ (Aborted(i)' <=> Aborted(i))
             /\ (SeriesEnds(i, series[i])' <=> SeriesEnds(i, series[i]))
  BY <1>1, <1>4 DEF ArenaOK, SeriesEnds, Requested, Aborted
<1>6. TypeOK'
  BY <1>1, <1>2, <1>3, <1>4 DEF Inv, TypeOK
<1>7. RoundsOK'
  BY <1>1, <1>4, <1>5 DEF RoundsOK, Inv
<1>8. 1..Done \subseteq Arenas /\ (bench.arenas = <<>> => 1..Done = {})
  BY SuiteFacts DEF Inv, TypeOK, IsSeq, Done
<1>9. BenchOK'
  <2>1. CASE bench.plan = None
    BY <2>1, <1>2, <1>3, <1>4, <1>8 DEF BenchOK, Inv
  <2>2. CASE bench.plan = KeyOf(edition)
    BY <2>2, <1>1, <1>2, <1>3, <1>4, <1>5, <1>8 DEF BenchOK, Inv, KeyIn
  <2> QED BY <1>1, <2>1, <2>2
<1>10. AbortOK'
  BY <1>1, <1>4, <1>5, <1>8 DEF AbortOK, Inv
<1>11. ProcessOK'
  <2>1. suite.arenas # <<>>
    BY <1>1 DEF ValidSuites
  <2> QED BY <2>1, <1>1, <1>2, <1>3, <1>4, CurrentInArenas DEF ProcessOK
<1> QED BY <1>6, <1>7, <1>9, <1>10, <1>11 DEF Inv

(* The process writes the directories of the current arena, and leaves the *)
(* recorded rounds as they are.                                            *)
Write(ds) ==
  /\ pc # "off" /\ ~SeriesEnds(Current, Recorded)
  /\ UNCHANGED <<file, edition, bench, series>>
  /\ pc' \in {"off", "arena", "round", "match", "ended", "played"}
  /\ ds \in Seq(Dir) /\ dirs' = [dirs EXCEPT ![Current] = ds]
  /\ Len(Recorded) <= Len(ds) /\ Len(ds) <= Len(Recorded) + 1
  /\ \A k \in 1..Len(Recorded) : ds[k] = dirs[Current][k]
  /\ \A k \in 1..Len(ds) : ds[k].seats = RotateSeats(k - 1)

LEMMA DirsWritten ==
  ASSUME Inv, NEW ds, Write(ds)
  PROVE  /\ TypeOK' /\ RoundsOK' /\ BenchOK' /\ AbortOK' /\ (Settled' <=> Settled)
         /\ ~SeriesEnds(Current, Recorded)'
         /\ Current' = Current /\ Recorded' = Recorded /\ dirs'[Current] = ds
         /\ Arenas' = Arenas
<1> USE DEF Write
<1> DEFINE c == Current
<1>1. /\ suite' = suite /\ Arenas' = Arenas /\ Current' = Current /\ Recorded' = Recorded
  BY DEF suite, Arenas, Current, Recorded
<1>2. c \in Arenas
  BY DEF Inv, ProcessOK
<1>3. /\ dirs' \in [Arenas -> Seq(Dir)] /\ dirs'[c] = ds
      /\ \A i \in Arenas \ {c} : dirs'[i] = dirs[i]
  BY <1>2 DEF Inv, TypeOK
<1>4. Len(Recorded) \in Nat /\ DOMAIN Recorded = 1..Len(Recorded) /\ Recorded = series[c]
  BY <1>2, ArenaTypes DEF Inv, Recorded
<1>5. ~SeriesEnds(c, Recorded)'
  <2>1. Recorded # <<>> => ds[Len(Recorded)] = dirs[c][Len(Recorded)]
    <3>1. Recorded \in Seq(Round)
      BY <1>2, <1>4, ArenaTypes DEF Inv
    <3> QED BY <3>1, <1>4
  <2>2. Requested(suite, c)' = Requested(suite, c)
    BY <1>1 DEF Requested
  <2> QED BY <1>1, <1>3, <2>1, <2>2 DEF SeriesEnds
<1>6. ArenaOK(c)'
  <2>1. ArenaOK(c)
    BY <1>2 DEF Inv, RoundsOK
  <2>2. \A k \in 1..Len(Recorded) : dirs'[c][k] = dirs[c][k]
    BY <1>3
  <2> QED BY <1>1, <1>3, <1>4, <1>5, <2>1, <2>2 DEF ArenaOK
<1>7. RoundsOK' /\ BenchOK' /\ AbortOK' /\ (Settled' <=> Settled)
  BY <1>1, <1>3, <1>6, OnlyCurrent
<1>8. TypeOK'
  BY <1>1, <1>3 DEF Inv, TypeOK
<1> QED BY <1>1, <1>3, <1>5, <1>7, <1>8

LEMMA Archived ==
  ASSUME Inv, pc # "off"
  PROVE  /\ ArchiveIncompleteRound \in Seq(Dir)
         /\ Len(ArchiveIncompleteRound) = Len(Recorded) /\ Len(Recorded) \in Nat
         /\ \A k \in 1..Len(Recorded) :
              /\ ArchiveIncompleteRound[k] = dirs[Current][k]
              /\ ArchiveIncompleteRound[k].seats = RotateSeats(k - 1)
<1>1. Current \in Arenas
  BY DEF Inv, ProcessOK
<1>2. /\ dirs[Current] \in Seq(Dir) /\ Len(Recorded) \in Nat /\ Len(Recorded) <= Len(dirs[Current])
      /\ \A k \in 1..Len(Recorded) : dirs[Current][k].seats = RotateSeats(k - 1)
  BY <1>1, ArenaTypes DEF Inv, RoundsOK, ArenaOK, Recorded
<1>3. \A k \in 1..Len(Recorded) : dirs[Current][k] \in Dir
  BY <1>2
<1> QED BY <1>2, <1>3, SubSeqProperties DEF ArchiveIncompleteRound

LEMMA StartRoundInv ==
  ASSUME Inv, StartRound \/ NoPorts
  PROVE  Inv'
<1>1. /\ UNCHANGED <<file, edition, bench, series>> /\ pc = "round"
      /\ \/ dirs' = WithRound /\ (UNCHANGED planned \/ pc' = "off")
         \/ dirs' = [dirs EXCEPT ![Current] = ArchiveIncompleteRound] /\ pc' = "off"
      /\ pc' \in {"match", "off"}
  BY DEF StartRound, NoPorts, Exit
<1>2. ~SeriesEnds(Current, Recorded) /\ Current \in Arenas
  BY <1>1 DEF Inv, ProcessOK
<1> DEFINE n == Len(Recorded)
           a == ArchiveIncompleteRound
           dir == [edition |-> edition, seats |-> RotateSeats(n), world |-> None]
           ds == a \o <<dir>>
<1>3. /\ a \in Seq(Dir) /\ Len(a) = n /\ n \in Nat
      /\ \A k \in 1..n : a[k] = dirs[Current][k] /\ a[k].seats = RotateSeats(k - 1)
  BY <1>1, Archived
<1>4. dir \in Dir
  BY <1>3, RotateType DEF Dir, Inv, TypeOK
<1>5. /\ ds \in Seq(Dir) /\ Len(ds) = n + 1 /\ ds[n + 1] = dir
      /\ \A k \in 1..n : ds[k] = a[k]
  BY <1>3, <1>4
<1>6. dir.seats = RotateSeats(n)
  OBVIOUS
<1>7. dirs' = [dirs EXCEPT ![Current] = ds] \/ dirs' = [dirs EXCEPT ![Current] = a]
  BY <1>1 DEF WithRound
<1> HIDE DEF n, a, dir, ds
<1>8. \A k \in 1..Len(ds) : ds[k].seats = RotateSeats(k - 1)
  BY <1>3, <1>5, <1>6
<1>9. CASE dirs' = [dirs EXCEPT ![Current] = ds]
  <2>1. /\ TypeOK' /\ RoundsOK' /\ BenchOK' /\ AbortOK' /\ (Settled' <=> Settled)
        /\ ~SeriesEnds(Current, Recorded)'
        /\ Current' = Current /\ Recorded' = Recorded /\ dirs'[Current] = ds /\ Arenas' = Arenas
    <3>1. Write(ds)
      BY <1>1, <1>2, <1>3, <1>5, <1>8, <1>9 DEF Write, n
    <3> QED BY <3>1, DirsWritten
  <2>2. ProcessOK'
    BY <1>1, <1>2, <1>5, <2>1 DEF ProcessOK, Inv, n
  <2> QED BY <2>1, <2>2 DEF Inv
<1>10. CASE dirs' = [dirs EXCEPT ![Current] = a] /\ pc' = "off"
  <2>1. TypeOK' /\ RoundsOK' /\ BenchOK' /\ AbortOK'
    <3>1. Write(a)
      BY <1>1, <1>2, <1>3, <1>10 DEF Write, n
    <3> QED BY <3>1, DirsWritten
  <2>2. ProcessOK'
    BY <1>10 DEF ProcessOK
  <2> QED BY <2>1, <2>2 DEF Inv
<1> QED BY <1>1, <1>9, <1>10 DEF WithRound, ds, a, dir, n

LEMMA EndMatchInv ==
  ASSUME Inv, NEW world \in Worlds, EndMatch(world)
  PROVE  Inv'
<1> DEFINE n == Len(Recorded)
           dir == [dirs[Current][n + 1] EXCEPT !.world = world]
           ds == [dirs[Current] EXCEPT ![n + 1] = dir]
<1>1. /\ UNCHANGED <<file, edition, bench, series, planned>> /\ pc = "match" /\ pc' = "ended"
      /\ dirs' = [dirs EXCEPT ![Current] = ds]
  BY DEF EndMatch
<1>2. /\ ~SeriesEnds(Current, Recorded) /\ Current \in Arenas
      /\ Len(dirs[Current]) = n + 1 /\ dirs[Current] \in Seq(Dir) /\ n \in Nat
      /\ \A k \in 1..Len(dirs[Current]) : dirs[Current][k].seats = RotateSeats(k - 1)
  BY <1>1, ArenaTypes DEF Inv, ProcessOK, RoundsOK, ArenaOK, Recorded
<1>3. dirs[Current][n + 1] \in Dir
  BY <1>2
<1>4. dir \in Dir /\ dir.seats = dirs[Current][n + 1].seats
  BY <1>3 DEF Dir
<1> HIDE DEF dir
<1>5. /\ ds \in Seq(Dir) /\ Len(ds) = n + 1 /\ ds[n + 1] = dir
      /\ \A k \in 1..n : ds[k] = dirs[Current][k]
  BY <1>2, <1>4
<1> HIDE DEF ds
<1>6. \A k \in 1..Len(ds) : ds[k].seats = RotateSeats(k - 1)
  BY <1>2, <1>4, <1>5
<1>7. Write(ds)
  BY <1>1, <1>2, <1>5, <1>6 DEF Write
<1>8. /\ TypeOK' /\ RoundsOK' /\ BenchOK' /\ AbortOK' /\ (Settled' <=> Settled)
      /\ ~SeriesEnds(Current, Recorded)'
      /\ Current' = Current /\ Recorded' = Recorded /\ dirs'[Current] = ds /\ Arenas' = Arenas
  BY <1>7, DirsWritten
<1>9. ProcessOK'
  BY <1>1, <1>2, <1>5, <1>8 DEF ProcessOK, Inv
<1> QED BY <1>8, <1>9 DEF Inv

LEMMA RecordRoundInv ==
  ASSUME Inv, RecordRound
  PROVE  Inv'
<1> DEFINE n == Len(Recorded)
           dir == Last(dirs[Current])
           round == RoundSummary(dir.seats, dir.world)
           rounds == Append(Recorded, round)
<1>1. /\ UNCHANGED <<file, edition, bench, dirs, planned>> /\ pc = "ended"
      /\ series' = [series EXCEPT ![Current] = rounds]
      /\ pc' = IF SeriesEnds(Current, rounds) THEN "played" ELSE "round"
  BY DEF RecordRound
<1>2. /\ ~SeriesEnds(Current, Recorded) /\ Current \in Arenas /\ ArenaOK(Current)
      /\ Len(dirs[Current]) = n + 1 /\ dirs[Current] \in Seq(Dir)
      /\ n \in Nat /\ Recorded \in Seq(Round) /\ Recorded = series[Current]
      /\ DOMAIN Recorded = 1..n
  BY <1>1, ArenaTypes DEF Inv, ProcessOK, RoundsOK, Recorded
<1>3. dir = dirs[Current][n + 1] /\ dir \in Dir /\ dir.seats = RotateSeats(n)
  BY <1>2 DEF Last, ArenaOK
<1>4. round \in Round /\ round.seats = RotateSeats(n)
  BY <1>3 DEF Round, RoundSummary
<1> HIDE DEF dir, round
<1>5. /\ rounds \in Seq(Round) /\ Len(rounds) = n + 1 /\ rounds[n + 1] = round
      /\ \A k \in 1..n : rounds[k] = Recorded[k]
  BY <1>2, <1>4, AppendProperties
<1> HIDE DEF rounds
<1>6. /\ series' \in [Arenas -> Seq(Round)] /\ series'[Current] = rounds
      /\ \A i \in Arenas \ {Current} : series'[i] = series[i] /\ dirs'[i] = dirs[i]
  BY <1>1, <1>2, <1>5 DEF Inv, TypeOK
<1>7. /\ suite' = suite /\ Arenas' = Arenas /\ Current' = Current
      /\ Recorded' = rounds
  BY <1>1, <1>6 DEF suite, Arenas, Current, Recorded
<1>8. TypeOK'
  BY <1>1, <1>6, <1>7 DEF Inv, TypeOK
<1>9. ArenaOK(Current)'
  <2>1. \A k \in 1..n : ~dirs[Current][k].world.aborted
    BY <1>2, NotAborted
  <2>2. \A k \in 1..n : rounds[k].seats = RotateSeats(k - 1)
    BY <1>2, <1>5 DEF ArenaOK
  <2>3. \A k \in 1..(n + 1) : rounds[k].seats = RotateSeats(k - 1)
    BY <1>2, <1>4, <1>5, <2>2
  <2>4. \A k \in 1..Len(rounds) : k < Len(rounds) => ~dirs[Current][k].world.aborted
    BY <1>2, <1>5, <2>1
  <2>5. \A k \in 1..Len(dirs[Current]) : dirs[Current][k].seats = RotateSeats(k - 1)
    BY <1>2 DEF ArenaOK
  <2>6. Len(rounds) = Len(dirs[Current]) /\ Len(dirs[Current]) \in Nat
    BY <1>2, <1>5
  <2> QED BY <1>1, <1>6, <1>7, <1>5, <2>3, <2>4, <2>5, <2>6 DEF ArenaOK
<1>10. RoundsOK' /\ BenchOK' /\ AbortOK' /\ (Settled' <=> Settled)
  BY <1>1, <1>6, <1>9, OnlyCurrent
<1>11. ProcessOK'
  <2>1. SeriesEnds(Current, Recorded)' <=> SeriesEnds(Current, rounds)
    BY <1>1, <1>7 DEF SeriesEnds, Requested
  <2> QED BY <1>1, <1>7, <1>10, <2>1 DEF ProcessOK, Inv
<1> QED BY <1>8, <1>10, <1>11 DEF Inv

LEMMA FinishArenaInv ==
  ASSUME Inv, FinishArena
  PROVE  Inv'
<1> DEFINE c == Current
           arena == SummarizeArena(suite.arenas[c].fleet, Requested(suite, c), Recorded, Evidence(c))
           arenas == Append(bench.arenas, arena)
<1>1. /\ UNCHANGED <<file, edition, series, dirs>> /\ pc = "played" /\ Compatible(c, planned)
      /\ bench' = [bench EXCEPT !.arenas = arenas]
      /\ pc' = "off" \/ (pc' = "arena" /\ ~Stops(arena) /\ c # Len(suite.arenas) /\ planned' = planned)
  BY DEF FinishArena, Exit
<1>2. /\ suite' = suite /\ Arenas' = Arenas
      /\ \A i : (ArenaOK(i)' <=> ArenaOK(i)) /\ (Aborted(i)' <=> Aborted(i))
                /\ (SeriesEnds(i, series[i])' <=> SeriesEnds(i, series[i]))
  BY <1>1 DEF suite, Arenas, ArenaOK, Aborted, SeriesEnds, Requested
<1>3. /\ c = Done + 1 /\ Done \in Nat /\ Len(bench.arenas) = Done /\ c \in Arenas
      /\ Arenas = 1..Len(suite.arenas) /\ Len(suite.arenas) \in Nat
      /\ IsSeq(bench.arenas) /\ planned = bench.plan /\ planned # None /\ ~Settled
      /\ SeriesEnds(c, series[c])
  BY <1>1, SuiteFacts DEF Inv, TypeOK, ProcessOK, Current, Done, IsSeq, Recorded
<1>4. arena.aborted <=> Aborted(c)
  <2>1. Evidence(c) = [k \in DOMAIN series[c] |-> dirs[c][k].world]
    BY DEF Evidence
  <2>2. arena.aborted <=> \E k \in DOMAIN Evidence(c) : Evidence(c)[k].aborted
    BY DEF SummarizeArena
  <2> QED BY <2>1, <2>2 DEF Aborted
<1> HIDE DEF arena
<1>5. /\ IsSeq(arenas) /\ Len(arenas) = Done + 1 /\ arenas[Done + 1] = arena
      /\ \A k \in 1..Done : arenas[k] = bench.arenas[k]
  BY <1>3, AppendTo
<1> HIDE DEF arenas, c
<1>6. /\ bench'.arenas = arenas /\ bench'.plan = bench.plan
      /\ bench' = [plan |-> bench'.plan, arenas |-> bench'.arenas] /\ Done' = c
  BY <1>1, <1>3, <1>5 DEF Inv, TypeOK, Done
<1>7. TypeOK'
  BY <1>1, <1>2, <1>3, <1>5, <1>6 DEF Inv, TypeOK
<1>8. RoundsOK'
  BY <1>1, <1>2, <1>3, <1>6 DEF RoundsOK, Inv
<1>9. BenchOK'
  <2>1. ASSUME NEW i \in 1..Done
        PROVE  /\ arenas[i].aborted <=> Aborted(i)
               /\ SeriesEnds(i, series[i])
               /\ \A k \in DOMAIN dirs[i] : KeyIn(dirs[i][k]) = bench.plan
    BY <1>5 DEF BenchOK, Inv
  <2>2. \A k \in DOMAIN dirs[c] : KeyIn(dirs[c][k]) = bench.plan
    <3>1. DOMAIN dirs[c] = DOMAIN series[c]
      BY <1>3, ArenaTypes DEF Inv, RoundsOK, ArenaOK
    <3> QED BY <1>1, <1>3, <3>1 DEF Compatible
  <2>3. /\ arenas[c].aborted <=> Aborted(c)
        /\ SeriesEnds(c, series[c])
    BY <1>3, <1>4, <1>5
  <2>4. \A i \in 1..c : i \in 1..Done \/ i = c
    BY <1>3
  <2> QED BY <1>1, <1>2, <1>3, <1>6, <2>1, <2>2, <2>3, <2>4 DEF BenchOK, KeyIn
<1>10. AbortOK'
  <2>1. \A i \in 1..Done : ~Aborted(i)
    BY <1>3, NoneAborted
  <2>2. \A j \in Arenas : j > c => dirs[j] = <<>>
    BY <1>3 DEF Inv, RoundsOK
  <2> QED BY <1>1, <1>2, <1>3, <1>6, <2>1, <2>2 DEF AbortOK
<1>11. ProcessOK'
  <2>1. CASE pc' = "off"
    BY <2>1 DEF ProcessOK
  <2>2. CASE pc' = "arena" /\ ~Stops(arena) /\ c # Len(suite.arenas) /\ planned' = planned
    <3>1. ~Settled'
      BY <1>2, <1>3, <1>5, <1>6, <2>2 DEF Settled, Last
    <3>2. Current' \in Arenas'
      BY <1>2, <1>3, <1>5, <1>6, <2>2 DEF Current
    <3> QED BY <1>3, <1>6, <2>2, <3>1, <3>2 DEF ProcessOK
  <2> QED BY <1>1, <2>1, <2>2
<1> QED BY <1>7, <1>8, <1>9, <1>10, <1>11 DEF Inv

LEMMA NextInv == Inv /\ [Next]_vars => Inv'
<1> SUFFICES ASSUME Inv, [Next]_vars PROVE Inv'
  OBVIOUS
<1>1. CASE UNCHANGED vars
  <2>1. UNCHANGED <<file, bench, series, dirs, pc, planned>> /\ edition' = edition
    BY <1>1 DEF vars
  <2>2. TypeOK' /\ RoundsOK' /\ BenchOK' /\ AbortOK' /\ (Settled' <=> Settled)
    BY <2>1, SameDisk DEF Inv, TypeOK
  <2>3. ProcessOK'
    BY <2>1, <2>2 DEF ProcessOK, Inv, Current, Recorded, Arenas, suite, SeriesEnds, Requested
  <2> QED BY <2>2, <2>3 DEF Inv
<1>2. CASE Next
  BY <1>2, QuietInv, StartBenchmarkInv, StartRoundInv, EndMatchInv, RecordRoundInv, FinishArenaInv
     DEF Next, Step
<1> QED BY <1>1, <1>2

LEMMA InvHolds == Spec => []Inv
BY InitInv, NextInv, PTL DEF Spec

-----------------------------------------------------------------------------
(* The rounds of an arena that counts were all played under the key of the *)
(* plan, so its players were given, and its referee asked, the same.       *)
THEOREM OneEditionHolds == Spec => []OneEdition
<1>1. Inv => OneEdition
  <2> SUFFICES ASSUME Inv, NEW i \in DOMAIN bench.arenas, NEW k \in DOMAIN dirs[i],
                      NEW l \in DOMAIN dirs[i]
               PROVE  LET one == FilesOf[dirs[i][k].edition]
                          other == FilesOf[dirs[i][l].edition]
                      IN /\ KeyIn(dirs[i][k]) = bench.plan
                         /\ one.verifiers = other.verifiers
                         /\ one.manifest.rest = other.manifest.rest
                         /\ one.manifest.fog =>
                              one.brief = other.brief /\ one.artifacts = other.artifacts
    BY DEF OneEdition
  <2> DEFINE one == FilesOf[dirs[i][k].edition]
             other == FilesOf[dirs[i][l].edition]
  <2>1. i \in 1..Done /\ 1..Done \subseteq Arenas
    BY SuiteFacts DEF Inv, TypeOK, IsSeq, Done
  <2>2. KeyIn(dirs[i][k]) = bench.plan /\ KeyIn(dirs[i][l]) = bench.plan
    BY <2>1 DEF Inv, BenchOK
  <2>3. dirs[i][k] \in Dir /\ dirs[i][l] \in Dir
    BY <2>1, ArenaTypes DEF Inv
  <2>4. {"fog", "rest"} \subseteq DOMAIN one.manifest /\ {"fog", "rest"} \subseteq DOMAIN other.manifest
    BY <2>3, BenchmarkConstants DEF Dir
  <2> HIDE DEF one, other
  <2>5. CompatibilityKey(one) = CompatibilityKey(other)
    BY <2>2 DEF KeyIn, KeyOf, MatchProvenance, one, other
  <2>6. /\ EvaluationManifest(one.manifest) = EvaluationManifest(other.manifest)
        /\ PlayerBrief(one) = PlayerBrief(other) /\ PlayerArtifacts(one) = PlayerArtifacts(other)
        /\ one.verifiers = other.verifiers
    BY <2>5 DEF CompatibilityKey
  <2>7. one.manifest.rest = other.manifest.rest /\ one.manifest.fog = other.manifest.fog
    <3>1. ASSUME NEW field \in {"fog", "rest"}
          PROVE  /\ EvaluationManifest(one.manifest)[field] = one.manifest[field]
                 /\ EvaluationManifest(other.manifest)[field] = other.manifest[field]
      BY <2>4 DEF EvaluationManifest
    <3> QED BY <3>1, <2>6
  <2>8. one.manifest.fog => one.brief = other.brief /\ one.artifacts = other.artifacts
    BY <2>6, <2>7 DEF PlayerBrief, PlayerArtifacts
  <2> QED BY <2>2, <2>6, <2>7, <2>8 DEF one, other
<1> QED BY <1>1, InvHolds, PTL

(* Nothing is played after a recorded abort, in its arena or a later one.  *)
THEOREM NothingAfterAbortHolds == Spec => []NothingAfterAbort
<1>1. Inv => NothingAfterAbort
  <2> SUFFICES ASSUME Inv, NEW i \in Arenas, NEW k \in DOMAIN series[i], dirs[i][k].world.aborted
               PROVE  Len(dirs[i]) = k /\ \A j \in Arenas : j > i => dirs[j] = <<>>
    BY DEF NothingAfterAbort
  <2>1. /\ ArenaOK(i) /\ Len(series[i]) \in Nat /\ k \in 1..Len(series[i])
        /\ series[i] # <<>>
    BY ArenaTypes DEF Inv, RoundsOK
  <2>2. k = Len(series[i]) /\ SeriesEnds(i, series[i])
    <3>1. ~(k < Len(series[i]))
      BY <2>1 DEF ArenaOK
    <3>2. k = Len(series[i])
      BY <2>1, <3>1
    <3> QED BY <2>1, <3>2 DEF SeriesEnds
  <2>3. Len(dirs[i]) = k
    BY <2>1, <2>2 DEF ArenaOK
  <2>4. Done \in Nat /\ Arenas \subseteq Nat /\ \A j \in Arenas : j > 0
    BY SuiteFacts DEF Inv, TypeOK, IsSeq, Done
  <2>5. ASSUME NEW j \in Arenas, j > i PROVE dirs[j] = <<>>
    <3>1. CASE i <= Done
      <4>1. Aborted(i) /\ i \in 1..Done
        BY <2>4, <3>1 DEF Aborted
      <4> QED BY <4>1, <2>5 DEF Inv, AbortOK
    <3>2. CASE i > Done
      BY <2>1, <2>4, <2>5, <3>2 DEF Inv, RoundsOK
    <3> QED BY <2>4, <3>1, <3>2
  <2> QED BY <2>3, <2>5
<1> QED BY <1>1, InvHolds, PTL

LEMMA ModFacts ==
  ASSUME NEW n \in Nat \ {0}
  PROVE  /\ \A x \in Int : x % n \in 0..(n - 1)
         /\ \A x \in 0..(n - 1) : x % n = x /\ (x + n) % n = x
OBVIOUS

(* Rotated n times among n seats, an agent has been in each of them.       *)
LEMMA Rotation ==
  ASSUME NEW n \in Nat \ {0}, NEW a \in 1..n
  PROVE  {1 + ((a - 1 + (k - 1)) % n) : k \in 1..n} = 1..n
<1> DEFINE At(k) == 1 + ((a - 1 + (k - 1)) % n)
<1>1. ASSUME NEW k \in 1..n PROVE At(k) \in 1..n
  <2> DEFINE x == a - 1 + (k - 1)
  <2>1. x \in Int
    OBVIOUS
  <2> HIDE DEF x
  <2>2. x % n \in 0..(n - 1)
    BY <2>1, ModFacts
  <2>3. 1 + (x % n) \in 1..n
    BY <2>2
  <2> QED BY <2>3 DEF x
<1>2. ASSUME NEW b \in 1..n PROVE \E k \in 1..n : At(k) = b
  <2> DEFINE x == b - 1
  <2>1. x \in 0..(n - 1) /\ 1 + x = b
    OBVIOUS
  <2>2. CASE b >= a
    <3> DEFINE k == 1 + (b - a)
    <3>1. k \in 1..n /\ a - 1 + (k - 1) = x
      BY <2>2
    <3> HIDE DEF k, x
    <3>2. At(k) = 1 + (x % n)
      BY <3>1
    <3>3. x % n = x
      BY <2>1, ModFacts
    <3> QED BY <2>1, <3>1, <3>2, <3>3
  <2>3. CASE b < a
    <3> DEFINE k == 1 + (b - a) + n
    <3>1. k \in 1..n /\ a - 1 + (k - 1) = x + n
      BY <2>3
    <3> HIDE DEF k, x
    <3>2. At(k) = 1 + ((x + n) % n)
      BY <3>1
    <3>3. (x + n) % n = x
      BY <2>1, ModFacts
    <3> QED BY <2>1, <3>1, <3>2, <3>3
  <2> QED BY <2>2, <2>3
<1> HIDE DEF At
<1>3. {At(k) : k \in 1..n} = 1..n
  BY <1>1, <1>2
<1> QED BY <1>3 DEF At

(* As many rounds as there are seats put every agent in every one of them. *)
THEOREM EverySeatOnceHolds == Spec => []EverySeatOnce
<1>1. Inv => EverySeatOnce
  <2> SUFFICES ASSUME Inv, NEW i \in Arenas, Len(series[i]) = Seats, NEW a \in Agents
               PROVE  {series[i][k].seats[a] : k \in DOMAIN series[i]} = Agents
    BY DEF EverySeatOnce
  <2>1. Seats \in Nat \ {0} /\ a \in 1..Seats /\ DOMAIN series[i] = 1..Seats
    BY BenchmarkConstants, ArenaTypes DEF Inv, Agents
  <2>2. ASSUME NEW k \in 1..Seats
        PROVE  series[i][k].seats[a] = 1 + ((a - 1 + (k - 1)) % Seats)
    <3>1. series[i][k].seats = RotateSeats(k - 1)
      BY <2>1 DEF Inv, RoundsOK, ArenaOK
    <3> QED BY <3>1, <2>1 DEF RotateSeats, Agents
  <2>3. {series[i][k].seats[a] : k \in 1..Seats} = {1 + ((a - 1 + (k - 1)) % Seats) : k \in 1..Seats}
    BY <2>2
  <2> QED BY <2>1, <2>3, Rotation DEF Agents
<1> QED BY <1>1, InvHolds, PTL

-----------------------------------------------------------------------------
(* What is counted is what was played.                                     *)

(* What is counted is what the directories hold: a recorded round is the   *)
(* summary of a world that was played, and an arena in benchmark.json that *)
(* of its recorded rounds.                                                 *)
RoundCounted(i, k) ==
  /\ dirs[i][k].world \in Worlds
  /\ series[i][k] = RoundSummary(dirs[i][k].seats, dirs[i][k].world)

Summary(i) ==
  SummarizeArena(suite.arenas[i].fleet, Requested(suite, i), series[i], Evidence(i))

Counted ==
  /\ \A i \in Arenas : \A k \in 1..Len(series[i]) : RoundCounted(i, k)
  /\ pc = "ended" => dirs[Current][Len(Recorded) + 1].world \in Worlds
  /\ pc # "off" \/ bench.arenas # <<>> => suite \in ValidSuites
  /\ \A i \in 1..Done : bench.arenas[i] = Summary(i)

LEMMA InitCounted == Init => Counted
<1> SUFFICES ASSUME Init PROVE Counted
  OBVIOUS
<1>1. /\ pc = "off" /\ bench.arenas = <<>> /\ Done = 0
      /\ \A i \in Arenas : series[i] = <<>> /\ Len(series[i]) = 0
  BY DEF Init, Done
<1> QED BY <1>1 DEF Counted

(* A step that leaves what is recorded as it is.                           *)
LEMMA SameRecords ==
  ASSUME Inv, Counted, UNCHANGED <<file, series>>, bench'.arenas = bench.arenas,
         \A i \in Arenas : \A k \in 1..Len(series[i]) : dirs'[i][k] = dirs[i][k]
  PROVE  /\ Arenas' = Arenas /\ suite' = suite /\ Current' = Current /\ Recorded' = Recorded
         /\ \A i \in Arenas : \A k \in 1..Len(series[i]) : RoundCounted(i, k)'
         /\ \A i \in 1..Done' : bench.arenas'[i] = Summary(i)'
         /\ bench.arenas' # <<>> => suite' \in ValidSuites'
<1>1. /\ Arenas' = Arenas /\ suite' = suite /\ Current' = Current /\ Recorded' = Recorded
      /\ Done' = Done
  BY DEF Arenas, suite, Current, Recorded, Done
<1>2. \A i \in Arenas : \A k \in 1..Len(series[i]) : RoundCounted(i, k)'
  BY DEF Counted, RoundCounted
<1>3. ASSUME NEW i \in 1..Done PROVE bench.arenas'[i] = Summary(i)'
  <2>1. i \in Arenas
    BY SuiteFacts DEF Inv, TypeOK, IsSeq, Done
  <2>2. DOMAIN series[i] = 1..Len(series[i])
    BY <2>1, ArenaTypes DEF Inv
  <2>3. Evidence(i)' = Evidence(i)
    BY <2>1, <2>2 DEF Evidence
  <2> QED BY <1>1, <2>3 DEF Counted, Summary, Requested
<1>4. ValidSuites' = ValidSuites
  BY DEF ValidSuites, Requested
<1> QED BY <1>1, <1>2, <1>3, <1>4 DEF Counted

LEMMA QuietCounted ==
  ASSUME Inv, Counted,
         \/ RefuseSuite \/ RefuseBenchmark \/ StartSeries \/ RefuseSeries
         \/ FailMatch \/ RefuseArena \/ Edit \/ Crash \/ UNCHANGED vars
  PROVE  Counted'
<1>1. /\ UNCHANGED <<file, bench, series, dirs>>
      /\ pc' = "off" \/ pc' = pc \/ (pc # "off" /\ pc' \in {"played", "round"})
  BY DEF RefuseSuite, RefuseBenchmark, StartSeries, RefuseSeries, FailMatch, RefuseArena, Edit,
         Crash, Exit, vars
<1>2. /\ Arenas' = Arenas /\ suite' = suite /\ Current' = Current /\ Recorded' = Recorded
      /\ \A i \in Arenas : \A k \in 1..Len(series[i]) : RoundCounted(i, k)'
      /\ \A i \in 1..Done' : bench.arenas'[i] = Summary(i)'
      /\ bench.arenas' # <<>> => suite' \in ValidSuites'
  BY <1>1, SameRecords
<1>3. ValidSuites' = ValidSuites
  BY DEF ValidSuites, Requested
<1> QED BY <1>1, <1>2, <1>3 DEF Counted

LEMMA StartBenchmarkCounted ==
  ASSUME Inv, Counted, StartBenchmark
  PROVE  Counted'
<1>1. /\ UNCHANGED <<file, series, dirs>> /\ pc' = "arena" /\ suite \in ValidSuites
      /\ bench'.arenas = bench.arenas
  BY DEF StartBenchmark, Inv, TypeOK
<1>2. /\ Arenas' = Arenas /\ suite' = suite /\ Current' = Current /\ Recorded' = Recorded
      /\ \A i \in Arenas : \A k \in 1..Len(series[i]) : RoundCounted(i, k)'
      /\ \A i \in 1..Done' : bench.arenas'[i] = Summary(i)'
  BY <1>1, SameRecords
<1>3. ValidSuites' = ValidSuites
  BY DEF ValidSuites, Requested
<1> QED BY <1>1, <1>2, <1>3 DEF Counted

(* The directories of the current arena are written behind its rounds.     *)
LEMMA WrittenCounted ==
  ASSUME Inv, Counted, pc # "off", UNCHANGED <<file, bench, series>>, NEW ds,
         dirs' = [dirs EXCEPT ![Current] = ds],
         \A k \in 1..Len(Recorded) : ds[k] = dirs[Current][k],
         pc' = "ended" => ds[Len(Recorded) + 1].world \in Worlds
  PROVE  Counted'
<1>1. Current \in Arenas
  BY DEF Inv, ProcessOK
<1>2. dirs'[Current] = ds /\ \A i \in Arenas \ {Current} : dirs'[i] = dirs[i]
  BY <1>1 DEF Inv, TypeOK
<1>3. \A i \in Arenas : \A k \in 1..Len(series[i]) : dirs'[i][k] = dirs[i][k]
  BY <1>2 DEF Recorded
<1>4. /\ Arenas' = Arenas /\ suite' = suite /\ Current' = Current /\ Recorded' = Recorded
      /\ \A i \in Arenas : \A k \in 1..Len(series[i]) : RoundCounted(i, k)'
      /\ \A i \in 1..Done' : bench.arenas'[i] = Summary(i)'
  BY <1>3, SameRecords
<1>5. ValidSuites' = ValidSuites /\ suite \in ValidSuites
  BY DEF ValidSuites, Requested, Counted
<1> QED BY <1>2, <1>4, <1>5 DEF Counted

LEMMA StartRoundCounted ==
  ASSUME Inv, Counted, StartRound \/ NoPorts
  PROVE  Counted'
<1>1. /\ UNCHANGED <<file, bench, series>> /\ pc = "round" /\ pc' \in {"match", "off"}
      /\ dirs' = WithRound \/ dirs' = [dirs EXCEPT ![Current] = ArchiveIncompleteRound]
  BY DEF StartRound, NoPorts, Exit
<1> DEFINE n == Len(Recorded)
           a == ArchiveIncompleteRound
           dir == [edition |-> edition, seats |-> RotateSeats(n), world |-> None]
<1>2. /\ a \in Seq(Dir) /\ Len(a) = n /\ n \in Nat
      /\ \A k \in 1..n : a[k] = dirs[Current][k]
  BY <1>1, Archived
<1>3. dir \in Dir
  BY <1>2, RotateType DEF Dir, Inv, TypeOK
<1>4. dirs' = [dirs EXCEPT ![Current] = a \o <<dir>>] \/ dirs' = [dirs EXCEPT ![Current] = a]
  BY <1>1 DEF WithRound
<1> HIDE DEF a, dir
<1>5. \A k \in 1..n : (a \o <<dir>>)[k] = dirs[Current][k]
  BY <1>2, <1>3
<1> QED BY <1>1, <1>2, <1>4, <1>5, WrittenCounted

LEMMA EndMatchCounted ==
  ASSUME Inv, Counted, NEW world \in Worlds, EndMatch(world)
  PROVE  Counted'
<1> DEFINE n == Len(Recorded)
           dir == [dirs[Current][n + 1] EXCEPT !.world = world]
           ds == [dirs[Current] EXCEPT ![n + 1] = dir]
<1>1. /\ UNCHANGED <<file, bench, series>> /\ pc = "match" /\ pc' = "ended"
      /\ dirs' = [dirs EXCEPT ![Current] = ds]
  BY DEF EndMatch
<1>2. Len(dirs[Current]) = n + 1 /\ dirs[Current] \in Seq(Dir) /\ n \in Nat
  BY <1>1, ArenaTypes DEF Inv, ProcessOK, Recorded
<1>3. dirs[Current][n + 1] \in Dir
  BY <1>2
<1>4. dir.world = world /\ dir \in Dir
  BY <1>3 DEF Dir
<1> HIDE DEF dir
<1>5. ds[n + 1] = dir /\ \A k \in 1..n : ds[k] = dirs[Current][k]
  BY <1>2, <1>4
<1> HIDE DEF ds
<1> QED BY <1>1, <1>4, <1>5, WrittenCounted

LEMMA RecordRoundCounted ==
  ASSUME Inv, Counted, RecordRound
  PROVE  Counted'
<1> DEFINE n == Len(Recorded)
           dir == Last(dirs[Current])
           round == RoundSummary(dir.seats, dir.world)
           rounds == Append(Recorded, round)
<1>1. /\ UNCHANGED <<file, edition, bench, dirs>> /\ pc = "ended" /\ pc' # "ended"
      /\ series' = [series EXCEPT ![Current] = rounds]
  BY DEF RecordRound
<1>2. /\ Current \in Arenas /\ Len(dirs[Current]) = n + 1 /\ dirs[Current] \in Seq(Dir)
      /\ n \in Nat /\ Recorded \in Seq(Round) /\ Recorded = series[Current]
      /\ dirs[Current][n + 1].world \in Worlds /\ Len(bench.arenas) \in Nat
  BY <1>1, ArenaTypes DEF Inv, ProcessOK, Recorded, Counted, TypeOK, IsSeq
<1>3. dir = dirs[Current][n + 1] /\ dir \in Dir
  BY <1>2 DEF Last
<1>4. round \in Round
  BY <1>3 DEF Round
<1>5. /\ Len(rounds) = n + 1 /\ rounds[n + 1] = round
      /\ \A k \in 1..n : rounds[k] = Recorded[k]
  BY <1>2, <1>4, AppendProperties
<1>6. /\ series'[Current] = rounds
      /\ \A i \in Arenas \ {Current} : series'[i] = series[i]
  BY <1>1, <1>2 DEF Inv, TypeOK
<1> HIDE DEF rounds
<1>7. /\ Arenas' = Arenas /\ suite' = suite /\ Done' = Done /\ Current = Done + 1 /\ Done \in Nat
      /\ ValidSuites' = ValidSuites /\ suite \in ValidSuites
  BY <1>1, <1>2 DEF Arenas, suite, Done, Current, ValidSuites, Requested, Counted
<1>8. ASSUME NEW i \in Arenas, NEW k \in 1..Len(series'[i]) PROVE RoundCounted(i, k)'
  <2>1. CASE i # Current
    BY <1>1, <1>6, <1>8, <2>1 DEF Counted, RoundCounted
  <2>2. CASE i = Current /\ k # n + 1
    <3>1. k \in 1..n
      BY <1>2, <1>5, <1>6, <1>8, <2>2
    <3>2. RoundCounted(i, k)
      BY <1>2, <2>2, <3>1 DEF Counted
    <3> QED BY <1>1, <1>2, <1>5, <1>6, <2>2, <3>1, <3>2 DEF RoundCounted
  <2>3. CASE i = Current /\ k = n + 1
    BY <1>1, <1>2, <1>3, <1>5, <1>6, <2>3 DEF RoundCounted
  <2> QED BY <2>1, <2>2, <2>3
<1>9. ASSUME NEW i \in 1..Done PROVE bench.arenas'[i] = Summary(i)'
  <2>1. i \in Arenas \ {Current}
    BY <1>7, SuiteFacts DEF Inv, TypeOK, IsSeq, Done
  <2>2. Evidence(i)' = Evidence(i)
    BY <1>1, <1>6, <2>1 DEF Evidence
  <2> QED BY <1>1, <1>6, <1>7, <2>1, <2>2 DEF Counted, Summary, Requested
<1> QED BY <1>1, <1>7, <1>8, <1>9 DEF Counted

LEMMA FinishArenaCounted ==
  ASSUME Inv, Counted, FinishArena
  PROVE  Counted'
<1> DEFINE c == Current
           arenas == Append(bench.arenas, Summary(c))
<1>1. /\ UNCHANGED <<file, edition, series, dirs>> /\ pc = "played"
      /\ bench' = [bench EXCEPT !.arenas = arenas] /\ pc' # "ended"
  BY DEF FinishArena, Exit, Summary, Recorded
<1>2. /\ c = Done + 1 /\ Done \in Nat /\ Len(bench.arenas) = Done /\ IsSeq(bench.arenas)
  BY DEF Inv, TypeOK, Current, Done, IsSeq
<1>3. /\ Len(arenas) = Done + 1 /\ arenas[Done + 1] = Summary(c)
      /\ \A k \in 1..Done : arenas[k] = bench.arenas[k]
  BY <1>2, AppendTo
<1> HIDE DEF arenas, c
<1>4. bench'.arenas = arenas /\ Done' = c
  BY <1>1, <1>2, <1>3 DEF Inv, TypeOK, Done
<1>5. /\ Arenas' = Arenas /\ suite' = suite /\ ValidSuites' = ValidSuites /\ suite \in ValidSuites
      /\ \A i : Summary(i)' = Summary(i)
      /\ \A i, k : RoundCounted(i, k)' <=> RoundCounted(i, k)
  BY <1>1 DEF Arenas, suite, ValidSuites, Requested, Summary, Evidence, RoundCounted, Counted
<1>6. \A i \in 1..c : i \in 1..Done \/ i = c
  BY <1>2
<1>7. \A i \in 1..c : arenas[i] = Summary(i)
  BY <1>2, <1>3, <1>6 DEF Counted
<1> QED BY <1>1, <1>4, <1>5, <1>7 DEF Counted

LEMMA CountedHolds == Spec => [](Inv /\ Counted)
<1>1. Init => Inv /\ Counted
  BY InitInv, InitCounted
<1>2. ASSUME Inv, Counted, [Next]_vars PROVE Inv' /\ Counted'
  <2>1. Inv'
    BY <1>2, NextInv
  <2>2. Counted'
    BY <1>2, QuietCounted, StartBenchmarkCounted, StartRoundCounted, EndMatchCounted,
       RecordRoundCounted, FinishArenaCounted DEF Next, Step
  <2> QED BY <2>1, <2>2
<1> QED BY <1>1, <1>2, PTL DEF Spec

-----------------------------------------------------------------------------
(* Sums over finite sets, and how many elements a set has.                 *)

LEMMA Least ==
  ASSUME NEW T \in SUBSET Nat, T # {}
  PROVE  \E x \in T : \A y \in T : x <= y
<1>1. PICK x \in T : \A y \in T : ~(<<y, x>> \in OpToRel(<, Nat))
  BY NatLessThanWellFounded, WFMin
<1>2. ASSUME NEW y \in T, ~(x <= y) PROVE FALSE
  <2>1. y < x /\ y \in Nat /\ x \in Nat
    BY <1>2
  <2>2. <<y, x>> \in OpToRel(<, Nat)
    BY <2>1 DEF OpToRel
  <2> QED BY <1>1, <2>2
<1> QED BY <1>2

LEMMA SetInduction ==
  ASSUME NEW S, 0 \in S, \A n \in Nat : n \in S => n + 1 \in S
  PROVE  \A n \in Nat : n \in S
<1> SUFFICES ASSUME NEW n \in Nat, n \notin S PROVE FALSE
  OBVIOUS
<1> DEFINE T == {k \in Nat : k \notin S}
<1>1. PICK x \in T : \A y \in T : x <= y
  BY Least
<1>2. x \in Nat /\ x # 0 /\ x \notin S
  BY <1>1
<1>3. x - 1 \in Nat /\ x - 1 \notin T
  BY <1>1, <1>2
<1> QED BY <1>2, <1>3

LEMMA SubsetInduction ==
  ASSUME NEW U, IsFiniteSet(U), NEW I, {} \in I,
         \A T \in SUBSET U : \A x \in U \ T : T \in I => T \cup {x} \in I
  PROVE  \A T \in SUBSET U : T \in I
<1> DEFINE N == {n \in Nat : \A T \in SUBSET U : Cardinality(T) = n => T \in I}
<1>1. \A T \in SUBSET U : IsFiniteSet(T) /\ Cardinality(T) \in Nat
  BY FS_Subset, FS_CardinalityType
<1>2. 0 \in N
  BY <1>1, FS_EmptySet
<1>3. ASSUME NEW n \in Nat, n \in N PROVE n + 1 \in N
  <2> SUFFICES ASSUME NEW T \in SUBSET U, Cardinality(T) = n + 1 PROVE T \in I
    OBVIOUS
  <2>1. T # {}
    BY FS_EmptySet
  <2>2. PICK x \in T : TRUE
    BY <2>1
  <2>3. IsFiniteSet(T) /\ Cardinality(T \ {x}) = Cardinality(T) - 1
    BY <1>1, <2>2, FS_RemoveElement
  <2>4. Cardinality(T \ {x}) = n
    BY <2>3
  <2>5. T \ {x} \in I
    BY <1>3, <2>4
  <2>6. T = (T \ {x}) \cup {x} /\ x \in U \ (T \ {x}) /\ T \ {x} \in SUBSET U
    BY <2>2
  <2> QED BY <2>5, <2>6
<1> HIDE DEF N
<1>4. \A n \in Nat : n \in N
  BY <1>2, <1>3, SetInduction
<1> QED BY <1>1, <1>4 DEF N

(* What a sum over a set unrolls to: an element, then the rest.            *)
OneOf(s) == CHOOSE x \in s : TRUE
Sums(h, f, S) ==
  h = [s \in SUBSET S |-> IF s = {} THEN 0 ELSE f[OneOf(s)] + h[s \ {OneOf(s)}]]

LEMMA SumsExist ==
  ASSUME NEW f, NEW S, IsFiniteSet(S)
  PROVE  \E h : Sums(h, f, S)
<1> DEFINE Turn1(h, s) == IF s = {} THEN 0 ELSE f[OneOf(s)] + h[s \ {OneOf(s)}]
           Upto(h, n) == \A s \in SUBSET S : Cardinality(s) <= n => h[s] = Turn1(h, s)
           N == {n \in Nat : \E h : Upto(h, n)}
<1>1. ASSUME NEW s \in SUBSET S
      PROVE  /\ Cardinality(s) \in Nat
             /\ Cardinality(s) <= Cardinality(S)
             /\ s # {} => /\ s \ {OneOf(s)} \in SUBSET S
                          /\ Cardinality(s \ {OneOf(s)}) = Cardinality(s) - 1
  <2>1. IsFiniteSet(s)
    BY FS_Subset
  <2>2. Cardinality(s) \in Nat /\ Cardinality(s) <= Cardinality(S)
    BY <2>1, FS_CardinalityType, FS_Subset
  <2>3. s # {} => OneOf(s) \in s
    BY DEF OneOf
  <2> QED BY <2>1, <2>2, <2>3, FS_RemoveElement
<1>2. Cardinality(S) \in Nat
  BY FS_CardinalityType
<1>3. 0 \in N
  <2> DEFINE h == [s \in SUBSET S |-> 0]
  <2>1. \A s \in SUBSET S : Cardinality(s) <= 0 => s = {}
    <3>1. ASSUME NEW s \in SUBSET S, Cardinality(s) <= 0 PROVE s = {}
      <4>1. IsFiniteSet(s)
        BY FS_Subset
      <4>2. Cardinality(s) \in Nat
        BY <1>1
      <4>3. Cardinality(s) = 0
        BY <3>1, <4>2
      <4> QED BY <4>1, <4>3, FS_EmptySet
    <3> QED BY <3>1
  <2>2. Upto(h, 0)
    BY <2>1
  <2> QED BY <2>2
<1>4. ASSUME NEW n \in Nat, n \in N PROVE n + 1 \in N
  <2>1. PICK g : Upto(g, n)
    BY <1>4
  <2> DEFINE h == [s \in SUBSET S |-> IF Cardinality(s) <= n THEN g[s] ELSE Turn1(g, s)]
  <2>2. ASSUME NEW s \in SUBSET S, Cardinality(s) <= n + 1 PROVE h[s] = Turn1(h, s)
    <3> DEFINE t == s \ {OneOf(s)}
    <3>1. CASE s = {}
      <4>1. Cardinality(s) <= n
        BY <3>1, FS_EmptySet
      <4> QED BY <2>1, <3>1, <4>1
    <3>2. CASE s # {}
      <4>1. t \in SUBSET S /\ Cardinality(t) = Cardinality(s) - 1 /\ Cardinality(s) \in Nat
        BY <1>1, <3>2
      <4> HIDE DEF t
      <4>2. Cardinality(t) <= n
        BY <2>2, <4>1
      <4>3. h[t] = g[t]
        BY <4>1, <4>2
      <4>4. g[s] = f[OneOf(s)] + g[t] \/ ~(Cardinality(s) <= n)
        BY <2>1, <3>2 DEF t
      <4>5. h[s] = f[OneOf(s)] + g[t]
        <5>1. CASE Cardinality(s) <= n
          BY <4>4, <5>1
        <5>2. CASE ~(Cardinality(s) <= n)
          BY <3>2, <5>2 DEF t
        <5> QED BY <5>1, <5>2
      <4> HIDE DEF h
      <4> QED BY <3>2, <4>3, <4>5 DEF t
    <3> QED BY <3>1, <3>2
  <2> HIDE DEF h, Turn1
  <2>3. Upto(h, n + 1)
    BY <2>2
  <2> QED BY <2>3
<1> HIDE DEF N
<1>5. Cardinality(S) \in N
  <2>1. \A n \in Nat : n \in N
    BY <1>3, <1>4, SetInduction
  <2> QED BY <1>2, <2>1
<1>6. PICK g : Upto(g, Cardinality(S))
  BY <1>5 DEF N
<1> DEFINE h == [s \in SUBSET S |-> g[s]]
<1>7. ASSUME NEW s \in SUBSET S
      PROVE  h[s] = IF s = {} THEN 0 ELSE f[OneOf(s)] + h[s \ {OneOf(s)}]
  <2>1. g[s] = Turn1(g, s)
    BY <1>1, <1>6
  <2> QED BY <1>1, <2>1
<1>8. Sums(h, f, S)
  BY <1>7 DEF Sums
<1> QED BY <1>8

(* Sums of the same numbers are equal. *)
LEMMA SumsAgree ==
  ASSUME NEW U, IsFiniteSet(U), NEW S \in SUBSET U, NEW f, NEW g,
         \A x \in S : f[x] = g[x], NEW h, Sums(h, f, U), NEW k, Sums(k, g, S)
  PROVE  \A T \in SUBSET S : h[T] = k[T]
<1> DEFINE N == {n \in Nat : \A T \in SUBSET S : Cardinality(T) = n => h[T] = k[T]}
<1>1. ASSUME NEW T \in SUBSET S
      PROVE  /\ Cardinality(T) \in Nat
             /\ h[T] = IF T = {} THEN 0 ELSE f[OneOf(T)] + h[T \ {OneOf(T)}]
             /\ k[T] = IF T = {} THEN 0 ELSE g[OneOf(T)] + k[T \ {OneOf(T)}]
             /\ T # {} => /\ OneOf(T) \in S /\ T \ {OneOf(T)} \in SUBSET S
                          /\ Cardinality(T \ {OneOf(T)}) = Cardinality(T) - 1
  <2>1. IsFiniteSet(T)
    BY FS_Subset
  <2>2. Cardinality(T) \in Nat
    BY <2>1, FS_CardinalityType
  <2>3. T # {} => OneOf(T) \in T
    BY DEF OneOf
  <2>4. /\ h[T] = IF T = {} THEN 0 ELSE f[OneOf(T)] + h[T \ {OneOf(T)}]
        /\ k[T] = IF T = {} THEN 0 ELSE g[OneOf(T)] + k[T \ {OneOf(T)}]
    <3>1. T \in SUBSET U
      OBVIOUS
    <3>2. h[T] = IF T = {} THEN 0 ELSE f[OneOf(T)] + h[T \ {OneOf(T)}]
      BY <3>1 DEF Sums
    <3>3. k[T] = IF T = {} THEN 0 ELSE g[OneOf(T)] + k[T \ {OneOf(T)}]
      BY DEF Sums
    <3> QED BY <3>2, <3>3
  <2> QED BY <2>1, <2>2, <2>3, <2>4, FS_RemoveElement
<1>2. 0 \in N
  <2>1. ASSUME NEW T \in SUBSET S, Cardinality(T) = 0 PROVE h[T] = k[T]
    <3>1. T = {}
      BY <2>1, FS_Subset, FS_EmptySet
    <3> QED BY <1>1, <3>1
  <2> QED BY <2>1
<1>3. ASSUME NEW n \in Nat, n \in N PROVE n + 1 \in N
  <2> SUFFICES ASSUME NEW T \in SUBSET S, Cardinality(T) = n + 1 PROVE h[T] = k[T]
    OBVIOUS
  <2>1. T # {}
    BY FS_EmptySet
  <2>2. h[T \ {OneOf(T)}] = k[T \ {OneOf(T)}]
    BY <1>1, <1>3, <2>1
  <2> QED BY <1>1, <2>1, <2>2
<1> HIDE DEF N
<1>4. \A n \in Nat : n \in N
  BY <1>2, <1>3, SetInduction
<1> QED BY <1>1, <1>4 DEF N

SumIn(f, S) == (CHOOSE h : Sums(h, f, S))[S]

LEMMA SumSums ==
  ASSUME NEW f, NEW S, IsFiniteSet(S)
  PROVE  \E h : Sums(h, f, S) /\ SumIn(f, S) = h[S]
BY SumsExist DEF SumIn

LEMMA SumIs ==
  ASSUME NEW U, IsFiniteSet(U), NEW f, NEW h, Sums(h, f, U)
  PROVE  \A S \in SUBSET U : SumIn(f, S) = h[S]
<1>1. ASSUME NEW S \in SUBSET U PROVE SumIn(f, S) = h[S]
  <2>1. IsFiniteSet(S)
    BY FS_Subset
  <2>2. PICK k : Sums(k, f, S) /\ SumIn(f, S) = k[S]
    BY <2>1, SumSums
  <2>3. h[S] = k[S]
    BY <2>2, SumsAgree
  <2> QED BY <2>2, <2>3
<1> QED BY <1>1

(* Any fold that unrolls like the sum is the sum. *)
LEMMA SumFold ==
  ASSUME NEW S, IsFiniteSet(S), NEW f, NEW g, \A x \in S : f[x] = g[x],
         NEW h, Sums(h, g, S)
  PROVE  h[S] = SumIn(f, S)
<1>1. PICK k : Sums(k, f, S) /\ SumIn(f, S) = k[S]
  BY SumSums
<1>2. S \in SUBSET S
  OBVIOUS
<1>3. Sums(k, f, S) /\ Sums(h, g, S) /\ \A x \in S : f[x] = g[x]
  BY <1>1
<1>4. \A T \in SUBSET S : k[T] = h[T]
  BY ONLY IsFiniteSet(S), <1>2, <1>3, SumsAgree
<1> QED BY <1>1, <1>2, <1>4

LEMMA SumSame ==
  ASSUME NEW S, IsFiniteSet(S), NEW f, NEW g, \A x \in S : f[x] = g[x]
  PROVE  SumIn(f, S) = SumIn(g, S)
<1>1. PICK h : Sums(h, g, S) /\ SumIn(g, S) = h[S]
  BY SumSums
<1> QED BY <1>1, SumFold

LEMMA SumEmpty == \A f : SumIn(f, {}) = 0
<1>1. ASSUME NEW f PROVE SumIn(f, {}) = 0
  <2>1. PICK h : Sums(h, f, {}) /\ SumIn(f, {}) = h[{}]
    BY SumSums, FS_EmptySet
  <2>2. {} \in SUBSET {}
    OBVIOUS
  <2>3. h[{}] = 0
    BY <2>1, <2>2 DEF Sums
  <2> QED BY <2>1, <2>3
<1> QED BY <1>1

(* The order in which a sum takes its elements does not matter.            *)
LEMMA SumAdd ==
  ASSUME NEW U, IsFiniteSet(U), NEW f, \A x \in U : f[x] \in Nat
  PROVE  \A T \in SUBSET U :
           /\ SumIn(f, T) \in Nat
           /\ \A x \in U \ T : SumIn(f, T \cup {x}) = f[x] + SumIn(f, T)
<1>1. PICK h : Sums(h, f, U)
  BY SumsExist
<1> DEFINE Good(T) == h[T] \in Nat /\ \A x \in U \ T : h[T \cup {x}] = f[x] + h[T]
           N == {n \in Nat : \A T \in SUBSET U : Cardinality(T) = n => Good(T)}
<1>2. ASSUME NEW T \in SUBSET U
      PROVE  /\ IsFiniteSet(T) /\ Cardinality(T) \in Nat
             /\ h[T] = IF T = {} THEN 0 ELSE f[OneOf(T)] + h[T \ {OneOf(T)}]
             /\ T # {} => OneOf(T) \in T
  <2>1. IsFiniteSet(T)
    BY FS_Subset
  <2>2. Cardinality(T) \in Nat
    BY <2>1, FS_CardinalityType
  <2>3. h[T] = IF T = {} THEN 0 ELSE f[OneOf(T)] + h[T \ {OneOf(T)}]
    BY <1>1 DEF Sums
  <2> QED BY <2>1, <2>2, <2>3 DEF OneOf
<1>3. ASSUME NEW T \in SUBSET U, NEW x \in T
      PROVE  Cardinality(T \ {x}) = Cardinality(T) - 1 /\ T \ {x} \in SUBSET U
  BY <1>2, FS_RemoveElement
<1>4. h[{}] = 0
  BY <1>2
<1>5. 0 \in N
  <2>1. ASSUME NEW T \in SUBSET U, Cardinality(T) = 0 PROVE Good(T)
    <3>1. T = {}
      BY <1>2, <2>1, FS_EmptySet
    <3>2. ASSUME NEW x \in U PROVE h[{x}] = f[x] + h[{}]
      <4>1. {x} \in SUBSET U /\ {x} # {} /\ {x} \ {x} = {}
        BY <3>2
      <4>2. OneOf({x}) = x
        BY <1>2, <4>1
      <4> QED BY <1>2, <4>1, <4>2
    <3>3. ASSUME NEW x \in U \ T PROVE h[T \cup {x}] = f[x] + h[T]
      <4>1. T \cup {x} = {x}
        BY <3>1
      <4> QED BY <3>1, <3>2, <4>1
    <3>4. h[T] \in Nat
      BY <1>4, <3>1
    <3> QED BY <3>3, <3>4
  <2> QED BY <2>1
<1>6. ASSUME NEW n \in Nat, n \in N PROVE n + 1 \in N
  <2> SUFFICES ASSUME NEW T \in SUBSET U, Cardinality(T) = n + 1 PROVE Good(T)
    OBVIOUS
  <2>1. T # {}
    BY FS_EmptySet
  <2>2. ASSUME NEW c \in T
        PROVE  h[T] = f[c] + h[T \ {c}] /\ h[T \ {c}] \in Nat
    <3>1. Cardinality(T \ {c}) = n /\ T \ {c} \in SUBSET U
      BY <1>3, <2>2
    <3>2. Good(T \ {c})
      BY <1>6, <3>1
    <3>3. (T \ {c}) \cup {c} = T /\ c \in U \ (T \ {c})
      BY <2>2
    <3> QED BY <3>2, <3>3
  <2>3. h[T] \in Nat
    <3>1. PICK c \in T : TRUE
      BY <2>1
    <3>2. f[c] \in Nat /\ h[T] = f[c] + h[T \ {c}] /\ h[T \ {c}] \in Nat
      BY <2>2
    <3> QED BY <3>2
  <2>4. ASSUME NEW x \in U \ T PROVE h[T \cup {x}] = f[x] + h[T]
    <3> DEFINE s == T \cup {x}
               c == OneOf(s)
    <3>1. s \in SUBSET U /\ s # {}
      OBVIOUS
    <3>2. c \in s /\ h[s] = f[c] + h[s \ {c}]
      BY <1>2, <3>1
    <3> HIDE DEF c
    <3>3. CASE c = x
      <4>1. s \ {c} = T
        BY <3>3
      <4> QED BY <3>2, <3>3, <4>1
    <3>4. CASE c # x
      <4>1. c \in T
        BY <3>2, <3>4
      <4>2. Cardinality(T \ {c}) = n /\ T \ {c} \in SUBSET U
        BY <1>3, <4>1
      <4>3. Good(T \ {c})
        BY <1>6, <4>2
      <4>4. s \ {c} = (T \ {c}) \cup {x} /\ x \in U \ (T \ {c})
        BY <3>4, <4>1
      <4>5. h[s \ {c}] = f[x] + h[T \ {c}]
        BY <4>3, <4>4
      <4>6. h[T] = f[c] + h[T \ {c}] /\ h[T \ {c}] \in Nat /\ f[c] \in Nat /\ f[x] \in Nat
        BY <2>2, <4>1
      <4>7. h[s] = f[c] + (f[x] + h[T \ {c}])
        BY <3>2, <4>5
      <4> HIDE DEF s
      <4>8. h[s] = f[x] + h[T]
        BY <4>6, <4>7
      <4> QED BY <4>8 DEF s
    <3> QED BY <3>3, <3>4
  <2> QED BY <2>3, <2>4
<1> HIDE DEF N
<1>7. \A n \in Nat : n \in N
  BY <1>5, <1>6, SetInduction
<1>8. \A T \in SUBSET U : Good(T)
  BY <1>2, <1>7 DEF N
<1>9. \A T \in SUBSET U : SumIn(f, T) = h[T]
  BY <1>1, SumIs
<1>10. \A T \in SUBSET U : \A x \in U \ T : T \cup {x} \in SUBSET U
  OBVIOUS
<1> QED BY <1>8, <1>9, <1>10

(* The sum of a number given to some and nothing to the others.            *)
LEMMA SumShare ==
  ASSUME NEW U, IsFiniteSet(U), NEW P \in SUBSET U, NEW a \in Nat
  PROVE  SumIn([x \in U |-> IF x \in P THEN a ELSE 0], U) = a * Cardinality(P)
<1> DEFINE share == [x \in U |-> IF x \in P THEN a ELSE 0]
           I == {T \in SUBSET U : SumIn(share, T) = a * Cardinality(T \cap P)}
<1>1. \A x \in U : share[x] \in Nat /\ share[x] = IF x \in P THEN a ELSE 0
  OBVIOUS
<1> HIDE DEF share
<1>2. {} \in I
  <2>1. {} \cap P = {} /\ Cardinality({}) = 0 /\ a * 0 = 0
    BY FS_EmptySet
  <2> QED BY <2>1, SumEmpty
<1>3. ASSUME NEW T \in SUBSET U, NEW x \in U \ T, T \in I PROVE T \cup {x} \in I
  <2>1. SumIn(share, T \cup {x}) = share[x] + SumIn(share, T)
    BY <1>1, SumAdd
  <2>2. IsFiniteSet(T \cap P)
    BY FS_Subset
  <2> DEFINE n == Cardinality(T \cap P)
  <2>3. n \in Nat
    BY <2>2, FS_CardinalityType
  <2>4. SumIn(share, T) = a * n /\ T \cup {x} \in SUBSET U
    BY <1>3
  <2>5. CASE x \in P
    <3>1. (T \cup {x}) \cap P = (T \cap P) \cup {x} /\ x \notin T \cap P
      BY <2>5
    <3>2. Cardinality((T \cup {x}) \cap P) = n + 1
      BY <2>2, <3>1, FS_AddElement
    <3>3. share[x] = a
      BY <1>1, <2>5
    <3> HIDE DEF n
    <3>4. a + a * n = a * (n + 1)
      BY <2>3
    <3> QED BY <2>1, <2>4, <3>2, <3>3, <3>4
  <2>6. CASE x \notin P
    <3>1. (T \cup {x}) \cap P = T \cap P
      BY <2>6
    <3>2. share[x] = 0
      BY <1>1, <2>6
    <3>3. a * n \in Nat
      <4> HIDE DEF n
      <4> QED BY <2>3
    <3>4. SumIn(share, T \cup {x}) = a * n
      BY <2>1, <2>4, <3>2, <3>3
    <3> QED BY <2>4, <3>1, <3>4
  <2> QED BY <2>5, <2>6
<1> HIDE DEF I
<1>4. U \in I
  BY <1>2, <1>3, SubsetInduction
<1>5. U \cap P = P
  OBVIOUS
<1> QED BY <1>4, <1>5 DEF I, share

(* The sum over a domain, as the model folds it, is the sum over the set.  *)
Unfolds(h, op(_), S) ==
  h = [s \in SUBSET S |-> IF s = {} THEN 0 ELSE op(OneOf(s)) + h[s \ {OneOf(s)}]]

LEMMA SumOfIs ==
  ASSUME NEW f, IsFiniteSet(DOMAIN f)
  PROVE  SumOf(f) = SumIn(f, DOMAIN f)
<1> DEFINE op(x) == f[x]
<1>1. \A h : Sums(h, f, DOMAIN f) <=> Unfolds(h, op, DOMAIN f)
  BY DEF Sums, Unfolds
<1>2. \E h : Unfolds(h, op, DOMAIN f)
  BY <1>1, SumsExist
<1>3. \E h : Unfolds(h, op, DOMAIN f) /\ SumOf(f) = h[DOMAIN f]
  BY <1>2 DEF SumOf, MapThenSumSet, MapThenFoldSet, Unfolds, OneOf
<1>4. PICK h : Sums(h, f, DOMAIN f) /\ SumOf(f) = h[DOMAIN f]
  BY <1>1, <1>3
<1>5. h[DOMAIN f] = SumIn(f, DOMAIN f)
  BY <1>4, SumFold
<1> QED BY <1>4, <1>5

LEMMA SumUnion ==
  ASSUME NEW U, IsFiniteSet(U), NEW f, \A x \in U : f[x] \in Nat,
         NEW S \in SUBSET U
  PROVE  \A T \in SUBSET (U \ S) : SumIn(f, S \cup T) = SumIn(f, S) + SumIn(f, T)
<1> DEFINE V == U \ S
           I == {T \in SUBSET V : SumIn(f, S \cup T) = SumIn(f, S) + SumIn(f, T)}
<1>1. \A T \in SUBSET U : /\ SumIn(f, T) \in Nat
                         /\ \A x \in U \ T : SumIn(f, T \cup {x}) = f[x] + SumIn(f, T)
  BY SumAdd
<1>2. IsFiniteSet(V)
  BY FS_Subset
<1>3. {} \in I
  <2>1. S \cup {} = S /\ SumIn(f, S) \in Nat
    BY <1>1
  <2> QED BY <2>1, SumEmpty
<1>4. ASSUME NEW T \in SUBSET V, NEW x \in V \ T, T \in I PROVE T \cup {x} \in I
  <2>1. T \in SUBSET U /\ x \in U \ T /\ S \cup T \in SUBSET U /\ x \in U \ (S \cup T)
    OBVIOUS
  <2>2. S \cup (T \cup {x}) = (S \cup T) \cup {x}
    OBVIOUS
  <2>3. SumIn(f, S \cup T) = SumIn(f, S) + SumIn(f, T)
    BY <1>4
  <2>4. /\ SumIn(f, (S \cup T) \cup {x}) = f[x] + SumIn(f, S \cup T)
        /\ SumIn(f, T \cup {x}) = f[x] + SumIn(f, T)
        /\ SumIn(f, S) \in Nat /\ SumIn(f, T) \in Nat /\ f[x] \in Nat
    BY <1>1, <2>1
  <2> DEFINE a == SumIn(f, S)
             b == SumIn(f, T)
             c == SumIn(f, S \cup T)
             all == SumIn(f, S \cup (T \cup {x}))
             more == SumIn(f, T \cup {x})
  <2>5. c = a + b /\ all = f[x] + c /\ more = f[x] + b /\ a \in Nat /\ b \in Nat /\ f[x] \in Nat
    BY <2>2, <2>3, <2>4
  <2> HIDE DEF a, b, c, all, more
  <2>6. all = a + more
    BY <2>5
  <2> QED BY <2>6 DEF a, all, more
<1> HIDE DEF I
<1>5. \A T \in SUBSET V : T \in I
  <2> HIDE DEF V
  <2> QED BY ONLY <1>2, <1>3, <1>4, SubsetInduction
<1> QED BY <1>5 DEF I

(* The sum over disjoint parts, part by part.                              *)
LEMMA SumParts ==
  ASSUME NEW U, IsFiniteSet(U), NEW f, \A x \in U : f[x] \in Nat,
         NEW I, IsFiniteSet(I), NEW part, \A i \in I : part[i] \in SUBSET U,
         \A i, j \in I : i # j => part[i] \cap part[j] = {}
  PROVE  /\ SumIn(f, UNION {part[i] : i \in I}) = SumIn([i \in I |-> SumIn(f, part[i])], I)
         /\ \A i \in I : SumIn(f, part[i]) \in Nat
<1> DEFINE g == [i \in I |-> SumIn(f, part[i])]
           all(J) == UNION {part[i] : i \in J}
           K == {J \in SUBSET I : SumIn(f, all(J)) = SumIn(g, J)}
<1>1. \A T \in SUBSET U : SumIn(f, T) \in Nat
  BY SumAdd
<1>2. \A i \in I : g[i] = SumIn(f, part[i]) /\ g[i] \in Nat
  BY <1>1
<1> HIDE DEF g
<1>3. {} \in K
  <2>1. all({}) = {}
    OBVIOUS
  <2> QED BY <2>1, SumEmpty
<1>4. ASSUME NEW J \in SUBSET I, NEW i \in I \ J, J \in K PROVE J \cup {i} \in K
  <2>1. all(J) \in SUBSET U /\ part[i] \in SUBSET (U \ all(J)) /\ all(J \cup {i}) = all(J) \cup part[i]
    OBVIOUS
  <2>2. SumIn(f, all(J)) = SumIn(g, J) /\ J \cup {i} \in SUBSET I
    BY <1>4
  <2> HIDE DEF all
  <2>3. SumIn(f, all(J) \cup part[i]) = SumIn(f, all(J)) + SumIn(f, part[i])
    BY <2>1, SumUnion
  <2>4. SumIn(g, J \cup {i}) = g[i] + SumIn(g, J) /\ SumIn(g, J) \in Nat
    BY <1>2, SumAdd
  <2> DEFINE a == SumIn(f, all(J))
             b == SumIn(f, part[i])
             c == SumIn(f, all(J \cup {i}))
             d == SumIn(g, J)
             e == SumIn(g, J \cup {i})
  <2>5. c = a + b /\ a = d /\ e = b + d /\ b \in Nat /\ d \in Nat
    BY <1>2, <2>1, <2>2, <2>3, <2>4
  <2> HIDE DEF a, b, c, d, e
  <2>6. c = e
    BY <2>5
  <2> QED BY <2>2, <2>6 DEF c, e
<1> HIDE DEF K, all
<1>5. \A J \in SUBSET I : J \in K
  BY ONLY IsFiniteSet(I), <1>3, <1>4, SubsetInduction
<1>6. I \in K
  BY <1>5
<1> QED BY <1>1, <1>6 DEF K, all, g

(* The sum over an image, when each element comes from one argument.       *)
LEMMA SumImage ==
  ASSUME NEW S, IsFiniteSet(S), NEW g, \A x, y \in S : g[x] = g[y] => x = y,
         NEW f, \A x \in S : f[g[x]] \in Nat
  PROVE  /\ IsFiniteSet({g[x] : x \in S})
         /\ Cardinality({g[x] : x \in S}) = Cardinality(S)
         /\ SumIn(f, {g[x] : x \in S}) = SumIn([x \in S |-> f[g[x]]], S)
<1> DEFINE img(T) == {g[x] : x \in T}
           h == [x \in S |-> f[g[x]]]
           K == {T \in SUBSET S : SumIn(f, img(T)) = SumIn(h, T)}
<1>1. IsFiniteSet(img(S)) /\ Cardinality(img(S)) = Cardinality(S)
  <2> DEFINE b == [x \in S |-> g[x]]
  <2>1. b \in Bijection(S, img(S))
    BY DEF Bijection, Injection, Surjection, IsInjective
  <2>2. ExistsBijection(S, img(S))
    BY <2>1 DEF ExistsBijection
  <2> HIDE DEF img
  <2> QED BY <2>2, FS_Bijection
<1>2. \A x \in S : h[x] = f[g[x]] /\ h[x] \in Nat
  OBVIOUS
<1> HIDE DEF h
<1>3. {} \in K
  <2>1. img({}) = {}
    OBVIOUS
  <2> QED BY <2>1, SumEmpty
<1>4. ASSUME NEW T \in SUBSET S, NEW x \in S \ T, T \in K PROVE T \cup {x} \in K
  <2>1. /\ img(T) \in SUBSET img(S) /\ g[x] \in img(S) \ img(T)
        /\ img(T \cup {x}) = img(T) \cup {g[x]} /\ \A y \in img(S) : f[y] \in Nat
    OBVIOUS
  <2>2. SumIn(f, img(T)) = SumIn(h, T) /\ T \cup {x} \in SUBSET S
    BY <1>4
  <2> HIDE DEF img
  <2>3. SumIn(f, img(T) \cup {g[x]}) = f[g[x]] + SumIn(f, img(T))
    BY <1>1, <2>1, SumAdd
  <2>4. SumIn(h, T \cup {x}) = h[x] + SumIn(h, T)
    BY <1>2, SumAdd
  <2> QED BY <1>2, <2>1, <2>2, <2>3, <2>4
<1> HIDE DEF K, img
<1>5. \A T \in SUBSET S : T \in K
  BY ONLY IsFiniteSet(S), <1>3, <1>4, SubsetInduction
<1>6. S \in K
  BY <1>5
<1> QED BY <1>1, <1>6 DEF K, img, h

LEMMA SumCount ==
  ASSUME NEW U, IsFiniteSet(U), NEW P \in SUBSET U
  PROVE  /\ SumIn([x \in U |-> IF x \in P THEN 1 ELSE 0], U) = Cardinality(P)
         /\ Cardinality(P) \in Nat
<1>1. Cardinality(P) \in Nat
  BY FS_Subset, FS_CardinalityType
<1>2. SumIn([x \in U |-> IF x \in P THEN 1 ELSE 0], U) = 1 * Cardinality(P)
  BY SumShare
<1> QED BY <1>1, <1>2

(* As many elements as the disjoint parts of a set have together.          *)
LEMMA CardParts ==
  ASSUME NEW I, IsFiniteSet(I), NEW part, \A i \in I : IsFiniteSet(part[i]),
         \A i, j \in I : i # j => part[i] \cap part[j] = {},
         NEW count, \A i \in I : count[i] = Cardinality(part[i]),
         NEW U, U = UNION {part[i] : i \in I}
  PROVE  IsFiniteSet(U) /\ Cardinality(U) = SumIn(count, I)
<1> DEFINE one == [x \in U |-> IF x \in U THEN 1 ELSE 0]
           sums == [i \in I |-> SumIn(one, part[i])]
<1>1. IsFiniteSet(U)
  <2> DEFINE parts == {part[i] : i \in I}
             at == [i \in I |-> part[i]]
  <2>1. at \in Surjection(I, parts)
    BY DEF Surjection
  <2>2. \A T \in parts : IsFiniteSet(T)
    OBVIOUS
  <2> HIDE DEF parts, at
  <2>3. IsFiniteSet(parts)
    BY <2>1, FS_Surjection
  <2>4. IsFiniteSet(UNION parts)
    BY <2>2, <2>3, FS_UNION
  <2> QED BY <2>4 DEF parts
<1>2. \A x \in U : one[x] = 1
  OBVIOUS
<1>3. ASSUME NEW P \in SUBSET U PROVE SumIn(one, P) = Cardinality(P)
  <2> DEFINE inP == [x \in P |-> IF x \in P THEN 1 ELSE 0]
  <2>1. IsFiniteSet(P)
    BY <1>1, FS_Subset
  <2>2. SumIn(inP, P) = Cardinality(P)
    BY <2>1, SumCount
  <2>3. \A x \in P : one[x] = inP[x]
    OBVIOUS
  <2> HIDE DEF inP, one
  <2> QED BY <2>1, <2>2, <2>3, SumSame
<1>4. \A i \in I : part[i] \in SUBSET U
  OBVIOUS
<1> HIDE DEF one
<1>5. SumIn(one, UNION {part[i] : i \in I}) = SumIn([i \in I |-> SumIn(one, part[i])], I)
  <2>1. \A x \in U : one[x] \in Nat
    BY <1>2
  <2>2. \A i, j \in I : i # j => part[i] \cap part[j] = {}
    OBVIOUS
  <2> QED BY ONLY IsFiniteSet(I), <1>1, <1>4, <2>1, <2>2, SumParts
<1>6. \A i \in I : sums[i] = count[i]
  BY <1>3, <1>4
<1>7. SumIn(sums, I) = SumIn(count, I)
  <2> HIDE DEF sums
  <2> QED BY <1>6, SumSame
<1>8. SumIn(one, U) = Cardinality(U)
  BY <1>3
<1> QED BY <1>1, <1>5, <1>7, <1>8

(* A multiple of every number makes a multiple of the sum.                 *)
LEMMA SumScale ==
  ASSUME NEW I, IsFiniteSet(I), NEW f, \A i \in I : f[i] \in Nat, NEW c \in Nat
  PROVE  SumIn([i \in I |-> c * f[i]], I) = c * SumIn(f, I)
<1> DEFINE g == [i \in I |-> c * f[i]]
           K == {J \in SUBSET I : SumIn(g, J) = c * SumIn(f, J)}
<1>1. \A i \in I : g[i] = c * f[i] /\ g[i] \in Nat
  OBVIOUS
<1> HIDE DEF g
<1>2. {} \in K
  <2>1. c * 0 = 0
    OBVIOUS
  <2> QED BY <2>1, SumEmpty
<1>3. ASSUME NEW J \in SUBSET I, NEW i \in I \ J, J \in K PROVE J \cup {i} \in K
  <2> DEFINE a == SumIn(f, J)
             b == SumIn(g, J)
             all == SumIn(f, J \cup {i})
             more == SumIn(g, J \cup {i})
  <2>1. all = f[i] + a /\ a \in Nat
    BY SumAdd
  <2>2. more = g[i] + b
    BY <1>1, SumAdd
  <2>3. b = c * a /\ J \cup {i} \in SUBSET I
    BY <1>3
  <2> HIDE DEF a, b, all, more
  <2>4. more = c * all
    BY <1>1, <2>1, <2>2, <2>3
  <2> QED BY <2>3, <2>4 DEF all, more
<1> HIDE DEF K
<1>4. I \in K
  BY <1>2, <1>3, SubsetInduction
<1> QED BY <1>4 DEF K, g

(* A finite family of times has a latest one.                              *)
LEMMA Bounded ==
  ASSUME NEW times, IsFiniteSet(DOMAIN times), \A x \in DOMAIN times : times[x] \in Nat
  PROVE  \E b \in Nat : \A x \in DOMAIN times : times[x] <= b
<1> DEFINE D == DOMAIN times
           K == {T \in SUBSET D : \E b \in Nat : \A x \in T : times[x] <= b}
<1>1. {} \in K
  OBVIOUS
<1>2. ASSUME NEW T \in SUBSET D, NEW x \in D \ T, T \in K PROVE T \cup {x} \in K
  <2>1. PICK b \in Nat : \A y \in T : times[y] <= b
    BY <1>2
  <2>2. times[x] \in Nat /\ b + times[x] \in Nat
    OBVIOUS
  <2>3. \A y \in T \cup {x} : times[y] <= b + times[x]
    BY <2>1, <2>2
  <2> QED BY <2>2, <2>3
<1> HIDE DEF K
<1>3. D \in K
  <2>1. IsFiniteSet(D)
    OBVIOUS
  <2> HIDE DEF D
  <2> QED BY ONLY <1>1, <1>2, <2>1, SubsetInduction
<1> QED BY <1>3 DEF K

(* There is a time in the middle of some times, and median is one such.    *)
LEMMA MedianIs ==
  ASSUME NEW times, IsFiniteSet(DOMAIN times), \A x \in DOMAIN times : times[x] \in Nat,
         DOMAIN times # {}
  PROVE  /\ Median(times) \in Nat
         /\ 2 * Cardinality({x \in DOMAIN times : times[x] < Median(times)})
              <= Cardinality(DOMAIN times)
         /\ 2 * Cardinality({x \in DOMAIN times : times[x] > Median(times)})
              < Cardinality(DOMAIN times)
<1> DEFINE D == DOMAIN times
           n == Cardinality(D)
           middle == n \div 2
           Earlier(t) == {x \in D : times[x] < t}
           Later(t) == {x \in D : times[x] > t}
           By(t) == D \ Later(t)
           Late == {t \in Nat : middle < Cardinality(By(t))}
           Mid(t) == Cardinality(Earlier(t)) <= middle /\ middle < Cardinality(By(t))
<1>1. n \in Nat /\ n > 0
  BY FS_EmptySet, FS_CardinalityType
<1>2. middle \in Nat /\ middle < n /\ 2 * middle <= n /\ n <= 2 * middle + 1
  <2> HIDE DEF n
  <2> QED BY <1>1
<1>3. ASSUME NEW T \in SUBSET D PROVE IsFiniteSet(T) /\ Cardinality(T) \in Nat
  BY FS_Subset, FS_CardinalityType
<1>4. Late # {}
  <2>1. PICK b \in Nat : \A x \in D : times[x] <= b
    BY Bounded
  <2>2. By(b) = D
    BY <2>1
  <2>3. b \in Late
    BY <1>2, <2>2
  <2> QED BY <2>3
<1>5. PICK t \in Late : \A s \in Late : t <= s
  <2>1. Late \in SUBSET Nat
    OBVIOUS
  <2> HIDE DEF Late
  <2> QED BY <1>4, <2>1, Least
<1>6. t \in Nat /\ middle < Cardinality(By(t))
  BY <1>5
<1>7. Cardinality(Earlier(t)) <= middle /\ \E x \in D : times[x] = t
  <2>1. CASE t = 0
    <3>1. Earlier(t) = {}
      BY <2>1
    <3>2. \E x \in D : times[x] = t
      <4>1. By(t) # {}
        <5> HIDE DEF By, middle
        <5> QED BY <1>2, <1>6, FS_EmptySet
      <4> QED BY <2>1, <4>1
    <3> QED BY <1>2, <3>1, <3>2, FS_EmptySet
  <2>2. CASE t # 0
    <3>1. t - 1 \in Nat /\ t - 1 \notin Late
      BY <1>5, <1>6, <2>2
    <3>2. By(t - 1) = Earlier(t)
      BY <1>6
    <3>3. Cardinality(Earlier(t)) <= middle
      <4>1. Cardinality(Earlier(t)) \in Nat
        BY <1>3
      <4>2. ~(middle < Cardinality(Earlier(t)))
        BY <3>1, <3>2
      <4> QED BY <1>2, <4>1, <4>2
    <3>4. By(t) # Earlier(t)
      <4>1. Cardinality(Earlier(t)) \in Nat
        BY <1>3
      <4> HIDE DEF By, Earlier, middle
      <4> QED BY <1>2, <1>6, <3>3, <4>1
    <3>5. \E x \in D : times[x] = t
      BY <1>6, <3>4
    <3> QED BY <3>3, <3>5
  <2> QED BY <2>1, <2>2
<1>8. t \in Range(times) /\ Mid(t)
  BY <1>6, <1>7 DEF Range
<1> DEFINE m == Median(times)
<1>9. m \in Range(times) /\ Mid(m)
  <2>1. m = CHOOSE u \in Range(times) : Mid(u)
    BY DEF Median
  <2> HIDE DEF m, Mid
  <2> QED BY <1>8, <2>1
<1>10. m \in Nat
  BY <1>9 DEF Range
<1>11. /\ Cardinality(By(m)) = n - Cardinality(Later(m))
       /\ Cardinality(Later(m)) \in Nat /\ Cardinality(Earlier(m)) \in Nat
  <2>1. Later(m) \in SUBSET D /\ Earlier(m) \in SUBSET D /\ D \cap Later(m) = Later(m)
    OBVIOUS
  <2> HIDE DEF Later, Earlier, m
  <2>2. Cardinality(D \ Later(m)) = n - Cardinality(D \cap Later(m))
    BY FS_Difference
  <2> QED BY <1>3, <2>1, <2>2
<1> DEFINE e == Cardinality(Earlier(m))
           l == Cardinality(Later(m))
           k == Cardinality(By(m))
<1>12. /\ k = n - l /\ l \in Nat /\ e \in Nat /\ e <= middle /\ middle < k
  BY <1>9, <1>11
<1>13. 2 * e <= n /\ 2 * l < n
  <2> HIDE DEF e, l, k, n, middle
  <2> QED BY <1>1, <1>2, <1>12
<1> QED BY <1>10, <1>13

-----------------------------------------------------------------------------
(* The leaderboard: the account of a configuration's sittings.             *)

(* What a row of a leaderboard has to say of a set of sittings.            *)
Silent(S) == {s \in S : s.world.spent[s.seat] = None}
Won(S) == {s \in S : s.world.winner = s.seat}
Timed(S, Q) == {s \in S : s.world.durable[s.seat] \in Q}
Slots(times, Q) == {x \in DOMAIN times : times[x] \in Q}
Spent(S) == [s \in S |-> s.world.spent[s.seat]]

Kept(S) == IsFiniteSet(S) /\ \A s \in S : s.world \in Worlds /\ s.seat \in Agents

TimesOf(times, S) ==
  /\ IsFiniteSet(DOMAIN times) /\ \A x \in DOMAIN times : times[x] \in Nat
  /\ \A Q \in SUBSET Nat : Cardinality(Slots(times, Q)) = Cardinality(Timed(S, Q))

Account(row, S) ==
  /\ Kept(S) /\ TimesOf(row.times, S)
  /\ row.appearances = Cardinality(S)
  /\ row.wins = Cardinality(Won(S))
  /\ row.recorded = Cardinality(S \ Silent(S))
  /\ Silent(S) = {} => row.cost = SumIn(Spent(S), S)
  /\ Silent(S) # {} => row.cost = None

LEMMA WorldFacts ==
  ASSUME NEW world \in Worlds, NEW seat \in Agents
  PROVE  /\ world.spent[seat] \in Nat \cup {None}
         /\ world.durable[seat] \in Nat \cup {None}
<1>1. world.spent \in [Agents -> Nat \cup {None}] /\ world.durable \in [Agents -> Nat \cup {None}]
  BY BenchmarkWorlds
<1> QED BY <1>1

(* A row whose reports are all there is one of which none is missing.      *)
LEMMA CompleteIs ==
  ASSUME NEW S, IsFiniteSet(S), NEW row,
         row.appearances = Cardinality(S), row.recorded = Cardinality(S \ Silent(S))
  PROVE  Complete(row) <=> Silent(S) = {}
<1>1. S \ Silent(S) \in SUBSET S /\ Silent(S) \in SUBSET S
  BY DEF Silent
<1>2. Complete(row) => S = S \ Silent(S)
  BY <1>1, FS_Subset DEF Complete
<1>3. Silent(S) = {} => S \ Silent(S) = S
  OBVIOUS
<1> QED BY <1>1, <1>2, <1>3 DEF Complete

LEMMA ImageCard ==
  ASSUME NEW K, IsFiniteSet(K), NEW g, \A x, y \in K : g[x] = g[y] => x = y,
         NEW T \in SUBSET K, NEW R, R = {g[x] : x \in T}
  PROVE  IsFiniteSet(R) /\ Cardinality(R) = Cardinality(T)
<1> DEFINE b == [x \in T |-> g[x]]
<1>1. b \in Bijection(T, R)
  BY DEF Bijection, Injection, Surjection, IsInjective
<1>2. ExistsBijection(T, R) /\ IsFiniteSet(T)
  BY <1>1, FS_Subset DEF ExistsBijection
<1> QED BY <1>2, FS_Bijection

(* S is what agent a did in n rounds, which left these worlds.             *)
SatIn(a, n, rounds, worlds, sit, S) ==
  /\ a \in Agents /\ n \in Nat /\ DOMAIN rounds = 1..n /\ Len(worlds) = n
  /\ S = {sit[k] : k \in 1..n} /\ \A k, l \in 1..n : sit[k] = sit[l] => k = l
  /\ \A k \in 1..n :
       /\ sit[k].world = worlds[k] /\ worlds[k] \in Worlds
       /\ sit[k].seat = rounds[k].seats[a] /\ rounds[k].seats[a] \in Agents
       /\ rounds[k].winner = a <=> worlds[k].winner = rounds[k].seats[a]
       /\ a \in rounds[k].usage <=> worlds[k].spent[rounds[k].seats[a]] # None

(* The standing of an agent in a series is the account of its sittings.    *)
LEMMA StandingAccount ==
  ASSUME NEW a, NEW n, NEW rounds, NEW worlds, NEW sit, NEW S,
         SatIn(a, n, rounds, worlds, sit, S)
  PROVE  Account(SeriesStanding(a, rounds, worlds), S)
<1> USE DEF SatIn
<1> DEFINE K == 1..n
           At(k) == rounds[k].seats[a]
           row == SeriesStanding(a, rounds, worlds)
           durable == {k \in K : worlds[k].durable[At(k)] # None}
           cost == [k \in K |-> Known(worlds[k].spent[At(k)])]
           heard == {k \in K : a \in rounds[k].usage}
<1>1. IsFiniteSet(K) /\ Cardinality(K) = n
  <2>1. n \in Nat
    OBVIOUS
  <2> QED BY ONLY <2>1, FS_Interval
<1>2. \A T \in SUBSET K : /\ IsFiniteSet({sit[k] : k \in T})
                         /\ Cardinality({sit[k] : k \in T}) = Cardinality(T)
  <2>1. \A x, y \in K : sit[x] = sit[y] => x = y
    OBVIOUS
  <2>2. ASSUME NEW T \in SUBSET K
        PROVE  /\ IsFiniteSet({sit[k] : k \in T})
               /\ Cardinality({sit[k] : k \in T}) = Cardinality(T)
    <3> DEFINE R == {sit[k] : k \in T}
    <3>1. T \in SUBSET K /\ R = {sit[k] : k \in T}
      OBVIOUS
    <3> HIDE DEF K, R
    <3>2. IsFiniteSet(R) /\ Cardinality(R) = Cardinality(T)
      BY ONLY <1>1, <2>1, <3>1, ImageCard
    <3> QED BY <3>2 DEF R
  <2> QED BY <2>2
<1>3. Kept(S)
  <2>1. K \in SUBSET K
    OBVIOUS
  <2>2. IsFiniteSet(S)
    BY <1>2, <2>1
  <2> QED BY <2>2 DEF Kept
<1>4. /\ row.appearances = n
      /\ row.wins = Cardinality({k \in K : rounds[k].winner = a})
      /\ row.times = [k \in durable |-> worlds[k].durable[At(k)]]
      /\ row.recorded = Cardinality(heard)
      /\ row.cost = SumOf(cost) \/ ~Complete(row)
      /\ row.cost = None \/ Complete(row)
  BY DEF SeriesStanding, Complete
<1> HIDE DEF row
<1>5. row.appearances = Cardinality(S)
  BY <1>1, <1>2, <1>4
<1>6. row.wins = Cardinality(Won(S))
  <2>1. Won(S) = {sit[k] : k \in {k \in K : rounds[k].winner = a}}
    BY DEF Won
  <2> QED BY <1>2, <1>4, <2>1
<1>7. row.recorded = Cardinality(S \ Silent(S))
  <2>1. S \ Silent(S) = {sit[k] : k \in heard}
    BY DEF Silent
  <2> QED BY <1>2, <1>4, <2>1
<1>8. TimesOf(row.times, S)
  <2>1. \A k \in durable : row.times[k] = worlds[k].durable[At(k)] /\ row.times[k] \in Nat
    <3>1. ASSUME NEW k \in durable PROVE row.times[k] = worlds[k].durable[At(k)] /\ row.times[k] \in Nat
      <4>1. worlds[k] \in Worlds /\ At(k) \in Agents /\ worlds[k].durable[At(k)] # None
        OBVIOUS
      <4>2. worlds[k].durable[At(k)] \in Nat
        BY <4>1, WorldFacts
      <4>3. row.times[k] = worlds[k].durable[At(k)]
        BY <1>4
      <4> QED BY <4>2, <4>3
    <3> QED BY <3>1
  <2>2. DOMAIN row.times = durable /\ IsFiniteSet(durable)
    BY <1>1, <1>4, FS_Subset
  <2>3. ASSUME NEW Q \in SUBSET Nat
        PROVE  Cardinality(Slots(row.times, Q)) = Cardinality(Timed(S, Q))
    <3>1. Timed(S, Q) = {sit[k] : k \in Slots(row.times, Q)}
      <4>1. ASSUME NEW k \in K
            PROVE  sit[k].world.durable[sit[k].seat] \in Q <=> k \in Slots(row.times, Q)
        <5>1. sit[k].world.durable[sit[k].seat] = worlds[k].durable[At(k)] /\ None \notin Q
          BY BenchmarkWorlds
        <5>2. k \in durable <=> worlds[k].durable[At(k)] # None
          OBVIOUS
        <5> HIDE DEF durable, At
        <5> QED BY <2>1, <2>2, <5>1, <5>2 DEF Slots
      <4>2. \A k \in Slots(row.times, Q) : k \in K
        BY <2>2 DEF Slots
      <4> QED BY <4>1, <4>2 DEF Timed
    <3>2. Slots(row.times, Q) \in SUBSET K
      BY <2>2 DEF Slots
    <3> QED BY <1>2, <3>1, <3>2
  <2> QED BY <2>1, <2>2, <2>3 DEF TimesOf
<1>9. Complete(row) <=> Silent(S) = {}
  <2>1. IsFiniteSet(S)
    BY <1>2
  <2> QED BY <1>5, <1>7, <2>1, CompleteIs
<1>10. Silent(S) = {} => row.cost = SumIn(Spent(S), S)
  <2> SUFFICES ASSUME Silent(S) = {} PROVE row.cost = SumIn(Spent(S), S)
    OBVIOUS
  <2> DEFINE f == Spent(S)
             at == [k \in K |-> f[sit[k]]]
  <2>1. \A k \in K : f[sit[k]] = worlds[k].spent[At(k)] /\ f[sit[k]] \in Nat
    <3>1. \A k \in K : sit[k] \in S /\ sit[k] \notin Silent(S)
      OBVIOUS
    <3>2. \A k \in K : f[sit[k]] = worlds[k].spent[At(k)]
      BY DEF Spent
    <3>3. \A k \in K : worlds[k].spent[At(k)] # None
      BY <3>1 DEF Silent
    <3> QED BY <3>2, <3>3, WorldFacts
  <2> HIDE DEF f
  <2>2. \A k \in K : cost[k] = at[k]
    BY <2>1, BenchmarkWorlds DEF Known
  <2>3. SumOf(cost) = SumIn(cost, K)
    <3>1. DOMAIN cost = K
      OBVIOUS
    <3> HIDE DEF cost
    <3> QED BY <1>1, <3>1, SumOfIs
  <2>4. SumIn(cost, K) = SumIn(at, K)
    <3> HIDE DEF cost, at, K
    <3> QED BY <1>1, <2>2, SumSame
  <2>5. SumIn(f, S) = SumIn(at, K)
    <3>1. (\A x, y \in K : sit[x] = sit[y] => x = y) /\ \A x \in K : f[sit[x]] \in Nat
      BY <2>1
    <3>2. S = {sit[k] : k \in K}
      OBVIOUS
    <3> HIDE DEF K
    <3>3. SumIn(f, {sit[k] : k \in K}) = SumIn([k \in K |-> f[sit[k]]], K)
      BY ONLY <1>1, <3>1, SumImage
    <3> QED BY <3>2, <3>3
  <2> QED BY <1>4, <1>9, <2>3, <2>4, <2>5 DEF f
<1> QED BY <1>3, <1>4, <1>5, <1>6, <1>7, <1>8, <1>9, <1>10 DEF Account, row

(* Of disjoint parts, those of a kind are as many as a sum of them says.   *)
LEMMA SumOfCards ==
  ASSUME NEW I, IsFiniteSet(I), NEW part, \A i \in I : IsFiniteSet(part[i]),
         \A i, j \in I : i # j => part[i] \cap part[j] = {},
         NEW count, DOMAIN count = I, \A i \in I : count[i] = Cardinality(part[i]),
         NEW all, all = UNION {part[i] : i \in I}
  PROVE  SumOf(count) = Cardinality(all)
<1>1. SumOf(count) = SumIn(count, I)
  BY SumOfIs
<1>2. Cardinality(all) = SumIn(count, I)
  BY ONLY IsFiniteSet(I), all = UNION {part[i] : i \in I}, \A i \in I : IsFiniteSet(part[i]),
     \A i, j \in I : i # j => part[i] \cap part[j] = {},
     \A i \in I : count[i] = Cardinality(part[i]), CardParts
<1> QED BY <1>1, <1>2

(* Times put together are those of all the parts.                          *)
Merged(parts) ==
  [slot \in UNION {{x} \X DOMAIN parts[x].times : x \in DOMAIN parts} |->
     parts[slot[1]].times[slot[2]]]

LEMMA TotalIs ==
  ASSUME NEW parts
  PROVE  /\ Total(parts).appearances = SumOf([x \in DOMAIN parts |-> parts[x].appearances])
         /\ Total(parts).wins = SumOf([x \in DOMAIN parts |-> parts[x].wins])
         /\ Total(parts).recorded = SumOf([x \in DOMAIN parts |-> parts[x].recorded])
         /\ Total(parts).times = Merged(parts)
         /\ Total(parts).median = Median(Merged(parts))
         /\ Complete(Total(parts)) =>
              Total(parts).cost = AddValues([x \in DOMAIN parts |-> parts[x].cost])
         /\ ~Complete(Total(parts)) => Total(parts).cost = None
BY DEF Total, Complete, Merged

LEMMA MergedTimes ==
  ASSUME NEW I, IsFiniteSet(I), NEW parts, DOMAIN parts = I, NEW S,
         \A i \in I : IsFiniteSet(S[i]) /\ TimesOf(parts[i].times, S[i]),
         \A i, j \in I : i # j => S[i] \cap S[j] = {},
         NEW all, all = UNION {S[i] : i \in I}
  PROVE  TimesOf(Merged(parts), all)
<1> DEFINE times == Merged(parts)
           slots(Q) == [i \in I |-> {i} \X Slots(parts[i].times, Q)]
           timed(Q) == [i \in I |-> Timed(S[i], Q)]
           count(Q) == [i \in I |-> Cardinality(Timed(S[i], Q))]
<1>1. ASSUME NEW i \in I, NEW Q \in SUBSET Nat
      PROVE  /\ IsFiniteSet(slots(Q)[i]) /\ Cardinality(slots(Q)[i]) = count(Q)[i]
             /\ IsFiniteSet(timed(Q)[i]) /\ Cardinality(timed(Q)[i]) = count(Q)[i]
  <2> DEFINE s == Slots(parts[i].times, Q)
             t == Timed(S[i], Q)
  <2>1. s \in SUBSET DOMAIN parts[i].times /\ t \in SUBSET S[i]
    BY DEF Slots, Timed
  <2>2. IsFiniteSet(s) /\ IsFiniteSet(t) /\ Cardinality(s) = Cardinality(t)
    BY <2>1, FS_Subset DEF TimesOf
  <2> HIDE DEF s, t
  <2>3. IsFiniteSet({i}) /\ Cardinality({i}) = 1 /\ Cardinality(s) \in Nat
    BY <2>2, FS_Singleton, FS_CardinalityType
  <2>4. IsFiniteSet({i} \X s) /\ Cardinality({i} \X s) = Cardinality({i}) * Cardinality(s)
    BY ONLY <2>2, <2>3, FS_Product
  <2>5. Cardinality({i} \X s) = Cardinality(s)
    BY <2>3, <2>4
  <2> QED BY <2>2, <2>4, <2>5 DEF s, t
<1>2. ASSUME NEW Q \in SUBSET Nat
      PROVE  /\ Cardinality(UNION {slots(Q)[i] : i \in I}) = SumIn(count(Q), I)
             /\ Cardinality(UNION {timed(Q)[i] : i \in I}) = SumIn(count(Q), I)
             /\ IsFiniteSet(UNION {slots(Q)[i] : i \in I})
  <2>1. \A i, j \in I : i # j => slots(Q)[i] \cap slots(Q)[j] = {} /\ timed(Q)[i] \cap timed(Q)[j] = {}
    BY DEF Slots, Timed
  <2>2. \A i \in I : IsFiniteSet(slots(Q)[i]) /\ count(Q)[i] = Cardinality(slots(Q)[i])
    BY <1>1
  <2>3. \A i \in I : IsFiniteSet(timed(Q)[i]) /\ count(Q)[i] = Cardinality(timed(Q)[i])
    BY <1>1
  <2> HIDE DEF slots, timed, count
  <2>4. /\ Cardinality(UNION {slots(Q)[i] : i \in I}) = SumIn(count(Q), I)
        /\ IsFiniteSet(UNION {slots(Q)[i] : i \in I})
    BY ONLY IsFiniteSet(I), <2>1, <2>2, CardParts
  <2>5. Cardinality(UNION {timed(Q)[i] : i \in I}) = SumIn(count(Q), I)
    BY ONLY IsFiniteSet(I), <2>1, <2>3, CardParts
  <2> QED BY <2>4, <2>5
<1>3. \A Q : UNION {timed(Q)[i] : i \in I} = Timed(all, Q)
  BY DEF Timed
<1>4. DOMAIN times = UNION {{i} \X DOMAIN parts[i].times : i \in I}
  BY DEF Merged
<1>5. \A x \in DOMAIN times : /\ x[1] \in I /\ x[2] \in DOMAIN parts[x[1]].times
                              /\ times[x] = parts[x[1]].times[x[2]] /\ times[x] \in Nat
  <2>1. ASSUME NEW x \in DOMAIN times
        PROVE  /\ x[1] \in I /\ x[2] \in DOMAIN parts[x[1]].times
               /\ times[x] = parts[x[1]].times[x[2]] /\ times[x] \in Nat
    <3>1. PICK i \in I : x \in {i} \X DOMAIN parts[i].times
      BY <1>4
    <3>2. x[1] = i /\ x[2] \in DOMAIN parts[i].times
      BY <3>1
    <3>3. times[x] = parts[x[1]].times[x[2]]
      BY <2>1 DEF Merged
    <3> QED BY <3>2, <3>3 DEF TimesOf
  <2> QED BY <2>1
<1>6. \A Q \in SUBSET Nat : UNION {slots(Q)[i] : i \in I} = Slots(times, Q)
  <2> SUFFICES ASSUME NEW Q \in SUBSET Nat PROVE UNION {slots(Q)[i] : i \in I} = Slots(times, Q)
    OBVIOUS
  <2>1. ASSUME NEW i \in I, NEW x \in slots(Q)[i] PROVE x \in Slots(times, Q)
    <3>1. x \in {i} \X DOMAIN parts[i].times /\ parts[i].times[x[2]] \in Q /\ x[1] = i
      BY DEF Slots
    <3>2. x \in DOMAIN times
      BY <1>4, <3>1
    <3> HIDE DEF times
    <3> QED BY <1>5, <3>1, <3>2 DEF Slots
  <2>2. ASSUME NEW x \in Slots(times, Q) PROVE \E i \in I : x \in slots(Q)[i]
    <3>1. x \in DOMAIN times /\ times[x] \in Q
      BY DEF Slots
    <3> HIDE DEF times
    <3>2. PICK i \in I : x \in {i} \X DOMAIN parts[i].times
      BY <1>4, <3>1
    <3>3. x[1] = i /\ parts[i].times[x[2]] \in Q
      BY <1>5, <3>1, <3>2
    <3>4. x \in {i} \X Slots(parts[i].times, Q)
      BY <3>2, <3>3 DEF Slots
    <3> QED BY <3>4
  <2> HIDE DEF slots, times
  <2> QED BY <2>1, <2>2
<1>7. IsFiniteSet(DOMAIN times)
  <2>1. Slots(times, Nat) = DOMAIN times
    BY <1>5 DEF Slots
  <2>2. Nat \in SUBSET Nat
    OBVIOUS
  <2> HIDE DEF times, slots
  <2> QED BY <1>2, <1>6, <2>1, <2>2
<1> HIDE DEF times, slots, timed, count
<1>8. TimesOf(times, all)
  BY <1>2, <1>3, <1>5, <1>6, <1>7 DEF TimesOf
<1> QED BY <1>8 DEF times

(* Put together, the accounts of disjoint sets are an account of all.      *)
LEMMA TotalAccount ==
  ASSUME NEW I, IsFiniteSet(I), I # {}, NEW parts, DOMAIN parts = I, NEW S,
         \A i \in I : Account(parts[i], S[i]),
         \A i, j \in I : i # j => S[i] \cap S[j] = {},
         NEW all, all = UNION {S[i] : i \in I}
  PROVE  /\ Account(Total(parts), all)
         /\ Total(parts).median = Median(Total(parts).times)
<1> DEFINE row == Total(parts)
           appearances == [x \in I |-> parts[x].appearances]
           wins == [x \in I |-> parts[x].wins]
           recorded == [x \in I |-> parts[x].recorded]
           cost == [x \in I |-> parts[x].cost]
<1>1. /\ row.appearances = SumOf(appearances) /\ row.wins = SumOf(wins)
      /\ row.recorded = SumOf(recorded)
      /\ row.times = Merged(parts) /\ row.median = Median(Merged(parts))
      /\ Complete(row) => row.cost = AddValues(cost)
      /\ ~Complete(row) => row.cost = None
  BY TotalIs
<1> HIDE DEF row
<1>2. \A i \in I : /\ IsFiniteSet(S[i]) /\ Kept(S[i])
                   /\ IsFiniteSet(Won(S[i])) /\ IsFiniteSet(S[i] \ Silent(S[i]))
  <2>1. ASSUME NEW i \in I PROVE IsFiniteSet(S[i]) /\ Kept(S[i]) /\ IsFiniteSet(Won(S[i]))
                                 /\ IsFiniteSet(S[i] \ Silent(S[i]))
    <3>1. IsFiniteSet(S[i]) /\ Kept(S[i])
      BY DEF Account, Kept
    <3>2. Won(S[i]) \in SUBSET S[i] /\ S[i] \ Silent(S[i]) \in SUBSET S[i]
      BY DEF Won
    <3> QED BY <3>1, <3>2, FS_Subset
  <2> QED BY <2>1
<1>3. IsFiniteSet(all)
  <2>1. /\ \A i \in I : IsFiniteSet(S[i]) /\ appearances[i] = Cardinality(S[i])
        /\ \A i, j \in I : i # j => S[i] \cap S[j] = {}
        /\ all = UNION {S[i] : i \in I}
    BY <1>2 DEF Account
  <2> HIDE DEF appearances
  <2> QED BY ONLY IsFiniteSet(I), <2>1, CardParts
<1>4. Kept(all)
  <2>1. \A s \in all : \E i \in I : s \in S[i]
    OBVIOUS
  <2> QED BY <1>2, <1>3, <2>1 DEF Kept
<1>5. row.appearances = Cardinality(all)
  <2>1. /\ \A i \in I : IsFiniteSet(S[i]) /\ appearances[i] = Cardinality(S[i])
        /\ \A i, j \in I : i # j => S[i] \cap S[j] = {}
        /\ DOMAIN appearances = I
    BY <1>2 DEF Account
  <2>2. all = UNION {S[i] : i \in I}
    OBVIOUS
  <2> HIDE DEF appearances
  <2>3. SumOf(appearances) = Cardinality(all)
    BY ONLY IsFiniteSet(I), <2>1, <2>2, SumOfCards
  <2> QED BY <1>1, <2>3
<1>6. row.wins = Cardinality(Won(all))
  <2> DEFINE part == [i \in I |-> Won(S[i])]
  <2>1. /\ \A i \in I : IsFiniteSet(part[i]) /\ wins[i] = Cardinality(part[i])
        /\ \A i, j \in I : i # j => part[i] \cap part[j] = {}
        /\ DOMAIN wins = I
    BY <1>2 DEF Account, Won
  <2>2. Won(all) = UNION {part[i] : i \in I}
    BY DEF Won
  <2> HIDE DEF wins, part
  <2>3. SumOf(wins) = Cardinality(Won(all))
    BY ONLY IsFiniteSet(I), <2>1, <2>2, SumOfCards
  <2> QED BY <1>1, <2>3
<1>7. row.recorded = Cardinality(all \ Silent(all))
  <2> DEFINE part == [i \in I |-> S[i] \ Silent(S[i])]
  <2>1. /\ \A i \in I : IsFiniteSet(part[i]) /\ recorded[i] = Cardinality(part[i])
        /\ \A i, j \in I : i # j => part[i] \cap part[j] = {}
        /\ DOMAIN recorded = I
    BY <1>2 DEF Account
  <2>2. all \ Silent(all) = UNION {part[i] : i \in I}
    BY DEF Silent
  <2> HIDE DEF recorded, part
  <2>3. SumOf(recorded) = Cardinality(all \ Silent(all))
    BY ONLY IsFiniteSet(I), <2>1, <2>2, SumOfCards
  <2> QED BY <1>1, <2>3
<1>8. TimesOf(row.times, all)
  <2>1. /\ \A i \in I : IsFiniteSet(S[i]) /\ TimesOf(parts[i].times, S[i])
        /\ \A i, j \in I : i # j => S[i] \cap S[j] = {}
        /\ DOMAIN parts = I /\ all = UNION {S[i] : i \in I}
    BY <1>2 DEF Account
  <2>2. TimesOf(Merged(parts), all)
    BY ONLY IsFiniteSet(I), <2>1, MergedTimes
  <2> QED BY <1>1, <2>2
<1>9. Complete(row) <=> Silent(all) = {}
  BY <1>3, <1>5, <1>7, CompleteIs
<1>10. Silent(all) = {} => row.cost = SumIn(Spent(all), all)
  <2> SUFFICES ASSUME Silent(all) = {} PROVE row.cost = SumIn(Spent(all), all)
    OBVIOUS
  <2> DEFINE f == Spent(all)
             sums == [i \in I |-> SumIn(f, S[i])]
  <2>1. \A x \in all : f[x] \in Nat
    <3>1. \A x \in all : x.world.spent[x.seat] # None
      BY DEF Silent
    <3>2. \A x \in all : x.world.spent[x.seat] \in Nat \cup {None}
      BY <1>4, WorldFacts DEF Kept
    <3> QED BY <3>1, <3>2 DEF Spent
  <2> HIDE DEF f
  <2>2. /\ SumIn(f, UNION {S[i] : i \in I}) = SumIn(sums, I)
        /\ \A i \in I : SumIn(f, S[i]) \in Nat
    <3>1. /\ \A i \in I : S[i] \in SUBSET all
          /\ \A i, j \in I : i # j => S[i] \cap S[j] = {}
      OBVIOUS
    <3> QED BY ONLY IsFiniteSet(I), <1>3, <2>1, <3>1, SumParts
  <2>3. ASSUME NEW i \in I PROVE cost[i] = sums[i] /\ cost[i] \in Nat
    <3>1. Silent(S[i]) = {}
      BY DEF Silent
    <3>2. cost[i] = SumIn(Spent(S[i]), S[i])
      BY <3>1 DEF Account
    <3>3. \A x \in S[i] : Spent(S[i])[x] = f[x]
      BY DEF Spent, f
    <3>4. SumIn(Spent(S[i]), S[i]) = SumIn(f, S[i])
      BY <1>2, <3>3, SumSame
    <3> QED BY <2>2, <3>2, <3>4
  <2>4. AddValues(cost) = SumOf(cost)
    <3> DEFINE known == {x \in DOMAIN cost : cost[x] # None}
    <3>1. known = I /\ DOMAIN cost = I
      BY <2>3, BenchmarkWorlds
    <3>2. cost = [x \in known |-> cost[x]] /\ known # {}
      BY <3>1
    <3> HIDE DEF cost
    <3> QED BY <3>2 DEF AddValues
  <2>5. SumOf(cost) = SumIn(cost, I)
    <3>1. DOMAIN cost = I
      OBVIOUS
    <3> HIDE DEF cost
    <3> QED BY <3>1, SumOfIs
  <2>6. SumIn(cost, I) = SumIn(sums, I)
    <3> HIDE DEF cost, sums
    <3> QED BY <2>3, SumSame
  <2> QED BY <1>1, <1>9, <2>2, <2>4, <2>5, <2>6 DEF f
<1> HIDE DEF cost, appearances, wins, recorded
<1> QED BY <1>1, <1>4, <1>5, <1>6, <1>7, <1>8, <1>9, <1>10 DEF Account, row

(* Numbers of one interval of n that have the same remainder are the same. *)
LEMMA SameRemainder ==
  ASSUME NEW n \in Nat \ {0}, NEW x \in Int, NEW y \in Int, x <= y, y < x + n, x % n = y % n
  PROVE  x = y
<1> DEFINE p == x \div n
           q == y \div n
           r == x % n
<1>1. p \in Int /\ q \in Int /\ r \in Int /\ x = n * p + r /\ y = n * q + r
  OBVIOUS
<1> HIDE DEF p, q, r
<1>2. n * q - n * p = y - x
  BY <1>1
<1>3. n * (q - p) = y - x /\ q - p \in Int
  BY <1>1, <1>2
<1>4. q - p = 0
  <2> DEFINE d == q - p
  <2>1. d \in Int /\ 0 <= n * d /\ n * d < n
    BY <1>3
  <2> HIDE DEF d
  <2>2. ~(d >= 1)
    <3>1. ASSUME d >= 1 PROVE n * d >= n
      BY <2>1, <3>1
    <3> QED BY <2>1, <3>1
  <2>3. ~(d <= -1)
    <3>1. ASSUME d <= -1 PROVE n * d < 0
      BY <2>1, <3>1
    <3> QED BY <2>1, <3>1
  <2>4. d = 0
    BY <2>1, <2>2, <2>3
  <2> QED BY <2>4 DEF d
<1> QED BY <1>1, <1>4

(* Wherever the seats are rotated to, each has one agent.                  *)
LEMMA RotateOneToOne ==
  ASSUME NEW index \in Nat
  PROVE  /\ \A a, b \in Agents : RotateSeats(index)[a] = RotateSeats(index)[b] => a = b
         /\ \A seat \in Agents : \E a \in Agents : RotateSeats(index)[a] = seat
<1> DEFINE seats == RotateSeats(index)
<1>1. seats \in [Agents -> Agents]
  BY RotateType
<1>2. Seats \in Nat \ {0} /\ Agents = 1..Seats
  BY BenchmarkConstants DEF Agents
<1>3. ASSUME NEW a \in Agents, NEW b \in Agents, a <= b, seats[a] = seats[b] PROVE a = b
  <2> DEFINE x == a - 1 + index
             y == b - 1 + index
  <2>1. x \in Int /\ y \in Int /\ x <= y /\ y < x + Seats /\ y - x = b - a
    BY <1>2, <1>3
  <2>2. seats[a] = 1 + (x % Seats) /\ seats[b] = 1 + (y % Seats)
    BY DEF RotateSeats
  <2> DEFINE p == x % Seats
             q == y % Seats
  <2> HIDE DEF x, y, seats
  <2>3. p \in Int /\ q \in Int
    BY <1>2, <2>1
  <2>4. p = q
    <3> HIDE DEF p, q
    <3>1. 1 + p = 1 + q
      BY <1>3, <2>2 DEF p, q
    <3> QED BY <2>3, <3>1
  <2>5. x = y
    BY <1>2, <2>1, <2>4, SameRemainder
  <2> QED BY <1>2, <2>1, <2>5
<1> HIDE DEF seats
<1>4. ASSUME NEW a \in Agents, NEW b \in Agents, seats[a] = seats[b] PROVE a = b
  <2>1. a <= b \/ b <= a
    BY <1>2
  <2> QED BY <1>3, <1>4, <2>1
<1>5. seats \in Surjection(Agents, Agents)
  <2>1. seats \in Injection(Agents, Agents)
    BY <1>1, <1>4 DEF Injection, IsInjective
  <2>2. IsFiniteSet(Agents)
    BY <1>2, FS_Interval
  <2> QED BY <2>1, <2>2, FS_Injection
<1>6. \A seat \in Agents : \E a \in Agents : seats[a] = seat
  BY <1>5 DEF Surjection
<1> QED BY <1>4, <1>6 DEF seats

(* What agent a did in round k of arena i, and of an arena all that the    *)
(* agents of a configuration did.                                          *)
Sitting(i, a, k) ==
  [world |-> dirs[i][k].world, arena |-> i, round |-> k, seat |-> dirs[i][k].seats[a]]
Of(i, m) == {a \in Agents : suite.arenas[i].fleet[a] = m}
SitBy(i, a) == {Sitting(i, a, k) : k \in 1..Len(series[i])}
SitIn(i, m) == UNION {SitBy(i, a) : a \in Of(i, m)}

LEMMA RoundSays ==
  ASSUME Inv, Counted, NEW i \in Arenas, NEW k \in 1..Len(series[i]), NEW a \in Agents
  PROVE  /\ dirs[i][k].world \in Worlds /\ series[i][k].seats = dirs[i][k].seats
         /\ dirs[i][k].seats[a] \in Agents
         /\ \A b \in Agents : dirs[i][k].seats[a] = dirs[i][k].seats[b] => a = b
         /\ series[i][k].winner = a <=> dirs[i][k].world.winner = dirs[i][k].seats[a]
         /\ a \in series[i][k].usage <=> dirs[i][k].world.spent[dirs[i][k].seats[a]] # None
<1> DEFINE seats == dirs[i][k].seats
           world == dirs[i][k].world
<1>1. world \in Worlds /\ series[i][k] = RoundSummary(seats, world)
  BY DEF Counted, RoundCounted
<1>2. k - 1 \in Nat /\ seats = RotateSeats(k - 1)
  <2>1. Len(series[i]) \in Nat /\ Len(dirs[i]) \in Nat /\ Len(series[i]) <= Len(dirs[i])
    BY ArenaTypes DEF Inv, RoundsOK, ArenaOK
  <2>2. k \in 1..Len(dirs[i]) /\ k - 1 \in Nat
    BY <2>1
  <2> QED BY <2>2 DEF Inv, RoundsOK, ArenaOK
<1>3. seats[a] \in Agents
  BY <1>2, RotateType
<1> HIDE DEF seats, world
<1>4. /\ \A b, c \in Agents : seats[b] = seats[c] => b = c
      /\ \A w \in Agents : \E b \in Agents : seats[b] = w
  <2> DEFINE index == k - 1
  <2>1. index \in Nat /\ seats = RotateSeats(index)
    BY <1>2
  <2> HIDE DEF index
  <2>2. /\ \A b, c \in Agents : RotateSeats(index)[b] = RotateSeats(index)[c] => b = c
        /\ \A w \in Agents : \E b \in Agents : RotateSeats(index)[b] = w
    BY ONLY <2>1, RotateOneToOne
  <2> QED BY ONLY <2>1, <2>2
<1>5. series[i][k].seats = seats /\ series[i][k].usage = UsageAgents(seats, world)
  BY <1>1 DEF RoundSummary
<1>6. a \in series[i][k].usage <=> world.spent[seats[a]] # None
  BY <1>5 DEF UsageAgents
<1>7. series[i][k].winner = a <=> world.winner = seats[a]
  <2>1. Agents \in SUBSET Nat /\ None \notin Nat
    BY BenchmarkConstants, BenchmarkWorlds DEF Agents
  <2>2. CASE world.winner = None
    <3>1. series[i][k].winner = None
      BY <1>1, <2>2 DEF RoundSummary
    <3> QED BY <1>3, <2>1, <2>2, <3>1
  <2>3. CASE world.winner # None
    <3>1. world.winner \in Agents
      BY <1>1, <2>3, BenchmarkWorlds
    <3>2. PICK b \in Agents : seats[b] = world.winner
      BY <1>4, <3>1
    <3>3. series[i][k].winner = CHOOSE c \in Agents : seats[c] = world.winner
      BY <1>1, <2>3 DEF RoundSummary
    <3>4. series[i][k].winner \in Agents /\ seats[series[i][k].winner] = world.winner
      BY <3>2, <3>3
    <3> QED BY <1>4, <3>4
  <2> QED BY <2>2, <2>3
<1> QED BY <1>1, <1>3, <1>4, <1>5, <1>6, <1>7 DEF seats, world

LEMMA AgentAccount ==
  ASSUME Inv, Counted, NEW i \in Arenas, NEW a \in Agents
  PROVE  /\ Account(SeriesStanding(a, series[i], Evidence(i)), SitBy(i, a))
         /\ Cardinality(SitBy(i, a)) = Len(series[i])
<1> DEFINE n == Len(series[i])
           rounds == series[i]
           worlds == Evidence(i)
           sit == [k \in 1..n |-> Sitting(i, a, k)]
<1>1. n \in Nat /\ DOMAIN rounds = 1..n
  BY ArenaTypes DEF Inv
<1>2. Len(worlds) = n /\ \A k \in 1..n : worlds[k] = dirs[i][k].world
  BY <1>1 DEF Evidence
<1>3. \A k, l \in 1..n : sit[k] = sit[l] => k = l
  BY DEF Sitting
<1>4. ASSUME NEW k \in 1..n
      PROVE  /\ sit[k].world = worlds[k] /\ worlds[k] \in Worlds
             /\ sit[k].seat = rounds[k].seats[a] /\ rounds[k].seats[a] \in Agents
             /\ rounds[k].winner = a <=> worlds[k].winner = rounds[k].seats[a]
             /\ a \in rounds[k].usage <=> worlds[k].spent[rounds[k].seats[a]] # None
  <2>1. sit[k].world = dirs[i][k].world /\ sit[k].seat = dirs[i][k].seats[a]
    BY DEF Sitting
  <2>2. /\ dirs[i][k].world \in Worlds /\ rounds[k].seats = dirs[i][k].seats
        /\ dirs[i][k].seats[a] \in Agents
        /\ rounds[k].winner = a <=> dirs[i][k].world.winner = dirs[i][k].seats[a]
        /\ a \in rounds[k].usage <=> dirs[i][k].world.spent[dirs[i][k].seats[a]] # None
    BY RoundSays
  <2>3. worlds[k] = dirs[i][k].world
    BY <1>2
  <2> HIDE DEF sit, rounds, worlds
  <2> QED BY <2>1, <2>2, <2>3
<1>5. SitBy(i, a) = {sit[k] : k \in 1..n}
  BY DEF SitBy
<1>6. IsFiniteSet(1..n) /\ Cardinality(1..n) = n
  BY <1>1, FS_Interval
<1> HIDE DEF n, rounds, worlds, sit
<1>7. Account(SeriesStanding(a, rounds, worlds), SitBy(i, a))
  <2>1. SatIn(a, n, rounds, worlds, sit, SitBy(i, a))
    BY <1>1, <1>2, <1>3, <1>4, <1>5 DEF SatIn
  <2> QED BY <2>1, StandingAccount
<1>8. Cardinality(SitBy(i, a)) = n
  <2> DEFINE K == 1..n
  <2>1. (\A k, l \in K : sit[k] = sit[l] => k = l) /\ K \in SUBSET K
        /\ SitBy(i, a) = {sit[k] : k \in K} /\ IsFiniteSet(K) /\ Cardinality(K) = n
    BY <1>3, <1>5, <1>6
  <2> HIDE DEF K
  <2>2. Cardinality(SitBy(i, a)) = Cardinality(K)
    BY ONLY <2>1, ImageCard
  <2> QED BY <2>1, <2>2
<1> QED BY <1>7, <1>8 DEF n, rounds, worlds

(* In a valid suite a configuration has as many agents in every arena.     *)
LEMMA SameFleet ==
  ASSUME Inv, suite \in ValidSuites, NEW i \in Arenas, NEW m \in Range(suite.arenas[1].fleet)
  PROVE  /\ m \in Range(suite.arenas[i].fleet)
         /\ Cardinality(Of(i, m)) = FleetIdentity(suite.arenas[1].fleet)[m]
         /\ IsFiniteSet(Of(i, m)) /\ Of(i, m) # {} /\ Cardinality(Of(i, m)) \in Nat
<1> DEFINE fleet(j) == suite.arenas[j].fleet
<1>1. i \in 1..Len(suite.arenas) /\ Len(suite.arenas) \in Nat /\ 1 \in Arenas
  <2>1. Arenas = 1..Len(suite.arenas) /\ Len(suite.arenas) \in Nat
    BY SuiteFacts DEF Inv, TypeOK
  <2> QED BY <2>1
<1>2. suite \in Range(Suites) /\ suite.arenas[i] \in Range(suite.arenas)
  BY DEF ValidSuites, Range, Arenas
<1>3. DOMAIN fleet(i) = Agents
  BY <1>2, BenchmarkConstants
<1>4. FleetIdentity(fleet(i)) = FleetIdentity(fleet(1))
  BY <1>1 DEF ValidSuites, Arenas
<1>5. Range(fleet(i)) = Range(fleet(1))
  <2>1. \A j : DOMAIN FleetIdentity(fleet(j)) = Range(fleet(j))
    BY DEF FleetIdentity
  <2> QED BY <1>4, <2>1
<1>6. Cardinality(Of(i, m)) = FleetIdentity(fleet(i))[m]
  BY <1>3, <1>5 DEF FleetIdentity, Of
<1>7. IsFiniteSet(Agents)
  BY BenchmarkConstants, FS_Interval DEF Agents
<1>8. Of(i, m) \in SUBSET Agents
  BY DEF Of
<1>9. Of(i, m) # {}
  BY <1>3, <1>5 DEF Range, Of
<1> QED BY <1>4, <1>5, <1>6, <1>7, <1>8, <1>9, FS_Subset, FS_CardinalityType

(* A row of an arena is the account of a configuration's sittings in it.   *)
LEMMA ArenaAccount ==
  ASSUME Inv, Counted, bench.arenas # <<>>, NEW i \in 1..Done,
         NEW m \in Range(suite.arenas[1].fleet)
  PROVE  /\ m \in DOMAIN bench.arenas[i].standings
         /\ Account(bench.arenas[i].standings[m], SitIn(i, m))
         /\ IsFiniteSet(SitIn(i, m))
         /\ Cardinality(SitIn(i, m))
              = FleetIdentity(suite.arenas[1].fleet)[m] * bench.arenas[i].completed
         /\ bench.arenas[i].completed = Len(series[i]) /\ Len(series[i]) \in Nat
<1>1. i \in Arenas /\ suite \in ValidSuites
  BY SuiteFacts DEF Inv, TypeOK, IsSeq, Done, Counted
<1>2. /\ m \in Range(suite.arenas[i].fleet)
      /\ Cardinality(Of(i, m)) = FleetIdentity(suite.arenas[1].fleet)[m]
      /\ IsFiniteSet(Of(i, m)) /\ Of(i, m) # {} /\ Cardinality(Of(i, m)) \in Nat
  BY <1>1, SameFleet
<1> DEFINE I == Of(i, m)
           parts == [a \in I |-> SeriesStanding(a, series[i], Evidence(i))]
           S == [a \in I |-> SitBy(i, a)]
           n == Len(series[i])
           count == [a \in I |-> IF a \in I THEN n ELSE 0]
<1>3. bench.arenas[i] = Summary(i)
  BY DEF Counted
<1>4. /\ m \in DOMAIN bench.arenas[i].standings /\ bench.arenas[i].completed = n
      /\ bench.arenas[i].standings[m] = Total(parts)
  BY <1>2, <1>3 DEF Summary, SummarizeArena, Of
<1>5. n \in Nat
  BY <1>1, ArenaTypes DEF Inv
<1>6. \A a \in I : Account(parts[a], S[a]) /\ Cardinality(S[a]) = n
  BY <1>1, AgentAccount DEF Of
<1>7. \A a, b \in I : a # b => S[a] \cap S[b] = {}
  <2> SUFFICES ASSUME NEW a \in I, NEW b \in I, NEW s \in S[a] \cap S[b] PROVE a = b
    OBVIOUS
  <2>1. PICK k \in 1..n : s = Sitting(i, a, k)
    BY DEF SitBy
  <2>2. PICK l \in 1..n : s = Sitting(i, b, l)
    BY DEF SitBy
  <2>3. k = l /\ dirs[i][k].seats[a] = dirs[i][l].seats[b]
    BY <2>1, <2>2 DEF Sitting
  <2>4. a \in Agents /\ b \in Agents
    BY DEF Of
  <2>5. \A c \in Agents : dirs[i][k].seats[a] = dirs[i][k].seats[c] => a = c
    BY <1>1, <2>4, RoundSays
  <2> QED BY <2>3, <2>4, <2>5
<1>8. SitIn(i, m) = UNION {S[a] : a \in I}
  BY DEF SitIn
<1> HIDE DEF I, S, parts
<1>9. DOMAIN parts = I
  BY DEF parts
<1>10. Account(Total(parts), SitIn(i, m))
  <2>1. IsFiniteSet(I) /\ I # {}
    BY <1>2 DEF I
  <2> QED BY ONLY <2>1, <1>6, <1>7, <1>8, <1>9, TotalAccount
<1>11. \A a \in I : IsFiniteSet(S[a]) /\ count[a] = Cardinality(S[a])
  BY <1>6 DEF Account, Kept
<1>12. IsFiniteSet(I)
  BY <1>2 DEF I
<1>13. IsFiniteSet(SitIn(i, m)) /\ Cardinality(SitIn(i, m)) = SumIn(count, I)
  <2> HIDE DEF count
  <2> QED BY ONLY <1>7, <1>8, <1>11, <1>12, CardParts
<1>14. SumIn(count, I) = n * Cardinality(I)
  <2>1. I \in SUBSET I
    OBVIOUS
  <2> HIDE DEF n
  <2> QED BY <1>5, <1>12, <2>1, SumShare
<1>15. n * Cardinality(I) = Cardinality(I) * n /\ Cardinality(I) = FleetIdentity(suite.arenas[1].fleet)[m]
  <2> DEFINE c == Cardinality(I)
  <2>1. c \in Nat /\ c = FleetIdentity(suite.arenas[1].fleet)[m]
    BY <1>2 DEF I
  <2> HIDE DEF c, n
  <2>2. n * c = c * n
    BY <1>5, <2>1
  <2> QED BY <2>1, <2>2 DEF c, n
<1> QED BY <1>4, <1>5, <1>10, <1>13, <1>14, <1>15

(* A row of the leaderboard is the account of all sittings of a model.     *)
LEMMA RowAccount ==
  ASSUME Inv, Counted, bench.arenas # <<>>, NEW m \in Range(suite.arenas[1].fleet)
  PROVE  LET row == Standings(bench.arenas)[m]
             counted == SumOf([i \in DOMAIN bench.arenas |-> bench.arenas[i].completed])
         IN /\ Account(row, Sittings(m)) /\ row.median = Median(row.times)
            /\ row.appearances = counted * FleetIdentity(suite.arenas[1].fleet)[m]
<1> DEFINE I == 1..Done
           parts == [i \in I |-> bench.arenas[i].standings[m]]
           S == [i \in I |-> SitIn(i, m)]
           rounds == [i \in I |-> bench.arenas[i].completed]
           c == FleetIdentity(suite.arenas[1].fleet)[m]
           count == [i \in I |-> c * rounds[i]]
           row == Standings(bench.arenas)[m]
<1>1. Done \in Nat /\ DOMAIN bench.arenas = I /\ I # {} /\ IsFiniteSet(I) /\ I \in SUBSET Arenas
  <2>1. Done \in Nat /\ DOMAIN bench.arenas = 1..Done /\ bench.arenas = [k \in 1..Done |-> bench.arenas[k]]
    BY DEF Inv, TypeOK, IsSeq, Done
  <2>2. Done # 0
    <3>1. ASSUME Done = 0 PROVE bench.arenas = <<>>
      BY <2>1, <3>1
    <3> QED BY <3>1
  <2>3. 1 \in 1..Done /\ IsFiniteSet(1..Done)
    BY <2>1, <2>2, FS_Interval
  <2>4. I \in SUBSET Arenas
    BY SuiteFacts DEF Inv, TypeOK, Done
  <2> QED BY <2>1, <2>3, <2>4
<1>2. \A i \in I : /\ m \in DOMAIN bench.arenas[i].standings
                   /\ Account(parts[i], S[i]) /\ IsFiniteSet(S[i])
                   /\ Cardinality(S[i]) = c * rounds[i]
                   /\ rounds[i] = Len(series[i]) /\ rounds[i] \in Nat
  BY ArenaAccount
<1>3. \A i, j \in I : i # j => S[i] \cap S[j] = {}
  BY DEF SitIn, SitBy, Sitting
<1>4. Sittings(m) = UNION {S[i] : i \in I}
  <2>1. \A i \in I : DOMAIN dirs[i] = 1..Len(series[i])
    BY <1>1, ArenaTypes DEF Inv, RoundsOK, ArenaOK, BenchOK
  <2>2. \A i \in I : SitIn(i, m)
          = {[world |-> dirs[i][k].world, arena |-> i, round |-> k, seat |-> dirs[i][k].seats[a]]
               : k \in DOMAIN dirs[i], a \in {a \in Agents : suite.arenas[i].fleet[a] = m}}
    BY <2>1 DEF SitIn, SitBy, Sitting, Of
  <2> QED BY <1>1, <2>2 DEF Sittings
<1>5. row = Total(parts)
  <2>1. m \in UNION {DOMAIN bench.arenas[i].standings : i \in DOMAIN bench.arenas}
    BY <1>1, <1>2
  <2>2. {i \in DOMAIN bench.arenas : m \in DOMAIN bench.arenas[i].standings} = I
    BY <1>1, <1>2
  <2> HIDE DEF I
  <2> QED BY <2>1, <2>2 DEF Standings
<1>6. DOMAIN parts = I
  OBVIOUS
<1>7. \A i \in I : Account(parts[i], S[i])
  BY <1>2
<1> HIDE DEF parts, S, I
<1>8. Account(Total(parts), Sittings(m)) /\ Total(parts).median = Median(Total(parts).times)
  BY ONLY <1>1, <1>3, <1>4, <1>6, <1>7, TotalAccount
<1>9. c \in Nat
  <2>1. PICK i \in I : TRUE
    BY <1>1
  <2>2. i \in Arenas /\ suite \in ValidSuites
    BY <1>1, <2>1 DEF Counted
  <2> QED BY <2>2, SameFleet
<1> HIDE DEF c
<1>10. Cardinality(Sittings(m)) = SumIn(count, I)
  <2>1. \A i \in I : IsFiniteSet(S[i]) /\ count[i] = Cardinality(S[i])
    BY <1>2
  <2> HIDE DEF count, rounds
  <2> QED BY ONLY <1>1, <1>3, <1>4, <2>1, CardParts
<1>11. SumIn(count, I) = c * SumIn(rounds, I)
  <2>1. \A i \in I : rounds[i] \in Nat
    BY <1>2
  <2> HIDE DEF rounds
  <2> QED BY <1>1, <1>9, <2>1, SumScale
<1>12. SumOf(rounds) = SumIn(rounds, I) /\ SumIn(rounds, I) \in Nat
  <2>1. DOMAIN rounds = I /\ \A i \in I : rounds[i] \in Nat
    BY <1>2
  <2>2. I \in SUBSET I
    OBVIOUS
  <2> HIDE DEF rounds
  <2> QED BY <1>1, <2>1, <2>2, SumOfIs, SumAdd
<1>13. row.appearances = SumOf(rounds) * c
  <2> DEFINE all == SumIn(rounds, I)
  <2>1. row.appearances = c * all /\ all \in Nat /\ SumOf(rounds) = all
    BY <1>5, <1>8, <1>10, <1>11, <1>12 DEF Account
  <2> HIDE DEF all, row, rounds
  <2>2. c * all = all * c
    BY <1>9, <2>1
  <2> QED BY <2>1, <2>2
<1>14. rounds = [i \in DOMAIN bench.arenas |-> bench.arenas[i].completed]
  BY <1>1
<1> HIDE DEF rounds
<1> QED BY <1>5, <1>8, <1>13, <1>14 DEF c

(* What is published is what the directories kept: appearances, wins, the  *)
(* times and the cost are those of the rounds played, and the same number  *)
(* of rounds is counted of every agent of a model.                         *)
THEOREM LeaderboardMatchesEvidenceHolds == Spec => []LeaderboardMatchesEvidence
<1>1. Inv /\ Counted => LeaderboardMatchesEvidence
  <2> SUFFICES ASSUME Inv, Counted, bench.arenas # <<>>, NEW m \in Range(suite.arenas[1].fleet)
      PROVE
        LET published == Standings(bench.arenas)
            counted == SumOf([i \in DOMAIN bench.arenas |-> bench.arenas[i].completed])
            row == published[m]
            sat == Sittings(m)
            Time(s) == s.world.durable[s.seat]
            durable == {s \in sat : Time(s) # None}
            Quicker(t) == Cardinality({s \in durable : Time(s) < t})
            Slower(t) == Cardinality({s \in durable : Time(s) > t})
            silent == \E s \in sat : s.world.spent[s.seat] = None
        IN /\ row.appearances = Cardinality(sat)
           /\ row.appearances = counted * FleetIdentity(suite.arenas[1].fleet)[m]
           /\ row.wins = Cardinality({s \in sat : s.world.winner = s.seat})
           /\ \A t \in Range(row.times) \cup {Time(s) : s \in durable} :
                Cardinality({x \in DOMAIN row.times : row.times[x] = t})
                  = Cardinality({s \in durable : Time(s) = t})
           /\ IF durable = {} THEN row.median = None
              ELSE /\ 2 * Quicker(row.median) <= Cardinality(durable)
                   /\ 2 * Slower(row.median) < Cardinality(durable)
           /\ row.cost = IF silent THEN None
                         ELSE SumOf([s \in sat |-> s.world.spent[s.seat]])
    BY DEF LeaderboardMatchesEvidence
  <2> DEFINE row == Standings(bench.arenas)[m]
             counted == SumOf([i \in DOMAIN bench.arenas |-> bench.arenas[i].completed])
             sat == Sittings(m)
             Time(s) == s.world.durable[s.seat]
             durable == {s \in sat : Time(s) # None}
             times == row.times
             median == row.median
  <2>1. /\ Account(row, sat) /\ median = Median(times)
        /\ row.appearances = counted * FleetIdentity(suite.arenas[1].fleet)[m]
    BY RowAccount
  <2> HIDE DEF row, sat
  <2>2. \A s \in sat : Time(s) \in Nat \cup {None}
    BY <2>1, WorldFacts DEF Account, Kept
  <2>3. None \notin Nat
    BY BenchmarkWorlds
  <2>4. \A x \in DOMAIN times : times[x] \in Nat
    BY <2>1 DEF Account, TimesOf
  <2>5. IsFiniteSet(DOMAIN times)
    BY <2>1 DEF Account, TimesOf
  <2>6. \A Q \in SUBSET Nat :
          Cardinality({x \in DOMAIN times : times[x] \in Q})
            = Cardinality({s \in durable : Time(s) \in Q})
    <3> SUFFICES ASSUME NEW Q \in SUBSET Nat
                 PROVE  Cardinality({x \in DOMAIN times : times[x] \in Q})
                          = Cardinality({s \in durable : Time(s) \in Q})
      OBVIOUS
    <3>1. Timed(sat, Q) = {s \in durable : Time(s) \in Q}
      BY <2>3 DEF Timed
    <3>2. Slots(times, Q) = {x \in DOMAIN times : times[x] \in Q}
      BY DEF Slots
    <3>3. Cardinality(Slots(times, Q)) = Cardinality(Timed(sat, Q))
      BY <2>1 DEF Account, TimesOf
    <3> QED BY <3>1, <3>2, <3>3
  <2>7. \A t \in Range(times) \cup {Time(s) : s \in durable} :
          Cardinality({x \in DOMAIN times : times[x] = t})
            = Cardinality({s \in durable : Time(s) = t})
    <3> SUFFICES ASSUME NEW t \in Range(times) \cup {Time(s) : s \in durable}
                 PROVE  Cardinality({x \in DOMAIN times : times[x] = t})
                          = Cardinality({s \in durable : Time(s) = t})
      OBVIOUS
    <3>1. t \in Nat
      BY <2>2, <2>4 DEF Range
    <3> HIDE DEF times, durable, Time
    <3>2. {x \in DOMAIN times : times[x] = t} = {x \in DOMAIN times : times[x] \in {t}}
      OBVIOUS
    <3>3. {s \in durable : Time(s) = t} = {s \in durable : Time(s) \in {t}}
      OBVIOUS
    <3>4. {t} \in SUBSET Nat
      BY <3>1
    <3> QED BY <2>6, <3>2, <3>3, <3>4
  <2>8. Cardinality(DOMAIN times) = Cardinality(durable)
    <3>1. {x \in DOMAIN times : times[x] \in Nat} = DOMAIN times
      BY <2>4
    <3>2. {s \in durable : Time(s) \in Nat} = durable
      BY <2>2
    <3> HIDE DEF times, durable, Time
    <3>3. Nat \in SUBSET Nat
      OBVIOUS
    <3> QED BY <2>6, <3>1, <3>2, <3>3
  <2>9. DOMAIN times = {} <=> durable = {}
    <3>1. IsFiniteSet(durable)
      <4>1. durable \in SUBSET sat /\ IsFiniteSet(sat)
        BY <2>1 DEF Account, Kept
      <4> HIDE DEF durable
      <4> QED BY <4>1, FS_Subset
    <3> HIDE DEF times, durable
    <3> QED BY <2>5, <2>8, <3>1, FS_EmptySet
  <2>10. durable = {} => median = None
    BY <2>1, <2>9 DEF Median
  <2>11. durable # {} =>
           /\ 2 * Cardinality({s \in durable : Time(s) < median}) <= Cardinality(durable)
           /\ 2 * Cardinality({s \in durable : Time(s) > median}) < Cardinality(durable)
    <3> SUFFICES ASSUME durable # {}
                 PROVE  /\ 2 * Cardinality({s \in durable : Time(s) < median}) <= Cardinality(durable)
                        /\ 2 * Cardinality({s \in durable : Time(s) > median}) < Cardinality(durable)
      OBVIOUS
    <3> DEFINE before == {u \in Nat : u < median}
               after == {u \in Nat : u > median}
    <3>1. {s \in durable : Time(s) < median} = {s \in durable : Time(s) \in before}
      BY <2>2
    <3>2. {s \in durable : Time(s) > median} = {s \in durable : Time(s) \in after}
      BY <2>2
    <3>3. {x \in DOMAIN times : times[x] < median} = {x \in DOMAIN times : times[x] \in before}
      BY <2>4
    <3>4. {x \in DOMAIN times : times[x] > median} = {x \in DOMAIN times : times[x] \in after}
      BY <2>4
    <3>5. before \in SUBSET Nat /\ after \in SUBSET Nat
      OBVIOUS
    <3>6. DOMAIN times # {}
      BY <2>9
    <3> HIDE DEF times, durable, Time, median, before, after
    <3>7. /\ 2 * Cardinality({x \in DOMAIN times : times[x] < median}) <= Cardinality(DOMAIN times)
          /\ 2 * Cardinality({x \in DOMAIN times : times[x] > median}) < Cardinality(DOMAIN times)
      BY <2>1, <2>4, <2>5, <3>6, MedianIs
    <3>8. /\ Cardinality({x \in DOMAIN times : times[x] < median})
               = Cardinality({s \in durable : Time(s) < median})
          /\ Cardinality({x \in DOMAIN times : times[x] > median})
               = Cardinality({s \in durable : Time(s) > median})
      BY <2>6, <3>1, <3>2, <3>3, <3>4, <3>5
    <3> QED BY <2>8, <3>7, <3>8
  <2>12. row.cost = IF \E s \in sat : s.world.spent[s.seat] = None THEN None
                    ELSE SumOf([s \in sat |-> s.world.spent[s.seat]])
    <3>1. CASE \E s \in sat : s.world.spent[s.seat] = None
      BY <2>1, <3>1 DEF Account, Silent
    <3>2. CASE ~\E s \in sat : s.world.spent[s.seat] = None
      <4>1. Silent(sat) = {}
        BY <3>2 DEF Silent
      <4>2. row.cost = SumIn(Spent(sat), sat) /\ IsFiniteSet(sat)
        BY <2>1, <4>1 DEF Account, Kept
      <4>3. SumOf(Spent(sat)) = SumIn(Spent(sat), sat)
        <5>1. DOMAIN Spent(sat) = sat
          BY DEF Spent
        <5> QED BY <4>2, <5>1, SumOfIs
      <4> QED BY <3>2, <4>2, <4>3 DEF Spent
    <3> QED BY <3>1, <3>2
  <2>13. row.appearances = Cardinality(sat) /\ row.wins = Cardinality({s \in sat : s.world.winner = s.seat})
    BY <2>1 DEF Account, Won
  <2> QED BY <2>1, <2>7, <2>10, <2>11, <2>12, <2>13 DEF row, sat
<1> QED BY <1>1, CountedHolds, PTL
=============================================================================
