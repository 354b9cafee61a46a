---------------------------- MODULE MCBenchmark ----------------------------
(* Three agents, two of one model, in an arena of three rounds and one of  *)
(* a single round that declares them in another order; the same with ports *)
(* for one round; and suites that load_plan refuses.                       *)
EXTENDS Benchmark

Arena(name, fleet, rounds) ==
  [manifest |-> name, id |-> name, mode |-> "build_race", fleet |-> fleet, rounds |-> rounds]

MCSuite ==
  [rounds |-> 3, ports |-> 18,
   arenas |-> <<Arena("one", <<"m", "m", "n">>, None), Arena("two", <<"n", "m", "m">>, 1)>>]

MCSuites ==
  <<MCSuite,
    [MCSuite EXCEPT !.ports = 8],
    [MCSuite EXCEPT !.rounds = 0],
    [MCSuite EXCEPT !.arenas = <<>>],
    [MCSuite EXCEPT !.arenas[1].rounds = 0],
    [MCSuite EXCEPT !.arenas[2].id = "one"],
    [MCSuite EXCEPT !.arenas[2].manifest = "one"],
    [MCSuite EXCEPT !.arenas[2].mode = "conquest"],
    [MCSuite EXCEPT !.arenas[2].fleet = <<"m", "n", "n">>]>>

(* An arena under fog, with another category, another brief, or another    *)
(* verifier.                                                               *)
Files(category, brief, verifier) ==
  [manifest |-> [id |-> "a", category |-> category, fog |-> TRUE, rest |-> "rules"],
   brief |-> brief, artifacts |-> <<>>, verifiers |-> <<verifier>>]

MCEditions == {"first", "recategorized", "rebriefed"}

MCFilesOf ==
  [e \in MCEditions |->
     CASE e = "first" -> Files("web", "brief", "verifier")
       [] e = "recategorized" -> Files("data", "brief", "verifier")
       [] e = "rebriefed" -> Files("web", "other", "verifier")]

World(winner, durable, spent) ==
  [aborted |-> FALSE, winner |-> winner, durable |-> durable, spent |-> spent]

MCWorlds ==
  {World(1, <<3, 5, None>>, <<1, 2, 4>>),
   World(2, <<2, 1, None>>, <<1, None, 4>>),
   [World(None, <<None, None, None>>, <<0, 0, None>>) EXCEPT !.aborted = TRUE]}
=============================================================================
