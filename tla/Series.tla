------------------------------- MODULE Series -------------------------------
(***************************************************************************)
(* How a series (controller/src/series.rs) and a benchmark (benchmark.rs)  *)
(* reckon: seats, the entry of a round, and the standings.  A world is the *)
(* final WorldState of a match with its log: whether it was aborted, the   *)
(* winning territory, and per territory when it was durable and what its   *)
(* agent reported to have spent (None: its log has no usage of it).        *)
(***************************************************************************)
EXTENDS Integers, Sequences, FiniteSets, FiniteSetsExt, SequencesExt, Functions

CONSTANTS
  Seats,      \* territories of every arena; agent a is declared on territory a
  None        \* Option::None

Agents == 1..Seats

(* Mutant: each round rotates the seats of the round before it further. *)
RotateFurther(index) ==
  [a \in Agents |-> 1 + ((a - 1 + (index * (index + 1)) \div 2) % Seats)]

(* rotate_seats: every agent, index territories further than declared.     *)
RotateSeats(index) == [a \in Agents |-> 1 + ((a - 1 + index) % Seats)]

(* read_usage_agents: who has usage in the round's log.                    *)
UsageAgents(seats, world) == {a \in Agents : world.spent[seats[a]] # None}

RoundSummary(seats, world) ==
  [seats |-> seats,
   usage |-> UsageAgents(seats, world),
   winner |-> IF world.winner = None THEN None
              ELSE CHOOSE a \in Agents : seats[a] = world.winner]

Known(value) == IF value = None THEN 0 ELSE value

SumOf(f) == MapThenSumSet(LAMBDA x : f[x], DOMAIN f)

(* median: the one in the middle of the times, the upper one of two. Times *)
(* are a family: which is the n-th of them does not depend on their order. *)
Median(times) ==
  LET middle == Cardinality(DOMAIN times) \div 2
      Earlier(t) == {x \in DOMAIN times : times[x] < t}
      Later(t) == {x \in DOMAIN times : times[x] > t}
  IN IF DOMAIN times = {} THEN None
     ELSE CHOOSE t \in Range(times) :
            /\ Cardinality(Earlier(t)) <= middle
            /\ middle < Cardinality(DOMAIN times \ Later(t))

(* Mutant: whoever reported once reported all. *)
CompleteWhenSeen(standing) == standing.recorded > 0

(* Usage is published when every appearance has some.                      *)
Complete(standing) == standing.recorded = standing.appearances

(* build_summary of a series: rounds recorded, and the worlds they left.   *)
SeriesStanding(a, rounds, worlds) ==
  LET At(k) == rounds[k].seats[a]
      played == DOMAIN rounds
      durable == {k \in played : worlds[k].durable[At(k)] # None}
      standing ==
        [appearances |-> Len(worlds),
         wins |-> Cardinality({k \in played : rounds[k].winner = a}),
         times |-> [k \in durable |-> worlds[k].durable[At(k)]],
         recorded |-> Cardinality({k \in played : a \in rounds[k].usage}),
         cost |-> SumOf([k \in played |-> Known(worlds[k].spent[At(k)])])]
  IN IF Complete(standing) THEN standing ELSE [standing EXCEPT !.cost = None]

(* add_value, over some values: what is known is added up.                 *)
AddValues(values) ==
  LET known == {x \in DOMAIN values : values[x] # None}
  IN IF known = {} THEN None ELSE SumOf([x \in known |-> values[x]])

(* finish_standing, of the sum of some standings: their durable times are  *)
(* put together, and the cost is dropped unless every appearance reported. *)
Total(parts) ==
  LET times == [slot \in UNION {{x} \X DOMAIN parts[x].times : x \in DOMAIN parts} |->
                  parts[slot[1]].times[slot[2]]]
      standing ==
        [appearances |-> SumOf([x \in DOMAIN parts |-> parts[x].appearances]),
         wins |-> SumOf([x \in DOMAIN parts |-> parts[x].wins]),
         times |-> times,
         median |-> Median(times),
         recorded |-> SumOf([x \in DOMAIN parts |-> parts[x].recorded]),
         cost |-> AddValues([x \in DOMAIN parts |-> parts[x].cost])]
  IN IF Complete(standing) THEN standing ELSE [standing EXCEPT !.cost = None]

(* summarize_arena: the agents of one configuration (a model, its adapter  *)
(* and its reasoning effort) together; fleet[a] is the one of agent a.     *)
SummarizeArena(fleet, requested, rounds, worlds) ==
  [requested |-> requested,
   completed |-> Len(rounds),
   aborted |-> \E k \in DOMAIN worlds : worlds[k].aborted,
   standings |->
     [m \in Range(fleet) |->
        Total([a \in {a \in Agents : fleet[a] = m} |-> SeriesStanding(a, rounds, worlds)])]]

(* build_summary of a benchmark: the arenas of one configuration together. *)
Standings(arenas) ==
  [m \in UNION {DOMAIN arenas[i].standings : i \in DOMAIN arenas} |->
     Total([i \in {i \in DOMAIN arenas : m \in DOMAIN arenas[i].standings} |->
              arenas[i].standings[m]])]

(* Mutant: an abort in the last round is not noticed. *)
StopsShort(arena) == arena.completed < arena.requested

(* What ends a benchmark before its last arena.                            *)
Stops(arena) == arena.aborted \/ arena.completed < arena.requested
=============================================================================
