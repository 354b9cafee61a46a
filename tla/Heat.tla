-------------------------------- MODULE Heat --------------------------------
(***************************************************************************)
(* How a season reads one heat (controller/src/season.rs): the outcome of  *)
(* each seat from the match's final world, the winner, whether the heat is *)
(* played again, and the order of the wildcards.  A world is one view per  *)
(* territory and whether the match was aborted; standings map a fleet id   *)
(* to what its seat did.                                                   *)
(***************************************************************************)
EXTENDS Integers, Sequences, FiniteSetsExt, SequencesExt, Option, Order

(* heat_result's classification of a seat. *)
Outcome(view) ==
  CASE view.durable # None -> "durable"
    [] view.durable = None /\ view.source \in {"provider", "harness"} -> "forfeit"
    [] view.durable = None
         /\ <<view.source, view.terminal>> \in
              {<<"arena", "interrupted">>, <<"player", "incomplete">>,
               <<"player", "completed">>} -> "incomplete"
    [] OTHER -> "failed"

Standings(seats, world) ==
  [id \in Range(seats) |->
     LET view == world.views[CHOOSE t \in DOMAIN seats : seats[t] = id]
     IN [outcome |-> Outcome(view), points |-> view.points, durable |-> view.durable]]

DurableSeats(standings) ==
  {id \in DOMAIN standings : standings[id].outcome = "durable"}

(* decide_winner: the earliest durable seat, when no other is as early.    *)
DecideWinner(standings) ==
  LET first == {id \in DurableSeats(standings) :
                  \A other \in DurableSeats(standings) :
                    standings[id].durable <= standings[other].durable}
  IN IF \E id \in first : first = {id} THEN CHOOSE id \in first : TRUE ELSE None

(* state.winner: the territory BuildReferee names when the match ends (its *)
(* sort in BuildReferee.tla): the earliest durable one, else the one alone *)
(* in the lead at the deadline.                                            *)
Ahead(v, w) ==
  \/ v.durable # None /\ w.durable = None
  \/ v.durable # None /\ w.durable # None /\ v.durable < w.durable
  \/ v.durable = w.durable /\ v.points > w.points

RefereeWinner(world) ==
  LET ahead == {t \in DOMAIN world.views :
                  \A u \in DOMAIN world.views \ {t} : Ahead(world.views[t], world.views[u])}
  IN IF world.aborted \/ ahead = {} THEN None ELSE CHOOSE t \in ahead : TRUE

Unavailable(standings) == \E id \in DOMAIN standings : standings[id].outcome = "forfeit"

IsSportingDraw(standings) ==
  ~Unavailable(standings) /\ DecideWinner(standings) = None

(* What an attempt counts as when it has become a prior one.               *)
Kind(standings) ==
  IF Unavailable(standings) THEN "unavailable"
  ELSE IF IsSportingDraw(standings) THEN "draw" ELSE "decided"

Count(kinds, kind) == Cardinality({i \in DOMAIN kinds : kinds[i] = kind})

(* Mutant: attempts of any kind use up an allowance. *)
NeedsReplayShared(result, rules) ==
  LET kind == Kind(result.standings)
  IN /\ ~result.aborted /\ kind # "decided"
     /\ 1 + Count(result.prior, kind) <= rules.unavailable + rules.draw

NeedsReplay(result, rules) ==
  LET kind == Kind(result.standings)
  IN /\ ~result.aborted
     /\ \/ kind = "unavailable" /\ 1 + Count(result.prior, kind) <= rules.unavailable
        \/ kind = "draw" /\ 1 + Count(result.prior, kind) <= rules.draw

(* When unavailable replays are exhausted the forfeit stands, and the heat *)
(* is decided among the durable seats.                                     *)
SettleForfeit(result, rules) ==
  IF Unavailable(result.standings) /\ ~result.aborted /\ ~NeedsReplay(result, rules)
  THEN [result EXCEPT !.winner = DecideWinner(result.standings)]
  ELSE result

(* heat_result of attempt number Len(prior) + 1.                           *)
HeatResult(seats, prior, world) ==
  LET standings == Standings(seats, world)
      named == RefereeWinner(world)
  IN [seats |-> seats, prior |-> prior, standings |-> standings,
      winner |-> IF named # None THEN seats[named] ELSE DecideWinner(standings),
      aborted |-> world.aborted]

Attempts(result) == Len(result.prior) + 1

(* The results of a heat between the given ids. *)
Outcomes == {"durable", "forfeit", "incomplete", "failed"}
Kinds == {"unavailable", "draw", "decided"}

Results(ids) ==
  [seats : Seq(ids), prior : Seq(Kinds),
   standings : [ids -> [outcome : Outcomes, points : Nat, durable : Nat \cup {None}]],
   winner : ids \cup {None}, aborted : BOOLEAN]

DurableHeatWinner(heat) ==
  IF heat.winner # None /\ heat.winner \in DurableSeats(heat.standings)
  THEN heat.winner ELSE None

(* rank_wildcards: points, then durable time, then the lottery, a shuffle  *)
(* of the ids of its own, given as each id's place in it.                  *)
Before(a, b, standings, lottery) ==
  LET x == standings[a]
      y == standings[b]
      sameTime == x.durable = y.durable
  IN \/ x.points > y.points
     \/ x.points = y.points /\ x.durable # None
          /\ (y.durable = None \/ x.durable < y.durable)
     \/ x.points = y.points /\ sameTime /\ lottery[a] < lottery[b]

RankWildcards(candidates, standings, lottery) ==
  InOrder(candidates,
          {pair \in candidates \X candidates : Before(pair[1], pair[2], standings, lottery)})
=============================================================================
