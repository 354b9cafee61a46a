------------------------------- MODULE Season -------------------------------
(***************************************************************************)
(* A week of a season (draw_week and run_week, controller/src/season.rs):  *)
(* the published draw, the bracket of heats run one after the other, and   *)
(* the files a stopped process resumes from.  draw, seed, week, journal    *)
(* and artifacts are on disk, each replaced atomically; pc, round, drawn,  *)
(* rng and error belong to the process, which Crash ends between any two   *)
(* writes.  A match is one step: what a world may be is a constant.  A     *)
(* missing week.json is read as a week without rounds (load_checkpoint),   *)
(* so week is one until the first heat is recorded.                        *)
(***************************************************************************)
EXTENDS Bracket, Heat, ModelPool

CONSTANTS
  Plans,        \* a sequence of season files, each with the options of
                \*   its draw and its run:
                \*   entrants (None: all), unavailable and draw (replays
                \*   allowed), ports (from the base port to the last one)
  Worlds(_)     \* Worlds(n): final worlds of a match of n territories

ASSUME SeasonConstants ==
  \A p \in Range(Plans) :
    /\ {p.unavailable, p.draw, p.ports} \cup ({p.entrants} \ {None}) \subseteq Nat
    /\ p.arenas \in Seq(Nat)
    /\ FleetOf(p) \in Seq(Range(FleetOf(p)))

(* Ids are told apart and sorted, and so are the numbers of a result; None *)
(* is none of them.                                                        *)
Ids(p) == {entry.id : entry \in Range(FleetOf(p))}

ASSUME SeasonIds ==
  /\ None \notin Nat
  /\ \A p \in Range(Plans) :
       /\ Ids(p) \subseteq Nat
       /\ p.pool # None =>
            LET models == p.pool.registry.models
            IN models \in Seq(Range(models)) /\ \A model \in Range(models) : model.id \in Nat

(* A match ends with a view of each territory.                             *)
ASSUME WorldsAreFinal ==
  \A p \in Range(Plans) : p.arenas # <<>> =>
    \A world \in Worlds(p.arenas[1]) :
      /\ DOMAIN world.views = 1..p.arenas[1]
      /\ world.aborted \in BOOLEAN
      /\ \A view \in Range(world.views) :
           view.points \in Nat /\ view.durable \in Nat \cup {None}

ASSUME NoneIsNoResult ==
  \A p \in Range(Plans) : \A ids \in SUBSET Ids(p) : None \notin Results(ids)

VARIABLES
  file,       \* which of the Plans is the season's manifest
  seed,       \* seed.secret, or None
  draw,       \* draw.json, or None: the committed seed, the fleet, the bracket, round one
  week,       \* week.json, or what a missing one is read as
  journal,    \* journal[r][h]: heat-NN.attempts.json, or None
  artifacts,  \* artifacts[r][h]: for each attempt's directory, "running" or "whole"
  pc,         \* where run_week or draw_week is; "off" when no process runs
  round,      \* the round run_week is in
  drawn,      \* its RoundDraw: heats as functions from territory to id, byes
  rng,        \* position of run_week's DrawRng
  error       \* the SeasonError of the last run, or "none"

disk == <<file, seed, draw, week, journal, artifacts>>
process == <<pc, round, drawn, rng, error>>
vars == <<disk, process>>

plan == Plans[file]
Fleet == Range(draw.fleet)
LastRound == Len(draw.shape)
Rules == [unavailable |-> plan.unavailable, draw |-> plan.draw]
HeatSlots == DOMAIN journal

(* DrawRng: what a position of the generator yields is fixed by the seed.  *)
(* Here the shuffle drawn at position p is the rotation by p * p (by p the *)
(* shuffles of a field and of its seats would cancel out).                 *)
Rotated(items, p) ==
  [i \in DOMAIN items |-> items[1 + ((i - 1 + p * p) % Len(items))]]

(* The ids of the season's fleet, as it is listed or as its pool resolves. *)
Listed == LET fleet == FleetOf(plan) IN [i \in DOMAIN fleet |-> fleet[i].id]
Size == plan.arenas[1]
Entrants == IF plan.entrants = None THEN Len(Listed) ELSE plan.entrants

(* What draw_week and bracket_shape refuse before anything is drawn.       *)
Drawable ==
  /\ SeasonErrors(plan) = {}
  /\ \A i \in DOMAIN plan.arenas : plan.arenas[i] = Size
  /\ Entrants <= Len(Listed)
  /\ Size >= 2 /\ Entrants >= Size

(* select_entrants: the fleet as it is, or the first of the fleet sorted   *)
(* and shuffled by a generator of its own.                                 *)
SelectEntrants ==
  IF plan.entrants = None THEN Listed
  ELSE SubSeq(Rotated(InOrder(Range(Listed), Less), 1), 1, Entrants)

(* The lottery's shuffle of the sorted ids has a seed for each round.      *)
Lottery(ids, r) ==
  [id \in ids |-> (Cardinality({x \in ids : x < id}) + r) % Cardinality(ids)]

(* seat_heat: the territories, shuffled, against the members in order.     *)
SeatHeat(members, size, p) ==
  LET territories == Rotated([t \in 1..size |-> t], p)
  IN [t \in 1..size |->
        members[CHOOSE i \in 1..size : territories[i] = t]]

Chunk(field, size, h) == SubSeq(field, (h - 1) * size + 1, h * size)

(* The first heats of a shuffled field are seated, the rest sits out.      *)
DrawHeats(field, size, heats, p) ==
  [heats |-> [h \in 1..heats |-> SeatHeat(Chunk(field, size, h), size, p + h)],
   byes |-> SubSeq(field, heats * size + 1, Len(field))]

-----------------------------------------------------------------------------
(* load_checkpoint, when there is none *)
NewWeek == [rounds |-> <<>>, completed |-> FALSE, champion |-> None,
            revealed |-> None, standings |-> None]

Aborted(r) == \E h \in DOMAIN week.rounds[r].heats : week.rounds[r].heats[h].aborted

(* run_week returns the checkpoint as it is.                               *)
Settled == week.completed \/ (week.rounds # <<>> /\ Aborted(Len(week.rounds)))

HeatsOf(rounds) ==
  UNION {{rounds[r].heats[h] : h \in DOMAIN rounds[r].heats} : r \in DOMAIN rounds}

SlotsIn(rounds) ==
  UNION {{<<r, h>> : h \in DOMAIN rounds[r].heats} : r \in DOMAIN rounds}

(* Mutant: earlier attempts are not paid for. *)
LastAttempt(heat) == 1

(* Every recorded attempt of a heat costs each of its seats one unit.      *)
Spent(heat) == Attempts(heat)

(* week_standings: the deepest round, the heats won, and what was spent,   *)
(* every recorded attempt of a heat included, one unit per seat.           *)
WeekStandings(rounds) ==
  [id \in Fleet |->
     LET HeatIn(slot) == rounds[slot[1]].heats[slot[2]]
         played == {slot \in SlotsIn(rounds) : id \in Range(HeatIn(slot).seats)}
         In(r) == \E h \in DOMAIN rounds[r].heats : id \in Range(rounds[r].heats[h].seats)
         Advances(r) ==
           \/ \E h \in DOMAIN rounds[r].heats : rounds[r].heats[h].winner = id
           \/ id \in Range(rounds[r].byes) \cup Range(rounds[r].wildcards)
     IN [reached |-> Max({1} \cup {r \in DOMAIN rounds : In(r)}
                             \cup {r + 1 : r \in {r \in DOMAIN rounds : Advances(r)}}),
         wins |-> Cardinality({slot \in played : HeatIn(slot).winner = id}),
         cost |-> MapThenSumSet(LAMBDA slot : Spent(HeatIn(slot)), played)]]

-----------------------------------------------------------------------------
Slots ==
  LET shape == IF Drawable THEN BracketShape(Entrants, Size) ELSE <<>>
  IN UNION {{<<r, h>> : h \in 1..shape[r].heats} : r \in DOMAIN shape}

Init ==
  /\ file \in DOMAIN Plans
  /\ seed = None /\ draw = None /\ week = NewWeek
  /\ journal = [slot \in Slots |-> None]
  /\ artifacts = [slot \in Slots |-> <<>>]
  /\ pc = "off" /\ round = 0 /\ rng = 0 /\ error = "none"
  /\ drawn = None

RefuseDraw ==
  /\ pc = "off" /\ draw = None /\ ~Drawable
  /\ error' = "invalid"
  /\ UNCHANGED <<disk, pc, round, drawn, rng>>

(* draw_week writes the secret, then the draw, and refuses a second draw.  *)
WriteSecret ==
  /\ pc = "off" /\ draw = None /\ Drawable
  /\ seed' = "secret"
  /\ pc' = "drawing"
  /\ UNCHANGED <<file, draw, week, journal, artifacts, round, drawn, rng, error>>

WriteDraw ==
  /\ pc = "drawing"
  /\ LET shape == BracketShape(Entrants, Size)
     IN draw' = [commitment |-> seed, shape |-> shape, fleet |-> SelectEntrants,
                 first |-> DrawHeats(SelectEntrants, Size, shape[1].heats, 0)]
  /\ pc' = "off"
  /\ UNCHANGED <<file, seed, week, journal, artifacts, round, drawn, rng, error>>

(* run_week up to its first round: the secret matches the commitment and   *)
(* the checkpoint is not settled.  It is written back as it was read.      *)
StartWeek ==
  /\ pc = "off" /\ draw # None /\ seed = draw.commitment
  /\ ~Settled
  /\ pc' = "entering" /\ round' = 1 /\ rng' = 0
  /\ error' = "none"
  /\ UNCHANGED <<disk, drawn>>

Exit(kind) ==
  /\ pc' = "off" /\ error' = kind
  /\ round' = 0 /\ rng' = 0 /\ drawn' = None

Winners(heats) ==
  LET upTo[h \in 0..Len(heats)] ==
        IF h = 0 THEN <<>>
        ELSE IF heats[h].winner = None THEN upTo[h - 1]
        ELSE Append(upTo[h - 1], heats[h].winner)
  IN upTo[Len(heats)]

(* Winners, byes and wildcards of a round enter the next one.              *)
Entries(previous) == Winners(previous.heats) \o previous.byes \o previous.wildcards

(* Who enters round r > 1.                                                 *)
Advancing(r) == Entries(week.rounds[r - 1])

(* Mutant: a round one that is resumed takes nothing from the generator.   *)
RoundDrawResumed(r, p) ==
  LET field == Rotated(Advancing(r), p)
      heats == Len(Advancing(r)) \div Size
  IN CASE r = 1 /\ week.rounds = <<>> -> [draw |-> draw.first, next |-> p + 1]
       [] r = 1 /\ week.rounds # <<>> -> [draw |-> draw.first, next |-> p]
       [] OTHER -> [draw |-> DrawHeats(field, Size, heats, p), next |-> p + 1 + heats]

(* The draw of round r, and the position of the generator after it: round  *)
(* one takes one number, so that later rounds do not depend on a resume.   *)
RoundDraw(r, p) ==
  LET field == Rotated(Advancing(r), p)
      heats == Len(Advancing(r)) \div Size
  IN IF r = 1 THEN [draw |-> draw.first, next |-> p + 1]
     ELSE [draw |-> DrawHeats(field, Size, heats, p), next |-> p + 1 + heats]

Fills ==
  IF round = 1 THEN TRUE ELSE Len(Advancing(round)) = FieldOf(draw.shape[round], Size)

EnterRound ==
  /\ pc = "entering" /\ round <= LastRound
  /\ Fills
  /\ drawn' = RoundDraw(round, rng).draw
  /\ rng' = RoundDraw(round, rng).next
  /\ pc' = "heats"
  /\ UNCHANGED <<disk, round, error>>

DrewBefore ==
  \E h \in DOMAIN week.rounds[round - 1].heats :
    IsSportingDraw(week.rounds[round - 1].heats[h].standings)

Close(champion) ==
  week' = [week EXCEPT !.completed = TRUE, !.champion = champion,
                       !.revealed = seed, !.standings = WeekStandings(week.rounds)]

(* A drawn heat left the round short: the cup ends without a champion.     *)
VoidCup ==
  /\ pc = "entering" /\ round <= LastRound
  /\ ~Fills /\ DrewBefore
  /\ Close(None)
  /\ Exit("none")
  /\ UNCHANGED <<file, seed, draw, journal, artifacts>>

(* validate_round_field: forfeits left it short; the week stays incomplete. *)
Underfilled ==
  /\ pc = "entering" /\ round <= LastRound
  /\ ~Fills /\ ~DrewBefore
  /\ Exit("underfilled")
  /\ UNCHANGED disk

-----------------------------------------------------------------------------
(* The first heat of the round without a result in week.json.              *)
RecordedHeats == IF round <= Len(week.rounds) THEN week.rounds[round].heats ELSE <<>>
Current == <<round, Len(RecordedHeats) + 1>>
HeatsLeft == Len(RecordedHeats) < Len(drawn.heats)
Seats == drawn.heats[Len(RecordedHeats) + 1]

MayPlay ==
  IF journal[Current] = None THEN TRUE ELSE NeedsReplay(journal[Current], Rules)

(* Mutant: only the attempt before is kept. *)
LastPrior ==
  IF journal[Current] = None THEN <<>> ELSE <<Kind(journal[Current].standings)>>

Prior ==
  IF journal[Current] = None THEN <<>>
  ELSE Append(journal[Current].prior, Kind(journal[Current].standings))

(* Mutant: a replay uses the directory of the attempt before it. *)
ReusedAttempt == Max({1, Len(Prior)})

AttemptNumber == Len(Prior) + 1

(* heat_ports: two for each seat of every heat recorded before this one;   *)
(* the network plan then wants as many for this one.                       *)
HeatIndex == FoldFunction(LAMBDA r, n : Len(r.heats) + n, 0, week.rounds)
HeatPorts == 2 * Size * HeatIndex
PortsFit == HeatPorts + 2 * Size <= plan.ports

WithAttempt ==
  [artifacts EXCEPT ![Current] =
     [a \in DOMAIN @ \cup {AttemptNumber} |-> IF a = AttemptNumber THEN "running" ELSE @[a]]]

(* archive_incomplete moves what is in the attempt's directory aside, then *)
(* the match begins in it.                                                 *)
StartAttempt ==
  /\ pc = "heats" /\ HeatsLeft /\ MayPlay /\ PortsFit
  /\ artifacts' = WithAttempt
  /\ pc' = "match"
  /\ UNCHANGED <<file, seed, draw, week, journal, round, drawn, rng, error>>

(* The directory was moved aside already, and made again only for a match  *)
(* that has a base port.                                                   *)
NoPorts ==
  /\ pc = "heats" /\ HeatsLeft /\ MayPlay /\ ~PortsFit
  /\ artifacts' = IF HeatPorts <= plan.ports THEN WithAttempt
                  ELSE [artifacts EXCEPT ![Current] =
                          [a \in DOMAIN @ \ {AttemptNumber} |-> @[a]]]
  /\ Exit("ports")
  /\ UNCHANGED <<file, seed, draw, week, journal>>

(* The match returns; its result goes to the journal, replayed or not.     *)
EndAttempt(world) ==
  /\ journal' = [journal EXCEPT ![Current] =
                   SettleForfeit(HeatResult(Seats, Prior, world), Rules)]
  /\ artifacts' = [artifacts EXCEPT ![Current][AttemptNumber] = "whole"]
  /\ pc' = "heats"
  /\ UNCHANGED <<file, seed, draw, week, round, drawn, rng, error>>

FailAttempt ==
  /\ pc = "match"
  /\ Exit("match")
  /\ UNCHANGED disk

(* Only a durable winner is left in the journal of the final.              *)
SettleHeat ==
  /\ pc = "heats" /\ HeatsLeft /\ ~MayPlay
  /\ journal' = IF round = LastRound
                THEN [journal EXCEPT ![Current].winner = DurableHeatWinner(journal[Current])]
                ELSE journal
  /\ pc' = "settled"
  /\ UNCHANGED <<file, seed, draw, week, artifacts, round, drawn, rng, error>>

(* Mutant: the round is pushed, whether or not it is there. *)
PushedRound(result) ==
  Append(week.rounds,
         [heats |-> Append(RecordedHeats, result), byes |-> drawn.byes, wildcards |-> <<>>])

(* upsert_round *)
WithRound(result) ==
  IF round <= Len(week.rounds)
  THEN [week.rounds EXCEPT ![round].heats = Append(@, result)]
  ELSE Append(week.rounds, [heats |-> <<result>>, byes |-> drawn.byes, wildcards |-> <<>>])

RecordHeat ==
  /\ pc = "settled"
  /\ LET result == journal[Current]
         rounds == WithRound(result)
     IN /\ week' = [week EXCEPT !.rounds = rounds, !.standings = WeekStandings(rounds)]
        /\ IF result.aborted THEN Exit("none")
           ELSE pc' = "heats" /\ UNCHANGED <<round, drawn, rng, error>>
  /\ UNCHANGED <<file, seed, draw, journal, artifacts>>

(* Mutant: a forfeited seat may be promoted. *)
AnyLosers(heats) == UNION {DOMAIN heat.standings \ {heat.winner} : heat \in heats}

(* Who did not win a heat of the round and did not forfeit.                *)
Losers(heats) ==
  UNION {{id \in DOMAIN heat.standings :
            id # heat.winner /\ heat.standings[id].outcome # "forfeit"} : heat \in heats}

RoundStandings(heats) ==
  [id \in UNION {DOMAIN heat.standings : heat \in heats} |->
     (CHOOSE heat \in heats : id \in DOMAIN heat.standings).standings[id]]

Promoted(heats, wildcards, lottery) ==
  LET ranked == RankWildcards(Losers(heats), RoundStandings(heats), lottery)
  IN SubSeq(ranked, 1, Min({wildcards, Len(ranked)}))

(* Who is promoted from round r, as its heats are recorded.                *)
Promotions(r) ==
  Promoted(Range(week.rounds[r].heats), draw.shape[r].wildcards, Lottery(Fleet, r))

FinishRound ==
  /\ pc = "heats" /\ ~HeatsLeft
  /\ week' = IF week.rounds[round].wildcards = <<>>
             THEN [week EXCEPT !.rounds[round].wildcards = Promotions(round)] ELSE week
  /\ pc' = "entering" /\ round' = round + 1
  /\ UNCHANGED <<file, seed, draw, journal, artifacts, drawn, rng, error>>

(* final_champion, and the end of run_week.                                *)
FinishWeek ==
  /\ pc = "entering" /\ round = LastRound + 1
  /\ Close(DurableHeatWinner(week.rounds[LastRound].heats[1]))
  /\ Exit("none")
  /\ UNCHANGED <<file, seed, draw, journal, artifacts>>

Crash ==
  /\ pc # "off"
  /\ Exit("none")
  /\ UNCHANGED disk

Step ==
  \/ RefuseDraw \/ WriteSecret \/ WriteDraw \/ StartWeek
  \/ EnterRound \/ VoidCup \/ Underfilled
  \/ StartAttempt \/ NoPorts \/ SettleHeat \/ RecordHeat
  \/ pc = "match" /\ \E world \in Worlds(Size) : EndAttempt(world)
  \/ FinishRound \/ FinishWeek

Next == Step \/ FailAttempt \/ Crash

(* The operator runs the command again as long as the week is not settled. *)
Spec == Init /\ [][Next]_vars /\ WF_vars(Step)

-----------------------------------------------------------------------------
(* Whatever fleet up to two dozen is drawn, in heats of two to five: each  *)
(* round is filled exactly by the one before and the last is one heat.     *)
BracketsEnd ==
  draw = None => \A size \in 2..5 : \A fleet \in size..24 : EndsInOneFinal(fleet, size)

(* A resumed run draws what the stopped one drew: no checkpoint or journal *)
(* is refused as the work of another draw (ResumeMismatch).                *)
ResumeFindsItsDraw ==
  pc \in {"heats", "match", "settled"} =>
    /\ round <= Len(week.rounds) => week.rounds[round].byes = drawn.byes
    /\ \A h \in DOMAIN RecordedHeats : RecordedHeats[h].seats = drawn.heats[h]
    /\ \A h \in DOMAIN drawn.heats :
         journal[<<round, h>>] # None => journal[<<round, h>>].seats = drawn.heats[h]

(* The artifacts of every attempt a journal counts are still in their      *)
(* directory, whole: no replay, no resume moves them or runs over them.    *)
EvidenceIsKept ==
  \A slot \in HeatSlots :
    journal[slot] # None =>
      \A a \in 1..Attempts(journal[slot]) :
        a \in DOMAIN artifacts[slot] /\ artifacts[slot][a] = "whole"

(* Each kind of replay stays within its own allowance, however the kinds   *)
(* alternate and however often the run stops; a decided heat is not played *)
(* again, and a recorded one was given every replay it had a right to.     *)
ReplaysAreBounded ==
  /\ \A slot \in HeatSlots :
       journal[slot] # None =>
         /\ Count(journal[slot].prior, "unavailable") <= plan.unavailable
         /\ Count(journal[slot].prior, "draw") <= plan.draw
         /\ Count(journal[slot].prior, "decided") = 0
  /\ \A heat \in HeatsOf(week.rounds) : ~NeedsReplay(heat, Rules)

(* Whoever is drawn has a place of its own and, from a pool, a route that  *)
(* may be played; a seat whose result stayed unavailable neither wins nor  *)
(* advances, and nobody advances twice: the next round has as many players *)
(* as entries.                                                             *)
AdvanceOnMerit ==
  /\ draw # None => IsInjective(draw.fleet)
  /\ draw # None /\ plan.pool # None =>
       \A id \in Fleet : \E model \in Range(plan.pool.registry.models) :
         model.id = id /\ RouteErrors(model, plan.pool.provider) = {}
           /\ Offered(model.routes[plan.pool.provider])
  /\ \A r \in DOMAIN week.rounds :
       LET entries == Advancing(r + 1)
       IN /\ IsInjective(entries)
          /\ \A heat \in Range(week.rounds[r].heats) :
               \A id \in DOMAIN heat.standings :
                 heat.standings[id].outcome = "forfeit" /\ ~heat.aborted =>
                   id \notin Range(entries)

(* The standings published with a completed week: the champion alone is    *)
(* past the final round, and every attempt in a journal is paid for once   *)
(* by each of its seats.                                                   *)
StandingsAgree ==
  week.completed =>
    /\ \A id \in Fleet : week.standings[id].reached = LastRound + 1 <=> id = week.champion
    /\ MapThenSumSet(LAMBDA id : week.standings[id].cost, Fleet)
         = Size * MapThenSumSet(LAMBDA slot : Attempts(journal[slot]),
                                     {slot \in HeatSlots : journal[slot] # None})

(* README.md:380: a heat without a durable finisher is a draw.             *)
HeatsAreWonDurably ==
  \A heat \in HeatsOf(week.rounds) : heat.winner = DurableHeatWinner(heat)

PublicRounds ==
  [r \in DOMAIN week.rounds |->
     [h \in DOMAIN week.rounds[r].heats |->
        [players |-> Range(week.rounds[r].heats[h].seats),
         winner |-> week.rounds[r].heats[h].winner]]]

PublicField ==
  IF draw = None THEN {}
  ELSE IF Len(PublicRounds) <= 1 THEN Fleet ELSE Range(Advancing(Len(PublicRounds)))

Cup ==
  INSTANCE Cup WITH
    Player <- UNION {Ids(p) : p \in Range(Plans)},
    field <- PublicField,
    rounds <- PublicRounds,
    champion <- week.champion,
    over <- Settled

(* What is published keeps the promises of Cup through every stop and      *)
(* resume: a decided heat stands, the field shrinks, nothing follows the   *)
(* end.                                                                    *)
DecidedStands == Cup!Spec

(* If the run is stopped and fails finitely often and is always run again, *)
(* the week settles: completed, aborted, or short of players or of ports;  *)
(* or the season cannot be drawn at all.                                   *)
WeekSettles ==
  <>[][~Crash /\ ~FailAttempt]_vars => <>(Settled \/ error \in {"underfilled", "ports", "invalid"})
=============================================================================
