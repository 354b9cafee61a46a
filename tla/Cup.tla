--------------------------------- MODULE Cup ---------------------------------
(***************************************************************************)
(* What a week of a season promises whoever reads its results: a knockout. *)
(* The field is drawn once and only shrinks, a heat is decided once,       *)
(* between players of the field who meet in no other heat of the round,    *)
(* and never again; when the cup is over nothing is added to it, and its   *)
(* champion, if any, won the last heat played.                             *)
(***************************************************************************)
EXTENDS Integers, Sequences, FiniteSets

CONSTANTS Player, None

VARIABLES
  field,     \* who is still in; nobody before the draw
  rounds,    \* rounds[r][h]: [players, winner] of a decided heat
  champion,
  over

cup == <<field, rounds, champion, over>>

Init ==
  /\ field = {}
  /\ rounds = <<>>
  /\ champion = None
  /\ over = FALSE

DrawField ==
  /\ field = {} /\ field' \in (SUBSET Player) \ {{}}
  /\ UNCHANGED <<rounds, champion, over>>

Met(round) == UNION {round[h].players : h \in DOMAIN round}

(* The heat added to a round by the step, between players of field'.       *)
Decided(before, after) ==
  /\ Len(after) = Len(before) + 1
  /\ SubSeq(after, 1, Len(before)) = before
  /\ LET heat == after[Len(after)]
     IN /\ heat.players \subseteq field' \ Met(before)
        /\ heat.winner \in heat.players \cup {None}

DecideHeat ==
  /\ ~over /\ over' \in BOOLEAN
  /\ champion' = champion
  /\ \/ /\ rounds # <<>> /\ Len(rounds') = Len(rounds)
        /\ field' = field
        /\ Decided(rounds[Len(rounds)], rounds'[Len(rounds)])
     \/ /\ Len(rounds') = Len(rounds) + 1
        /\ IF rounds = <<>> THEN field' = field
           ELSE field' \subseteq field /\ field' # field
        /\ Decided(<<>>, rounds'[Len(rounds')])
  /\ \A r \in 1..Len(rounds) - 1 : rounds'[r] = rounds[r]
  /\ Len(rounds') > Len(rounds) =>
       \A r \in 1..Len(rounds) : rounds'[r] = rounds[r]

End ==
  /\ ~over /\ over'
  /\ UNCHANGED <<field, rounds>>
  /\ \/ champion' = None
     \/ LET last == rounds[Len(rounds)]
        IN Len(last) = 1 /\ champion' = last[1].winner

Next == DrawField \/ DecideHeat \/ End

Spec == Init /\ [][Next]_cup
=============================================================================
