------------------------------- MODULE Bracket -------------------------------
(***************************************************************************)
(* The shape of a knockout week (bracket_shape, controller/src/season.rs): *)
(* heats of a fixed size whose winners advance, byes that sit a round out, *)
(* and wildcards that fill the next round up to whole heats.               *)
(***************************************************************************)
EXTENDS Integers, Sequences

Round(heats, byes, wildcards) ==
  [heats |-> heats, byes |-> byes, wildcards |-> wildcards]

IsFinal(field, size) == (field \div size) = 1 /\ (field % size) = 0

(* Heat winners and byes. *)
Through(field, size) == (field \div size) + (field % size)

(* Mutant: an odd round is not filled up when it already makes one heat. *)
WildcardsOnlyBelow(field, size) ==
  LET advancing == Through(field, size)
  IN IF advancing < size THEN size - advancing ELSE 0

Wildcards(field, size) ==
  LET advancing == Through(field, size)
  IN IF advancing < size THEN size - advancing
     ELSE (size - (advancing % size)) % size

NextField(field, size) ==
  Through(field, size) + Wildcards(field, size)

(* bracket_shape, for a fleet that fills a heat of at least two seats. Its *)
(* refusal of a round with too few non-winners is never met (see below).   *)
BracketShape(fleet, size) ==
  LET from[field \in size..fleet] ==
        LET heats == field \div size
            byes == field % size
        IN IF IsFinal(field, size) THEN <<Round(1, 0, 0)>>
           ELSE <<Round(heats, byes, Wildcards(field, size))>>
                  \o from[NextField(field, size)]
  IN from[fleet]

FieldOf(round, size) == round.heats * size + round.byes

(* Every round of a bracket is filled exactly by what the one before it    *)
(* advances, has enough non-winners for its wildcards, is smaller than it, *)
(* and the last is one full heat: a week ends whatever the fleet.          *)
EndsInOneFinal(fleet, size) ==
  LET shape == BracketShape(fleet, size)
  IN /\ FieldOf(shape[1], size) = fleet
     /\ shape[Len(shape)] = Round(1, 0, 0)
     /\ \A r \in 1..Len(shape) : shape[r].wildcards <= shape[r].heats * (size - 1)
     /\ \A r \in 2..Len(shape) :
          /\ FieldOf(shape[r], size) < FieldOf(shape[r - 1], size)
          /\ FieldOf(shape[r], size)
               = shape[r - 1].heats + shape[r - 1].byes + shape[r - 1].wildcards
          /\ shape[r].byes = 0
=============================================================================
