---------------------------- MODULE SeasonProofs ----------------------------
(***************************************************************************)
(* Proofs about Season, Heat and Bracket.                                  *)
(*                                                                         *)
(*  1. Every bracket ends in one final, for every size of heat and every   *)
(*     field of any fleet: the recursive bracket_shape is unrolled by an   *)
(*     induction on the field.                                             *)
(*  2. draw.json, week.json and the journals stay sequences of the shape   *)
(*     the code expects (facts on sequences, and the draw of a week).      *)
(*  3. Inv, inductive over every step of a week, crashes included, and     *)
(*     from it what a resumed week draws, that no evidence is overwritten  *)
(*     and that replays stay within their allowances.                      *)
(*  4. A draw shares the field out (Fair, inductive beside Inv), and whoever*)
(*     advances earned it: AdvanceOnMerit.                                 *)
(*  5. What is published of a week implements Cup, step by step.           *)
(*  6. Sums over finite sets, Accounted (what the journals and week.json   *)
(*     say of the same heats) and from them the published standings.       *)
(*                                                                         *)
(* The library states induction with an operator parameter, which the      *)
(* provers cannot instantiate; Least and SetInduction state it for sets,   *)
(* from the well-foundedness of <.                                         *)
(***************************************************************************)
EXTENDS Season, SequenceTheorems, NaturalsInduction, WellFoundedInduction,
        FiniteSetTheorems, TLAPS

LEMMA Least ==
  ASSUME NEW T \in SUBSET Nat, T # {}
  PROVE  \E x \in T : \A y \in T : x <= y
<1>1. PICK x \in T : \A y \in T : ~(<<y, x>> \in OpToRel(<, Nat))
  BY NatLessThanWellFounded, WFMin
<1>2. ASSUME NEW y \in T, ~(x <= y) PROVE FALSE
  <2>1. y < x /\ y \in Nat /\ x \in Nat
    BY <1>2
  <2>2. <<y, x>> \in OpToRel(<, Nat)
    BY <2>1 DEF OpToRel
  <2> QED BY <1>1, <2>2
<1> QED BY <1>2

LEMMA SetInduction ==
  ASSUME NEW S, 0 \in S, \A n \in Nat : n \in S => n + 1 \in S
  PROVE  \A n \in Nat : n \in S
<1> SUFFICES ASSUME NEW n \in Nat, n \notin S PROVE FALSE
  OBVIOUS
<1> DEFINE T == {k \in Nat : k \notin S}
<1>1. PICK x \in T : \A y \in T : x <= y
  BY Least
<1>2. x \in Nat /\ x # 0 /\ x \notin S
  BY <1>1
<1>3. x - 1 \in Nat /\ x - 1 \notin T
  BY <1>1, <1>2
<1> QED BY <1>2, <1>3

-----------------------------------------------------------------------------
(* What one turn of bracket_shape's loop adds, with g for the rest.        *)
Turn(g, field, size) ==
  IF IsFinal(field, size) THEN <<Round(1, 0, 0)>>
  ELSE <<Round(field \div size, field % size, Wildcards(field, size))>>
         \o g[NextField(field, size)]

(* g lists the bracket of every field from a full heat to n.               *)
Unrolls(g, n, size) == g = [field \in size..n |-> Turn(g, field, size)]

LEMMA ShapeIs ==
  ASSUME NEW fleet, NEW size, NEW g, Unrolls(g, fleet, size)
  PROVE  \E h : Unrolls(h, fleet, size) /\ BracketShape(fleet, size) = h[fleet]
BY DEF BracketShape, Unrolls, Turn

LEMMA Division ==
  ASSUME NEW a \in Nat, NEW s \in Nat, s >= 1
  PROVE  /\ a \div s \in Nat /\ a % s \in Nat /\ a % s < s
         /\ a = (a \div s) * s + (a % s)
OBVIOUS

LEMMA DivisionIs ==
  ASSUME NEW q \in Nat, NEW r \in Nat, NEW s \in Nat, s >= 1, r < s
  PROVE  (q * s + r) \div s = q /\ (q * s + r) % s = r
OBVIOUS

LEMMA Multiples ==
  ASSUME NEW q \in Nat, NEW s \in Nat, s >= 1
  PROVE  (q * s) \div s = q /\ (q * s) % s = 0
OBVIOUS

(* A bracket's next field is made of whole heats and is smaller.           *)
LEMMA NextFieldFacts ==
  ASSUME NEW size \in Nat, size >= 2, NEW field \in Nat, field >= size,
         ~IsFinal(field, size)
  PROVE  /\ NextField(field, size) \in size..field - 1
         /\ NextField(field, size) % size = 0
         /\ Wildcards(field, size) \in 0..(field \div size) * (size - 1)
<1> DEFINE q == field \div size
           r == field % size
           t == q + r
<1>1. q \in Nat /\ r \in Nat /\ r < size /\ field = q * size + r
  BY Division
<1>2. ~(q = 1 /\ r = 0)
  BY DEF IsFinal
<1>3. t = Through(field, size)
  BY DEF Through
<1> HIDE DEF q, r
<1>4. q # 0
  BY <1>1
<1> DEFINE w == Wildcards(field, size)
<1>5. \E k \in Nat : k >= 1 /\ t + w = k * size /\ w \in Nat /\ w < size
  <2> DEFINE u == t \div size
             v == t % size
  <2>1. u \in Nat /\ v \in Nat /\ v < size /\ t = u * size + v /\ t \in Nat
    BY <1>1, Division
  <2>2. w = IF t < size THEN size - t ELSE (size - v) % size
    BY <1>3 DEF Wildcards
  <2> HIDE DEF u, v, w, t
  <2>3. CASE t < size
    <3>1. t + w = 1 * size /\ w \in Nat
      BY <2>1, <2>2, <2>3
    <3>2. t # 0
      BY <1>1, <1>4 DEF t
    <3> QED BY <2>1, <2>2, <2>3, <3>1, <3>2
  <2>4. CASE t >= size /\ v = 0
    <3>1. size % size = 0
      BY DivisionIs, 1 * size + 0 = size
    <3>2. w = 0
      BY <2>1, <2>2, <2>4, <3>1
    <3>3. u # 0
      BY <2>1, <2>4
    <3> QED BY <2>1, <2>4, <3>2, <3>3
  <2>5. CASE t >= size /\ v # 0
    <3>1. (size - v) % size = size - v
      BY DivisionIs, <2>1, <2>5, 0 * size + (size - v) = size - v
    <3>2. w = size - v
      BY <2>1, <2>2, <2>5, <3>1
    <3>3. t + w = (u + 1) * size
      BY <2>1, <3>2
    <3> QED BY <2>1, <2>5, <3>2, <3>3
  <2> QED BY <2>1, <2>3, <2>4, <2>5
<1>6. PICK k \in Nat : k >= 1 /\ t + w = k * size /\ w \in Nat /\ w < size
  BY <1>5
<1>7. NextField(field, size) = k * size
  BY <1>3, <1>6 DEF NextField
<1> HIDE DEF w
<1>8. k <= q
  <2>1. ASSUME k >= q + 1 PROVE FALSE
    <3>1. (k - 1) * size < t
      BY <1>1, <1>6
    <3>2. (k - 1) * size >= q * size
      BY <1>1, <1>6, <2>1
    <3>3. q * size <= q + size - 2
      BY <1>1, <3>1, <3>2
    <3>4. (q - 1) * (size - 1) >= 0
      BY <1>1, <1>4
    <3>5. (q - 1) * (size - 1) = q * size - q - size + 1
      BY <1>1
    <3> QED BY <1>1, <1>6, <3>3, <3>4, <3>5
  <2> QED BY <1>1, <1>6, <2>1
<1>9. k < q \/ r > 0
  <2>1. ASSUME k = q, r = 0 PROVE FALSE
    <3>1. (q - 1) * size < q
      BY <1>1, <1>6, <2>1
    <3>2. q >= 2
      BY <1>1, <1>2, <1>4, <2>1
    <3>3. (q - 1) * (size - 1) >= (q - 1) * 1
      BY <1>1, <3>2
    <3>4. (q - 1) * size = (q - 1) * (size - 1) + q - 1
      BY <1>1
    <3> QED BY <1>1, <3>1, <3>2, <3>3, <3>4
  <2> QED BY <1>1, <1>6, <1>8, <2>1
<1>10. k * size \in size..field - 1
  <2>1. k * size >= 1 * size
    BY <1>6
  <2>2. CASE k < q
    <3>1. (k + 1) * size <= q * size
      BY <1>1, <1>6, <2>2
    <3> QED BY <1>1, <1>6, <2>1, <3>1
  <2>3. CASE k = q /\ r > 0
    BY <1>1, <1>6, <2>1, <2>3
  <2> QED BY <1>1, <1>6, <1>8, <1>9, <2>2, <2>3
<1>11. (k * size) % size = 0
  BY Multiples
<1>12. w <= q * (size - 1)
  <2>1. k * size <= q * size
    BY <1>1, <1>6, <1>8
  <2> QED BY <1>1, <1>6, <2>1
<1> QED BY <1>1, <1>6, <1>7, <1>10, <1>11, <1>12 DEF q, w

(* The loop ends for every fleet: the recursion has a solution.            *)
LEMMA BracketExists ==
  ASSUME NEW size \in Nat, size >= 2
  PROVE  \A n \in Nat : \E g : Unrolls(g, size + n - 1, size)
<1> DEFINE S == {n \in Nat : \E g : Unrolls(g, size + n - 1, size)}
<1>1. 0 \in S
  <2>1. Unrolls([field \in {} |-> 0], size + 0 - 1, size)
    <3>1. size..size + 0 - 1 = {}
      OBVIOUS
    <3> QED BY <3>1 DEF Unrolls
  <2> QED BY <2>1
<1>2. ASSUME NEW n \in Nat, n \in S PROVE n + 1 \in S
  <2> DEFINE m == size + n
  <2>1. PICK g : Unrolls(g, m - 1, size)
    BY <1>2
  <2> DEFINE h == [field \in size..m |-> IF field = m THEN Turn(g, m, size) ELSE g[field]]
  <2>2. ASSUME NEW field \in size..m PROVE h[field] = Turn(h, field, size)
    <3>1. h[field] = Turn(g, field, size)
      <4>1. field # m => field \in size..m - 1
        OBVIOUS
      <4> QED BY <2>1, <4>1 DEF Unrolls
    <3>2. CASE IsFinal(field, size)
      BY <3>1, <3>2 DEF Turn
    <3>3. CASE ~IsFinal(field, size)
      <4>1. NextField(field, size) \in size..field - 1
        BY <3>3, NextFieldFacts
      <4>2. NextField(field, size) \in size..m /\ NextField(field, size) # m
        BY <4>1
      <4>3. h[NextField(field, size)] = g[NextField(field, size)]
        BY <4>2
      <4> HIDE DEF h
      <4> QED BY <3>1, <4>3 DEF Turn
    <3> QED BY <3>2, <3>3
  <2>3. h = [field \in size..m |-> h[field]]
    OBVIOUS
  <2> HIDE DEF h
  <2>4. Unrolls(h, m, size)
    BY <2>2, <2>3 DEF Unrolls
  <2>5. m = size + (n + 1) - 1
    OBVIOUS
  <2> QED BY <2>4, <2>5
<1> HIDE DEF S
<1>3. \A n \in Nat : n \in S
  BY <1>1, <1>2, SetInduction
<1> QED BY <1>3 DEF S

RoundShapes == [heats : Nat \ {0}, byes : Nat, wildcards : Nat]

(* A bracket whose first round has the given field.                        *)
IsBracket(shape, field, size) ==
  /\ shape \in Seq(RoundShapes) /\ Len(shape) >= 1
  /\ shape[1].heats = field \div size /\ shape[1].byes = field % size
  /\ shape[Len(shape)] = Round(1, 0, 0)
  /\ \A r \in 1..Len(shape) : shape[r].wildcards <= shape[r].heats * (size - 1)
  /\ \A r \in 2..Len(shape) :
       /\ FieldOf(shape[r], size) < FieldOf(shape[r - 1], size)
       /\ FieldOf(shape[r], size)
            = shape[r - 1].heats + shape[r - 1].byes + shape[r - 1].wildcards
       /\ shape[r].byes = 0

LEMMA FirstField ==
  ASSUME NEW size \in Nat, size >= 2, NEW field \in Nat, NEW shape,
         IsBracket(shape, field, size)
  PROVE  FieldOf(shape[1], size) = field
BY Division DEF IsBracket, FieldOf

LEMMA FinalIsBracket ==
  ASSUME NEW size \in Nat, size >= 2, NEW field \in Nat, IsFinal(field, size)
  PROVE  IsBracket(<<Round(1, 0, 0)>>, field, size)
BY DEF IsFinal, IsBracket, Round, RoundShapes

LEMMA LongerBracket ==
  ASSUME NEW size \in Nat, size >= 2, NEW field \in Nat, field >= size,
         ~IsFinal(field, size), NEW rest,
         IsBracket(rest, NextField(field, size), size)
  PROVE  IsBracket(<<Round(field \div size, field % size, Wildcards(field, size))>> \o rest,
                   field, size)
<1> DEFINE q == field \div size
           b == field % size
           w == Wildcards(field, size)
           next == NextField(field, size)
           top == Round(q, b, w)
           shape == <<top>> \o rest
<1>1. q \in Nat /\ b \in Nat /\ b < size /\ field = q * size + b /\ q # 0
  <2>1. q \in Nat /\ b \in Nat /\ b < size /\ field = q * size + b
    BY Division
  <2> HIDE DEF q, b
  <2> QED BY <2>1
<1>2. next \in size..field - 1 /\ next % size = 0 /\ w \in 0..q * (size - 1)
  BY NextFieldFacts
<1>3. next = q + b + w
  BY DEF NextField, Through
<1> HIDE DEF q, b, w, next
<1>4. w \in Nat /\ next \in Nat
  BY <1>1, <1>2
<1>5. top \in RoundShapes /\ FieldOf(top, size) = field
  BY <1>1, <1>4 DEF Round, RoundShapes, FieldOf
<1>6. top.heats = q /\ top.byes = b /\ top.wildcards = w
  BY DEF Round
<1>7. FieldOf(rest[1], size) = next
  BY <1>4, FirstField DEF next
<1>8. rest \in Seq(RoundShapes) /\ Len(rest) \in Nat /\ Len(rest) >= 1 /\ rest[1].byes = 0
  BY <1>2 DEF IsBracket, next
<1> HIDE DEF top
<1>9. /\ shape \in Seq(RoundShapes) /\ Len(shape) = 1 + Len(rest) /\ shape[1] = top
      /\ \A r \in 2..Len(shape) : shape[r] = rest[r - 1] /\ r - 1 \in 1..Len(rest)
  BY <1>5, <1>8
<1> HIDE DEF shape
<1>10. shape[1].heats = q /\ shape[1].byes = b
  BY <1>6, <1>9
<1>11. shape[Len(shape)] = Round(1, 0, 0)
  <2>1. Len(shape) \in 2..Len(shape) /\ Len(shape) - 1 = Len(rest)
    BY <1>8, <1>9
  <2> QED BY <1>9, <2>1 DEF IsBracket
<1>12. ASSUME NEW r \in 1..Len(shape)
       PROVE  shape[r].wildcards <= shape[r].heats * (size - 1)
  <2>1. CASE r = 1
    BY <1>2, <1>6, <1>9, <2>1
  <2>2. CASE r \in 2..Len(shape)
    BY <1>9, <2>2 DEF IsBracket
  <2> QED BY <1>8, <1>9, <2>1, <2>2
<1>13. ASSUME NEW r \in 2..Len(shape)
       PROVE  /\ FieldOf(shape[r], size) < FieldOf(shape[r - 1], size)
              /\ FieldOf(shape[r], size)
                   = shape[r - 1].heats + shape[r - 1].byes + shape[r - 1].wildcards
              /\ shape[r].byes = 0
  <2>1. CASE r = 2
    <3>1. shape[2] = rest[1] /\ r - 1 = 1
      BY <1>9, <2>1
    <3> QED BY <1>2, <1>3, <1>5, <1>6, <1>7, <1>8, <1>9, <2>1, <3>1
  <2>2. CASE r \in 3..Len(shape)
    <3>1. /\ shape[r] = rest[r - 1] /\ r - 1 \in 2..Len(rest)
          /\ shape[r - 1] = rest[(r - 1) - 1]
      BY <1>8, <1>9, <2>2
    <3> QED BY <3>1 DEF IsBracket
  <2> QED BY <1>8, <1>9, <2>1, <2>2
<1> QED
  BY <1>8, <1>9, <1>10, <1>11, <1>12, <1>13, SMTT(30) DEF IsBracket, shape, top, q, b, w

LEMMA ShapeIsBracket ==
  ASSUME NEW size \in Nat, size >= 2, NEW fleet \in Nat, fleet >= size
  PROVE  IsBracket(BracketShape(fleet, size), fleet, size)
<1>1. fleet - size + 1 \in Nat /\ size + (fleet - size + 1) - 1 = fleet
  OBVIOUS
<1>2. \E g : Unrolls(g, fleet, size)
  BY <1>1, BracketExists
<1>3. PICK h : Unrolls(h, fleet, size) /\ BracketShape(fleet, size) = h[fleet]
  BY <1>2, ShapeIs
<1> DEFINE T == {field \in size..fleet : ~IsBracket(h[field], field, size)}
<1>4. ASSUME T # {} PROVE FALSE
  <2>1. T \in SUBSET Nat
    OBVIOUS
  <2>2. PICK x \in T : \A y \in T : x <= y
    BY <1>4, <2>1, Least
  <2>3. x \in size..fleet /\ ~IsBracket(h[x], x, size) /\ x \in Nat /\ x >= size
    BY <2>2
  <2>4. h[x] = Turn(h, x, size)
    BY <1>3, <2>3 DEF Unrolls
  <2>5. CASE IsFinal(x, size)
    BY <2>3, <2>4, <2>5, FinalIsBracket DEF Turn
  <2>6. CASE ~IsFinal(x, size)
    <3>1. NextField(x, size) \in size..x - 1
      BY <2>3, <2>6, NextFieldFacts
    <3>2. NextField(x, size) \in size..fleet /\ ~(x <= NextField(x, size))
      BY <2>3, <3>1
    <3>3. IsBracket(h[NextField(x, size)], NextField(x, size), size)
      BY <2>2, <3>2
    <3>4. h[x] = <<Round(x \div size, x % size, Wildcards(x, size))>> \o h[NextField(x, size)]
      BY <2>4, <2>6 DEF Turn
    <3> HIDE DEF T
    <3> QED BY <2>3, <2>6, <3>3, <3>4, LongerBracket
  <2> QED BY <2>5, <2>6
<1>5. fleet \in size..fleet
  OBVIOUS
<1> QED BY <1>3, <1>4, <1>5

(* Whatever the fleet and the size of its heats, the bracket of a week     *)
(* that may be drawn ends in one final, each round filled exactly by the   *)
(* one before it (bracket_shape, whose test tries fleets up to twelve).    *)
THEOREM EveryBracketEnds ==
  \A size \in Nat : size >= 2 =>
    \A fleet \in Nat : fleet >= size => EndsInOneFinal(fleet, size)
<1> SUFFICES ASSUME NEW size \in Nat, size >= 2, NEW fleet \in Nat, fleet >= size
             PROVE  EndsInOneFinal(fleet, size)
  OBVIOUS
<1>1. IsBracket(BracketShape(fleet, size), fleet, size)
  BY ShapeIsBracket
<1> DEFINE shape == BracketShape(fleet, size)
<1> HIDE DEF shape
<1>2. FieldOf(shape[1], size) = fleet
  BY <1>1, FirstField DEF shape
<1> QED BY <1>1, <1>2 DEF EndsInOneFinal, IsBracket, shape

(* In particular the brackets of the heats and fleets a season may have,   *)
(* the ones the run unrolls.                                               *)
THEOREM BracketsEndHolds == Spec => []BracketsEnd
<1>1. BracketsEnd
  <2> SUFFICES ASSUME NEW size \in 2..5, NEW fleet \in size..24
               PROVE  EndsInOneFinal(fleet, size)
    BY DEF BracketsEnd
  <2> QED BY EveryBracketEnds
<1> QED BY <1>1, PTL

-----------------------------------------------------------------------------
(* The inductive invariant of the week.                                    *)

IsSeq(s) == Len(s) \in Nat /\ s = [i \in 1..Len(s) |-> s[i]]

IsResult(x) ==
  /\ x = [seats |-> x.seats, prior |-> x.prior, standings |-> x.standings,
          winner |-> x.winner, aborted |-> x.aborted]
  /\ x.prior \in Seq(Kinds)

(* The position of the generator when a round of the bracket is entered.   *)
Positions(shape) ==
  LET at[r \in 1..Len(shape) + 1] ==
        IF r = 1 THEN 0 ELSE IF r = 2 THEN 1 ELSE at[r - 1] + 1 + shape[r - 1].heats
  IN at

(* What any run of the week draws for round r.                             *)
DrawOf(r) == RoundDraw(r, Positions(draw.shape)[r]).draw

(* Every heat of round r is recorded, and so are its wildcards.            *)
Finished(r) ==
  /\ Len(week.rounds[r].heats) = draw.shape[r].heats
  /\ week.rounds[r].wildcards = Promotions(r)

(* Round r may be played: the round before is over and fills it.           *)
Ready(r) ==
  /\ r \in 1..LastRound
  /\ r # 1 => /\ r - 1 \in 1..Len(week.rounds)
              /\ Finished(r - 1)
              /\ Len(Advancing(r)) = FieldOf(draw.shape[r], Size)

DrawOK ==
  draw # None =>
    /\ Drawable /\ draw.shape = BracketShape(Entrants, Size)
    /\ DOMAIN draw.first.heats = 1..draw.shape[1].heats

(* A recorded round is the drawn one, as far as it has been played.        *)
RoundOK(r) ==
  LET x == week.rounds[r]
  IN /\ x = [heats |-> x.heats, byes |-> x.byes, wildcards |-> x.wildcards]
     /\ IsSeq(x.heats) /\ Len(x.heats) \in 1..draw.shape[r].heats
     /\ Ready(r)
     /\ x.byes = DrawOf(r).byes
     /\ \A h \in 1..Len(x.heats) :
          x.heats[h].seats = DrawOf(r).heats[h] /\ ~NeedsReplay(x.heats[h], Rules)
     /\ x.wildcards = <<>> \/ Finished(r)

WeekOK ==
  /\ week = [rounds |-> week.rounds, completed |-> week.completed,
             champion |-> week.champion, revealed |-> week.revealed,
             standings |-> week.standings]
  /\ IsSeq(week.rounds)
  /\ \A r \in 1..Len(week.rounds) : RoundOK(r)

JournalOK ==
  /\ journal = [slot \in Slots |-> journal[slot]]
  /\ \A slot \in Slots :
       journal[slot] # None =>
         /\ IsResult(journal[slot])
         /\ Count(journal[slot].prior, "unavailable") <= plan.unavailable
         /\ Count(journal[slot].prior, "draw") <= plan.draw
         /\ Count(journal[slot].prior, "decided") = 0
         /\ Ready(slot[1])
         /\ journal[slot].seats = DrawOf(slot[1]).heats[slot[2]]

ArtifactsOK ==
  /\ artifacts = [slot \in Slots |-> artifacts[slot]]
  /\ \A slot \in Slots :
       journal[slot] # None =>
         \A a \in 1..Attempts(journal[slot]) :
           a \in DOMAIN artifacts[slot] /\ artifacts[slot][a] = "whole"

(* Nothing is played before the draw is published.                         *)
UndrawnOK ==
  /\ pc = "drawing" => draw = None /\ Drawable
  /\ draw = None => /\ pc \in {"off", "drawing"} /\ week.rounds = <<>>
                    /\ \A slot \in Slots : journal[slot] = None

(* Where the process is, and what it has drawn.                            *)
EnteringOK ==
  pc = "entering" =>
    /\ round \in 1..LastRound + 1 /\ round <= Len(week.rounds) + 1
    /\ round # 1 => Finished(round - 1)
    /\ rng = Positions(draw.shape)[round]

PlayingOK ==
  pc \in {"heats", "match", "settled"} =>
    /\ round <= Len(week.rounds) + 1 /\ Ready(round)
    /\ drawn = DrawOf(round)
    /\ rng = Positions(draw.shape)[round + 1]

HeatOK ==
  /\ pc = "match" => HeatsLeft /\ MayPlay /\ AttemptNumber \in DOMAIN artifacts[Current]
  /\ pc = "settled" => /\ HeatsLeft /\ IsResult(journal[Current])
                       /\ journal[Current].seats = Seats
                       /\ ~NeedsReplay(journal[Current], Rules)

Inv ==
  /\ file \in DOMAIN Plans
  /\ pc \in {"off", "drawing", "entering", "heats", "match", "settled"}
  /\ DrawOK /\ WeekOK /\ JournalOK /\ ArtifactsOK /\ UndrawnOK
  /\ EnteringOK /\ PlayingOK /\ HeatOK

-----------------------------------------------------------------------------
(* Facts about the draw. *)

Placed(at, shape, n) ==
  at = [r \in 1..n |->
          IF r = 1 THEN 0 ELSE IF r = 2 THEN 1 ELSE at[r - 1] + 1 + shape[r - 1].heats]

LEMMA PositionsExist ==
  ASSUME NEW shape
  PROVE  \A n \in Nat : \E at : Placed(at, shape, n)
<1> DEFINE S == {n \in Nat : \E at : Placed(at, shape, n)}
<1>1. 0 \in S
  <2>1. Placed([r \in {} |-> 0], shape, 0)
    <3>1. 1..0 = {}
      OBVIOUS
    <3> QED BY <3>1 DEF Placed
  <2> QED BY <2>1
<1>2. ASSUME NEW n \in Nat, n \in S PROVE n + 1 \in S
  <2>1. PICK at : Placed(at, shape, n)
    BY <1>2
  <2> DEFINE Value(r) == IF r = 1 THEN 0 ELSE IF r = 2 THEN 1
                         ELSE at[r - 1] + 1 + shape[r - 1].heats
             next == [r \in 1..n + 1 |-> Value(r)]
  <2>2. ASSUME NEW r \in 1..n PROVE next[r] = at[r]
    <3>1. at[r] = Value(r)
      BY <2>1 DEF Placed
    <3>2. r \in 1..n + 1
      OBVIOUS
    <3> HIDE DEF Value
    <3> QED BY <3>1, <3>2
  <2>3. ASSUME NEW r \in 1..n + 1
        PROVE  next[r] = IF r = 1 THEN 0 ELSE IF r = 2 THEN 1
                         ELSE next[r - 1] + 1 + shape[r - 1].heats
    <3>1. next[r] = Value(r)
      OBVIOUS
    <3>2. r # 1 => r - 1 \in 1..n
      OBVIOUS
    <3>3. r # 1 => next[r - 1] = at[r - 1]
      BY <2>2, <3>2
    <3> HIDE DEF next
    <3> QED BY <3>1, <3>3
  <2>4. next = [r \in 1..n + 1 |-> next[r]]
    OBVIOUS
  <2> HIDE DEF next
  <2>5. Placed(next, shape, n + 1)
    BY <2>3, <2>4 DEF Placed
  <2> QED BY <2>5
<1> HIDE DEF S
<1>3. \A n \in Nat : n \in S
  BY <1>1, <1>2, SetInduction
<1> QED BY <1>3 DEF S

LEMMA PositionsAre ==
  ASSUME NEW shape, Len(shape) \in Nat
  PROVE  /\ Positions(shape)[1] = 0
         /\ Len(shape) >= 1 => Positions(shape)[2] = 1
         /\ \A r \in 2..Len(shape) :
              Positions(shape)[r + 1] = Positions(shape)[r] + 1 + shape[r].heats
<1> DEFINE n == Len(shape) + 1
<1>1. n \in Nat
  OBVIOUS
<1>2. \E at : Placed(at, shape, n)
  BY <1>1, PositionsExist
<1>3. Placed(Positions(shape), shape, n)
  BY <1>2 DEF Positions, Placed
<1> DEFINE at == Positions(shape)
<1> HIDE DEF at
<1>4. \A r \in 1..n :
        at[r] = IF r = 1 THEN 0 ELSE IF r = 2 THEN 1 ELSE at[r - 1] + 1 + shape[r - 1].heats
  BY <1>3 DEF Placed, at
<1>5. at[1] = 0 /\ (Len(shape) >= 1 => at[2] = 1)
  <2>1. 1 \in 1..n /\ (Len(shape) >= 1 => 2 \in 1..n)
    OBVIOUS
  <2> HIDE DEF n
  <2> QED BY <1>4, <2>1
<1>6. ASSUME NEW r \in 2..Len(shape) PROVE at[r + 1] = at[r] + 1 + shape[r].heats
  <2>1. r + 1 \in 1..n /\ r + 1 # 1 /\ r + 1 # 2 /\ (r + 1) - 1 = r
    OBVIOUS
  <2> QED BY <1>4, <2>1
<1> QED BY <1>5, <1>6 DEF at

LEMMA HasArenas ==
  ASSUME NEW p, SeasonErrors(p) = {}
  PROVE  p.arenas # <<>>
<1> SUFFICES ASSUME p.arenas = <<>> PROVE FALSE
  OBVIOUS
<1>1. "arenas" \in SeasonErrors(p)
  BY DEF SeasonErrors
<1> QED BY <1>1

LEMMA PlanFacts ==
  ASSUME file \in DOMAIN Plans
  PROVE  /\ plan.unavailable \in Nat /\ plan.draw \in Nat /\ plan.arenas \in Seq(Nat)
         /\ plan.entrants # None => plan.entrants \in Nat
         /\ Len(Listed) \in Nat
<1>1. plan \in Range(Plans)
  BY DEF plan, Range
<1>2. FleetOf(plan) \in Seq(Range(FleetOf(plan)))
  BY <1>1, SeasonConstants
<1>3. Len(Listed) = Len(FleetOf(plan)) /\ Len(FleetOf(plan)) \in Nat
  BY <1>2 DEF Listed
<1> QED BY <1>1, <1>3, SeasonConstants

LEMMA DrawableFacts ==
  ASSUME file \in DOMAIN Plans, Drawable
  PROVE  /\ Size \in Nat /\ Size >= 2 /\ Entrants \in Nat /\ Entrants >= Size
         /\ IsBracket(BracketShape(Entrants, Size), Entrants, Size)
<1>1. plan.arenas # <<>>
  BY HasArenas DEF Drawable
<1>2. Size \in Nat
  BY <1>1, PlanFacts DEF Size
<1>3. Entrants \in Nat
  BY PlanFacts DEF Entrants
<1> QED BY <1>2, <1>3, ShapeIsBracket DEF Drawable

LEMMA ShapeFacts ==
  ASSUME Inv, draw # None
  PROVE  /\ Size \in Nat /\ Size >= 2 /\ LastRound \in Nat /\ LastRound >= 1
         /\ \A r \in 1..LastRound : draw.shape[r].heats \in Nat \ {0}
         /\ \A r \in 2..LastRound :
              FieldOf(draw.shape[r], Size) \div Size = draw.shape[r].heats
         /\ Slots = UNION {{<<r, h>> : h \in 1..draw.shape[r].heats} : r \in 1..LastRound}
<1> DEFINE shape == draw.shape
<1>1. Size \in Nat /\ Size >= 2 /\ IsBracket(shape, Entrants, Size)
  BY DrawableFacts DEF Inv, DrawOK
<1>2. Slots = UNION {{<<r, h>> : h \in 1..shape[r].heats} : r \in DOMAIN shape}
  BY DEF Inv, DrawOK, Slots
<1>3. LastRound = Len(shape)
  BY DEF LastRound
<1> HIDE DEF shape
<1>4. shape \in Seq(RoundShapes) /\ Len(shape) >= 1
  BY <1>1 DEF IsBracket
<1>5. Len(shape) \in Nat /\ DOMAIN shape = 1..Len(shape)
  BY <1>4
<1>6. ASSUME NEW r \in 1..Len(shape) PROVE shape[r].heats \in Nat \ {0}
  <2>1. shape[r] \in RoundShapes
    BY <1>4
  <2> QED BY <2>1 DEF RoundShapes
<1>7. ASSUME NEW r \in 2..Len(shape) PROVE FieldOf(shape[r], Size) \div Size = shape[r].heats
  <2>1. shape[r].byes = 0
    BY <1>1 DEF IsBracket
  <2>2. shape[r].heats \in Nat
    BY <1>6
  <2>3. FieldOf(shape[r], Size) = shape[r].heats * Size
    BY <1>1, <2>1, <2>2 DEF FieldOf
  <2> QED BY <1>1, <2>2, <2>3, Multiples
<1> QED BY <1>1, <1>2, <1>3, <1>4, <1>5, <1>6, <1>7 DEF shape

LEMMA SlotFacts ==
  ASSUME Inv, draw # None
  PROVE  /\ \A r \in 1..LastRound : \A h \in 1..draw.shape[r].heats : <<r, h>> \in Slots
         /\ \A slot \in Slots : /\ slot = <<slot[1], slot[2]>> /\ slot[1] \in 1..LastRound
                                /\ slot[2] \in 1..draw.shape[slot[1]].heats
BY ShapeFacts

LEMMA DrawHeatsFacts ==
  ASSUME NEW field, NEW size, NEW heats \in Nat, NEW p
  PROVE  /\ DOMAIN DrawHeats(field, size, heats, p).heats = 1..heats
         /\ Len(DrawHeats(field, size, heats, p).heats) = heats
BY DEF DrawHeats

(* A round that may be played has the heats its bracket gives it, and its  *)
(* draw leaves the generator where the next round expects it.              *)
LEMMA DrawFacts ==
  ASSUME Inv, draw # None, NEW r, Ready(r)
  PROVE  /\ r \in 1..LastRound /\ draw.shape[r].heats \in Nat \ {0}
         /\ Len(DrawOf(r).heats) = draw.shape[r].heats
         /\ DOMAIN DrawOf(r).heats = 1..draw.shape[r].heats
         /\ RoundDraw(r, Positions(draw.shape)[r]).next = Positions(draw.shape)[r + 1]
<1> DEFINE n == draw.shape[r].heats
           p == Positions(draw.shape)[r]
<1>1. r \in 1..LastRound /\ n \in Nat \ {0}
  BY ShapeFacts DEF Ready
<1>2. LastRound = Len(draw.shape) /\ LastRound \in Nat /\ LastRound >= 1
  BY ShapeFacts DEF LastRound
<1>3. CASE r = 1
  <2>1. DOMAIN DrawOf(1).heats = 1..n
    BY <1>3 DEF DrawOf, RoundDraw, Inv, DrawOK
  <2>2. RoundDraw(1, p).next = p + 1
    BY DEF RoundDraw
  <2>3. Positions(draw.shape)[1] = 0 /\ Positions(draw.shape)[2] = 1
    BY <1>2, PositionsAre
  <2>4. Len(DrawOf(1).heats) = n
    BY <1>1, <2>1
  <2> QED BY <1>1, <1>3, <2>1, <2>2, <2>3, <2>4
<1>4. CASE r # 1
  <2>1. Len(Advancing(r)) \div Size = n /\ r \in 2..LastRound
    BY <1>1, <1>2, <1>4, ShapeFacts DEF Ready
  <2>2. /\ RoundDraw(r, p).draw = DrawHeats(Rotated(Advancing(r), p), Size, n, p)
        /\ RoundDraw(r, p).next = p + 1 + n
    BY <1>4, <2>1 DEF RoundDraw
  <2>3. Positions(draw.shape)[r + 1] = p + 1 + n
    BY <1>2, <2>1, PositionsAre
  <2> QED BY <1>1, <2>2, <2>3, DrawHeatsFacts DEF DrawOf
<1> QED BY <1>3, <1>4

-----------------------------------------------------------------------------
(* Sequences of whatever elements. *)

LEMMA OfSeq ==
  ASSUME NEW R, NEW s \in Seq(R)
  PROVE  IsSeq(s)
BY DEF IsSeq

LEMMA SeqFacts ==
  ASSUME NEW s, IsSeq(s)
  PROVE  s \in Seq(Range(s)) /\ Len(s) \in Nat /\ DOMAIN s = 1..Len(s)
<1>1. DOMAIN s = 1..Len(s)
  BY DEF IsSeq
<1>2. s \in [1..Len(s) -> Range(s)]
  BY <1>1 DEF IsSeq, Range
<1> QED BY <1>1, <1>2 DEF IsSeq

LEMMA EmptySeqFacts ==
  IsSeq(<<>>) /\ Len(<<>>) = 0 /\ \A x : IsSeq(<<x>>) /\ Len(<<x>>) = 1 /\ <<x>>[1] = x
BY DEF IsSeq

LEMMA AppendFacts ==
  ASSUME NEW s, IsSeq(s), NEW x
  PROVE  /\ IsSeq(Append(s, x)) /\ Len(Append(s, x)) = Len(s) + 1
         /\ \A i \in 1..Len(s) : Append(s, x)[i] = s[i]
         /\ Append(s, x)[Len(s) + 1] = x
<1> DEFINE R == Range(s) \cup {x}
<1>1. s \in [1..Len(s) -> R] /\ Len(s) \in Nat
  BY DEF IsSeq, Range
<1>2. s \in Seq(R) /\ x \in R
  BY <1>1
<1> HIDE DEF R
<1>3. /\ Append(s, x) \in Seq(R) /\ Len(Append(s, x)) = Len(s) + 1
      /\ \A i \in 1..Len(s) : Append(s, x)[i] = s[i]
      /\ Append(s, x)[Len(s) + 1] = x
  BY <1>2, AppendProperties
<1>4. IsSeq(Append(s, x))
  BY <1>3, OfSeq
<1> QED BY <1>3, <1>4

LEMMA ReplaceFacts ==
  ASSUME NEW s, IsSeq(s), NEW i \in 1..Len(s), NEW x
  PROVE  /\ IsSeq([s EXCEPT ![i] = x]) /\ Len([s EXCEPT ![i] = x]) = Len(s)
         /\ [s EXCEPT ![i] = x][i] = x
         /\ \A j \in 1..Len(s) : j # i => [s EXCEPT ![i] = x][j] = s[j]
<1>1. DOMAIN s = 1..Len(s) /\ Len(s) \in Nat
  BY SeqFacts
<1> DEFINE t == [s EXCEPT ![i] = x]
<1>2. DOMAIN t = 1..Len(s) /\ t = [j \in 1..Len(s) |-> t[j]]
  BY <1>1
<1>3. t[i] = x /\ \A j \in 1..Len(s) : j # i => t[j] = s[j]
  BY <1>1
<1> HIDE DEF t
<1>4. Len(t) = Len(s)
  BY <1>1, <1>2
<1> QED BY <1>1, <1>2, <1>3, <1>4 DEF IsSeq, t

-----------------------------------------------------------------------------
(* What a step leaves alone. *)

(* The rounds that are over stay as they are. *)
Kept ==
  /\ file' = file /\ draw' = draw
  /\ \A r \in 1..Len(week.rounds) :
       Finished(r) => r \in 1..Len(week'.rounds) /\ week'.rounds[r] = week.rounds[r]

LEMMA Carry ==
  ASSUME Kept
  PROVE  /\ plan' = plan /\ Size' = Size /\ Rules' = Rules /\ Slots' = Slots
         /\ LastRound' = LastRound
         /\ \A r \in 1..Len(week.rounds) : Finished(r) => Finished(r)'
         /\ \A r : Ready(r) => Ready(r)' /\ DrawOf(r)' = DrawOf(r)
<1>1. plan' = plan /\ Size' = Size /\ Rules' = Rules /\ LastRound' = LastRound
  BY DEF Kept, plan, Size, Rules, LastRound
<1>2. Slots' = Slots
  BY <1>1 DEF Kept, Slots, Drawable, Entrants, Listed, plan, Size
<1>3. ASSUME NEW r \in 1..Len(week.rounds), Finished(r)
      PROVE  Finished(r)' /\ Advancing(r + 1)' = Advancing(r + 1) /\ r \in 1..Len(week'.rounds)
  <2>1. r \in 1..Len(week'.rounds) /\ week'.rounds[r] = week.rounds[r]
    BY <1>3 DEF Kept
  <2>2. Promotions(r)' = Promotions(r)
    BY <2>1 DEF Kept, Promotions, Fleet
  <2>3. Finished(r)'
    BY <1>3, <2>1, <2>2 DEF Kept, Finished
  <2>4. (r + 1) - 1 = r
    OBVIOUS
  <2>5. Advancing(r + 1)' = Advancing(r + 1)
    BY <2>1, <2>4 DEF Advancing
  <2> QED BY <2>1, <2>3, <2>5
<1>4. ASSUME NEW r, Ready(r) PROVE Ready(r)' /\ DrawOf(r)' = DrawOf(r)
  <2>1. CASE r = 1
    <3>1. Ready(r)'
      BY <1>1, <1>4, <2>1 DEF Ready
    <3>2. DrawOf(r)' = DrawOf(r)
      BY <2>1 DEF Kept, DrawOf, RoundDraw
    <3> QED BY <3>1, <3>2
  <2>2. CASE r # 1
    <3>1. r - 1 \in 1..Len(week.rounds) /\ Finished(r - 1) /\ r \in 1..LastRound
          /\ Len(Advancing(r)) = FieldOf(draw.shape[r], Size)
      BY <1>4, <2>2 DEF Ready
    <3>2. (r - 1) + 1 = r
      BY <3>1
    <3>3. Finished(r - 1)' /\ Advancing(r)' = Advancing(r) /\ r - 1 \in 1..Len(week'.rounds)
      BY <1>3, <3>1, <3>2
    <3>4. Ready(r)'
      BY <1>1, <3>1, <3>3 DEF Ready, Kept
    <3>5. DrawOf(r)' = DrawOf(r)
      BY <1>1, <2>2, <3>3 DEF Kept, DrawOf, RoundDraw
    <3> QED BY <3>4, <3>5
  <2> QED BY <2>1, <2>2
<1> QED BY <1>1, <1>2, <1>3, <1>4

LEMMA CarryRound ==
  ASSUME Inv, Kept, NEW r \in 1..Len(week.rounds), week'.rounds[r] = week.rounds[r]
  PROVE  RoundOK(r)'
<1>1. RoundOK(r) /\ Ready(r)
  BY DEF Inv, WeekOK, RoundOK
<1>2. /\ Ready(r)' /\ DrawOf(r)' = DrawOf(r) /\ Rules' = Rules
      /\ (Finished(r) => Finished(r)')
  BY <1>1, Carry
<1> QED BY <1>1, <1>2 DEF RoundOK, Kept

LEMMA SameDraw ==
  ASSUME Inv, UNCHANGED <<file, draw>>
  PROVE  DrawOK'
<1>1. Size' = Size /\ Entrants' = Entrants /\ Drawable' = Drawable
  BY DEF Size, Entrants, Drawable, Listed, plan
<1> QED BY <1>1 DEF Inv, DrawOK

LEMMA SameWeek ==
  ASSUME Inv, UNCHANGED <<file, draw, week>>
  PROVE  Kept /\ DrawOK' /\ WeekOK'
<1>1. Kept
  BY DEF Kept
<1>2. \A r \in 1..Len(week.rounds) : RoundOK(r)'
  BY <1>1, CarryRound
<1>3. WeekOK'
  BY <1>2 DEF Inv, WeekOK
<1> QED BY <1>1, <1>3, SameDraw

LEMMA SameJournal ==
  ASSUME Inv, Kept, UNCHANGED journal
  PROVE  JournalOK'
<1>1. plan' = plan /\ Slots' = Slots
      /\ \A r : Ready(r) => Ready(r)' /\ DrawOf(r)' = DrawOf(r)
  BY Carry
<1> QED BY <1>1 DEF Inv, JournalOK

LEMMA SameArtifacts ==
  ASSUME Inv, Kept, UNCHANGED <<journal, artifacts>>
  PROVE  ArtifactsOK'
<1>1. Slots' = Slots
  BY Carry
<1> QED BY <1>1 DEF Inv, ArtifactsOK

(* The files stay as they are and the process ends.                        *)
LEMMA EndsQuietly ==
  ASSUME Inv, UNCHANGED <<file, draw, week, journal, artifacts>>, pc' = "off"
  PROVE  Inv'
<1>1. Kept /\ DrawOK' /\ WeekOK'
  BY SameWeek
<1>2. JournalOK' /\ ArtifactsOK' /\ Slots' = Slots
  BY <1>1, SameJournal, SameArtifacts, Carry
<1>3. UndrawnOK'
  BY <1>2 DEF Inv, UndrawnOK
<1>4. EnteringOK' /\ PlayingOK' /\ HeatOK'
  BY DEF EnteringOK, PlayingOK, HeatOK
<1> QED BY <1>1, <1>2, <1>3, <1>4 DEF Inv

-----------------------------------------------------------------------------
(* One lemma for each action. *)

LEMMA InitInv == Init => Inv
<1> SUFFICES ASSUME Init PROVE Inv
  OBVIOUS
<1> USE DEF Init
<1>1. DrawOK /\ UndrawnOK
  BY DEF DrawOK, UndrawnOK, NewWeek
<1>2. WeekOK
  <2>1. week = NewWeek /\ week.rounds = <<>>
    BY DEF NewWeek
  <2>2. \A r \in 1..Len(week.rounds) : RoundOK(r)
    BY <2>1
  <2> QED BY <2>1, <2>2, EmptySeqFacts DEF WeekOK, NewWeek
<1>3. JournalOK /\ ArtifactsOK
  BY DEF JournalOK, ArtifactsOK
<1>4. EnteringOK /\ PlayingOK /\ HeatOK
  BY DEF EnteringOK, PlayingOK, HeatOK
<1> QED BY <1>1, <1>2, <1>3, <1>4 DEF Inv

LEMMA WriteSecretInv ==
  ASSUME Inv, WriteSecret
  PROVE  Inv'
<1>1. UNCHANGED <<file, draw, week, journal, artifacts>> /\ pc' = "drawing" /\ draw = None
  BY DEF WriteSecret
<1>2. Kept /\ DrawOK' /\ WeekOK'
  BY <1>1, SameWeek
<1>3. JournalOK' /\ ArtifactsOK' /\ Slots' = Slots
  BY <1>1, <1>2, SameJournal, SameArtifacts, Carry
<1>4. UndrawnOK'
  <2>1. Drawable /\ Drawable' = Drawable
    BY <1>1 DEF WriteSecret, Drawable, Size, Entrants, Listed, plan
  <2> QED BY <1>1, <1>3, <2>1 DEF Inv, UndrawnOK
<1>5. EnteringOK' /\ PlayingOK' /\ HeatOK'
  BY <1>1 DEF EnteringOK, PlayingOK, HeatOK
<1> QED BY <1>1, <1>2, <1>3, <1>4, <1>5 DEF Inv

LEMMA WriteDrawInv ==
  ASSUME Inv, WriteDraw
  PROVE  Inv'
<1>1. /\ UNCHANGED <<file, week, journal, artifacts>> /\ pc' = "off"
      /\ week.rounds = <<>> /\ \A slot \in Slots : journal[slot] = None
      /\ Drawable
  BY DEF WriteDraw, Inv, UndrawnOK
<1>2. /\ Slots' = Slots /\ Size' = Size /\ Entrants' = Entrants /\ Drawable' = Drawable
  BY <1>1 DEF Slots, Size, Entrants, Drawable, Listed, plan
<1>3. DrawOK'
  <2> DEFINE shape == BracketShape(Entrants, Size)
  <2>1. IsBracket(shape, Entrants, Size)
    BY <1>1, DrawableFacts DEF Inv
  <2> HIDE DEF shape
  <2>2. shape[1].heats \in Nat
    <3>1. shape \in Seq(RoundShapes) /\ Len(shape) >= 1
      BY <2>1 DEF IsBracket
    <3>2. shape[1] \in RoundShapes
      BY <3>1
    <3> QED BY <3>2 DEF RoundShapes
  <2> DEFINE first == DrawHeats(SelectEntrants, Size, shape[1].heats, 0)
  <2>3. DOMAIN first.heats = 1..shape[1].heats
    BY <2>2, DrawHeatsFacts
  <2> HIDE DEF first
  <2>4. draw'.shape = shape /\ draw'.first = first
    BY DEF WriteDraw, shape, first
  <2> QED BY <1>1, <1>2, <2>3, <2>4 DEF DrawOK, shape
<1>4. WeekOK' /\ JournalOK' /\ ArtifactsOK' /\ UndrawnOK'
  <2>1. \A r \in 1..Len(week.rounds) : FALSE
    BY <1>1
  <2>2. WeekOK'
    BY <1>1, <2>1 DEF WeekOK, Inv
  <2>3. JournalOK' /\ ArtifactsOK'
    BY <1>1, <1>2 DEF JournalOK, ArtifactsOK, Inv
  <2> QED BY <1>1, <1>2, <2>2, <2>3 DEF UndrawnOK
<1>5. EnteringOK' /\ PlayingOK' /\ HeatOK'
  BY <1>1 DEF EnteringOK, PlayingOK, HeatOK
<1> QED BY <1>1, <1>3, <1>4, <1>5 DEF Inv

LEMMA StartWeekInv ==
  ASSUME Inv, StartWeek
  PROVE  Inv'
<1>1. /\ UNCHANGED <<file, draw, week, journal, artifacts>>
      /\ pc' = "entering" /\ round' = 1 /\ rng' = 0 /\ draw # None
  BY DEF StartWeek, disk
<1>2. Kept /\ DrawOK' /\ WeekOK'
  BY <1>1, SameWeek
<1>3. JournalOK' /\ ArtifactsOK' /\ Slots' = Slots /\ LastRound' = LastRound
  BY <1>1, <1>2, SameJournal, SameArtifacts, Carry
<1>4. UndrawnOK'
  BY <1>1, <1>3 DEF Inv, UndrawnOK
<1>5. EnteringOK'
  <2>1. LastRound \in Nat /\ LastRound = Len(draw.shape) /\ Len(week.rounds) \in Nat
    BY <1>1, ShapeFacts DEF LastRound, Inv, WeekOK, IsSeq
  <2>2. Positions(draw.shape)[1] = 0
    BY <2>1, PositionsAre
  <2> QED BY <1>1, <1>3, <2>1, <2>2 DEF EnteringOK
<1>6. PlayingOK' /\ HeatOK'
  BY <1>1 DEF PlayingOK, HeatOK
<1> QED BY <1>1, <1>2, <1>3, <1>4, <1>5, <1>6 DEF Inv

LEMMA EnterRoundInv ==
  ASSUME Inv, EnterRound
  PROVE  Inv'
<1>1. /\ UNCHANGED <<file, draw, week, journal, artifacts, round>>
      /\ pc = "entering" /\ pc' = "heats" /\ round <= LastRound
      /\ round # 1 => Len(Advancing(round)) = FieldOf(draw.shape[round], Size)
      /\ drawn' = RoundDraw(round, rng).draw /\ rng' = RoundDraw(round, rng).next
  BY DEF EnterRound, disk, Fills
<1>2. Kept /\ DrawOK' /\ WeekOK'
  BY <1>1, SameWeek
<1>3. JournalOK' /\ ArtifactsOK' /\ Slots' = Slots
      /\ \A r : Ready(r) => Ready(r)' /\ DrawOf(r)' = DrawOf(r)
  BY <1>1, <1>2, SameJournal, SameArtifacts, Carry
<1>4. draw # None
  BY <1>1 DEF Inv, UndrawnOK
<1>5. /\ round \in 1..LastRound + 1 /\ round <= Len(week.rounds) + 1
      /\ (round # 1 => Finished(round - 1)) /\ rng = Positions(draw.shape)[round]
  BY <1>1 DEF Inv, EnteringOK
<1>6. Ready(round)
  <2>1. LastRound \in Nat /\ Len(week.rounds) \in Nat
    BY <1>4, ShapeFacts DEF Inv, WeekOK, IsSeq
  <2>2. round \in 1..LastRound /\ (round # 1 => round - 1 \in 1..Len(week.rounds))
    BY <1>1, <1>5, <2>1
  <2> QED BY <1>1, <1>5, <2>2 DEF Ready
<1>7. PlayingOK'
  <2>1. RoundDraw(round, rng).next = Positions(draw.shape)[round + 1]
        /\ RoundDraw(round, rng).draw = DrawOf(round)
    BY <1>4, <1>5, <1>6, DrawFacts DEF DrawOf
  <2>2. Ready(round)' /\ DrawOf(round)' = DrawOf(round)
    BY <1>1, <1>3, <1>6
  <2> QED BY <1>1, <1>5, <2>1, <2>2 DEF PlayingOK
<1>8. UndrawnOK' /\ EnteringOK' /\ HeatOK'
  BY <1>1, <1>3, <1>4 DEF UndrawnOK, EnteringOK, HeatOK
<1> QED BY <1>1, <1>2, <1>3, <1>7, <1>8 DEF Inv

(* The process in a round, and the heat it is at. *)
LEMMA InPlay ==
  ASSUME Inv, pc \in {"heats", "match", "settled"}
  PROVE  /\ draw # None /\ Ready(round) /\ round \in 1..LastRound
         /\ round <= Len(week.rounds) + 1 /\ Len(week.rounds) \in Nat
         /\ drawn = DrawOf(round) /\ Len(drawn.heats) = draw.shape[round].heats
         /\ draw.shape[round].heats \in Nat \ {0}
         /\ IsSeq(RecordedHeats) /\ Len(RecordedHeats) <= Len(drawn.heats)
         /\ HeatsLeft => /\ Current \in Slots /\ Current[1] = round
                         /\ Current[2] = Len(RecordedHeats) + 1
                         /\ Seats = DrawOf(round).heats[Current[2]]
<1>1. draw # None /\ Ready(round) /\ drawn = DrawOf(round) /\ round <= Len(week.rounds) + 1
  BY DEF Inv, UndrawnOK, PlayingOK
<1>2. /\ round \in 1..LastRound /\ Len(drawn.heats) = draw.shape[round].heats
      /\ draw.shape[round].heats \in Nat \ {0}
  BY <1>1, DrawFacts
<1>3. Len(week.rounds) \in Nat
  BY DEF Inv, WeekOK, IsSeq
<1>4. IsSeq(RecordedHeats) /\ Len(RecordedHeats) <= Len(drawn.heats)
  <2>1. CASE round <= Len(week.rounds)
    <3>1. round \in 1..Len(week.rounds)
      BY <1>2, <1>3, <2>1
    <3>2. RoundOK(round) /\ RecordedHeats = week.rounds[round].heats
      BY <2>1, <3>1 DEF Inv, WeekOK, RecordedHeats
    <3> QED BY <1>2, <3>2 DEF RoundOK
  <2>2. CASE ~(round <= Len(week.rounds))
    BY <1>2, <2>2, EmptySeqFacts DEF RecordedHeats
  <2> QED BY <2>1, <2>2
<1>5. ASSUME HeatsLeft
      PROVE  /\ Current \in Slots /\ Current[1] = round
             /\ Current[2] = Len(RecordedHeats) + 1
             /\ Seats = DrawOf(round).heats[Current[2]]
  <2>1. Current = <<round, Len(RecordedHeats) + 1>>
    BY DEF Current
  <2>2. Len(RecordedHeats) + 1 \in 1..draw.shape[round].heats
    BY <1>2, <1>4, <1>5 DEF HeatsLeft, IsSeq
  <2>3. Current \in Slots
    BY <1>1, <1>2, <2>1, <2>2, SlotFacts
  <2> QED BY <1>1, <2>1, <2>3 DEF Seats
<1> QED BY <1>1, <1>2, <1>3, <1>4, <1>5

LEMMA KindFacts == \A standings : Kind(standings) \in Kinds
BY DEF Kind, Kinds

(* The attempts the journal counts come before the one that is played.     *)
LEMMA AttemptFacts ==
  ASSUME Inv, pc \in {"heats", "match"}, HeatsLeft
  PROVE  /\ Prior \in Seq(Kinds) /\ AttemptNumber = Len(Prior) + 1
         /\ Len(Prior) \in Nat
         /\ journal[Current] # None => Attempts(journal[Current]) = Len(Prior)
         /\ journal[Current] = None => Prior = <<>>
<1>1. Current \in Slots
  BY InPlay
<1>2. CASE journal[Current] = None
  BY <1>2 DEF Prior, AttemptNumber
<1>3. CASE journal[Current] # None
  <2>1. journal[Current].prior \in Seq(Kinds)
    BY <1>1, <1>3 DEF Inv, JournalOK, IsResult
  <2> DEFINE kind == Kind(journal[Current].standings)
  <2>2. kind \in Kinds
    BY KindFacts
  <2>3. Prior = Append(journal[Current].prior, kind)
    BY <1>3 DEF Prior
  <2> HIDE DEF kind
  <2> QED BY <1>3, <2>1, <2>2, <2>3 DEF AttemptNumber, Attempts
<1> QED BY <1>2, <1>3

(* Only the directory of the attempt that is played is touched.            *)
LEMMA TouchesOne ==
  ASSUME Inv, pc \in {"heats", "match"}, HeatsLeft, Kept, UNCHANGED journal, NEW new,
         artifacts' = [artifacts EXCEPT ![Current] = new],
         \A a \in DOMAIN artifacts[Current] \ {AttemptNumber} :
            a \in DOMAIN new /\ new[a] = artifacts[Current][a]
  PROVE  ArtifactsOK'
<1>1. Slots' = Slots
  BY Carry
<1>2. /\ artifacts = [slot \in Slots |-> artifacts[slot]]
      /\ \A slot \in Slots :
           journal[slot] # None =>
             \A a \in 1..Attempts(journal[slot]) :
               a \in DOMAIN artifacts[slot] /\ artifacts[slot][a] = "whole"
  BY DEF Inv, ArtifactsOK
<1>3. artifacts' = [slot \in Slots |-> artifacts'[slot]]
  BY <1>2
<1>4. ASSUME NEW slot \in Slots, journal[slot] # None, NEW a \in 1..Attempts(journal[slot])
      PROVE  a \in DOMAIN artifacts'[slot] /\ artifacts'[slot][a] = "whole"
  <2>1. CASE slot = Current
    <3>1. a # AttemptNumber
      BY <1>4, <2>1, AttemptFacts
    <3>2. a \in DOMAIN artifacts[Current] /\ artifacts[Current][a] = "whole"
      BY <1>2, <1>4, <2>1
    <3>3. artifacts'[Current] = new
      BY <1>2, <1>4, <2>1
    <3> QED BY <2>1, <3>1, <3>2, <3>3
  <2>2. CASE slot # Current
    BY <1>2, <1>4, <2>2
  <2> QED BY <2>1, <2>2
<1> QED BY <1>1, <1>3, <1>4 DEF ArtifactsOK

LEMMA StartAttemptInv ==
  ASSUME Inv, StartAttempt
  PROVE  Inv'
<1>1. /\ UNCHANGED <<file, draw, week, journal, round, drawn, rng>>
      /\ pc = "heats" /\ pc' = "match" /\ HeatsLeft /\ MayPlay
      /\ artifacts' = WithAttempt
  BY DEF StartAttempt
<1>2. Kept /\ DrawOK' /\ WeekOK'
  BY <1>1, SameWeek
<1>3. JournalOK' /\ Slots' = Slots
      /\ \A r : Ready(r) => Ready(r)' /\ DrawOf(r)' = DrawOf(r)
  BY <1>1, <1>2, SameJournal, Carry
<1> DEFINE new == [a \in DOMAIN artifacts[Current] \cup {AttemptNumber} |->
                     IF a = AttemptNumber THEN "running" ELSE artifacts[Current][a]]
<1>4. artifacts' = [artifacts EXCEPT ![Current] = new]
  BY <1>1 DEF WithAttempt
<1>5. AttemptNumber \in DOMAIN new
      /\ \A a \in DOMAIN artifacts[Current] \ {AttemptNumber} :
           a \in DOMAIN new /\ new[a] = artifacts[Current][a]
  OBVIOUS
<1> HIDE DEF new
<1>6. ArtifactsOK'
  BY <1>1, <1>2, <1>4, <1>5, TouchesOne
<1>7. draw # None /\ Ready(round) /\ Current \in Slots
  BY <1>1, InPlay
<1>8. PlayingOK'
  BY <1>1, <1>3, <1>7 DEF Inv, PlayingOK
<1>9. HeatOK'
  <2>1. Current' = Current /\ AttemptNumber' = AttemptNumber
    BY <1>1 DEF Current, AttemptNumber, RecordedHeats, Prior
  <2>2. HeatsLeft' /\ MayPlay'
    BY <1>1, <2>1 DEF HeatsLeft, MayPlay, RecordedHeats, Rules, plan
  <2>3. artifacts'[Current] = new
    BY <1>4, <1>7 DEF Inv, ArtifactsOK
  <2> QED BY <1>1, <1>5, <2>1, <2>2, <2>3 DEF HeatOK
<1>10. UndrawnOK' /\ EnteringOK'
  BY <1>1, <1>7 DEF UndrawnOK, EnteringOK
<1> QED BY <1>1, <1>2, <1>3, <1>6, <1>8, <1>9, <1>10 DEF Inv

LEMMA NoPortsInv ==
  ASSUME Inv, NoPorts
  PROVE  Inv'
<1>1. /\ UNCHANGED <<file, draw, week, journal>>
      /\ pc = "heats" /\ pc' = "off" /\ HeatsLeft
      /\ \/ artifacts' = WithAttempt
         \/ artifacts' = [artifacts EXCEPT ![Current] =
                            [a \in DOMAIN artifacts[Current] \ {AttemptNumber} |->
                               artifacts[Current][a]]]
  BY DEF NoPorts, Exit
<1>2. Kept /\ DrawOK' /\ WeekOK'
  BY <1>1, SameWeek
<1>3. JournalOK' /\ Slots' = Slots
  BY <1>1, <1>2, SameJournal, Carry
<1>4. ArtifactsOK'
  <2>1. CASE artifacts' = WithAttempt
    <3> DEFINE new == [a \in DOMAIN artifacts[Current] \cup {AttemptNumber} |->
                         IF a = AttemptNumber THEN "running" ELSE artifacts[Current][a]]
    <3>1. artifacts' = [artifacts EXCEPT ![Current] = new]
      BY <2>1 DEF WithAttempt
    <3>2. \A a \in DOMAIN artifacts[Current] \ {AttemptNumber} :
             a \in DOMAIN new /\ new[a] = artifacts[Current][a]
      OBVIOUS
    <3> HIDE DEF new
    <3> QED BY <1>1, <1>2, <3>1, <3>2, TouchesOne
  <2>2. CASE artifacts' = [artifacts EXCEPT ![Current] =
                             [a \in DOMAIN artifacts[Current] \ {AttemptNumber} |->
                                artifacts[Current][a]]]
    <3> DEFINE new == [a \in DOMAIN artifacts[Current] \ {AttemptNumber} |->
                         artifacts[Current][a]]
    <3>1. artifacts' = [artifacts EXCEPT ![Current] = new]
      BY <2>2
    <3>2. \A a \in DOMAIN artifacts[Current] \ {AttemptNumber} :
             a \in DOMAIN new /\ new[a] = artifacts[Current][a]
      OBVIOUS
    <3> HIDE DEF new
    <3> QED BY <1>1, <1>2, <3>1, <3>2, TouchesOne
  <2> QED BY <1>1, <2>1, <2>2
<1>5. draw # None
  BY <1>1, InPlay
<1>6. UndrawnOK' /\ EnteringOK' /\ PlayingOK' /\ HeatOK'
  BY <1>1, <1>5 DEF UndrawnOK, EnteringOK, PlayingOK, HeatOK
<1> QED BY <1>1, <1>2, <1>3, <1>4, <1>6 DEF Inv

LEMMA CountFacts ==
  ASSUME NEW kinds \in Seq(Kinds), NEW kind \in Kinds, NEW other
  PROVE  /\ Count(kinds, other) \in Nat
         /\ Count(Append(kinds, kind), other)
              = IF other = kind THEN Count(kinds, other) + 1 ELSE Count(kinds, other)
<1> DEFINE n == Len(kinds)
           T == {i \in DOMAIN kinds : kinds[i] = other}
           U == {i \in DOMAIN Append(kinds, kind) : Append(kinds, kind)[i] = other}
<1>1. n \in Nat /\ DOMAIN kinds = 1..n
  OBVIOUS
<1>2. DOMAIN Append(kinds, kind) = 1..n + 1
      /\ (\A i \in 1..n : Append(kinds, kind)[i] = kinds[i])
      /\ Append(kinds, kind)[n + 1] = kind
  OBVIOUS
<1>3. IsFiniteSet(T)
  <2>1. IsFiniteSet(1..n) /\ T \subseteq 1..n
    BY <1>1, FS_Interval
  <2> QED BY <2>1, FS_Subset
<1>4. n + 1 \notin T
  BY <1>1
<1>5. U = IF other = kind THEN T \cup {n + 1} ELSE T
  BY <1>1, <1>2
<1>6. Cardinality(T) \in Nat /\ Cardinality(T \cup {n + 1}) = Cardinality(T) + 1
  BY <1>3, <1>4, FS_CardinalityType, FS_AddElement
<1>7. Count(kinds, other) = Cardinality(T) /\ Count(Append(kinds, kind), other) = Cardinality(U)
  BY DEF Count
<1> HIDE DEF T, U
<1> QED BY <1>5, <1>6, <1>7

LEMMA CountNone == \A kind : Count(<<>>, kind) = 0
<1>1. \A kind : {i \in DOMAIN <<>> : <<>>[i] = kind} = {}
  OBVIOUS
<1> QED BY <1>1, FS_EmptySet DEF Count

(* What a match adds to the journal. *)
LEMMA ResultFacts ==
  ASSUME NEW seats, NEW prior \in Seq(Kinds), NEW world, NEW rules
  PROVE  LET result == SettleForfeit(HeatResult(seats, prior, world), rules)
         IN IsResult(result) /\ result.seats = seats /\ result.prior = prior
<1> DEFINE played == HeatResult(seats, prior, world)
           settled == [played EXCEPT !.winner = DecideWinner(played.standings)]
<1>1. IsResult(played) /\ played.seats = seats /\ played.prior = prior
  BY DEF HeatResult, IsResult
<1> HIDE DEF played
<1>2. IsResult(settled) /\ settled.seats = seats /\ settled.prior = prior
  <2> DEFINE w == DecideWinner(played.standings)
  <2> HIDE DEF w
  <2>1. [played EXCEPT !.winner = w]
          = [seats |-> played.seats, prior |-> played.prior, standings |-> played.standings,
             winner |-> w, aborted |-> played.aborted]
    BY <1>1 DEF IsResult
  <2> QED BY <1>1, <2>1 DEF IsResult, w
<1>3. SettleForfeit(played, rules) = played \/ SettleForfeit(played, rules) = settled
  BY DEF SettleForfeit
<1> HIDE DEF settled
<1> QED BY <1>1, <1>2, <1>3 DEF played

(* A replay is due only while its kind is within its allowance. *)
LEMMA PriorIsBounded ==
  ASSUME Inv, pc = "match"
  PROVE  /\ Count(Prior, "unavailable") <= plan.unavailable
         /\ Count(Prior, "draw") <= plan.draw
         /\ Count(Prior, "decided") = 0
<1>1. HeatsLeft /\ MayPlay /\ Current \in Slots
  BY InPlay DEF Inv, HeatOK
<1>2. plan.unavailable \in Nat /\ plan.draw \in Nat
  BY PlanFacts DEF Inv
<1>3. CASE journal[Current] = None
  <2>1. Prior = <<>>
    BY <1>3 DEF Prior
  <2> QED BY <1>2, <2>1, CountNone
<1>4. CASE journal[Current] # None
  <2> DEFINE prior == journal[Current].prior
             kind == Kind(journal[Current].standings)
  <2>1. NeedsReplay(journal[Current], Rules)
    BY <1>1, <1>4 DEF MayPlay
  <2>2. \/ kind = "unavailable" /\ 1 + Count(prior, kind) <= plan.unavailable
        \/ kind = "draw" /\ 1 + Count(prior, kind) <= plan.draw
    BY <2>1 DEF NeedsReplay, Rules
  <2>3. /\ prior \in Seq(Kinds)
        /\ Count(prior, "unavailable") <= plan.unavailable
        /\ Count(prior, "draw") <= plan.draw
        /\ Count(prior, "decided") = 0
    BY <1>1, <1>4 DEF Inv, JournalOK, IsResult
  <2>4. kind \in Kinds
    BY KindFacts
  <2>5. Prior = Append(prior, kind)
    BY <1>4 DEF Prior
  <2> HIDE DEF prior, kind
  <2>6. ASSUME NEW other
        PROVE  /\ Count(prior, other) \in Nat
               /\ Count(Prior, other)
                    = IF other = kind THEN Count(prior, other) + 1 ELSE Count(prior, other)
    BY <2>3, <2>4, <2>5, CountFacts
  <2>7. Count(Prior, "unavailable") <= plan.unavailable
    BY <1>2, <2>2, <2>3, <2>6
  <2>8. Count(Prior, "draw") <= plan.draw
    BY <1>2, <2>2, <2>3, <2>6
  <2>9. Count(Prior, "decided") = 0
    BY <2>2, <2>3, <2>6
  <2> QED BY <2>7, <2>8, <2>9
<1> QED BY <1>3, <1>4

LEMMA EndAttemptInv ==
  ASSUME Inv, pc = "match", NEW world, EndAttempt(world)
  PROVE  Inv'
<1> DEFINE result == SettleForfeit(HeatResult(Seats, Prior, world), Rules)
<1>1. /\ UNCHANGED <<file, draw, week, round, drawn, rng>> /\ pc' = "heats"
      /\ journal' = [journal EXCEPT ![Current] = result]
      /\ artifacts' = [artifacts EXCEPT ![Current][AttemptNumber] = "whole"]
  BY DEF EndAttempt
<1>2. Kept /\ DrawOK' /\ WeekOK'
  BY <1>1, SameWeek
<1>3. Slots' = Slots /\ plan' = plan
      /\ \A r : Ready(r) => Ready(r)' /\ DrawOf(r)' = DrawOf(r)
  BY <1>2, Carry
<1>4. HeatsLeft /\ AttemptNumber \in DOMAIN artifacts[Current]
  BY DEF Inv, HeatOK
<1>5. /\ draw # None /\ Ready(round) /\ Current \in Slots /\ Current[1] = round
      /\ Seats = DrawOf(round).heats[Current[2]]
  BY <1>4, InPlay
<1>6. /\ Prior \in Seq(Kinds) /\ AttemptNumber = Len(Prior) + 1 /\ Len(Prior) \in Nat
      /\ (journal[Current] # None => Attempts(journal[Current]) = Len(Prior))
      /\ (journal[Current] = None => Prior = <<>>)
  BY <1>4, AttemptFacts
<1>7. IsResult(result) /\ result.seats = Seats /\ result.prior = Prior
  BY <1>6, ResultFacts
<1> HIDE DEF result
<1>8. JournalOK'
  <2>1. journal = [slot \in Slots |-> journal[slot]]
    BY DEF Inv, JournalOK
  <2>2. journal' = [slot \in Slots |-> journal'[slot]] /\ journal'[Current] = result
        /\ \A slot \in Slots : slot # Current => journal'[slot] = journal[slot]
    BY <1>1, <1>5, <2>1
  <2>3. ASSUME NEW slot \in Slots, journal'[slot] # None
        PROVE  /\ IsResult(journal'[slot])
               /\ Count(journal'[slot].prior, "unavailable") <= plan.unavailable
               /\ Count(journal'[slot].prior, "draw") <= plan.draw
               /\ Count(journal'[slot].prior, "decided") = 0
               /\ Ready(slot[1])'
               /\ journal'[slot].seats = DrawOf(slot[1])'.heats[slot[2]]
    <3>1. CASE slot = Current
      BY <1>3, <1>5, <1>7, <2>2, <3>1, PriorIsBounded
    <3>2. CASE slot # Current
      BY <1>3, <2>2, <2>3, <3>2 DEF Inv, JournalOK
    <3> QED BY <3>1, <3>2
  <2> QED BY <1>3, <2>2, <2>3 DEF JournalOK
<1>9. ArtifactsOK'
  <2>1. artifacts = [slot \in Slots |-> artifacts[slot]]
    BY DEF Inv, ArtifactsOK
  <2> DEFINE new == [artifacts[Current] EXCEPT ![AttemptNumber] = "whole"]
  <2>2. /\ DOMAIN new = DOMAIN artifacts[Current]
        /\ \A a \in DOMAIN new : new[a] = IF a = AttemptNumber THEN "whole" ELSE artifacts[Current][a]
    OBVIOUS
  <2>3. artifacts' = [artifacts EXCEPT ![Current] = new]
    BY <1>1
  <2> HIDE DEF new
  <2>4. /\ artifacts' = [slot \in Slots |-> artifacts'[slot]] /\ artifacts'[Current] = new
        /\ \A slot \in Slots : slot # Current => artifacts'[slot] = artifacts[slot]
    BY <1>5, <2>1, <2>3
  <2>5. journal' = [slot \in Slots |-> journal'[slot]] /\ journal'[Current] = result
        /\ \A slot \in Slots : slot # Current => journal'[slot] = journal[slot]
    BY <1>1, <1>5 DEF Inv, JournalOK
  <2>6. ASSUME NEW slot \in Slots, journal'[slot] # None, NEW a \in 1..Attempts(journal'[slot])
        PROVE  a \in DOMAIN artifacts'[slot] /\ artifacts'[slot][a] = "whole"
    <3>1. CASE slot # Current
      BY <2>4, <2>5, <2>6, <3>1 DEF Inv, ArtifactsOK
    <3>2. CASE slot = Current /\ a = AttemptNumber
      BY <1>4, <2>2, <2>4, <3>2
    <3>3. CASE slot = Current /\ a # AttemptNumber
      <4>1. a \in 1..Len(Prior)
        BY <1>6, <1>7, <2>5, <2>6, <3>3 DEF Attempts
      <4>2. journal[Current] # None /\ a \in 1..Attempts(journal[Current])
        BY <1>6, <4>1
      <4>3. a \in DOMAIN artifacts[Current] /\ artifacts[Current][a] = "whole"
        BY <1>5, <4>2 DEF Inv, ArtifactsOK
      <4> QED BY <2>2, <2>4, <3>3, <4>3
    <3> QED BY <3>1, <3>2, <3>3
  <2> QED BY <1>3, <2>4, <2>6 DEF ArtifactsOK
<1>10. PlayingOK'
  BY <1>1, <1>3, <1>5 DEF Inv, PlayingOK
<1>11. UndrawnOK' /\ EnteringOK' /\ HeatOK'
  BY <1>1, <1>5 DEF UndrawnOK, EnteringOK, HeatOK
<1> QED BY <1>1, <1>2, <1>8, <1>9, <1>10, <1>11 DEF Inv

LEMMA SettleHeatInv ==
  ASSUME Inv, SettleHeat
  PROVE  Inv'
<1>1. /\ UNCHANGED <<file, draw, week, artifacts, round, drawn, rng>>
      /\ pc = "heats" /\ pc' = "settled" /\ HeatsLeft /\ ~MayPlay
      /\ journal' = IF round = LastRound
                    THEN [journal EXCEPT ![Current].winner = DurableHeatWinner(journal[Current])]
                    ELSE journal
  BY DEF SettleHeat
<1>2. Kept /\ DrawOK' /\ WeekOK'
  BY <1>1, SameWeek
<1>3. Slots' = Slots /\ plan' = plan /\ Rules' = Rules
      /\ \A r : Ready(r) => Ready(r)' /\ DrawOf(r)' = DrawOf(r)
  BY <1>2, Carry
<1>4. /\ draw # None /\ Ready(round) /\ Current \in Slots /\ Current[1] = round
      /\ Seats = DrawOf(round).heats[Current[2]]
  BY <1>1, InPlay
<1> DEFINE old == journal[Current]
<1>5. old # None /\ ~NeedsReplay(old, Rules)
  BY <1>1 DEF MayPlay
<1>6. /\ IsResult(old)
      /\ Count(old.prior, "unavailable") <= plan.unavailable
      /\ Count(old.prior, "draw") <= plan.draw
      /\ Count(old.prior, "decided") = 0
      /\ old.seats = Seats
  BY <1>4, <1>5 DEF Inv, JournalOK
<1>7. journal = [slot \in Slots |-> journal[slot]]
  BY DEF Inv, JournalOK
<1> HIDE DEF old
<1>8. PICK new :
        /\ journal' = [journal EXCEPT ![Current] = new]
        /\ IsResult(new) /\ new.seats = old.seats /\ new.prior = old.prior
        /\ new.standings = old.standings /\ new.aborted = old.aborted
  <2>1. CASE round = LastRound
    <3> DEFINE w == DurableHeatWinner(old)
               x == [old EXCEPT !.winner = w]
    <3>1. journal' = [journal EXCEPT ![Current] = x]
      BY <1>1, <2>1 DEF old
    <3> HIDE DEF w
    <3>2. x = [seats |-> old.seats, prior |-> old.prior, standings |-> old.standings,
               winner |-> w, aborted |-> old.aborted]
      BY <1>6 DEF IsResult
    <3>3. IsResult(x) /\ x.seats = old.seats /\ x.prior = old.prior
          /\ x.standings = old.standings /\ x.aborted = old.aborted
      BY <1>6, <3>2 DEF IsResult
    <3> HIDE DEF x
    <3> QED BY <3>1, <3>3
  <2>2. CASE round # LastRound
    <3>1. journal' = [journal EXCEPT ![Current] = old]
      BY <1>1, <1>7, <2>2 DEF old
    <3> QED BY <1>6, <3>1
  <2> QED BY <2>1, <2>2
<1>9. /\ journal' = [slot \in Slots |-> journal'[slot]] /\ journal'[Current] = new
      /\ \A slot \in Slots : slot # Current => journal'[slot] = journal[slot]
  BY <1>4, <1>7, <1>8
<1>10. JournalOK'
  <2>1. ASSUME NEW slot \in Slots, journal'[slot] # None
        PROVE  /\ IsResult(journal'[slot])
               /\ Count(journal'[slot].prior, "unavailable") <= plan.unavailable
               /\ Count(journal'[slot].prior, "draw") <= plan.draw
               /\ Count(journal'[slot].prior, "decided") = 0
               /\ Ready(slot[1])'
               /\ journal'[slot].seats = DrawOf(slot[1])'.heats[slot[2]]
    <3>1. CASE slot = Current
      BY <1>3, <1>4, <1>6, <1>8, <1>9, <3>1
    <3>2. CASE slot # Current
      BY <1>3, <1>9, <2>1, <3>2 DEF Inv, JournalOK
    <3> QED BY <3>1, <3>2
  <2> QED BY <1>3, <1>9, <2>1 DEF JournalOK
<1>11. ArtifactsOK'
  <2>1. ASSUME NEW slot \in Slots, journal'[slot] # None, NEW a \in 1..Attempts(journal'[slot])
        PROVE  a \in DOMAIN artifacts[slot] /\ artifacts[slot][a] = "whole"
    <3>1. CASE slot = Current
      <4>1. a \in 1..Attempts(old)
        BY <1>8, <1>9, <2>1, <3>1 DEF Attempts
      <4> QED BY <1>4, <1>5, <3>1, <4>1 DEF Inv, ArtifactsOK, old
    <3>2. CASE slot # Current
      BY <1>9, <2>1, <3>2 DEF Inv, ArtifactsOK
    <3> QED BY <3>1, <3>2
  <2> QED BY <1>1, <1>3, <2>1 DEF Inv, ArtifactsOK
<1>12. PlayingOK'
  BY <1>1, <1>3, <1>4 DEF Inv, PlayingOK
<1>13. HeatOK'
  <2>1. Current' = Current /\ HeatsLeft' /\ Seats' = Seats
    BY <1>1 DEF Current, HeatsLeft, Seats, RecordedHeats
  <2>2. ~NeedsReplay(new, Rules)
    BY <1>5, <1>8 DEF NeedsReplay
  <2> QED BY <1>1, <1>3, <1>6, <1>8, <1>9, <2>1, <2>2 DEF HeatOK
<1>14. UndrawnOK' /\ EnteringOK'
  BY <1>1, <1>4 DEF UndrawnOK, EnteringOK
<1> QED BY <1>1, <1>2, <1>10, <1>11, <1>12, <1>13, <1>14 DEF Inv

LEMMA CloseInv ==
  ASSUME Inv, NEW champion, Close(champion), pc' = "off", pc \in {"entering"},
         UNCHANGED <<file, draw, journal, artifacts>>
  PROVE  Inv'
<1>1. WeekOK /\ week'.rounds = week.rounds
      /\ week' = [rounds |-> week'.rounds, completed |-> week'.completed,
                  champion |-> week'.champion, revealed |-> week'.revealed,
                  standings |-> week'.standings]
  <2> DEFINE s == WeekStandings(week.rounds)
  <2>1. week' = [week EXCEPT !.completed = TRUE, !.champion = champion,
                             !.revealed = seed, !.standings = s]
    BY DEF Close
  <2> HIDE DEF s
  <2> QED BY <2>1 DEF Inv, WeekOK
<1>2. Kept
  BY <1>1 DEF Kept
<1>3. \A r \in 1..Len(week.rounds) : RoundOK(r)'
  BY <1>1, <1>2, CarryRound
<1>4. WeekOK'
  BY <1>1, <1>3 DEF WeekOK
<1>5. DrawOK' /\ JournalOK' /\ ArtifactsOK'
  BY <1>2, SameDraw, SameJournal, SameArtifacts
<1>6. draw # None
  BY DEF Inv, UndrawnOK
<1>7. UndrawnOK' /\ EnteringOK' /\ PlayingOK' /\ HeatOK'
  BY <1>6 DEF UndrawnOK, EnteringOK, PlayingOK, HeatOK
<1> QED BY <1>4, <1>5, <1>7 DEF Inv

(* The round that is played, with the heat that is recorded. *)
LEMMA WithRoundFacts ==
  ASSUME Inv, pc = "settled", NEW result
  PROVE  LET rounds == WithRound(result)
             top == [heats |-> Append(RecordedHeats, result), byes |-> drawn.byes,
                     wildcards |-> <<>>]
         IN /\ IsSeq(rounds) /\ Len(rounds) \in Len(week.rounds)..Len(week.rounds) + 1
            /\ round \in 1..Len(rounds) /\ rounds[round] = top
            /\ \A r \in 1..Len(rounds) :
                 r # round => r \in 1..Len(week.rounds) /\ rounds[r] = week.rounds[r]
            /\ \A r \in 1..Len(week.rounds) : Finished(r) => r # round
            /\ \A h \in 1..Len(RecordedHeats) :
                 RecordedHeats[h].seats = DrawOf(round).heats[h]
                   /\ ~NeedsReplay(RecordedHeats[h], Rules)
<1> DEFINE rounds == WithRound(result)
           n == Len(week.rounds)
           heats == Append(RecordedHeats, result)
           top == [heats |-> heats, byes |-> drawn.byes, wildcards |-> <<>>]
<1>1. /\ Ready(round) /\ round \in 1..LastRound /\ round <= n + 1 /\ n \in Nat
      /\ drawn = DrawOf(round) /\ Len(drawn.heats) = draw.shape[round].heats
      /\ draw.shape[round].heats \in Nat \ {0}
      /\ IsSeq(RecordedHeats)
  BY InPlay
<1>2. Len(RecordedHeats) < draw.shape[round].heats /\ Len(RecordedHeats) \in Nat
  BY <1>1 DEF HeatsLeft, IsSeq, Inv, HeatOK
<1>3. IsSeq(week.rounds) /\ \A r \in 1..n : RoundOK(r)
  BY DEF Inv, WeekOK
<1> HIDE DEF heats
<1>4. CASE round <= n
  <2>1. round \in 1..n /\ RecordedHeats = week.rounds[round].heats
    BY <1>1, <1>4 DEF RecordedHeats
  <2>2. ~Finished(round)
    BY <1>2, <2>1 DEF Finished
  <2> DEFINE old == week.rounds[round]
  <2>3. /\ old = [heats |-> old.heats, byes |-> old.byes, wildcards |-> old.wildcards]
        /\ old.byes = drawn.byes /\ old.wildcards = <<>>
        /\ \A h \in 1..Len(old.heats) :
             old.heats[h].seats = DrawOf(round).heats[h] /\ ~NeedsReplay(old.heats[h], Rules)
    BY <1>1, <1>3, <2>1, <2>2 DEF RoundOK
  <2>4. rounds = [week.rounds EXCEPT ![round] = top]
    <3>1. rounds = [week.rounds EXCEPT ![round].heats = heats]
      BY <1>4, <2>1 DEF WithRound, heats
    <3>2. [old EXCEPT !.heats = heats] = top
      BY <2>3
    <3>3. rounds = [week.rounds EXCEPT ![round] = [old EXCEPT !.heats = heats]]
      BY <3>1
    <3> QED BY <3>2, <3>3
  <2> HIDE DEF rounds, top
  <2>5. /\ IsSeq(rounds) /\ Len(rounds) = n /\ rounds[round] = top
        /\ \A r \in 1..n : r # round => rounds[r] = week.rounds[r]
    BY <1>3, <2>1, <2>4, ReplaceFacts
  <2> QED BY <1>1, <2>1, <2>2, <2>3, <2>5 DEF rounds, top, heats
<1>5. CASE ~(round <= n)
  <2>1. round = n + 1 /\ RecordedHeats = <<>>
    BY <1>1, <1>5 DEF RecordedHeats
  <2>2. heats = <<result>>
    BY <2>1 DEF heats
  <2>3. rounds = Append(week.rounds, top)
    BY <1>5, <2>2 DEF WithRound
  <2> HIDE DEF rounds, top
  <2>4. /\ IsSeq(rounds) /\ Len(rounds) = n + 1 /\ rounds[round] = top
        /\ \A r \in 1..n : rounds[r] = week.rounds[r]
    BY <1>3, <2>1, <2>3, AppendFacts
  <2>5. \A r \in 1..n : r # round
    BY <1>1, <2>1
  <2>6. \A h \in 1..Len(RecordedHeats) : FALSE
    BY <2>1
  <2> QED BY <1>1, <2>1, <2>4, <2>5, <2>6 DEF rounds, top, heats
<1> QED BY <1>4, <1>5

LEMMA RecordHeatInv ==
  ASSUME Inv, RecordHeat
  PROVE  Inv'
<1> DEFINE result == journal[Current]
           rounds == WithRound(result)
           heats == Append(RecordedHeats, result)
<1>1. /\ UNCHANGED <<file, draw, journal, artifacts>> /\ pc = "settled"
      /\ week' = [week EXCEPT !.rounds = rounds, !.standings = WeekStandings(rounds)]
      /\ \/ pc' = "off"
         \/ pc' = "heats" /\ UNCHANGED <<round, drawn, rng>>
  BY DEF RecordHeat, Exit
<1>2. HeatsLeft /\ result.seats = Seats /\ ~NeedsReplay(result, Rules)
  BY <1>1 DEF Inv, HeatOK
<1> HIDE DEF result
<1>3. /\ draw # None /\ Ready(round) /\ round \in 1..LastRound
      /\ round <= Len(week.rounds) + 1 /\ Len(week.rounds) \in Nat
      /\ drawn = DrawOf(round) /\ Len(drawn.heats) = draw.shape[round].heats
      /\ draw.shape[round].heats \in Nat \ {0}
      /\ IsSeq(RecordedHeats)
      /\ Seats = drawn.heats[Len(RecordedHeats) + 1]
  BY <1>1, <1>2, InPlay DEF Seats
<1>4. Len(RecordedHeats) < draw.shape[round].heats /\ Len(RecordedHeats) \in Nat
  BY <1>2, <1>3 DEF HeatsLeft, IsSeq
<1>5. /\ IsSeq(rounds) /\ Len(rounds) \in Len(week.rounds)..Len(week.rounds) + 1
      /\ round \in 1..Len(rounds)
      /\ rounds[round] = [heats |-> heats, byes |-> drawn.byes, wildcards |-> <<>>]
      /\ \A r \in 1..Len(rounds) :
           r # round => r \in 1..Len(week.rounds) /\ rounds[r] = week.rounds[r]
      /\ \A r \in 1..Len(week.rounds) : Finished(r) => r # round
      /\ \A h \in 1..Len(RecordedHeats) :
           RecordedHeats[h].seats = DrawOf(round).heats[h]
             /\ ~NeedsReplay(RecordedHeats[h], Rules)
  BY <1>1, WithRoundFacts
<1>6. /\ IsSeq(heats) /\ Len(heats) = Len(RecordedHeats) + 1
      /\ \A h \in 1..Len(RecordedHeats) : heats[h] = RecordedHeats[h]
      /\ heats[Len(RecordedHeats) + 1] = result
  BY <1>3, AppendFacts
<1> HIDE DEF heats, rounds
<1>7. /\ week'.rounds = rounds
      /\ week' = [rounds |-> week'.rounds, completed |-> week'.completed,
                  champion |-> week'.champion, revealed |-> week'.revealed,
                  standings |-> week'.standings]
  <2> DEFINE s == WeekStandings(rounds)
  <2> HIDE DEF s
  <2>1. week' = [week EXCEPT !.rounds = rounds, !.standings = s]
    BY <1>1 DEF s
  <2> QED BY <2>1 DEF Inv, WeekOK
<1>8. Kept
  <2>1. ASSUME NEW r \in 1..Len(week.rounds), Finished(r)
        PROVE  r \in 1..Len(rounds) /\ rounds[r] = week.rounds[r]
    <3>1. r \in 1..Len(rounds) /\ r # round
      BY <1>3, <1>5, <2>1
    <3> QED BY <1>5, <3>1
  <2> QED BY <1>1, <1>7, <2>1 DEF Kept
<1>k. PICK k \in 1..Len(rounds) : k = round
  BY <1>5
<1>9. /\ plan' = plan /\ Rules' = Rules
      /\ Ready(k)' /\ DrawOf(k)' = DrawOf(k)
  BY <1>3, <1>8, <1>k, Carry
<1>10. ASSUME NEW r \in 1..Len(rounds) PROVE RoundOK(r)'
  <2>1. CASE r # k
    BY <1>5, <1>7, <1>8, <1>k, <2>1, CarryRound
  <2>2. CASE r = k
    <3> DEFINE x == rounds[k]
    <3>1. /\ x = [heats |-> x.heats, byes |-> x.byes, wildcards |-> x.wildcards]
          /\ x.heats = heats /\ x.byes = drawn.byes /\ x.wildcards = <<>>
      BY <1>5, <1>k
    <3> HIDE DEF x
    <3>2. Len(heats) \in 1..draw'.shape[k].heats
      BY <1>1, <1>3, <1>4, <1>6, <1>k
    <3>3. ASSUME NEW h \in 1..Len(heats)
          PROVE  heats[h].seats = DrawOf(k)'.heats[h] /\ ~NeedsReplay(heats[h], Rules')
      <4>1. CASE h = Len(RecordedHeats) + 1
        BY <1>2, <1>3, <1>6, <1>9, <1>k, <4>1
      <4>2. CASE h \in 1..Len(RecordedHeats)
        BY <1>5, <1>6, <1>9, <1>k, <4>2
      <4> QED BY <1>4, <1>6, <4>1, <4>2
    <3>4. x.byes = DrawOf(k)'.byes /\ week'.rounds[r] = x
      BY <1>3, <1>7, <1>9, <1>k, <2>2, <3>1 DEF x
    <3> QED BY <1>6, <1>9, <2>2, <3>1, <3>2, <3>3, <3>4 DEF RoundOK
  <2> QED BY <2>1, <2>2
<1>11. WeekOK'
  BY <1>5, <1>7, <1>10 DEF WeekOK
<1>12. DrawOK' /\ JournalOK' /\ ArtifactsOK'
  BY <1>1, <1>8, SameDraw, SameJournal, SameArtifacts
<1>13. PlayingOK'
  <2>1. pc' = "heats" => round' <= Len(week'.rounds) + 1 /\ round' = k
    BY <1>1, <1>3, <1>5, <1>7, <1>k
  <2> QED BY <1>1, <1>3, <1>9, <1>k, <2>1 DEF Inv, PlayingOK
<1>14. UndrawnOK' /\ EnteringOK' /\ HeatOK'
  BY <1>1, <1>3 DEF UndrawnOK, EnteringOK, HeatOK
<1> QED BY <1>1, <1>11, <1>12, <1>13, <1>14 DEF Inv

LEMMA FinishRoundInv ==
  ASSUME Inv, FinishRound
  PROVE  Inv'
<1>1. /\ UNCHANGED <<file, draw, journal, artifacts, drawn, rng>>
      /\ pc = "heats" /\ pc' = "entering" /\ ~HeatsLeft /\ round' = round + 1
      /\ week' = IF week.rounds[round].wildcards = <<>>
                 THEN [week EXCEPT !.rounds[round].wildcards = Promotions(round)] ELSE week
  BY DEF FinishRound
<1> DEFINE n == Len(week.rounds)
           old == week.rounds[round]
           promoted == Promotions(round)
           top == [heats |-> old.heats, byes |-> old.byes, wildcards |-> promoted]
           rounds == [week.rounds EXCEPT ![round] = top]
<1>2. /\ draw # None /\ Ready(round) /\ round \in 1..LastRound
      /\ round <= n + 1 /\ n \in Nat
      /\ Len(drawn.heats) = draw.shape[round].heats
      /\ draw.shape[round].heats \in Nat \ {0}
      /\ IsSeq(RecordedHeats) /\ Len(RecordedHeats) <= Len(drawn.heats)
  BY <1>1, InPlay
<1>3. Len(RecordedHeats) = draw.shape[round].heats
  BY <1>1, <1>2 DEF HeatsLeft, IsSeq
<1>4. round \in 1..n /\ RecordedHeats = old.heats
  <2>1. RecordedHeats # <<>>
    BY <1>2, <1>3
  <2>2. round <= n
    BY <2>1 DEF RecordedHeats
  <2> QED BY <1>2, <2>2 DEF RecordedHeats
<1>5. IsSeq(week.rounds) /\ RoundOK(round) /\ \A r \in 1..n : RoundOK(r)
  BY <1>4 DEF Inv, WeekOK
<1>6. /\ old = [heats |-> old.heats, byes |-> old.byes, wildcards |-> old.wildcards]
      /\ old.wildcards = <<>> \/ old.wildcards = promoted
  BY <1>5 DEF RoundOK, Finished
<1> HIDE DEF promoted
<1>7. Finished(round) => old.wildcards = promoted
  BY DEF Finished, promoted
<1>8. old.wildcards = promoted => rounds = week.rounds
  <2>1. old.wildcards = promoted => top = old
    BY <1>6
  <2>2. [week.rounds EXCEPT ![round] = old] = week.rounds
    BY <1>4, <1>5 DEF IsSeq
  <2> QED BY <2>1, <2>2
<1>9. /\ week'.rounds = rounds
      /\ week' = [rounds |-> week'.rounds, completed |-> week'.completed,
                  champion |-> week'.champion, revealed |-> week'.revealed,
                  standings |-> week'.standings]
  <2>1. CASE old.wildcards = <<>>
    <3>1. week' = [week EXCEPT !.rounds = [week.rounds EXCEPT ![round] =
                                             [old EXCEPT !.wildcards = promoted]]]
      BY <1>1, <2>1 DEF promoted
    <3>2. [old EXCEPT !.wildcards = promoted] = top
      BY <1>6
    <3>3. week' = [week EXCEPT !.rounds = rounds]
      BY <3>1, <3>2
    <3> HIDE DEF rounds
    <3> QED BY <3>3 DEF Inv, WeekOK
  <2>2. CASE old.wildcards # <<>>
    <3>1. week' = week
      BY <1>1, <2>2
    <3>2. rounds = week.rounds
      BY <1>6, <1>8, <2>2
    <3> HIDE DEF rounds
    <3> QED BY <3>1, <3>2 DEF Inv, WeekOK
  <2> QED BY <2>1, <2>2
<1>10. /\ IsSeq(rounds) /\ Len(rounds) = n /\ rounds[round] = top
       /\ \A r \in 1..n : r # round => rounds[r] = week.rounds[r]
  <2> HIDE DEF top
  <2> QED BY <1>4, <1>5, ReplaceFacts
<1> HIDE DEF rounds
<1>11. Kept
  <2>1. ASSUME NEW r \in 1..n, Finished(r) PROVE rounds[r] = week.rounds[r]
    BY <1>7, <1>8, <1>10, <2>1
  <2> QED BY <1>1, <1>9, <1>10, <2>1 DEF Kept
<1>k. PICK k \in 1..n : k = round
  BY <1>4
<1>12. /\ Rules' = Rules /\ Ready(k)' /\ DrawOf(k)' = DrawOf(k)
       /\ LastRound' = LastRound
  BY <1>2, <1>11, <1>k, Carry
<1>14. week'.rounds[k] = top /\ top.heats = old.heats /\ top.byes = old.byes
       /\ top.wildcards = promoted
  BY <1>9, <1>10, <1>k
<1> HIDE DEF top
<1>13. Promotions(k)' = promoted
  BY <1>1, <1>14, <1>k DEF Promotions, promoted, Fleet
<1>15. Len(old.heats) = draw'.shape[k].heats
  BY <1>1, <1>3, <1>4, <1>k
<1>16. RoundOK(k)' /\ Finished(k)'
  <2>1. top = [heats |-> top.heats, byes |-> top.byes, wildcards |-> top.wildcards]
    BY DEF top
  <2>2. Len(week'.rounds[k].heats) = draw'.shape[k].heats
        /\ week'.rounds[k].wildcards = Promotions(k)'
    BY <1>13, <1>14, <1>15
  <2>3. Finished(k)'
    BY <2>2 DEF Finished
  <2>4. /\ IsSeq(old.heats) /\ Len(old.heats) \in 1..draw.shape[k].heats
        /\ old.byes = DrawOf(k).byes
        /\ \A h \in 1..Len(old.heats) :
             old.heats[h].seats = DrawOf(k).heats[h] /\ ~NeedsReplay(old.heats[h], Rules)
    BY <1>5, <1>k DEF RoundOK
  <2> QED BY <1>1, <1>12, <1>14, <2>1, <2>3, <2>4 DEF RoundOK
<1>17. WeekOK'
  <2>1. ASSUME NEW r \in 1..n PROVE RoundOK(r)'
    <3>1. CASE r = k
      BY <1>16, <3>1
    <3>2. CASE r # k
      <4>1. week'.rounds[r] = week.rounds[r]
        BY <1>9, <1>10, <1>k, <3>2
      <4> QED BY <1>11, <4>1, CarryRound
    <3> QED BY <3>1, <3>2
  <2> QED BY <1>9, <1>10, <2>1 DEF WeekOK
<1>18. DrawOK' /\ JournalOK' /\ ArtifactsOK'
  BY <1>1, <1>11, SameDraw, SameJournal, SameArtifacts
<1>19. EnteringOK'
  <2>1. LastRound \in Nat
    BY <1>2, ShapeFacts
  <2>2. round' \in 1..LastRound' + 1 /\ round' <= Len(week'.rounds) + 1 /\ round' - 1 = round
    BY <1>1, <1>2, <1>4, <1>9, <1>10, <1>12, <2>1
  <2>3. rng' = Positions(draw'.shape)[round']
    BY <1>1 DEF Inv, PlayingOK
  <2>4. Finished(k)' /\ round' - 1 = k
    BY <1>16, <1>k, <2>2
  <2> QED BY <2>2, <2>3, <2>4 DEF EnteringOK
<1>20. UndrawnOK' /\ PlayingOK' /\ HeatOK'
  BY <1>1, <1>2 DEF UndrawnOK, PlayingOK, HeatOK
<1> QED BY <1>1, <1>17, <1>18, <1>19, <1>20 DEF Inv

LEMMA NextInv == Inv /\ [Next]_vars => Inv'
<1> SUFFICES ASSUME Inv, [Next]_vars PROVE Inv'
  OBVIOUS
<1>1. CASE RefuseDraw
  <2>1. UNCHANGED <<file, draw, week, journal, artifacts>> /\ pc = "off" /\ pc' = "off"
    BY <1>1 DEF RefuseDraw, disk
  <2> QED BY <2>1, EndsQuietly
<1>2. CASE WriteSecret
  BY <1>2, WriteSecretInv
<1>3. CASE WriteDraw
  BY <1>3, WriteDrawInv
<1>4. CASE StartWeek
  BY <1>4, StartWeekInv
<1>5. CASE EnterRound
  BY <1>5, EnterRoundInv
<1>6. CASE VoidCup \/ FinishWeek
  <2>1. \E champion : Close(champion)
    BY <1>6 DEF VoidCup, FinishWeek
  <2>2. pc' = "off" /\ pc \in {"entering"} /\ UNCHANGED <<file, draw, journal, artifacts>>
    BY <1>6 DEF VoidCup, FinishWeek, Exit
  <2> QED BY <2>1, <2>2, CloseInv
<1>7. CASE Underfilled \/ FailAttempt \/ Crash
  <2>1. UNCHANGED <<file, draw, week, journal, artifacts>> /\ pc' = "off"
    BY <1>7 DEF Underfilled, FailAttempt, Crash, Exit, disk
  <2> QED BY <2>1, EndsQuietly
<1>8. CASE StartAttempt
  BY <1>8, StartAttemptInv
<1>9. CASE NoPorts
  BY <1>9, NoPortsInv
<1>10. CASE pc = "match" /\ \E world \in Worlds(Size) : EndAttempt(world)
  BY <1>10, EndAttemptInv
<1>11. CASE SettleHeat
  BY <1>11, SettleHeatInv
<1>12. CASE RecordHeat
  BY <1>12, RecordHeatInv
<1>13. CASE FinishRound
  BY <1>13, FinishRoundInv
<1>14. CASE UNCHANGED vars
  <2>1. UNCHANGED <<file, draw, week, journal, artifacts, pc, round, drawn, rng>>
    BY <1>14 DEF vars, disk, process
  <2>2. Kept /\ DrawOK' /\ WeekOK'
    BY <2>1, SameWeek
  <2>3. JournalOK' /\ ArtifactsOK' /\ Slots' = Slots /\ LastRound' = LastRound
        /\ Rules' = Rules /\ plan' = plan
        /\ \A r : Ready(r) => Ready(r)' /\ DrawOf(r)' = DrawOf(r)
    BY <2>1, <2>2, SameJournal, SameArtifacts, Carry
  <2>4. UndrawnOK'
    <3>1. Drawable' = Drawable
      BY <2>1 DEF Drawable, Size, Entrants, Listed, plan
    <3> QED BY <2>1, <2>3, <3>1 DEF Inv, UndrawnOK
  <2>5. EnteringOK'
    <3>1. Finished(round - 1)' = Finished(round - 1)
      BY <2>1 DEF Finished, Promotions, Fleet
    <3> QED BY <2>1, <2>3, <3>1 DEF Inv, EnteringOK
  <2>6. PlayingOK'
    BY <2>1, <2>3 DEF Inv, PlayingOK
  <2>7. HeatOK'
    <3>1. Current' = Current /\ HeatsLeft' = HeatsLeft /\ Seats' = Seats
          /\ AttemptNumber' = AttemptNumber /\ MayPlay' = MayPlay
      BY <2>1, <2>3 DEF Current, HeatsLeft, Seats, RecordedHeats, AttemptNumber, Prior, MayPlay
    <3> QED BY <2>1, <2>3, <3>1 DEF Inv, HeatOK
  <2> QED BY <2>1, <2>2, <2>3, <2>4, <2>5, <2>6, <2>7 DEF Inv
<1> QED
  BY <1>1, <1>2, <1>3, <1>4, <1>5, <1>6, <1>7, <1>8, <1>9, <1>10, <1>11, <1>12, <1>13, <1>14
     DEF Next, Step

LEMMA InvHolds == Spec => []Inv
BY InitInv, NextInv, PTL DEF Spec

-----------------------------------------------------------------------------
(* However a week is stopped and run again, every run derives the draw the *)
(* first one did: no checkpoint and no attempt journal is refused          *)
(* (run_week and load_heat_attempt, ResumeMismatch).                       *)
THEOREM ResumeFindsItsDrawHolds == Spec => []ResumeFindsItsDraw
<1>1. Inv => ResumeFindsItsDraw
  <2> SUFFICES ASSUME Inv, pc \in {"heats", "match", "settled"}
               PROVE  /\ round <= Len(week.rounds) => week.rounds[round].byes = drawn.byes
                      /\ \A h \in DOMAIN RecordedHeats : RecordedHeats[h].seats = drawn.heats[h]
                      /\ \A h \in DOMAIN drawn.heats :
                           journal[<<round, h>>] # None =>
                             journal[<<round, h>>].seats = drawn.heats[h]
    BY DEF ResumeFindsItsDraw
  <2>1. /\ draw # None /\ Ready(round) /\ drawn = DrawOf(round) /\ round \in 1..LastRound
        /\ Len(week.rounds) \in Nat /\ IsSeq(RecordedHeats)
    BY InPlay
  <2>2. DOMAIN drawn.heats = 1..draw.shape[round].heats
    BY <2>1, DrawFacts
  <2>3. ASSUME round <= Len(week.rounds)
        PROVE  /\ week.rounds[round].byes = drawn.byes
               /\ \A h \in DOMAIN RecordedHeats : RecordedHeats[h].seats = drawn.heats[h]
    <3>1. RoundOK(round) /\ RecordedHeats = week.rounds[round].heats
      BY <2>1, <2>3 DEF Inv, WeekOK, RecordedHeats
    <3>2. DOMAIN RecordedHeats = 1..Len(RecordedHeats)
      BY <2>1, SeqFacts
    <3> QED BY <2>1, <3>1, <3>2 DEF RoundOK
  <2>4. ASSUME ~(round <= Len(week.rounds)) PROVE DOMAIN RecordedHeats = {}
    BY <2>4 DEF RecordedHeats
  <2>5. ASSUME NEW h \in DOMAIN drawn.heats, journal[<<round, h>>] # None
        PROVE  journal[<<round, h>>].seats = drawn.heats[h]
    <3>1. <<round, h>> \in Slots
      BY <2>1, <2>2, SlotFacts
    <3> QED BY <2>1, <2>5, <3>1 DEF Inv, JournalOK
  <2> QED BY <2>3, <2>4, <2>5
<1> QED BY <1>1, InvHolds, PTL

(* Every attempt a journal counts keeps its artifacts, whole, whatever is  *)
(* replayed or run again (archive_incomplete and the directories replay-N).*)
THEOREM EvidenceIsKeptHolds == Spec => []EvidenceIsKept
<1>1. Inv => EvidenceIsKept
  BY DEF Inv, ArtifactsOK, JournalOK, EvidenceIsKept, HeatSlots
<1> QED BY <1>1, InvHolds, PTL

(* No heat is replayed past the allowance of its kind, and none is         *)
(* recorded while a replay is due (needs_replay).                          *)
THEOREM ReplaysAreBoundedHolds == Spec => []ReplaysAreBounded
<1>1. Inv => ReplaysAreBounded
  <2> SUFFICES ASSUME Inv PROVE ReplaysAreBounded
    OBVIOUS
  <2>1. HeatSlots = Slots
    BY DEF Inv, JournalOK, HeatSlots
  <2>2. ASSUME NEW heat \in HeatsOf(week.rounds) PROVE ~NeedsReplay(heat, Rules)
    <3>1. IsSeq(week.rounds) /\ \A r \in 1..Len(week.rounds) : RoundOK(r)
      BY DEF Inv, WeekOK
    <3>2. PICK r \in DOMAIN week.rounds : heat \in {week.rounds[r].heats[h] :
                                                     h \in DOMAIN week.rounds[r].heats}
      BY DEF HeatsOf
    <3>3. r \in 1..Len(week.rounds) /\ RoundOK(r) /\ IsSeq(week.rounds[r].heats)
      BY <3>1, <3>2, SeqFacts DEF RoundOK
    <3>4. PICK h \in 1..Len(week.rounds[r].heats) : heat = week.rounds[r].heats[h]
      BY <3>2, <3>3, SeqFacts
    <3> QED BY <3>3, <3>4 DEF RoundOK
  <2> QED BY <2>1, <2>2 DEF Inv, JournalOK, ReplaysAreBounded
<1> QED BY <1>1, InvHolds, PTL

-----------------------------------------------------------------------------
(* Lists without repetition, and sorting.                                   *)

(* Lists without repetition, and what sorting makes of a set. *)

Distinct(s) == IsSeq(s) /\ IsInjective(s)

LEMMA DistinctFacts ==
  ASSUME NEW s, Distinct(s)
  PROVE  /\ Len(s) \in Nat /\ DOMAIN s = 1..Len(s)
         /\ \A i, j \in 1..Len(s) : s[i] = s[j] => i = j
         /\ Range(s) = {s[i] : i \in 1..Len(s)}
         /\ s \in Seq(Range(s))
<1>1. DOMAIN s = 1..Len(s) /\ Len(s) \in Nat /\ s \in Seq(Range(s))
  BY SeqFacts DEF Distinct
<1> QED BY <1>1 DEF Distinct, IsInjective, Range

LEMMA MakeDistinct ==
  ASSUME NEW s, IsSeq(s), \A i, j \in 1..Len(s) : s[i] = s[j] => i = j
  PROVE  Distinct(s)
<1>1. DOMAIN s = 1..Len(s)
  BY SeqFacts
<1> QED BY <1>1 DEF Distinct, IsInjective

LEMMA DistinctSize ==
  ASSUME NEW s, Distinct(s)
  PROVE  IsFiniteSet(Range(s)) /\ Cardinality(Range(s)) = Len(s)
<1> DEFINE n == Len(s)
           f == [i \in 1..n |-> s[i]]
<1>1. /\ n \in Nat /\ Range(s) = {s[i] : i \in 1..n}
      /\ \A i, j \in 1..n : s[i] = s[j] => i = j
  BY DistinctFacts
<1>2. IsFiniteSet(1..n) /\ Cardinality(1..n) = n
  <2> HIDE DEF n
  <2>1. 1 \in Int /\ n \in Int
    BY <1>1
  <2> QED BY <1>1, <2>1, FS_Interval
<1>3. f \in Bijection(1..n, Range(s))
  BY <1>1 DEF Bijection, Injection, Surjection, IsInjective
<1> QED BY <1>2, <1>3, FS_Bijection DEF ExistsBijection

StrictOn(items, before) ==
  /\ \A x \in items : <<x, x>> \notin before
  /\ \A x, y, z \in items : <<x, y>> \in before /\ <<y, z>> \in before => <<x, z>> \in before

LEMMA FirstExists ==
  ASSUME NEW items, NEW before, StrictOn(items, before), IsFiniteSet(items), items # {}
  PROVE  \E x \in items : \A y \in items : <<y, x>> \notin before
<1> DEFINE Has(S) == \E x \in S : \A y \in S : <<y, x>> \notin before
           N == {n \in Nat : \A S \in SUBSET items : Cardinality(S) = n /\ S # {} => Has(S)}
<1>1. 0 \in N
  <2>1. ASSUME NEW S \in SUBSET items, Cardinality(S) = 0 PROVE S = {}
    BY <2>1, FS_Subset, FS_EmptySet
  <2> QED BY <2>1
<1>2. ASSUME NEW n \in Nat, n \in N PROVE n + 1 \in N
  <2> SUFFICES ASSUME NEW S \in SUBSET items, Cardinality(S) = n + 1, S # {} PROVE Has(S)
    OBVIOUS
  <2>1. PICK a \in S : TRUE
    OBVIOUS
  <2>2. IsFiniteSet(S) /\ Cardinality(S \ {a}) = n /\ S \ {a} \in SUBSET items
    <3>1. IsFiniteSet(S)
      BY FS_Subset
    <3>2. Cardinality(S \ {a}) = Cardinality(S) - 1
      BY <3>1, <2>1, FS_RemoveElement
    <3> QED BY <3>1, <3>2
  <2>3. CASE S \ {a} = {}
    BY <2>1, <2>3 DEF StrictOn
  <2>4. CASE S \ {a} # {}
    <3>1. Has(S \ {a})
      BY <1>2, <2>2, <2>4
    <3>2. PICK m \in S \ {a} : \A y \in S \ {a} : <<y, m>> \notin before
      BY <3>1
    <3>3. CASE <<a, m>> \in before
      BY <2>1, <3>2, <3>3 DEF StrictOn
    <3>4. CASE <<a, m>> \notin before
      BY <3>2, <3>4
    <3> QED BY <3>3, <3>4
  <2> QED BY <2>3, <2>4
<1> HIDE DEF N
<1>3. \A n \in Nat : n \in N
  BY <1>1, <1>2, SetInduction
<1>4. Cardinality(items) \in N
  BY <1>3, FS_CardinalityType
<1> QED BY <1>4 DEF N

LEMMA FirstFacts ==
  ASSUME NEW items, NEW before, StrictOn(items, before), IsFiniteSet(items),
         NEW left \in SUBSET items, left # {}
  PROVE  First(left, before) \in left
<1>1. StrictOn(left, before)
  BY DEF StrictOn
<1>2. IsFiniteSet(left)
  BY FS_Subset
<1> QED BY <1>1, <1>2, FirstExists DEF First

(* One turn of the sort, with g for the rest. *)
Sorted(g, left, before) ==
  IF left = {} THEN <<>>
  ELSE <<First(left, before)>> \o g[left \ {First(left, before)}]

Sorts(g, domain, before) == g = [left \in domain |-> Sorted(g, left, before)]

LEMMA InOrderIs ==
  ASSUME NEW items, NEW before, NEW g, Sorts(g, SUBSET items, before)
  PROVE  \E h : Sorts(h, SUBSET items, before) /\ InOrder(items, before) = h[items]
BY DEF InOrder, Sorts, Sorted

LEMMA SortExists ==
  ASSUME NEW items, NEW before, StrictOn(items, before), IsFiniteSet(items)
  PROVE  \E g : Sorts(g, SUBSET items, before)
<1> DEFINE Small(n) == {left \in SUBSET items : Cardinality(left) <= n}
           N == {n \in Nat : \E g : Sorts(g, Small(n), before)}
<1>1. 0 \in N
  <2> DEFINE g == [left \in Small(0) |-> <<>>]
  <2>1. ASSUME NEW left \in Small(0) PROVE left = {}
    <3>1. IsFiniteSet(left) /\ Cardinality(left) \in Nat
      BY FS_Subset, FS_CardinalityType
    <3> QED BY <3>1, FS_EmptySet
  <2>2. g = [left \in Small(0) |-> Sorted(g, left, before)]
    BY <2>1 DEF Sorted
  <2> HIDE DEF g
  <2> QED BY <2>2 DEF Sorts
<1>2. ASSUME NEW n \in Nat, n \in N PROVE n + 1 \in N
  <2>1. PICK g : Sorts(g, Small(n), before)
    BY <1>2
  <2> DEFINE h == [left \in Small(n + 1) |-> Sorted(g, left, before)]
  <2>2. ASSUME NEW left \in Small(n + 1) PROVE Sorted(g, left, before) = Sorted(h, left, before)
    <3>1. CASE left = {}
      BY <3>1 DEF Sorted
    <3>2. CASE left # {}
      <4> DEFINE rest == left \ {First(left, before)}
      <4>1. First(left, before) \in left
        BY <3>2, FirstFacts
      <4>2. rest \in SUBSET items /\ Cardinality(rest) = Cardinality(left) - 1
            /\ Cardinality(left) \in Nat
        BY <4>1, FS_Subset, FS_RemoveElement, FS_CardinalityType
      <4>3. rest \in Small(n) /\ rest \in Small(n + 1)
        BY <4>2
      <4>4. g[rest] = Sorted(g, rest, before)
        BY <2>1, <4>3 DEF Sorts
      <4>5. h[rest] = g[rest]
        BY <4>3, <4>4
      <4> HIDE DEF h
      <4> QED BY <4>5 DEF Sorted
    <3> QED BY <3>1, <3>2
  <2>3. h = [left \in Small(n + 1) |-> Sorted(h, left, before)]
    BY <2>2
  <2> HIDE DEF h
  <2>4. Sorts(h, Small(n + 1), before)
    BY <2>3 DEF Sorts
  <2> HIDE DEF Small
  <2> QED BY <2>4
<1> HIDE DEF N
<1>3. \A n \in Nat : n \in N
  BY <1>1, <1>2, SetInduction
<1>4. Cardinality(items) \in Nat /\ Cardinality(items) \in N
  BY <1>3, FS_CardinalityType
<1>5. Small(Cardinality(items)) = SUBSET items
  BY FS_Subset
<1> QED BY <1>4, <1>5 DEF N

LEMMA ConsFacts ==
  ASSUME NEW s, IsSeq(s), NEW x
  PROVE  /\ IsSeq(<<x>> \o s) /\ Len(<<x>> \o s) = Len(s) + 1
         /\ (<<x>> \o s)[1] = x
         /\ \A i \in 1..Len(s) : (<<x>> \o s)[i + 1] = s[i]
<1> DEFINE S == Range(s) \cup {x}
<1>1. s \in Seq(S) /\ <<x>> \in Seq(S)
  BY SeqFacts
<1>2. /\ <<x>> \o s \in Seq(S) /\ Len(<<x>> \o s) = Len(s) + 1
      /\ (<<x>> \o s)[1] = x
      /\ \A i \in 1..Len(s) : (<<x>> \o s)[i + 1] = s[i]
  BY <1>1
<1> QED BY <1>2, OfSeq

(* A sort lists each element of the set once. *)
LEMMA InOrderFacts ==
  ASSUME NEW items, NEW before, StrictOn(items, before), IsFiniteSet(items)
  PROVE  /\ Distinct(InOrder(items, before)) /\ Range(InOrder(items, before)) = items
         /\ Len(InOrder(items, before)) = Cardinality(items)
<1>1. PICK g : Sorts(g, SUBSET items, before) /\ InOrder(items, before) = g[items]
  BY SortExists, InOrderIs
<1> DEFINE Lists(s, left) == Distinct(s) /\ Range(s) = left
           N == {n \in Nat : \A left \in SUBSET items : Cardinality(left) = n => Lists(g[left], left)}
<1>2. 0 \in N
  <2>1. ASSUME NEW left \in SUBSET items, Cardinality(left) = 0 PROVE Lists(g[left], left)
    <3>1. left = {}
      BY <2>1, FS_Subset, FS_EmptySet
    <3>2. g[left] = <<>>
      BY <1>1, <3>1 DEF Sorts, Sorted
    <3>3. Distinct(<<>>)
      BY EmptySeqFacts, MakeDistinct
    <3>4. Range(<<>>) = {}
      BY <3>3, DistinctFacts, EmptySeqFacts
    <3> QED BY <3>1, <3>2, <3>3, <3>4
  <2> QED BY <2>1
<1>3. ASSUME NEW n \in Nat, n \in N PROVE n + 1 \in N
  <2> SUFFICES ASSUME NEW left \in SUBSET items, Cardinality(left) = n + 1
               PROVE  Lists(g[left], left)
    OBVIOUS
  <2> DEFINE x == First(left, before)
             rest == left \ {x}
  <2>1. left # {} /\ IsFiniteSet(left)
    BY FS_Subset, FS_EmptySet
  <2>2. x \in left
    BY <2>1, FirstFacts
  <2> HIDE DEF x
  <2>3. Cardinality(rest) = n /\ rest \in SUBSET items
    <3>1. Cardinality(rest) = Cardinality(left) - 1
      BY <2>1, <2>2, FS_RemoveElement
    <3> QED BY <3>1
  <2>4. Lists(g[rest], rest)
    BY <1>3, <2>3
  <2>5. g[left] = <<x>> \o g[rest]
    BY <1>1, <2>1 DEF Sorts, Sorted, x
  <2> DEFINE s == g[rest]
             t == <<x>> \o s
  <2>6. Distinct(s) /\ Range(s) = rest
    BY <2>4
  <2> HIDE DEF s
  <2>7. /\ IsSeq(s) /\ Len(s) \in Nat /\ rest = {s[i] : i \in 1..Len(s)}
        /\ \A i, j \in 1..Len(s) : s[i] = s[j] => i = j
    BY <2>6, DistinctFacts DEF Distinct
  <2>8. /\ IsSeq(t) /\ Len(t) = Len(s) + 1 /\ t[1] = x
        /\ \A i \in 1..Len(s) : t[i + 1] = s[i]
    BY <2>7, ConsFacts
  <2> HIDE DEF t
  <2>9. \A i \in 1..Len(t) : i = 1 \/ (i - 1 \in 1..Len(s) /\ t[i] = s[i - 1])
    <3> SUFFICES ASSUME NEW i \in 1..Len(t), i # 1 PROVE i - 1 \in 1..Len(s) /\ t[i] = s[i - 1]
      OBVIOUS
    <3>1. i - 1 \in 1..Len(s) /\ (i - 1) + 1 = i
      BY <2>7, <2>8
    <3> QED BY <2>8, <3>1
  <2>10. x \notin rest
    OBVIOUS
  <2>11. \A i \in 1..Len(s) : s[i] # x
    BY <2>7, <2>10
  <2>12. ASSUME NEW i \in 1..Len(t), NEW j \in 1..Len(t), t[i] = t[j] PROVE i = j
    BY <2>7, <2>8, <2>9, <2>11, <2>12
  <2>13. Distinct(t)
    BY <2>8, <2>12, MakeDistinct
  <2>14. Range(t) = left
    <3>1. Range(t) = {t[i] : i \in 1..Len(t)}
      BY <2>13, DistinctFacts
    <3>2. \A i \in 1..Len(t) : t[i] \in left
      BY <2>2, <2>7, <2>8, <2>9
    <3>3. ASSUME NEW y \in left PROVE \E i \in 1..Len(t) : t[i] = y
      <4>1. CASE y = x
        BY <2>7, <2>8, <4>1
      <4>2. CASE y # x
        <5>1. PICK k \in 1..Len(s) : s[k] = y
          BY <2>7, <4>2
        <5>2. k + 1 \in 1..Len(t) /\ t[k + 1] = y
          BY <2>7, <2>8, <5>1
        <5> QED BY <5>2
      <4> QED BY <4>1, <4>2
    <3> QED BY <3>1, <3>2, <3>3
  <2> QED BY <2>5, <2>13, <2>14 DEF t, s
<1> HIDE DEF N
<1>4. \A n \in Nat : n \in N
  BY <1>2, <1>3, SetInduction
<1>5. Cardinality(items) \in N
  BY <1>4, FS_CardinalityType
<1>6. Lists(g[items], items)
  BY <1>5 DEF N
<1> QED BY <1>1, <1>6, DistinctSize

-----------------------------------------------------------------------------
(* A draw is a partition of its players: the seats of its heats, and byes.  *)

LEMMA SameRest ==
  ASSUME NEW a \in Nat, NEW b \in Nat, NEW n \in Nat, n >= 1, a % n = b % n,
         a < b + n, b < a + n
  PROVE  a = b
<1> DEFINE u == a \div n
           v == b \div n
           r == a % n
<1>1. u \in Nat /\ v \in Nat /\ r \in Nat /\ a = u * n + r /\ b = v * n + r
  BY Division
<1> HIDE DEF u, v, r
<1>2. ~(u >= v + 1)
  <2> SUFFICES ASSUME u >= v + 1 PROVE FALSE
    OBVIOUS
  <2>1. u * n >= (v + 1) * n
    BY <1>1
  <2>2. (v + 1) * n = v * n + n
    BY <1>1
  <2> QED BY <1>1, <2>1, <2>2
<1>3. ~(v >= u + 1)
  <2> SUFFICES ASSUME v >= u + 1 PROVE FALSE
    OBVIOUS
  <2>1. v * n >= (u + 1) * n
    BY <1>1
  <2>2. (u + 1) * n = u * n + n
    BY <1>1
  <2> QED BY <1>1, <2>1, <2>2
<1> QED BY <1>1, <1>2, <1>3

(* A shuffle lists the same ones. *)
LEMMA RotatedFacts ==
  ASSUME NEW s, Distinct(s), NEW p \in Nat
  PROVE  /\ Distinct(Rotated(s, p)) /\ Len(Rotated(s, p)) = Len(s)
         /\ Range(Rotated(s, p)) = Range(s)
<1> DEFINE n == Len(s)
           q == p * p
           at(i) == 1 + ((i - 1 + q) % n)
           t == Rotated(s, p)
<1>1. /\ n \in Nat /\ DOMAIN s = 1..n /\ Range(s) = {s[i] : i \in 1..n}
      /\ \A i, j \in 1..n : s[i] = s[j] => i = j
  BY DistinctFacts
<1>2. q \in Nat
  OBVIOUS
<1>3. t = [i \in 1..n |-> s[at(i)]]
  BY <1>1 DEF Rotated
<1> HIDE DEF q, n, t
<1>4. ASSUME NEW i \in 1..n PROVE at(i) \in 1..n
  <2>1. i - 1 + q \in Nat /\ n >= 1
    BY <1>1, <1>2
  <2>2. (i - 1 + q) % n \in Nat /\ (i - 1 + q) % n < n
    BY <1>1, <2>1, Division
  <2> QED BY <1>1, <2>2
<1>5. ASSUME NEW i \in 1..n, NEW j \in 1..n, at(i) = at(j) PROVE i = j
  <2> DEFINE a == i - 1 + q
             b == j - 1 + q
  <2>1. a \in Nat /\ b \in Nat /\ n >= 1 /\ a < b + n /\ b < a + n
    BY <1>1, <1>2
  <2>2. a % n \in Nat /\ b % n \in Nat
    BY <1>1, <2>1, Division
  <2>3. a % n = b % n
    BY <1>5, <2>2
  <2>4. a = b
    <3> HIDE DEF a, b
    <3> QED BY <1>1, <2>1, <2>3, SameRest
  <2> QED BY <1>1, <1>2, <2>4
<1> HIDE DEF at
<1>6. Len(t) = n /\ IsSeq(t)
  BY <1>1, <1>3 DEF IsSeq
<1>7. Distinct(t)
  <2>1. \A i, j \in 1..Len(t) : t[i] = t[j] => i = j
    BY <1>1, <1>3, <1>4, <1>5, <1>6
  <2> QED BY <1>6, <2>1, MakeDistinct
<1>8. Range(t) \in SUBSET Range(s)
  <2>1. Range(t) = {t[i] : i \in 1..n}
    BY <1>6, <1>7, DistinctFacts
  <2> QED BY <1>1, <1>3, <1>4, <2>1
<1>9. Range(t) = Range(s)
  <2>1. IsFiniteSet(Range(s)) /\ Cardinality(Range(s)) = n
    BY DistinctSize DEF n
  <2>2. Cardinality(Range(t)) = n
    BY <1>6, <1>7, DistinctSize
  <2> QED BY <1>8, <2>1, <2>2, FS_Subset
<1> QED BY <1>6, <1>7, <1>9 DEF t, n

LEMMA SubSeqFacts ==
  ASSUME NEW s, IsSeq(s), NEW m \in Nat, NEW n \in Nat, m >= 1, n <= Len(s), m <= n + 1
  PROVE  /\ IsSeq(SubSeq(s, m, n)) /\ Len(SubSeq(s, m, n)) = n - m + 1
         /\ \A i \in 1..n - m + 1 : SubSeq(s, m, n)[i] = s[m + i - 1]
<1>1. s \in Seq(Range(s)) /\ Len(s) \in Nat
  BY SeqFacts
<1>2. m..n \subseteq 1..Len(s)
  BY <1>1
<1>3. /\ SubSeq(s, m, n) \in Seq(Range(s))
      /\ Len(SubSeq(s, m, n)) = IF m <= n THEN n - m + 1 ELSE 0
      /\ \A i \in 1..n - m + 1 : SubSeq(s, m, n)[i] = s[m + i - 1]
  BY <1>1, <1>2, SubSeqProperties
<1>4. IsSeq(SubSeq(s, m, n))
  BY <1>3, OfSeq
<1>5. Len(SubSeq(s, m, n)) = n - m + 1
  BY <1>3
<1> QED BY <1>3, <1>4, <1>5

LEMMA DistinctPart ==
  ASSUME NEW s, Distinct(s), NEW m \in Nat, NEW n \in Nat, m >= 1, n <= Len(s), m <= n + 1
  PROVE  /\ Distinct(SubSeq(s, m, n)) /\ Len(SubSeq(s, m, n)) = n - m + 1
         /\ Range(SubSeq(s, m, n)) = {s[i] : i \in m..n}
         /\ Range(SubSeq(s, m, n)) \subseteq Range(s)
<1> DEFINE t == SubSeq(s, m, n)
<1>1. /\ IsSeq(t) /\ Len(t) = n - m + 1
      /\ \A i \in 1..n - m + 1 : t[i] = s[m + i - 1]
  BY SubSeqFacts DEF Distinct
<1>2. /\ Len(s) \in Nat /\ Range(s) = {s[i] : i \in 1..Len(s)}
      /\ \A i, j \in 1..Len(s) : s[i] = s[j] => i = j
  BY DistinctFacts
<1> HIDE DEF t
<1>3. \A i, j \in 1..Len(t) : t[i] = t[j] => i = j
  BY <1>1, <1>2
<1>4. Distinct(t)
  BY <1>1, <1>3, MakeDistinct
<1>5. Range(t) = {t[i] : i \in 1..Len(t)}
  BY <1>4, DistinctFacts
<1>6. Range(t) = {s[i] : i \in m..n}
  <2>1. \A i \in 1..Len(t) : m + i - 1 \in m..n
    BY <1>1
  <2>2. ASSUME NEW i \in m..n PROVE i - m + 1 \in 1..Len(t) /\ t[i - m + 1] = s[i]
    <3>1. i - m + 1 \in 1..n - m + 1 /\ m + (i - m + 1) - 1 = i
      OBVIOUS
    <3>2. t[i - m + 1] = s[m + (i - m + 1) - 1]
      BY <1>1, <3>1
    <3> QED BY <1>1, <3>1, <3>2
  <2>3. \A i \in 1..Len(t) : t[i] = s[m + i - 1]
    BY <1>1
  <2>4. ASSUME NEW x \in Range(t) PROVE x \in {s[i] : i \in m..n}
    <3>1. PICK i \in 1..Len(t) : x = t[i]
      BY <1>5
    <3> QED BY <2>1, <2>3, <3>1
  <2>5. ASSUME NEW i \in m..n PROVE s[i] \in Range(t)
    BY <1>5, <2>2
  <2> QED BY <2>4, <2>5
<1>7. Range(t) \subseteq Range(s)
  <2>1. m..n \subseteq 1..Len(s)
    BY <1>2
  <2> QED BY <1>2, <1>6, <2>1
<1> QED BY <1>1, <1>4, <1>6, <1>7 DEF t

(* Each seat of a heat is taken by another member. *)
LEMMA SeatHeatFacts ==
  ASSUME NEW members, NEW size \in Nat, size >= 1, Distinct(members), Len(members) = size,
         NEW p \in Nat
  PROVE  LET seats == SeatHeat(members, size, p)
         IN Distinct(seats) /\ Len(seats) = size /\ Range(seats) \subseteq Range(members)
<1> DEFINE all == [t \in 1..size |-> t]
           places == Rotated(all, p)
           at(t) == CHOOSE i \in 1..size : places[i] = t
           seats == SeatHeat(members, size, p)
<1>1. Distinct(all) /\ Len(all) = size /\ Range(all) = 1..size
  <2>1. IsSeq(all) /\ Len(all) = size
    BY DEF IsSeq
  <2>2. Distinct(all)
    BY <2>1, MakeDistinct
  <2> QED BY <2>1, <2>2 DEF Range
<1>2. seats = [t \in 1..size |-> members[at(t)]]
  BY DEF SeatHeat
<1>3. Distinct(places) /\ Len(places) = size /\ Range(places) = 1..size
  <2> HIDE DEF all
  <2> QED BY <1>1, RotatedFacts
<1> HIDE DEF places, seats
<1>4. 1..size = {places[i] : i \in 1..size}
  BY <1>3, DistinctFacts
<1>5. ASSUME NEW t \in 1..size PROVE at(t) \in 1..size /\ places[at(t)] = t
  <2>1. \E i \in 1..size : places[i] = t
    BY <1>4
  <2> QED BY <2>1
<1> HIDE DEF at
<1>6. /\ Range(members) = {members[i] : i \in 1..size}
      /\ \A i, j \in 1..size : members[i] = members[j] => i = j
  BY DistinctFacts
<1>7. IsSeq(seats) /\ Len(seats) = size
  BY <1>2 DEF IsSeq
<1>8. \A t, u \in 1..Len(seats) : seats[t] = seats[u] => t = u
  BY <1>2, <1>5, <1>6, <1>7, SMTT(30)
<1>9. Distinct(seats)
  BY <1>7, <1>8, MakeDistinct
<1>10. Range(seats) \subseteq Range(members)
  <2>1. Range(seats) = {seats[t] : t \in 1..size}
    BY <1>7, <1>9, DistinctFacts
  <2> QED BY <1>2, <1>5, <1>6, <2>1
<1> QED BY <1>7, <1>9, <1>10 DEF seats

(* A draw of players: everybody has one seat of one heat, or sits out.     *)
Partition(d, heats, size, players) ==
  /\ \A h \in 1..heats : /\ Distinct(d.heats[h]) /\ Len(d.heats[h]) = size
                         /\ Range(d.heats[h]) \subseteq players
                         /\ Range(d.heats[h]) \cap Range(d.byes) = {}
  /\ \A g, h \in 1..heats : g # h => Range(d.heats[g]) \cap Range(d.heats[h]) = {}
  /\ Distinct(d.byes) /\ Range(d.byes) \subseteq players

LEMMA DrawHeatsPartition ==
  ASSUME NEW field, Distinct(field), NEW size \in Nat, size >= 1, NEW heats \in Nat,
         heats * size <= Len(field), NEW p \in Nat
  PROVE  /\ Partition(DrawHeats(field, size, heats, p), heats, size, Range(field))
         /\ Len(DrawHeats(field, size, heats, p).byes) = Len(field) - heats * size
<1> DEFINE d == DrawHeats(field, size, heats, p)
           In(h) == {field[i] : i \in (h - 1) * size + 1..h * size}
           Out == {field[i] : i \in heats * size + 1..Len(field)}
<1>1. /\ Len(field) \in Nat /\ Range(field) = {field[i] : i \in 1..Len(field)}
      /\ \A i, j \in 1..Len(field) : field[i] = field[j] => i = j
  BY DistinctFacts
<1>2. heats * size \in Nat
  OBVIOUS
<1>3. /\ Distinct(d.byes) /\ Len(d.byes) = Len(field) - heats * size
      /\ Range(d.byes) = Out /\ Out \subseteq Range(field)
  <2> DEFINE m == heats * size + 1
  <2>1. m \in Nat /\ m >= 1 /\ m <= Len(field) + 1 /\ Len(field) <= Len(field)
    BY <1>1, <1>2
  <2>2. d.byes = SubSeq(field, m, Len(field))
    BY DEF DrawHeats
  <2> HIDE DEF m, d
  <2>3. /\ Distinct(d.byes) /\ Len(d.byes) = Len(field) - m + 1
        /\ Range(d.byes) = {field[i] : i \in m..Len(field)}
        /\ Range(d.byes) \subseteq Range(field)
    BY <1>1, <2>1, <2>2, DistinctPart
  <2> QED BY <1>1, <1>2, <2>3 DEF m
<1>4. ASSUME NEW h \in 1..heats
      PROVE  /\ (h - 1) * size \in Nat /\ h * size = (h - 1) * size + size
             /\ h * size <= heats * size /\ h * size \in Nat
  <2>1. (heats - h) * size >= 0 /\ (heats - h) * size = heats * size - h * size
    OBVIOUS
  <2>2. (h - 1) * size = h * size - size /\ (h - 1) * size \in Nat /\ h * size \in Nat
    OBVIOUS
  <2> QED BY <1>2, <2>1, <2>2
<1>5. ASSUME NEW h \in 1..heats
      PROVE  /\ Distinct(d.heats[h]) /\ Len(d.heats[h]) = size
             /\ Range(d.heats[h]) \subseteq In(h) /\ In(h) \subseteq Range(field)
  <2> DEFINE m == (h - 1) * size + 1
             n == h * size
             members == Chunk(field, size, h)
  <2>1. m \in Nat /\ n \in Nat /\ m >= 1 /\ n <= Len(field) /\ m <= n + 1 /\ n - m + 1 = size
    BY <1>1, <1>4
  <2>2. members = SubSeq(field, m, n)
    BY DEF Chunk
  <2>3. d.heats[h] = SeatHeat(members, size, p + h) /\ p + h \in Nat
    BY DEF DrawHeats
  <2>4. In(h) = {field[i] : i \in m..n}
    OBVIOUS
  <2> HIDE DEF m, n, members, d, In
  <2>5. /\ Distinct(members) /\ Len(members) = size /\ Range(members) = {field[i] : i \in m..n}
        /\ Range(members) \subseteq Range(field)
    BY <2>1, <2>2, DistinctPart
  <2>6. /\ Distinct(d.heats[h]) /\ Len(d.heats[h]) = size
        /\ Range(d.heats[h]) \subseteq Range(members)
    BY <2>3, <2>5, SeatHeatFacts
  <2> QED BY <2>4, <2>5, <2>6
<1> HIDE DEF d
<1>6. ASSUME NEW h \in 1..heats PROVE In(h) \cap Out = {}
  <2>1. /\ (h - 1) * size + 1..h * size \subseteq 1..Len(field)
        /\ heats * size + 1..Len(field) \subseteq 1..Len(field)
        /\ \A i \in (h - 1) * size + 1..h * size : \A j \in heats * size + 1..Len(field) : i # j
    BY <1>1, <1>2, <1>4
  <2> QED BY <1>1, <2>1
<1>7. ASSUME NEW g \in 1..heats, NEW h \in 1..heats, g < h PROVE In(g) \cap In(h) = {}
  <2>1. g * size <= (h - 1) * size
    <3>1. (h - 1 - g) * size >= 0 /\ (h - 1 - g) * size = (h - 1) * size - g * size
      BY <1>7
    <3> QED BY <1>4, <3>1
  <2>2. /\ (h - 1) * size + 1..h * size \subseteq 1..Len(field)
        /\ (g - 1) * size + 1..g * size \subseteq 1..Len(field)
        /\ \A i \in (g - 1) * size + 1..g * size : \A j \in (h - 1) * size + 1..h * size : i # j
    BY <1>1, <1>2, <1>4, <2>1
  <2> QED BY <1>1, <2>2
<1> HIDE DEF In, Out
<1>8. \A g, h \in 1..heats : g # h => Range(d.heats[g]) \cap Range(d.heats[h]) = {}
  <2> SUFFICES ASSUME NEW g \in 1..heats, NEW h \in 1..heats, g # h
               PROVE  Range(d.heats[g]) \cap Range(d.heats[h]) = {}
    OBVIOUS
  <2>1. In(g) \cap In(h) = {}
    BY <1>7, g < h \/ h < g
  <2> QED BY <1>5, <2>1
<1> QED BY <1>3, <1>5, <1>6, <1>8 DEF Partition, d

-----------------------------------------------------------------------------
(* What a match adds to a journal, and who is drawn.                        *)

(* A result between the seats of a heat; whoever won it, once nothing is   *)
(* replayed, has not forfeited.                                            *)
HeatFair(x, rules) ==
  /\ x \in Results(Range(x.seats))
  /\ ~x.aborted /\ ~NeedsReplay(x, rules) /\ x.winner # None =>
       x.standings[x.winner].outcome # "forfeit"

LEMMA DecideFacts ==
  ASSUME NEW standings
  PROVE  DecideWinner(standings) \in DurableSeats(standings) \cup {None}
<1> DEFINE first == {id \in DurableSeats(standings) :
                       \A other \in DurableSeats(standings) :
                         standings[id].durable <= standings[other].durable}
<1>1. first \subseteq DurableSeats(standings)
  OBVIOUS
<1>2. DecideWinner(standings)
        = IF \E id \in first : first = {id} THEN CHOOSE id \in first : TRUE ELSE None
  BY DEF DecideWinner
<1> HIDE DEF first
<1> QED BY <1>1, <1>2

LEMMA RefereeFacts ==
  ASSUME NEW world
  PROVE  RefereeWinner(world) \in DOMAIN world.views \cup {None}
<1> DEFINE ahead == {t \in DOMAIN world.views :
                       \A u \in DOMAIN world.views \ {t} : Ahead(world.views[t], world.views[u])}
<1>1. ahead \subseteq DOMAIN world.views
  OBVIOUS
<1>2. RefereeWinner(world) = IF world.aborted \/ ahead = {} THEN None ELSE CHOOSE t \in ahead : TRUE
  BY DEF RefereeWinner
<1> HIDE DEF ahead
<1> QED BY <1>1, <1>2

LEMMA OutcomeFacts == \A view : Outcome(view) \in Outcomes
BY DEF Outcome, Outcomes

(* What a match adds to the journal.                                       *)
LEMMA ResultFair ==
  ASSUME NEW seats, Distinct(seats), NEW prior \in Seq(Kinds), NEW world, NEW rules,
         DOMAIN world.views = 1..Len(seats), world.aborted \in BOOLEAN,
         \A view \in Range(world.views) : view.points \in Nat /\ view.durable \in Nat \cup {None}
  PROVE  HeatFair(SettleForfeit(HeatResult(seats, prior, world), rules), rules)
<1> DEFINE ids == Range(seats)
           at(id) == CHOOSE t \in DOMAIN seats : seats[t] = id
           standings == Standings(seats, world)
           y == HeatResult(seats, prior, world)
           x == SettleForfeit(y, rules)
<1> SUFFICES HeatFair(x, rules)
  OBVIOUS
<1>1. /\ Len(seats) \in Nat /\ DOMAIN seats = 1..Len(seats)
      /\ ids = {seats[t] : t \in 1..Len(seats)} /\ seats \in Seq(ids)
  BY DistinctFacts
<1>2. standings \in [ids -> [outcome : Outcomes, points : Nat, durable : Nat \cup {None}]]
  <2>1. ASSUME NEW id \in ids
        PROVE  LET view == world.views[at(id)]
               IN [outcome |-> Outcome(view), points |-> view.points, durable |-> view.durable]
                    \in [outcome : Outcomes, points : Nat, durable : Nat \cup {None}]
    <3> DEFINE view == world.views[at(id)]
    <3>1. \E t \in DOMAIN seats : seats[t] = id
      BY <1>1
    <3>2. at(id) \in DOMAIN world.views
      BY <1>1, <3>1
    <3>3. view \in Range(world.views)
      BY <3>2 DEF Range
    <3>4. view.points \in Nat /\ view.durable \in Nat \cup {None} /\ Outcome(view) \in Outcomes
      BY <3>3, OutcomeFacts
    <3> HIDE DEF view
    <3>5. [outcome |-> Outcome(view), points |-> view.points, durable |-> view.durable]
            \in [outcome : Outcomes, points : Nat, durable : Nat \cup {None}]
      BY <3>4
    <3> QED BY <3>5 DEF view
  <2> QED BY <2>1 DEF Standings
<1>3. /\ y = [seats |-> seats, prior |-> prior, standings |-> standings,
              winner |-> IF RefereeWinner(world) # None THEN seats[RefereeWinner(world)]
                         ELSE DecideWinner(standings),
              aborted |-> world.aborted]
  BY DEF HeatResult
<1>5. DecideWinner(standings) \in DurableSeats(standings) \cup {None}
      /\ DurableSeats(standings) \subseteq ids
  BY <1>2, DecideFacts DEF DurableSeats
<1>6. RefereeWinner(world) # None => seats[RefereeWinner(world)] \in ids
  <2> SUFFICES ASSUME RefereeWinner(world) # None PROVE seats[RefereeWinner(world)] \in ids
    OBVIOUS
  <2>1. RefereeWinner(world) \in 1..Len(seats)
    BY RefereeFacts
  <2> QED BY <1>1, <2>1
<1> HIDE DEF standings, y, ids
<1>7. y \in Results(ids)
  BY <1>1, <1>2, <1>3, <1>5, <1>6 DEF Results
<1>8. x = IF Unavailable(y.standings) /\ ~y.aborted /\ ~NeedsReplay(y, rules)
          THEN [y EXCEPT !.winner = DecideWinner(y.standings)] ELSE y
  BY DEF SettleForfeit
<1> HIDE DEF x
<1>9. CASE Unavailable(y.standings) /\ ~y.aborted /\ ~NeedsReplay(y, rules)
  <2>1. x = [y EXCEPT !.winner = DecideWinner(standings)]
    BY <1>3, <1>8, <1>9
  <2>2. x = [seats |-> seats, prior |-> prior, standings |-> standings,
             winner |-> DecideWinner(standings), aborted |-> world.aborted]
    BY <1>3, <2>1
  <2>3. x \in Results(ids)
    BY <1>1, <1>2, <1>5, <2>2 DEF Results
  <2>4. x.winner # None => x.standings[x.winner].outcome = "durable"
    BY <1>5, <2>2 DEF DurableSeats
  <2> QED BY <2>2, <2>3, <2>4 DEF HeatFair, ids
<1>10. CASE ~(Unavailable(y.standings) /\ ~y.aborted /\ ~NeedsReplay(y, rules))
  <2>1. x = y /\ x.seats = seats /\ x.standings = standings
    BY <1>3, <1>8, <1>10
  <2>2. ASSUME ~x.aborted, ~NeedsReplay(x, rules), x.winner # None
        PROVE  x.standings[x.winner].outcome # "forfeit"
    <3>1. ~Unavailable(standings)
      BY <1>10, <2>1, <2>2
    <3>2. x.winner \in ids
      BY <1>7, <2>1, <2>2 DEF Results
    <3> QED BY <1>2, <2>1, <3>1, <3>2 DEF Unavailable
  <2> QED BY <1>7, <2>1, <2>2 DEF HeatFair, ids
<1> QED BY <1>9, <1>10

LEMMA ListedFacts ==
  ASSUME file \in DOMAIN Plans, Drawable
  PROVE  Distinct(Listed) /\ Range(Listed) = Ids(plan) /\ Ids(plan) \subseteq Nat
<1>1. plan \in Range(Plans)
  BY DEF plan, Range
<1> DEFINE fleet == FleetOf(plan)
<1>2. fleet \in Seq(Range(fleet)) /\ Ids(plan) \subseteq Nat
  BY <1>1, SeasonConstants, SeasonIds
<1>3. ~\E i, j \in DOMAIN fleet : i # j /\ fleet[i].id = fleet[j].id
  <2>1. SeasonErrors(plan) = {}
    BY DEF Drawable
  <2>2. (IF \E i, j \in DOMAIN fleet : i # j /\ fleet[i].id = fleet[j].id
         THEN {"twice"} ELSE {}) \subseteq SeasonErrors(plan)
    BY DEF SeasonErrors
  <2> QED BY <2>1, <2>2
<1>4. Listed = [i \in DOMAIN fleet |-> fleet[i].id]
  BY DEF Listed
<1>5. Ids(plan) = {fleet[i].id : i \in DOMAIN fleet}
  BY DEF Ids, Range
<1> HIDE DEF fleet
<1>6. DOMAIN fleet = 1..Len(fleet) /\ Len(fleet) \in Nat
  BY <1>2
<1>7. IsSeq(Listed) /\ Len(Listed) = Len(fleet)
  BY <1>4, <1>6 DEF IsSeq
<1>8. Distinct(Listed)
  <2>1. \A i, j \in 1..Len(Listed) : Listed[i] = Listed[j] => i = j
    BY <1>3, <1>4, <1>6, <1>7
  <2> QED BY <1>7, <2>1, MakeDistinct
<1>9. Range(Listed) = Ids(plan)
  BY <1>4, <1>5, <1>6 DEF Range
<1> QED BY <1>2, <1>8, <1>9

LEMMA LessIsStrict ==
  ASSUME NEW items \in SUBSET Nat
  PROVE  StrictOn(items, Less)
BY DEF StrictOn, Less

(* Whoever is drawn is drawn once.                                         *)
LEMMA SelectFacts ==
  ASSUME file \in DOMAIN Plans, Drawable
  PROVE  /\ Distinct(SelectEntrants) /\ Len(SelectEntrants) = Entrants
         /\ Range(SelectEntrants) \subseteq Ids(plan)
<1>1. Distinct(Listed) /\ Range(Listed) = Ids(plan) /\ Ids(plan) \subseteq Nat
  BY ListedFacts
<1>2. CASE plan.entrants = None
  BY <1>1, <1>2 DEF SelectEntrants, Entrants
<1>3. CASE plan.entrants # None
  <2> DEFINE s == InOrder(Range(Listed), Less)
             t == Rotated(s, 1)
  <2>1. Entrants \in Nat /\ Entrants <= Len(Listed) /\ Entrants >= 2
    BY DrawableFacts DEF Drawable
  <2>2. IsFiniteSet(Range(Listed)) /\ Cardinality(Range(Listed)) = Len(Listed)
    BY <1>1, DistinctSize
  <2>3. StrictOn(Range(Listed), Less)
    BY <1>1, LessIsStrict
  <2>4. Distinct(s) /\ Len(s) = Len(Listed) /\ Range(s) = Range(Listed)
    BY <2>2, <2>3, InOrderFacts
  <2> HIDE DEF s
  <2>5. Distinct(t) /\ Len(t) = Len(Listed) /\ Range(t) = Range(Listed)
    BY <2>4, RotatedFacts
  <2>6. SelectEntrants = SubSeq(t, 1, Entrants)
    BY <1>3 DEF SelectEntrants, s
  <2> HIDE DEF t
  <2>7. /\ Distinct(SelectEntrants) /\ Len(SelectEntrants) = Entrants - 1 + 1
        /\ Range(SelectEntrants) \subseteq Range(t)
    <3>1. 1 \in Nat /\ 1 >= 1 /\ Entrants <= Len(t) /\ 1 <= Entrants + 1
      BY <2>1, <2>5
    <3> QED BY <2>1, <2>5, <2>6, <3>1, DistinctPart
  <2> QED BY <1>1, <2>1, <2>5, <2>7
<1> QED BY <1>2, <1>3

-----------------------------------------------------------------------------
(* Wildcards, winners, and lists of both.                                   *)

LEMMA EmptyDistinct == Distinct(<<>>) /\ Range(<<>>) = {}
<1>1. Distinct(<<>>)
  BY EmptySeqFacts, MakeDistinct
<1> QED BY <1>1, EmptySeqFacts, DistinctFacts

LEMMA AppendDistinct ==
  ASSUME NEW s, Distinct(s), NEW x, x \notin Range(s)
  PROVE  Distinct(Append(s, x)) /\ Range(Append(s, x)) = Range(s) \cup {x}
<1> DEFINE t == Append(s, x)
<1>1. /\ Len(s) \in Nat /\ Range(s) = {s[i] : i \in 1..Len(s)} /\ IsSeq(s)
      /\ \A i, j \in 1..Len(s) : s[i] = s[j] => i = j
  BY DistinctFacts DEF Distinct
<1>2. /\ IsSeq(t) /\ Len(t) = Len(s) + 1
      /\ \A i \in 1..Len(s) : t[i] = s[i]
      /\ t[Len(s) + 1] = x
  BY <1>1, AppendFacts
<1> HIDE DEF t
<1>3. \A i \in 1..Len(t) : i \in 1..Len(s) \/ i = Len(s) + 1
  BY <1>1, <1>2
<1>4. \A i, j \in 1..Len(t) : t[i] = t[j] => i = j
  BY <1>1, <1>2, <1>3
<1>5. Distinct(t)
  BY <1>2, <1>4, MakeDistinct
<1>6. Range(t) = {t[i] : i \in 1..Len(t)}
  BY <1>5, DistinctFacts
<1>7. Len(s) + 1 \in 1..Len(t) /\ \A i \in 1..Len(s) : i \in 1..Len(t)
  BY <1>1, <1>2
<1> QED BY <1>1, <1>2, <1>3, <1>5, <1>6, <1>7 DEF t

LEMMA ConcatDistinct ==
  ASSUME NEW s, Distinct(s), NEW t, Distinct(t), Range(s) \cap Range(t) = {}
  PROVE  Distinct(s \o t) /\ Range(s \o t) = Range(s) \cup Range(t)
<1> DEFINE u == s \o t
           R == Range(s) \cup Range(t)
<1>1. /\ Len(s) \in Nat /\ Range(s) = {s[i] : i \in 1..Len(s)}
      /\ \A i, j \in 1..Len(s) : s[i] = s[j] => i = j
      /\ s \in Seq(Range(s))
  BY DistinctFacts
<1>2. /\ Len(t) \in Nat /\ Range(t) = {t[i] : i \in 1..Len(t)}
      /\ \A i, j \in 1..Len(t) : t[i] = t[j] => i = j
      /\ t \in Seq(Range(t))
  BY DistinctFacts
<1>3. s \in Seq(R) /\ t \in Seq(R)
  BY <1>1, <1>2
<1> HIDE DEF R
<1>4. /\ u \in Seq(R) /\ Len(u) = Len(s) + Len(t)
      /\ \A i \in 1..Len(u) : u[i] = IF i <= Len(s) THEN s[i] ELSE t[i - Len(s)]
  BY <1>1, <1>2, <1>3, ConcatProperties
<1> HIDE DEF u
<1>5. ASSUME NEW i \in 1..Len(u)
      PROVE  \/ i \in 1..Len(s) /\ u[i] = s[i]
             \/ i - Len(s) \in 1..Len(t) /\ u[i] = t[i - Len(s)]
  <2>1. CASE i <= Len(s)
    BY <1>1, <1>4, <2>1
  <2>2. CASE ~(i <= Len(s))
    <3>1. i - Len(s) \in 1..Len(t)
      BY <1>1, <1>2, <1>4, <2>2
    <3> QED BY <1>4, <2>2, <3>1
  <2> QED BY <2>1, <2>2
<1>6. ASSUME NEW i \in 1..Len(s), NEW j \in 1..Len(t) PROVE s[i] # t[j]
  <2>1. s[i] \in Range(s) /\ t[j] \in Range(t)
    BY <1>1, <1>2
  <2> QED BY <2>1
<1>7. ASSUME NEW i \in 1..Len(u), NEW j \in 1..Len(u), u[i] = u[j] PROVE i = j
  <2>1. \/ i \in 1..Len(s) /\ u[i] = s[i]
        \/ i - Len(s) \in 1..Len(t) /\ u[i] = t[i - Len(s)]
    BY <1>5
  <2>2. \/ j \in 1..Len(s) /\ u[j] = s[j]
        \/ j - Len(s) \in 1..Len(t) /\ u[j] = t[j - Len(s)]
    BY <1>5
  <2>3. CASE i \in 1..Len(s) /\ u[i] = s[i] /\ j \in 1..Len(s) /\ u[j] = s[j]
    BY <1>1, <1>7, <2>3
  <2>4. CASE /\ i - Len(s) \in 1..Len(t) /\ u[i] = t[i - Len(s)]
             /\ j - Len(s) \in 1..Len(t) /\ u[j] = t[j - Len(s)]
    <3>1. i - Len(s) = j - Len(s)
      BY <1>2, <1>7, <2>4
    <3> QED BY <1>1, <1>2, <1>4, <3>1
  <2> QED BY <1>6, <1>7, <2>1, <2>2, <2>3, <2>4
<1>8. Distinct(u)
  <2>1. IsSeq(u)
    BY <1>4, OfSeq
  <2> QED BY <1>7, <2>1, MakeDistinct
<1>9. Range(u) = {u[i] : i \in 1..Len(u)}
  BY <1>8, DistinctFacts
<1>10. ASSUME NEW i \in 1..Len(s) PROVE s[i] \in Range(u)
  <2>1. i \in 1..Len(u) /\ u[i] = s[i]
    BY <1>1, <1>2, <1>4
  <2> QED BY <1>9, <2>1
<1>11. ASSUME NEW j \in 1..Len(t) PROVE t[j] \in Range(u)
  <2>1. Len(s) + j \in 1..Len(u) /\ ~(Len(s) + j <= Len(s)) /\ (Len(s) + j) - Len(s) = j
    BY <1>1, <1>2, <1>4
  <2>2. u[Len(s) + j] = t[j]
    BY <1>4, <2>1
  <2> QED BY <1>9, <2>1, <2>2
<1>12. Range(u) \subseteq R
  BY <1>1, <1>2, <1>5, <1>9 DEF R
<1> QED BY <1>1, <1>2, <1>8, <1>10, <1>11, <1>12, SMTT(30) DEF u, R

-----------------------------------------------------------------------------
(* Who is promoted. *)
LEMMA BeforeIsStrict ==
  ASSUME NEW ids, NEW standings, NEW lottery,
         \A id \in ids : /\ standings[id].points \in Nat
                         /\ standings[id].durable \in Nat \cup {None}
                         /\ lottery[id] \in Nat
  PROVE  StrictOn(ids, {pair \in ids \X ids : Before(pair[1], pair[2], standings, lottery)})
<1> DEFINE B(a, b) == Before(a, b, standings, lottery)
<1>1. None \notin Nat
  BY SeasonIds
<1>2. \A a \in ids : ~B(a, a)
  BY <1>1 DEF Before
<1>3. ASSUME NEW a \in ids, NEW b \in ids, NEW c \in ids, B(a, b), B(b, c) PROVE B(a, c)
  BY <1>1, <1>3 DEF Before
<1> HIDE DEF B
<1>4. StrictOn(ids, {pair \in ids \X ids : B(pair[1], pair[2])})
  BY <1>2, <1>3 DEF StrictOn
<1> QED BY <1>4 DEF B

LEMMA SmallerOf ==
  ASSUME NEW a \in Nat, NEW b \in Nat
  PROVE  Min({a, b}) = IF a <= b THEN a ELSE b
<1> DEFINE m == IF a <= b THEN a ELSE b
<1>1. m \in {a, b} /\ \A y \in {a, b} : m <= y
  OBVIOUS
<1>2. \A x \in {a, b} : (\A y \in {a, b} : x <= y) => x = m
  OBVIOUS
<1> HIDE DEF m
<1>3. Min({a, b}) = m
  BY <1>1, <1>2 DEF Min
<1> QED BY <1>3 DEF m

LEMMA PromotedFacts ==
  ASSUME NEW heats, NEW fleet, IsFiniteSet(fleet), fleet \subseteq Nat,
         \A heat \in heats : /\ heat \in Results(Range(heat.seats))
                             /\ Range(heat.seats) \subseteq fleet,
         NEW r \in Nat, NEW wildcards \in Nat
  PROVE  LET promoted == Promoted(heats, wildcards, Lottery(fleet, r))
         IN /\ Distinct(promoted) /\ Range(promoted) \subseteq Losers(heats)
            /\ wildcards = 0 => promoted = <<>>
<1> DEFINE losers == Losers(heats)
           standings == RoundStandings(heats)
           lottery == Lottery(fleet, r)
           order == {pair \in losers \X losers : Before(pair[1], pair[2], standings, lottery)}
           ranked == RankWildcards(losers, standings, lottery)
           n == Min({wildcards, Len(ranked)})
           promoted == Promoted(heats, wildcards, lottery)
<1>1. \A heat \in heats :
        /\ DOMAIN heat.standings \subseteq fleet
        /\ \A id \in DOMAIN heat.standings :
             /\ heat.standings[id].points \in Nat
             /\ heat.standings[id].durable \in Nat \cup {None}
  BY DEF Results
<1>2. losers \subseteq fleet
  BY <1>1 DEF Losers
<1>3. ASSUME NEW id \in losers
      PROVE  /\ standings[id].points \in Nat /\ standings[id].durable \in Nat \cup {None}
             /\ lottery[id] \in Nat
  <2> DEFINE heat == CHOOSE heat \in heats : id \in DOMAIN heat.standings
  <2>1. \E x \in heats : id \in DOMAIN x.standings
    BY DEF Losers
  <2>2. heat \in heats /\ id \in DOMAIN heat.standings
    BY <2>1
  <2>3. standings[id] = heat.standings[id]
    BY <2>1 DEF RoundStandings
  <2> HIDE DEF heat
  <2>4. standings[id].points \in Nat /\ standings[id].durable \in Nat \cup {None}
    BY <1>1, <2>2, <2>3
  <2>5. lottery[id] \in Nat
    <3> DEFINE below == Cardinality({x \in fleet : x < id})
               all == Cardinality(fleet)
    <3>1. id \in fleet /\ fleet # {}
      BY <1>2
    <3>2. IsFiniteSet({x \in fleet : x < id})
      BY FS_Subset
    <3>3. below \in Nat /\ all \in Nat /\ all # 0
      BY <3>1, <3>2, FS_CardinalityType, FS_EmptySet
    <3>4. lottery[id] = (below + r) % all
      BY <3>1 DEF Lottery
    <3> HIDE DEF below, all, lottery
    <3>5. (below + r) % all \in Nat
      BY <3>3, Division
    <3> QED BY <3>4, <3>5
  <2> QED BY <2>4, <2>5
<1>4. ranked = InOrder(losers, order)
  BY DEF RankWildcards
<1>5. promoted = SubSeq(ranked, 1, n)
  BY DEF Promoted
<1> HIDE DEF losers, standings, lottery, ranked, n, promoted
<1>6. StrictOn(losers, order)
  BY <1>3, BeforeIsStrict
<1>7. IsFiniteSet(losers)
  BY <1>2, FS_Subset
<1> HIDE DEF order
<1>8. Distinct(ranked) /\ Range(ranked) = losers
  BY <1>4, <1>6, <1>7, InOrderFacts
<1>9. Len(ranked) \in Nat
  BY <1>8, DistinctFacts
<1>10. n = IF wildcards <= Len(ranked) THEN wildcards ELSE Len(ranked)
  BY <1>9, SmallerOf DEF n
<1>11. n \in Nat /\ n <= Len(ranked) /\ 1 <= n + 1 /\ 1 \in Nat /\ 1 >= 1
  BY <1>9, <1>10
<1>12. /\ Distinct(promoted) /\ Len(promoted) = n - 1 + 1 /\ Range(promoted) \subseteq losers
  BY <1>5, <1>8, <1>11, DistinctPart
<1>13. ASSUME wildcards = 0 PROVE promoted = <<>>
  <2>1. Len(promoted) = 0
    BY <1>9, <1>10, <1>12, <1>13
  <2>2. promoted \in Seq(Range(promoted))
    BY <1>12, DistinctFacts
  <2> QED BY <2>1, <2>2
<1> QED BY <1>12, <1>13 DEF promoted, lottery, losers

-----------------------------------------------------------------------------
(* The winners of a round. *)
Gathered(g, heats, h) ==
  IF h = 0 THEN <<>>
  ELSE IF heats[h].winner = None THEN g[h - 1]
  ELSE Append(g[h - 1], heats[h].winner)

Gathers(g, heats, n) == g = [h \in 0..n |-> Gathered(g, heats, h)]

LEMMA WinnersIs ==
  ASSUME NEW heats, NEW g, Gathers(g, heats, Len(heats))
  PROVE  \E f : Gathers(f, heats, Len(heats)) /\ Winners(heats) = f[Len(heats)]
BY DEF Winners, Gathers, Gathered

LEMMA GathersExists ==
  ASSUME NEW heats
  PROVE  \A n \in Nat : \E g : Gathers(g, heats, n)
<1> DEFINE N == {n \in Nat : \E g : Gathers(g, heats, n)}
<1>1. 0 \in N
  <2> DEFINE g == [h \in 0..0 |-> <<>>]
  <2>1. g = [h \in 0..0 |-> Gathered(g, heats, h)]
    BY DEF Gathered
  <2> HIDE DEF g
  <2>2. Gathers(g, heats, 0)
    BY <2>1 DEF Gathers
  <2> QED BY <2>2
<1>2. ASSUME NEW n \in Nat, n \in N PROVE n + 1 \in N
  <2>1. PICK g : Gathers(g, heats, n)
    BY <1>2
  <2> DEFINE f == [h \in 0..n + 1 |-> IF h = n + 1 THEN Gathered(g, heats, n + 1) ELSE g[h]]
  <2>2. ASSUME NEW h \in 0..n + 1 PROVE f[h] = Gathered(f, heats, h)
    <3>1. f[h] = Gathered(g, heats, h)
      <4>1. h # n + 1 => h \in 0..n
        OBVIOUS
      <4> QED BY <2>1, <4>1 DEF Gathers
    <3>2. h # 0 => f[h - 1] = g[h - 1]
      OBVIOUS
    <3> HIDE DEF f
    <3> QED BY <3>1, <3>2 DEF Gathered
  <2>3. f = [h \in 0..n + 1 |-> f[h]]
    OBVIOUS
  <2> HIDE DEF f
  <2>4. Gathers(f, heats, n + 1)
    BY <2>2, <2>3 DEF Gathers
  <2> QED BY <2>4
<1> HIDE DEF N
<1>3. \A n \in Nat : n \in N
  BY <1>1, <1>2, SetInduction
<1> QED BY <1>3 DEF N

LEMMA WinnersFacts ==
  ASSUME NEW heats, Len(heats) \in Nat,
         \A g, h \in 1..Len(heats) :
           g # h /\ heats[g].winner # None => heats[g].winner # heats[h].winner
  PROVE  /\ Distinct(Winners(heats))
         /\ Range(Winners(heats)) = {heats[h].winner : h \in 1..Len(heats)} \ {None}
<1> DEFINE L == Len(heats)
           Won(n) == {heats[h].winner : h \in 1..n} \ {None}
<1>1. PICK g : Gathers(g, heats, L) /\ Winners(heats) = g[L]
  BY GathersExists, WinnersIs
<1> DEFINE Lists(s, S) == Distinct(s) /\ Range(s) = S
           N == {n \in Nat : n <= L => Lists(g[n], Won(n))}
<1>2. 0 \in N
  <2>1. g[0] = <<>>
    BY <1>1 DEF Gathers, Gathered
  <2>2. Won(0) = {}
    OBVIOUS
  <2> QED BY <2>1, <2>2, EmptyDistinct
<1>3. ASSUME NEW n \in Nat, n \in N PROVE n + 1 \in N
  <2> SUFFICES ASSUME n + 1 <= L PROVE Lists(g[n + 1], Won(n + 1))
    OBVIOUS
  <2>1. Distinct(g[n]) /\ Range(g[n]) = Won(n)
    BY <1>3
  <2> DEFINE w == heats[n + 1].winner
  <2>2. g[n + 1] = IF w = None THEN g[n] ELSE Append(g[n], w)
    <3>1. n + 1 \in 0..L /\ n + 1 # 0 /\ (n + 1) - 1 = n
      OBVIOUS
    <3> QED BY <1>1, <3>1 DEF Gathers, Gathered
  <2>3. 1..n + 1 = 1..n \cup {n + 1} /\ n + 1 \in 1..L /\ 1..n \subseteq 1..L
    OBVIOUS
  <2>4. Won(n + 1) = (Won(n) \cup {w}) \ {None}
    BY <2>3
  <2>5. w # None => w \notin Won(n)
    BY <2>3
  <2>6. None \notin Won(n)
    OBVIOUS
  <2> HIDE DEF w, Won
  <2>7. CASE w = None
    BY <2>1, <2>2, <2>4, <2>6, <2>7
  <2>8. CASE w # None
    <3>1. w \notin Range(g[n])
      BY <2>1, <2>5, <2>8
    <3>2. Distinct(Append(g[n], w)) /\ Range(Append(g[n], w)) = Range(g[n]) \cup {w}
      BY <2>1, <3>1, AppendDistinct
    <3>3. Won(n + 1) = Won(n) \cup {w}
      BY <2>4, <2>6, <2>8
    <3> QED BY <2>1, <2>2, <2>8, <3>2, <3>3
  <2> QED BY <2>7, <2>8
<1> HIDE DEF N
<1>4. \A n \in Nat : n \in N
  BY <1>2, <1>3, SetInduction
<1>5. Lists(g[L], Won(L))
  <2>1. L \in N
    BY <1>4
  <2> QED BY <2>1 DEF N
<1> QED BY <1>1, <1>5

-----------------------------------------------------------------------------
(* Who plays a round, who leaves it.                                        *)

(* The draw is the one of the season's own entrants.                       *)
DrawFair ==
  draw # None =>
    /\ draw.fleet = SelectEntrants
    /\ draw.first = DrawHeats(SelectEntrants, Size, draw.shape[1].heats, 0)

JournalFair == \A slot \in Slots : journal[slot] # None => HeatFair(journal[slot], Rules)

RoundFair(r) ==
  \A h \in 1..Len(week.rounds[r].heats) : HeatFair(week.rounds[r].heats[h], Rules)

RoundsFair == \A r \in 1..Len(week.rounds) : RoundFair(r)

SettledFair == pc = "settled" => HeatFair(journal[Current], Rules)

(* Nothing is played when the week is over.                                *)
RunsOn ==
  /\ pc \in {"entering", "heats", "match", "settled"} => ~Settled
  /\ draw = None => ~week.completed

Fair == DrawFair /\ JournalFair /\ RoundsFair /\ SettledFair /\ RunsOn

-----------------------------------------------------------------------------
(* The players of round r, as they enter it. *)
Entering(r) == IF r = 1 THEN draw.fleet ELSE Advancing(r)

LEMMA PositionsType ==
  ASSUME Inv, draw # None
  PROVE  \A r \in 1..LastRound : Positions(draw.shape)[r] \in Nat
<1> DEFINE at == Positions(draw.shape)
           N == {n \in Nat : n \in 1..LastRound => at[n] \in Nat}
<1>1. /\ LastRound \in Nat /\ LastRound >= 1
      /\ \A r \in 1..LastRound : draw.shape[r].heats \in Nat
  BY ShapeFacts
<1>2. /\ at[1] = 0 /\ at[2] = 1
      /\ \A r \in 2..LastRound : at[r + 1] = at[r] + 1 + draw.shape[r].heats
  <2>1. LastRound = Len(draw.shape)
    BY DEF LastRound
  <2> QED BY <1>1, <2>1, PositionsAre
<1> HIDE DEF at
<1>3. 0 \in N
  OBVIOUS
<1>4. ASSUME NEW n \in Nat, n \in N PROVE n + 1 \in N
  <2> SUFFICES ASSUME n + 1 \in 1..LastRound PROVE at[n + 1] \in Nat
    OBVIOUS
  <2>1. CASE n = 0 \/ n = 1
    BY <1>2, <2>1
  <2>2. CASE n \in 2..LastRound
    <3>1. at[n] \in Nat /\ draw.shape[n].heats \in Nat
      BY <1>1, <1>4, <2>2
    <3> QED BY <1>2, <2>2, <3>1
  <2> QED BY <1>1, <2>1, <2>2
<1> HIDE DEF N
<1>5. \A n \in Nat : n \in N
  BY <1>3, <1>4, SetInduction
<1> QED BY <1>5 DEF N, at

LEMMA ShapeByes ==
  ASSUME Inv, draw # None
  PROVE  /\ \A r \in 1..LastRound : draw.shape[r].byes \in Nat /\ draw.shape[r].wildcards \in Nat
         /\ FieldOf(draw.shape[1], Size) = Entrants
         /\ draw.shape[LastRound] = Round(1, 0, 0)
         /\ \A r \in 2..LastRound :
              FieldOf(draw.shape[r], Size) < FieldOf(draw.shape[r - 1], Size)
<1> DEFINE shape == draw.shape
<1>1. /\ Size \in Nat /\ Size >= 2 /\ Entrants \in Nat /\ IsBracket(shape, Entrants, Size)
      /\ LastRound = Len(shape)
  BY DrawableFacts DEF Inv, DrawOK, LastRound
<1> HIDE DEF shape
<1>2. \A r \in 1..Len(shape) : shape[r] \in RoundShapes
  BY <1>1 DEF IsBracket
<1>3. FieldOf(shape[1], Size) = Entrants
  BY <1>1, FirstField
<1> QED BY <1>1, <1>2, <1>3 DEF IsBracket, RoundShapes, shape

LEMMA FleetFacts ==
  ASSUME Inv, DrawFair, draw # None
  PROVE  /\ Distinct(draw.fleet) /\ Len(draw.fleet) = Entrants /\ Fleet = Range(draw.fleet)
         /\ IsFiniteSet(Fleet) /\ Cardinality(Fleet) = Entrants
         /\ Fleet \subseteq Ids(plan) /\ Fleet \subseteq Nat
<1>1. file \in DOMAIN Plans /\ Drawable /\ draw.fleet = SelectEntrants
  BY DEF Inv, DrawOK, DrawFair
<1>2. /\ Distinct(draw.fleet) /\ Len(draw.fleet) = Entrants
      /\ Range(draw.fleet) \subseteq Ids(plan) /\ Ids(plan) \subseteq Nat
  BY <1>1, SelectFacts, ListedFacts
<1> QED BY <1>2, DistinctSize DEF Fleet

(* A round that may be played seats its players once.                      *)
LEMMA RoundPartition ==
  ASSUME Inv, DrawFair, draw # None, NEW r, Ready(r), Distinct(Entering(r))
  PROVE  /\ Partition(DrawOf(r), draw.shape[r].heats, Size, Range(Entering(r)))
         /\ Len(DrawOf(r).byes) = draw.shape[r].byes
         /\ Len(Entering(r)) = FieldOf(draw.shape[r], Size)
<1> DEFINE n == draw.shape[r].heats
           b == draw.shape[r].byes
           p == Positions(draw.shape)[r]
<1>1. r \in 1..LastRound /\ n \in Nat /\ Size \in Nat /\ Size >= 2 /\ b \in Nat /\ p \in Nat
      /\ LastRound \in Nat
  BY ShapeFacts, ShapeByes, PositionsType DEF Ready
<1>2. FieldOf(draw.shape[r], Size) = n * Size + b
  BY DEF FieldOf
<1>3. n * Size \in Nat /\ (n * Size + b) - n * Size = b /\ n * Size <= n * Size + b
  <2> HIDE DEF n, b
  <2> QED BY <1>1
<1>4. CASE r = 1
  <2>1. DrawOf(r) = DrawHeats(draw.fleet, Size, n, 0) /\ Entering(r) = draw.fleet
    BY <1>4 DEF DrawFair, DrawOf, RoundDraw, Entering
  <2>2. Distinct(draw.fleet) /\ Len(draw.fleet) = n * Size + b
    BY <1>2, <1>4, FleetFacts, ShapeByes
  <2> HIDE DEF n, b
  <2>3. /\ Partition(DrawOf(r), n, Size, Range(Entering(r)))
        /\ Len(DrawOf(r).byes) = Len(draw.fleet) - n * Size
    <3>1. Size >= 1 /\ n * Size <= Len(draw.fleet) /\ 0 \in Nat
      BY <1>1, <1>3, <2>2
    <3>2. /\ Partition(DrawHeats(draw.fleet, Size, n, 0), n, Size, Range(draw.fleet))
          /\ Len(DrawHeats(draw.fleet, Size, n, 0).byes) = Len(draw.fleet) - n * Size
      BY <1>1, <2>2, <3>1, DrawHeatsPartition
    <3> QED BY <2>1, <3>2
  <2> QED BY <1>2, <1>3, <2>1, <2>2, <2>3 DEF n, b
<1>5. CASE r # 1
  <2> DEFINE field == Rotated(Advancing(r), p)
  <2>1. Entering(r) = Advancing(r) /\ Len(Advancing(r)) = n * Size + b
    BY <1>2, <1>5 DEF Entering, Ready
  <2>2. /\ Distinct(field) /\ Len(field) = n * Size + b
        /\ Range(field) = Range(Entering(r))
    BY <1>1, <2>1, RotatedFacts
  <2>3. Len(Advancing(r)) \div Size = n
    <3>1. r \in 2..LastRound
      BY <1>1, <1>5
    <3> QED BY <1>2, <2>1, <3>1, ShapeFacts
  <2>4. DrawOf(r) = DrawHeats(field, Size, n, p)
    BY <1>5, <2>3 DEF DrawOf, RoundDraw
  <2> HIDE DEF n, b, p, field
  <2>5. /\ Partition(DrawOf(r), n, Size, Range(Entering(r)))
        /\ Len(DrawOf(r).byes) = Len(field) - n * Size
    <3>1. Size >= 1 /\ n * Size <= Len(field)
      BY <1>1, <1>3, <2>2
    <3>2. /\ Partition(DrawHeats(field, Size, n, p), n, Size, Range(field))
          /\ Len(DrawHeats(field, Size, n, p).byes) = Len(field) - n * Size
      BY <1>1, <2>2, <3>1, DrawHeatsPartition
    <3> QED BY <2>2, <2>4, <3>2
  <2> QED BY <1>2, <1>3, <2>1, <2>2, <2>5 DEF n, b
<1> QED BY <1>4, <1>5

(* Who advances from a round has played it or sat it out, once, and did    *)
(* not forfeit.                                                            *)
LEMMA RoundEntries ==
  ASSUME Inv, Fair, draw # None, NEW r \in 1..Len(week.rounds), Distinct(Entering(r)),
         Range(Entering(r)) \subseteq Fleet
  PROVE  LET x == week.rounds[r]
             entries == Entries(x)
         IN /\ Distinct(entries) /\ Range(entries) \subseteq Range(Entering(r))
            /\ \A heat \in Range(x.heats) : \A id \in DOMAIN heat.standings :
                 heat.standings[id].outcome = "forfeit" /\ ~heat.aborted =>
                   id \notin Range(entries)
<1> DEFINE x == week.rounds[r]
           d == DrawOf(r)
           n == draw.shape[r].heats
           L == Len(x.heats)
           P == Range(Entering(r))
           W == Range(Winners(x.heats))
           B == Range(x.byes)
           C == Range(x.wildcards)
<1>1. RoundOK(r) /\ RoundFair(r)
  BY DEF Inv, WeekOK, Fair, RoundsFair
<1>2. Partition(d, n, Size, P) /\ n \in Nat
  BY <1>1, RoundPartition, DrawFacts DEF RoundOK, Fair
<1>3. /\ IsSeq(x.heats) /\ L \in 1..n /\ L \in Nat /\ x.byes = d.byes
      /\ x.wildcards = <<>> \/ x.wildcards = Promotions(r)
  BY <1>1, <1>2 DEF RoundOK, Finished
<1>4. ASSUME NEW h \in 1..L
      PROVE  /\ h \in 1..n
             /\ x.heats[h].seats = d.heats[h]
             /\ HeatFair(x.heats[h], Rules) /\ ~NeedsReplay(x.heats[h], Rules)
  <2>1. h \in 1..n
    BY <1>2, <1>3
  <2>2. x.heats[h].seats = d.heats[h] /\ ~NeedsReplay(x.heats[h], Rules)
    BY <1>1 DEF RoundOK
  <2>3. HeatFair(x.heats[h], Rules)
    BY <1>1 DEF RoundFair
  <2> QED BY <2>1, <2>2, <2>3
<1>5. Range(x.heats) = {x.heats[h] : h \in 1..L}
  BY <1>3, SeqFacts DEF Range
<1>6. Promotions(r) = Promoted(Range(x.heats), draw.shape[r].wildcards, Lottery(Fleet, r))
  BY DEF Promotions
<1>7. r \in Nat /\ draw.shape[r].wildcards \in Nat
  BY <1>1, ShapeByes DEF RoundOK, Ready
<1>8. IsFiniteSet(Fleet) /\ Fleet \subseteq Nat
  BY FleetFacts DEF Fair
<1> HIDE DEF x, d, n, L, P, W, B, C
<1>9. ASSUME NEW h \in 1..L
      PROVE  /\ x.heats[h] \in Results(Range(d.heats[h]))
             /\ DOMAIN x.heats[h].standings = Range(d.heats[h])
             /\ x.heats[h].winner \in Range(d.heats[h]) \cup {None}
             /\ Range(d.heats[h]) \subseteq P /\ Range(d.heats[h]) \cap B = {}
  <2>1. x.heats[h] \in Results(Range(d.heats[h]))
    BY <1>4 DEF HeatFair
  <2> QED BY <1>2, <1>3, <1>4, <2>1 DEF Results, Partition, B
<1>10. \A g, h \in 1..L : g # h => Range(d.heats[g]) \cap Range(d.heats[h]) = {}
  BY <1>2, <1>4 DEF Partition
<1>11. Distinct(Winners(x.heats)) /\ W = {x.heats[h].winner : h \in 1..L} \ {None}
  <2>1. \A g, h \in 1..L : g # h /\ x.heats[g].winner # None =>
                             x.heats[g].winner # x.heats[h].winner
    BY <1>9, <1>10
  <2> QED BY <1>3, <2>1, WinnersFacts DEF L, W
<1>12. Distinct(x.byes) /\ B \subseteq P
  BY <1>2, <1>3 DEF Partition, B
<1>13. Distinct(x.wildcards) /\ C \subseteq Losers(Range(x.heats))
  <2>1. CASE x.wildcards = <<>>
    BY <2>1, EmptyDistinct DEF C
  <2>2. CASE x.wildcards = Promotions(r)
    <3>1. \A heat \in Range(x.heats) : /\ heat \in Results(Range(heat.seats))
                                       /\ Range(heat.seats) \subseteq Fleet
      BY <1>4, <1>5, <1>9 DEF P
    <3>2. /\ Distinct(Promotions(r)) /\ Range(Promotions(r)) \subseteq Losers(Range(x.heats))
      BY <1>6, <1>7, <1>8, <3>1, PromotedFacts
    <3> QED BY <2>2, <3>2 DEF C
  <2> QED BY <1>3, <2>1, <2>2
<1>14. ASSUME NEW id \in C
       PROVE  \E h \in 1..L : /\ id \in Range(d.heats[h]) /\ id # x.heats[h].winner
                              /\ x.heats[h].standings[id].outcome # "forfeit"
  <2>1. PICK heat \in Range(x.heats) :
          /\ id \in DOMAIN heat.standings /\ id # heat.winner
          /\ heat.standings[id].outcome # "forfeit"
    BY <1>13 DEF Losers
  <2>2. PICK h \in 1..L : heat = x.heats[h]
    BY <1>5
  <2> QED BY <1>9, <2>1, <2>2
<1>15. ASSUME NEW id \in W
       PROVE  \E h \in 1..L : id \in Range(d.heats[h]) /\ id = x.heats[h].winner /\ id # None
  <2>1. PICK h \in 1..L : id = x.heats[h].winner /\ id # None
    BY <1>11
  <2> QED BY <1>9, <2>1
<1>16. W \cap B = {} /\ W \cap C = {} /\ B \cap C = {} /\ W \cup B \cup C \subseteq P
  <2>1. W \cap B = {} /\ W \subseteq P
    BY <1>9, <1>15
  <2>2. B \cap C = {} /\ C \subseteq P
    BY <1>9, <1>14
  <2>3. ASSUME NEW id \in W, id \in C PROVE FALSE
    <3>1. PICK g \in 1..L : id \in Range(d.heats[g]) /\ id = x.heats[g].winner
      BY <1>15
    <3>2. PICK h \in 1..L : id \in Range(d.heats[h]) /\ id # x.heats[h].winner
      BY <1>14, <2>3
    <3> QED BY <1>10, <3>1, <3>2
  <2> QED BY <1>12, <2>1, <2>2, <2>3
<1>17. Distinct(Entries(x)) /\ Range(Entries(x)) = W \cup B \cup C
  <2> DEFINE s == Winners(x.heats) \o x.byes
  <2>1. Distinct(s) /\ Range(s) = W \cup B
    BY <1>11, <1>12, <1>16, ConcatDistinct DEF W, B
  <2>2. Entries(x) = s \o x.wildcards
    BY DEF Entries
  <2> HIDE DEF s
  <2>3. Range(s) \cap Range(x.wildcards) = {}
    BY <1>16, <2>1 DEF C
  <2>4. Distinct(s \o x.wildcards) /\ Range(s \o x.wildcards) = Range(s) \cup C
    BY <1>13, <2>1, <2>3, ConcatDistinct DEF C
  <2> QED BY <2>1, <2>2, <2>4
<1>18. ASSUME NEW heat \in Range(x.heats), NEW id \in DOMAIN heat.standings,
              heat.standings[id].outcome = "forfeit", ~heat.aborted
       PROVE  id \notin W \cup B \cup C
  <2>1. PICK h \in 1..L : heat = x.heats[h]
    BY <1>5
  <2>2. id \in Range(d.heats[h])
    BY <1>9, <2>1
  <2>3. id \notin B
    BY <1>9, <2>2
  <2>4. ASSUME id \in W PROVE FALSE
    <3>1. PICK g \in 1..L : id \in Range(d.heats[g]) /\ id = x.heats[g].winner /\ id # None
      BY <1>15, <2>4
    <3>2. g = h
      BY <1>10, <2>2, <3>1
    <3>3. heat.winner = id
      BY <2>1, <3>1, <3>2
    <3> QED BY <1>4, <1>18, <2>1, <3>1, <3>3 DEF HeatFair
  <2>5. ASSUME id \in C PROVE FALSE
    <3>1. PICK g \in 1..L : /\ id \in Range(d.heats[g])
                            /\ x.heats[g].standings[id].outcome # "forfeit"
      BY <1>14, <2>5
    <3>2. g = h
      BY <1>10, <2>2, <3>1
    <3> QED BY <1>18, <2>1, <3>1, <3>2
  <2> QED BY <2>3, <2>4, <2>5
<1> QED BY <1>16, <1>17, <1>18 DEF x, P

LEMMA FieldsAre ==
  ASSUME Inv, Fair, draw # None
  PROVE  \A r \in 1..Len(week.rounds) + 1 :
           Distinct(Entering(r)) /\ Range(Entering(r)) \subseteq Fleet
<1> DEFINE N == {n \in Nat : n \in 1..Len(week.rounds) + 1 =>
                   Distinct(Entering(n)) /\ Range(Entering(n)) \subseteq Fleet}
<1>1. 0 \in N
  OBVIOUS
<1>2. Len(week.rounds) \in Nat
  BY DEF Inv, WeekOK, IsSeq
<1>3. ASSUME NEW n \in Nat, n \in N PROVE n + 1 \in N
  <2> SUFFICES ASSUME n + 1 \in 1..Len(week.rounds) + 1
               PROVE  Distinct(Entering(n + 1)) /\ Range(Entering(n + 1)) \subseteq Fleet
    OBVIOUS
  <2>1. CASE n = 0
    <3>1. Entering(n + 1) = draw.fleet
      BY <2>1 DEF Entering
    <3> QED BY <3>1, FleetFacts DEF Fair
  <2>2. CASE n # 0
    <3>1. n \in 1..Len(week.rounds) /\ n + 1 # 1 /\ (n + 1) - 1 = n
      BY <1>2, <2>2
    <3>2. Distinct(Entering(n)) /\ Range(Entering(n)) \subseteq Fleet
      BY <1>2, <1>3, <3>1
    <3>3. Entering(n + 1) = Entries(week.rounds[n])
      BY <3>1 DEF Entering, Advancing
    <3>4. Distinct(Entries(week.rounds[n]))
          /\ Range(Entries(week.rounds[n])) \subseteq Range(Entering(n))
      BY <3>1, <3>2, RoundEntries
    <3> QED BY <3>2, <3>3, <3>4
  <2> QED BY <2>1, <2>2
<1> HIDE DEF N
<1>4. \A n \in Nat : n \in N
  BY <1>1, <1>3, SetInduction
<1> QED BY <1>2, <1>4 DEF N

-----------------------------------------------------------------------------
(* What a step leaves of the week.                                          *)

(* Only the last round has heats left. *)
LEMMA FinishedBefore ==
  ASSUME Inv, draw # None, NEW r \in 1..Len(week.rounds), r # Len(week.rounds)
  PROVE  Finished(r)
<1>1. Len(week.rounds) \in Nat
  BY DEF Inv, WeekOK, IsSeq
<1>2. r + 1 \in 1..Len(week.rounds) /\ r + 1 # 1 /\ (r + 1) - 1 = r
  BY <1>1
<1>3. Ready(r + 1)
  BY <1>2 DEF Inv, WeekOK, RoundOK
<1> QED BY <1>2, <1>3 DEF Ready

LEMMA RoundIsLast ==
  ASSUME Inv, pc \in {"heats", "match", "settled"}, HeatsLeft
  PROVE  round \in {Len(week.rounds), Len(week.rounds) + 1}
<1>1. /\ draw # None /\ round \in 1..LastRound /\ round <= Len(week.rounds) + 1
      /\ Len(week.rounds) \in Nat /\ Len(drawn.heats) = draw.shape[round].heats
      /\ draw.shape[round].heats \in Nat
  BY InPlay
<1>2. ASSUME round < Len(week.rounds) PROVE FALSE
  <2>1. round \in 1..Len(week.rounds) /\ round # Len(week.rounds)
    BY <1>1, <1>2
  <2>2. Finished(round)
    BY <1>1, <2>1, FinishedBefore
  <2>3. RecordedHeats = week.rounds[round].heats
    BY <1>2, <1>1 DEF RecordedHeats
  <2> QED BY <1>1, <2>2, <2>3 DEF Finished, HeatsLeft
<1> QED BY <1>1, <1>2

(* What a settled heat leaves in the journal. *)
LEMMA SettleStep ==
  ASSUME Inv, SettleHeat
  PROVE  /\ UNCHANGED <<file, draw, week, round, drawn>> /\ pc = "heats" /\ pc' = "settled"
         /\ draw # None /\ Current \in Slots /\ Current' = Current
         /\ journal[Current] # None /\ ~NeedsReplay(journal[Current], Rules)
         /\ \A slot \in Slots : slot # Current => journal'[slot] = journal[slot]
         /\ journal'[Current]
              = IF round = LastRound
                THEN [journal[Current] EXCEPT !.winner = DurableHeatWinner(journal[Current])]
                ELSE journal[Current]
<1>1. /\ UNCHANGED <<file, draw, week, round, drawn>>
      /\ pc = "heats" /\ pc' = "settled" /\ HeatsLeft /\ ~MayPlay
      /\ journal' = IF round = LastRound
                    THEN [journal EXCEPT ![Current].winner = DurableHeatWinner(journal[Current])]
                    ELSE journal
  BY DEF SettleHeat
<1>2. journal[Current] # None /\ ~NeedsReplay(journal[Current], Rules)
  BY <1>1 DEF MayPlay
<1>3. draw # None /\ Current \in Slots /\ Current' = Current
  BY <1>1, InPlay DEF Current, RecordedHeats
<1>4. journal = [slot \in Slots |-> journal[slot]]
  BY DEF Inv, JournalOK
<1> DEFINE new == [journal[Current] EXCEPT !.winner = DurableHeatWinner(journal[Current])]
<1>5. CASE round = LastRound
  <2>1. journal' = [journal EXCEPT ![Current] = new]
    BY <1>1, <1>5
  <2> HIDE DEF new
  <2>2. /\ journal'[Current] = new
        /\ \A slot \in Slots : slot # Current => journal'[slot] = journal[slot]
    BY <1>3, <1>4, <2>1
  <2> QED BY <1>1, <1>2, <1>3, <1>5, <2>2 DEF new
<1>6. CASE round # LastRound
  BY <1>1, <1>2, <1>3, <1>6
<1> QED BY <1>5, <1>6

(* The end of a round adds wildcards to the last one at most. *)
LEMMA FinishStep ==
  ASSUME Inv, FinishRound
  PROVE  /\ UNCHANGED <<file, draw, journal>> /\ pc = "heats" /\ pc' = "entering"
         /\ draw # None /\ Len(week.rounds) \in Nat /\ Len(week.rounds) >= 1
         /\ Len(week'.rounds) = Len(week.rounds)
         /\ week'.completed = week.completed /\ week'.champion = week.champion
         /\ \A r \in 1..Len(week.rounds) :
              /\ week'.rounds[r].heats = week.rounds[r].heats
              /\ week'.rounds[r].byes = week.rounds[r].byes
              /\ r # Len(week.rounds) => week'.rounds[r] = week.rounds[r]
<1> DEFINE n == Len(week.rounds)
           old == week.rounds[round]
           top == [old EXCEPT !.wildcards = Promotions(round)]
<1>1. /\ UNCHANGED <<file, draw, journal>> /\ pc = "heats" /\ pc' = "entering" /\ ~HeatsLeft
      /\ week' = IF old.wildcards = <<>>
                 THEN [week EXCEPT !.rounds[round].wildcards = Promotions(round)] ELSE week
  BY DEF FinishRound
<1>2. /\ draw # None /\ round \in 1..LastRound /\ round <= n + 1 /\ n \in Nat
      /\ Len(drawn.heats) = draw.shape[round].heats
      /\ draw.shape[round].heats \in Nat \ {0}
      /\ IsSeq(RecordedHeats) /\ Len(RecordedHeats) <= Len(drawn.heats)
  BY <1>1, InPlay
<1>3. round \in 1..n
  <2>1. Len(RecordedHeats) # 0
    BY <1>1, <1>2 DEF HeatsLeft, IsSeq
  <2>2. round <= n
    BY <2>1, EmptySeqFacts DEF RecordedHeats
  <2> QED BY <1>2, <2>2
<1>4. IsSeq(week.rounds) /\ RoundOK(round) /\ n >= 1
  BY <1>2, <1>3 DEF Inv, WeekOK
<1>5. /\ week = [rounds |-> week.rounds, completed |-> week.completed,
                 champion |-> week.champion, revealed |-> week.revealed,
                 standings |-> week.standings]
      /\ old = [heats |-> old.heats, byes |-> old.byes, wildcards |-> old.wildcards]
  BY <1>4 DEF Inv, WeekOK, RoundOK
<1>6. top.heats = old.heats /\ top.byes = old.byes
      /\ (round # n => top = old \/ old.wildcards # <<>>)
  <2>1. top = [heats |-> old.heats, byes |-> old.byes, wildcards |-> Promotions(round)]
    BY <1>5
  <2>2. round # n => old.wildcards = Promotions(round)
    BY <1>2, <1>3, FinishedBefore DEF Finished
  <2> HIDE DEF top, old
  <2> QED BY <1>5, <2>1, <2>2
<1>7. CASE old.wildcards # <<>>
  <2>1. week' = week
    BY <1>1, <1>7
  <2> QED BY <1>1, <1>2, <1>4, <2>1
<1>8. CASE old.wildcards = <<>>
  <2> DEFINE rounds == [week.rounds EXCEPT ![round] = top]
  <2>1. week' = [week EXCEPT !.rounds = rounds]
    BY <1>1, <1>8
  <2> HIDE DEF top
  <2>2. /\ Len(rounds) = n /\ rounds[round] = top
        /\ \A r \in 1..n : r # round => rounds[r] = week.rounds[r]
    BY <1>3, <1>4, ReplaceFacts
  <2> HIDE DEF rounds
  <2>3. week'.rounds = rounds /\ week'.completed = week.completed
        /\ week'.champion = week.champion
    BY <1>5, <2>1
  <2> QED BY <1>1, <1>2, <1>4, <1>6, <1>8, <2>2, <2>3
<1> QED BY <1>7, <1>8

(* What recording a heat adds to the week. *)
LEMMA RecordStep ==
  ASSUME Inv, RecordHeat
  PROVE  /\ UNCHANGED <<file, draw, journal>> /\ pc = "settled"
         /\ draw # None /\ Ready(round) /\ Len(week.rounds) \in Nat
         /\ round \in {Len(week.rounds), Len(week.rounds) + 1}
         /\ IsSeq(week'.rounds) /\ Len(week'.rounds) = round
         /\ week'.completed = week.completed /\ week'.champion = week.champion
         /\ IsSeq(RecordedHeats)
         /\ RecordedHeats = IF round = Len(week.rounds) THEN week.rounds[round].heats ELSE <<>>
         /\ week'.rounds[round] = [heats |-> Append(RecordedHeats, journal[Current]),
                                   byes |-> DrawOf(round).byes, wildcards |-> <<>>]
         /\ \A r \in 1..Len(week'.rounds) :
              r # round => r \in 1..Len(week.rounds) /\ week'.rounds[r] = week.rounds[r]
         /\ Current = <<round, Len(RecordedHeats) + 1>> /\ Current \in Slots
         /\ Len(RecordedHeats) + 1 \in 1..draw.shape[round].heats
         /\ journal[Current].seats = DrawOf(round).heats[Len(RecordedHeats) + 1]
         /\ \/ journal[Current].aborted /\ pc' = "off"
            \/ ~journal[Current].aborted /\ pc' = "heats"
<1> DEFINE result == journal[Current]
           rounds == WithRound(result)
<1>1. /\ UNCHANGED <<file, draw, journal>> /\ pc = "settled"
      /\ week' = [week EXCEPT !.rounds = rounds, !.standings = WeekStandings(rounds)]
      /\ \/ result.aborted /\ pc' = "off"
         \/ ~result.aborted /\ pc' = "heats"
  BY DEF RecordHeat, Exit
<1>2. HeatsLeft /\ result.seats = Seats
  BY <1>1 DEF Inv, HeatOK
<1> HIDE DEF result
<1>3. /\ draw # None /\ Ready(round) /\ round \in 1..LastRound /\ Len(week.rounds) \in Nat
      /\ drawn = DrawOf(round) /\ Len(drawn.heats) = draw.shape[round].heats
      /\ draw.shape[round].heats \in Nat \ {0}
      /\ IsSeq(RecordedHeats) /\ Current \in Slots
      /\ Seats = drawn.heats[Len(RecordedHeats) + 1]
      /\ round \in {Len(week.rounds), Len(week.rounds) + 1}
  BY <1>1, <1>2, InPlay, RoundIsLast DEF Seats
<1>4. Len(RecordedHeats) + 1 \in 1..draw.shape[round].heats
  BY <1>2, <1>3 DEF HeatsLeft, IsSeq
<1>5. RecordedHeats = IF round = Len(week.rounds) THEN week.rounds[round].heats ELSE <<>>
  BY <1>3 DEF RecordedHeats
<1>6. /\ IsSeq(rounds) /\ Len(rounds) \in Len(week.rounds)..Len(week.rounds) + 1
      /\ round \in 1..Len(rounds)
      /\ rounds[round] = [heats |-> Append(RecordedHeats, result), byes |-> drawn.byes,
                          wildcards |-> <<>>]
      /\ \A r \in 1..Len(rounds) :
           r # round => r \in 1..Len(week.rounds) /\ rounds[r] = week.rounds[r]
  BY <1>1, WithRoundFacts
<1>7. Len(rounds) = round
  <2>1. CASE round = Len(week.rounds)
    <3>1. rounds = [week.rounds EXCEPT ![round].heats = Append(@, result)]
      BY <1>3, <2>1 DEF WithRound
    <3>2. rounds = [week.rounds EXCEPT ![round] =
                      [week.rounds[round] EXCEPT !.heats = Append(@, result)]]
      BY <3>1
    <3> HIDE DEF rounds
    <3>3. IsSeq(week.rounds) /\ round \in 1..Len(week.rounds)
      BY <1>3, <2>1 DEF Inv, WeekOK
    <3> QED BY <2>1, <3>2, <3>3, ReplaceFacts
  <2>2. CASE round = Len(week.rounds) + 1
    <3> HIDE DEF rounds
    <3> QED BY <1>3, <1>6, <2>2
  <2> QED BY <1>3, <2>1, <2>2
<1>8. /\ week'.rounds = rounds /\ week'.completed = week.completed
      /\ week'.champion = week.champion
  <2> DEFINE standings == WeekStandings(rounds)
  <2> HIDE DEF rounds, standings
  <2>1. week' = [week EXCEPT !.rounds = rounds, !.standings = standings]
    BY <1>1 DEF standings
  <2> QED BY <2>1 DEF Inv, WeekOK
<1> HIDE DEF rounds
<1> QED BY <1>1, <1>2, <1>3, <1>4, <1>5, <1>6, <1>7, <1>8 DEF result, Current

-----------------------------------------------------------------------------
(* The draw stays fair through every step.                                  *)

(* Fair, over every step. *)
LEMMA InitFair == Init => Fair
<1> SUFFICES ASSUME Init PROVE Fair
  OBVIOUS
<1>1. /\ draw = None /\ pc = "off" /\ week = NewWeek
      /\ journal = [slot \in Slots |-> None]
  BY DEF Init
<1>2. week.rounds = <<>> /\ ~week.completed
  BY <1>1 DEF NewWeek
<1>3. Len(week.rounds) = 0
  BY <1>2, EmptySeqFacts
<1> QED
  BY <1>1, <1>2, <1>3
     DEF Fair, DrawFair, JournalFair, RoundsFair, SettledFair, RunsOn

LEMMA SameDrawFair ==
  ASSUME DrawFair, UNCHANGED <<file, draw>>
  PROVE  DrawFair'
<1>1. plan' = plan /\ Size' = Size /\ Listed' = Listed
  BY DEF plan, Size, Listed
<1>2. Entrants' = Entrants
  BY <1>1 DEF Entrants
<1>3. SelectEntrants' = SelectEntrants
  BY <1>1, <1>2 DEF SelectEntrants
<1> QED BY <1>1, <1>3 DEF DrawFair

LEMMA SameFiles ==
  ASSUME Inv, Fair, UNCHANGED <<file, draw, week, journal>>
  PROVE  /\ DrawFair' /\ JournalFair' /\ RoundsFair'
         /\ (draw' = None => ~week'.completed) /\ Settled' = Settled
         /\ Rules' = Rules /\ Slots' = Slots
<1>1. DrawFair'
  BY SameDrawFair DEF Fair
<1>2. Slots' = Slots /\ Rules' = Rules
  BY SameWeek, Carry
<1>3. JournalFair' /\ RoundsFair'
  BY <1>2 DEF Fair, JournalFair, RoundsFair, RoundFair
<1>4. (draw' = None => ~week'.completed) /\ Settled' = Settled
  BY DEF Fair, RunsOn, Settled, Aborted
<1> QED BY <1>1, <1>2, <1>3, <1>4

LEMMA SameFair ==
  ASSUME Inv, Fair, UNCHANGED <<file, draw, week, journal>>, pc' # "settled",
         pc' \in {"entering", "heats", "match"} => ~Settled
  PROVE  Fair'
<1>1. /\ DrawFair' /\ JournalFair' /\ RoundsFair'
      /\ (draw' = None => ~week'.completed) /\ Settled' = Settled
  BY SameFiles
<1> QED BY <1>1 DEF Fair, RunsOn, SettledFair

LEMMA WriteDrawFair ==
  ASSUME Inv, Fair, WriteDraw
  PROVE  Fair'
<1>1. /\ UNCHANGED <<file, week, journal>> /\ pc = "drawing" /\ pc' = "off"
      /\ draw' = [commitment |-> seed, shape |-> BracketShape(Entrants, Size),
                  fleet |-> SelectEntrants,
                  first |-> DrawHeats(SelectEntrants, Size,
                                      BracketShape(Entrants, Size)[1].heats, 0)]
  BY DEF WriteDraw
<1>2. plan' = plan /\ Size' = Size /\ Listed' = Listed
  BY <1>1 DEF plan, Size, Listed
<1>3. Entrants' = Entrants
  BY <1>2 DEF Entrants
<1>4. SelectEntrants' = SelectEntrants
  BY <1>2, <1>3 DEF SelectEntrants
<1>5. DrawFair'
  BY <1>1, <1>2, <1>4 DEF DrawFair
<1>6. Slots' = Slots /\ Rules' = Rules
  BY <1>1, <1>2, <1>3 DEF Slots, Rules, Drawable
<1>7. JournalFair' /\ RoundsFair'
  BY <1>1, <1>6 DEF Fair, JournalFair, RoundsFair, RoundFair
<1>8. ~week'.completed
  BY <1>1 DEF Fair, RunsOn, Inv, UndrawnOK
<1> QED BY <1>1, <1>5, <1>7, <1>8 DEF Fair, SettledFair, RunsOn

LEMMA ArenaFacts ==
  ASSUME Inv, draw # None
  PROVE  \A world \in Worlds(Size) :
           /\ DOMAIN world.views = 1..Size /\ world.aborted \in BOOLEAN
           /\ \A view \in Range(world.views) :
                view.points \in Nat /\ view.durable \in Nat \cup {None}
<1>1. plan \in Range(Plans)
  BY DEF Inv, plan, Range
<1>2. plan.arenas # <<>>
  BY HasArenas DEF Inv, DrawOK, Drawable
<1> QED BY <1>1, <1>2, WorldsAreFinal DEF Size

(* The players of a round that may be played. *)
LEMMA PlayersFacts ==
  ASSUME Inv, Fair, draw # None, NEW r, Ready(r)
  PROVE  /\ Distinct(Entering(r)) /\ Range(Entering(r)) \subseteq Fleet
         /\ Len(Entering(r)) = FieldOf(draw.shape[r], Size)
         /\ Partition(DrawOf(r), draw.shape[r].heats, Size, Range(Entering(r)))
         /\ Len(DrawOf(r).byes) = draw.shape[r].byes
<1>1. r \in 1..Len(week.rounds) + 1
  <2>1. r \in 1..LastRound /\ Len(week.rounds) \in Nat /\ LastRound \in Nat
        /\ (r # 1 => r - 1 \in 1..Len(week.rounds))
    BY ShapeFacts DEF Ready, Inv, WeekOK, IsSeq
  <2> QED BY <2>1
<1>2. Distinct(Entering(r)) /\ Range(Entering(r)) \subseteq Fleet
  BY <1>1, FieldsAre
<1> QED BY <1>2, RoundPartition DEF Fair

LEMMA EndAttemptFair ==
  ASSUME Inv, Fair, pc = "match", NEW world \in Worlds(Size), EndAttempt(world)
  PROVE  Fair'
<1> DEFINE result == SettleForfeit(HeatResult(Seats, Prior, world), Rules)
<1>1. /\ UNCHANGED <<file, draw, week>> /\ pc' = "heats"
      /\ journal' = [journal EXCEPT ![Current] = result]
  BY DEF EndAttempt
<1>2. HeatsLeft
  BY DEF Inv, HeatOK
<1>3. draw # None /\ Ready(round) /\ Current \in Slots /\ Current[1] = round
      /\ Seats = DrawOf(round).heats[Current[2]]
  BY <1>2, InPlay
<1>4. Distinct(Seats) /\ Len(Seats) = Size
  <2>1. Partition(DrawOf(round), draw.shape[round].heats, Size, Range(Entering(round)))
    BY <1>3, PlayersFacts
  <2>2. Current[2] \in 1..draw.shape[round].heats
    BY <1>3, SlotFacts
  <2> QED BY <1>3, <2>1, <2>2 DEF Partition
<1>5. HeatFair(result, Rules)
  <2>1. Prior \in Seq(Kinds)
    BY <1>2, AttemptFacts
  <2> QED BY <1>3, <1>4, <2>1, ArenaFacts, ResultFair
<1> HIDE DEF result
<1>6. DrawFair'
  BY <1>1, SameDrawFair DEF Fair
<1>7. Slots' = Slots /\ Rules' = Rules
  BY <1>1, SameWeek, Carry
<1>8. JournalFair'
  <2>1. journal = [slot \in Slots |-> journal[slot]]
    BY DEF Inv, JournalOK
  <2>2. /\ journal'[Current] = result
        /\ \A slot \in Slots : slot # Current => journal'[slot] = journal[slot]
    BY <1>1, <1>3, <2>1
  <2> QED BY <1>5, <1>7, <2>2 DEF JournalFair, Fair
<1>9. RoundsFair'
  BY <1>1, <1>7 DEF Fair, RoundsFair, RoundFair
<1>10. RunsOn' /\ SettledFair'
  BY <1>1, <1>3 DEF Fair, RunsOn, Settled, Aborted, SettledFair
<1> QED BY <1>6, <1>8, <1>9, <1>10 DEF Fair

(* A result's winner may be struck out, for one who was durable.           *)
LEMMA StruckFair ==
  ASSUME NEW x, NEW rules, HeatFair(x, rules)
  PROVE  HeatFair([x EXCEPT !.winner = DurableHeatWinner(x)], rules)
<1> DEFINE w == DurableHeatWinner(x)
           y == [x EXCEPT !.winner = w]
           ids == Range(x.seats)
<1> SUFFICES HeatFair(y, rules)
  OBVIOUS
<1>1. x \in Results(ids)
  BY DEF HeatFair
<1>2. w \in ids \cup {None} /\ (w # None => x.standings[w].outcome = "durable")
  BY <1>1 DEF DurableHeatWinner, DurableSeats, Results
<1> HIDE DEF w
<1>3. /\ y \in Results(ids) /\ y.winner = w /\ y.standings = x.standings
      /\ y.seats = x.seats
  BY <1>1, <1>2 DEF Results
<1> QED BY <1>2, <1>3 DEF HeatFair

LEMMA SettleHeatFair ==
  ASSUME Inv, Fair, SettleHeat
  PROVE  Fair'
<1>1. /\ UNCHANGED <<file, draw, week, round, drawn>> /\ pc = "heats" /\ pc' = "settled"
      /\ draw # None /\ Current \in Slots /\ Current' = Current
      /\ journal[Current] # None
      /\ \A slot \in Slots : slot # Current => journal'[slot] = journal[slot]
      /\ journal'[Current]
           = IF round = LastRound
             THEN [journal[Current] EXCEPT !.winner = DurableHeatWinner(journal[Current])]
             ELSE journal[Current]
  BY SettleStep
<1>2. DrawFair'
  BY <1>1, SameDrawFair DEF Fair
<1>3. Slots' = Slots /\ Rules' = Rules
  BY <1>1, SameWeek, Carry
<1>4. HeatFair(journal'[Current], Rules)
  <2>1. HeatFair(journal[Current], Rules)
    BY <1>1 DEF Fair, JournalFair
  <2>2. HeatFair([journal[Current] EXCEPT !.winner = DurableHeatWinner(journal[Current])], Rules)
    BY <2>1, StruckFair
  <2> QED BY <1>1, <2>1, <2>2
<1>5. JournalFair' /\ SettledFair'
  BY <1>1, <1>3, <1>4 DEF Fair, JournalFair, SettledFair
<1>6. RoundsFair'
  BY <1>1, <1>3 DEF Fair, RoundsFair, RoundFair
<1>7. RunsOn'
  BY <1>1 DEF Fair, RunsOn, Settled, Aborted
<1> QED BY <1>2, <1>5, <1>6, <1>7 DEF Fair

LEMMA RecordHeatFair ==
  ASSUME Inv, Fair, RecordHeat
  PROVE  Fair'
<1> DEFINE result == journal[Current]
           L == Len(RecordedHeats)
           heats == Append(RecordedHeats, result)
<1>1. /\ UNCHANGED <<file, draw, journal>> /\ pc = "settled"
      /\ draw # None /\ Ready(round) /\ Len(week.rounds) \in Nat
      /\ round \in {Len(week.rounds), Len(week.rounds) + 1}
      /\ IsSeq(week'.rounds) /\ Len(week'.rounds) = round
      /\ week'.completed = week.completed
      /\ IsSeq(RecordedHeats)
      /\ RecordedHeats = IF round = Len(week.rounds) THEN week.rounds[round].heats ELSE <<>>
      /\ week'.rounds[round] = [heats |-> heats, byes |-> DrawOf(round).byes, wildcards |-> <<>>]
      /\ \A r \in 1..Len(week'.rounds) :
           r # round => r \in 1..Len(week.rounds) /\ week'.rounds[r] = week.rounds[r]
      /\ \/ result.aborted /\ pc' = "off"
         \/ ~result.aborted /\ pc' = "heats"
  BY RecordStep
<1>2. HeatFair(result, Rules)
  BY <1>1 DEF Fair, SettledFair
<1>3. DrawFair'
  BY <1>1, SameDrawFair DEF Fair
<1> HIDE DEF result
<1>4. /\ L \in Nat /\ Len(heats) = L + 1 /\ IsSeq(heats)
      /\ \A h \in 1..L : heats[h] = RecordedHeats[h]
      /\ heats[L + 1] = result
  BY <1>1, AppendFacts, SeqFacts
<1> HIDE DEF heats
<1>5. Slots' = Slots /\ Rules' = Rules
  <2>1. plan' = plan /\ Size' = Size /\ Listed' = Listed
    BY <1>1 DEF plan, Size, Listed
  <2>2. Entrants' = Entrants
    BY <2>1 DEF Entrants
  <2> QED BY <2>1, <2>2 DEF Slots, Rules, Drawable
<1>6. JournalFair'
  BY <1>1, <1>5 DEF Fair, JournalFair
<1>7. round \in Nat /\ (round = Len(week.rounds) => round \in 1..Len(week.rounds))
  BY <1>1, ShapeFacts DEF Ready
<1>8. \A h \in 1..L : HeatFair(RecordedHeats[h], Rules)
  <2>1. CASE round = Len(week.rounds)
    BY <1>1, <1>7, <2>1 DEF Fair, RoundsFair, RoundFair
  <2>2. CASE round # Len(week.rounds)
    BY <1>1, <2>2, EmptySeqFacts
  <2> QED BY <2>1, <2>2
<1>9. RoundsFair'
  <2>1. ASSUME NEW r \in 1..Len(week'.rounds), NEW h \in 1..Len(week'.rounds[r].heats)
        PROVE  HeatFair(week'.rounds[r].heats[h], Rules)
    <3>1. CASE r # round
      BY <1>1, <2>1, <3>1 DEF Fair, RoundsFair, RoundFair
    <3>2. CASE r = round
      <4>1. week'.rounds[r].heats = heats
        BY <1>1, <3>2
      <4>2. h \in 1..L + 1
        BY <1>4, <2>1, <4>1
      <4>3. heats[h] = IF h = L + 1 THEN result ELSE RecordedHeats[h]
        BY <1>4, <4>2
      <4> QED BY <1>2, <1>4, <1>8, <4>1, <4>2, <4>3
    <3> QED BY <3>1, <3>2
  <2> QED BY <1>5, <2>1 DEF RoundsFair, RoundFair
<1>10. RunsOn'
  <2> SUFFICES ASSUME pc' \in {"entering", "heats", "match", "settled"} PROVE ~Settled'
    BY <1>1 DEF RunsOn
  <2>1. ~result.aborted /\ ~Settled
    BY <1>1 DEF Fair, RunsOn
  <2>2. \A h \in 1..L : ~RecordedHeats[h].aborted
    <3>1. CASE round = Len(week.rounds)
      <4>1. week.rounds # <<>> /\ ~Aborted(round)
        BY <1>1, <1>7, <2>1, <3>1, EmptySeqFacts DEF Settled
      <4>2. DOMAIN RecordedHeats = 1..L
        BY <1>1, SeqFacts
      <4> QED BY <1>1, <3>1, <4>1, <4>2 DEF Aborted
    <3>2. CASE round # Len(week.rounds)
      BY <1>1, <3>2, EmptySeqFacts
    <3> QED BY <3>1, <3>2
  <2>3. DOMAIN heats = 1..L + 1
    BY <1>4, SeqFacts
  <2>4. \A h \in 1..L + 1 : heats[h] = IF h = L + 1 THEN result ELSE RecordedHeats[h]
    BY <1>4
  <2>5. \A h \in DOMAIN heats : ~heats[h].aborted
    BY <1>4, <2>1, <2>2, <2>3, <2>4
  <2>6. week'.rounds[Len(week'.rounds)].heats = heats
    BY <1>1
  <2>7. ~Aborted(Len(week.rounds))'
    BY <2>5, <2>6 DEF Aborted
  <2> QED BY <1>1, <2>1, <2>7 DEF Settled
<1>11. SettledFair'
  BY <1>1 DEF SettledFair
<1> QED BY <1>3, <1>6, <1>9, <1>10, <1>11 DEF Fair

LEMMA CloseFair ==
  ASSUME Inv, Fair, NEW champion, Close(champion), pc = "entering", pc' = "off",
         UNCHANGED <<file, draw, journal>>
  PROVE  Fair' /\ week'.rounds = week.rounds /\ week'.champion = champion /\ week'.completed
         /\ week'.standings = WeekStandings(week.rounds)
<1>1. draw # None
  BY DEF Inv, UndrawnOK
<1>2. /\ week'.rounds = week.rounds /\ week'.champion = champion /\ week'.completed
      /\ week'.standings = WeekStandings(week.rounds)
  <2> DEFINE standings == WeekStandings(week.rounds)
  <2>1. week' = [week EXCEPT !.completed = TRUE, !.champion = champion,
                             !.revealed = seed, !.standings = standings]
    BY DEF Close
  <2> HIDE DEF standings
  <2>2. week' = [rounds |-> week.rounds, completed |-> TRUE, champion |-> champion,
                 revealed |-> seed, standings |-> standings]
    BY <2>1 DEF Inv, WeekOK
  <2> QED BY <2>2 DEF standings
<1>3. DrawFair'
  BY SameDrawFair DEF Fair
<1>4. Slots' = Slots /\ Rules' = Rules
  <2>1. plan' = plan /\ Size' = Size /\ Listed' = Listed
    BY DEF plan, Size, Listed
  <2>2. Entrants' = Entrants
    BY <2>1 DEF Entrants
  <2> QED BY <2>1, <2>2 DEF Slots, Rules, Drawable
<1>5. JournalFair' /\ RoundsFair'
  BY <1>2, <1>4 DEF Fair, JournalFair, RoundsFair, RoundFair
<1>6. RunsOn' /\ SettledFair'
  BY <1>1 DEF RunsOn, SettledFair
<1> QED BY <1>2, <1>3, <1>5, <1>6 DEF Fair

LEMMA FinishRoundFair ==
  ASSUME Inv, Fair, FinishRound
  PROVE  Fair'
<1>1. /\ UNCHANGED <<file, draw, journal>> /\ pc = "heats" /\ pc' = "entering"
      /\ draw # None /\ Len(week.rounds) \in Nat /\ Len(week.rounds) >= 1
      /\ Len(week'.rounds) = Len(week.rounds)
      /\ week'.completed = week.completed
      /\ \A r \in 1..Len(week.rounds) : week'.rounds[r].heats = week.rounds[r].heats
  BY FinishStep
<1>2. DrawFair'
  BY <1>1, SameDrawFair DEF Fair
<1>3. Slots' = Slots /\ Rules' = Rules
  <2>1. plan' = plan /\ Size' = Size /\ Listed' = Listed
    BY <1>1 DEF plan, Size, Listed
  <2>2. Entrants' = Entrants
    BY <2>1 DEF Entrants
  <2> QED BY <1>1, <2>1, <2>2 DEF Slots, Rules, Drawable
<1>4. JournalFair'
  BY <1>1, <1>3 DEF Fair, JournalFair
<1>5. RoundsFair'
  <2>1. ASSUME NEW r \in 1..Len(week'.rounds), NEW h \in 1..Len(week'.rounds[r].heats)
        PROVE  HeatFair(week'.rounds[r].heats[h], Rules)
    BY <1>1 DEF Fair, RoundsFair, RoundFair
  <2> QED BY <1>3, <2>1 DEF RoundsFair, RoundFair
<1>6. RunsOn'
  <2>1. ~week.completed /\ ~(week.rounds # <<>> /\ Aborted(Len(week.rounds)))
    BY <1>1 DEF Fair, RunsOn, Settled
  <2>2. week.rounds # <<>>
    BY <1>1, EmptySeqFacts
  <2>3. Len(week.rounds) \in 1..Len(week.rounds)
    BY <1>1
  <2>4. ~Aborted(Len(week.rounds))'
    BY <1>1, <2>1, <2>2, <2>3 DEF Aborted
  <2> QED BY <1>1, <2>1, <2>4 DEF RunsOn, Settled
<1>7. SettledFair'
  BY <1>1 DEF SettledFair
<1> QED BY <1>2, <1>4, <1>5, <1>6, <1>7 DEF Fair

LEMMA NextFair == Inv /\ Fair /\ [Next]_vars => Fair'
<1> SUFFICES ASSUME Inv, Fair, [Next]_vars PROVE Fair'
  OBVIOUS
<1>1. CASE RefuseDraw \/ WriteSecret \/ Underfilled \/ NoPorts \/ FailAttempt \/ Crash
  <2>1. UNCHANGED <<file, draw, week, journal>> /\ pc' \in {"off", "drawing"}
    BY <1>1 DEF RefuseDraw, WriteSecret, Underfilled, NoPorts, FailAttempt, Crash, Exit, disk
  <2> QED BY <2>1, SameFair
<1>2. CASE WriteDraw
  BY <1>2, WriteDrawFair
<1>3. CASE StartWeek
  <2>1. UNCHANGED <<file, draw, week, journal>> /\ pc' = "entering" /\ ~Settled
    BY <1>3 DEF StartWeek, disk
  <2> QED BY <2>1, SameFair
<1>4. CASE EnterRound \/ StartAttempt
  <2>1. /\ UNCHANGED <<file, draw, week, journal>> /\ pc' \in {"heats", "match"}
        /\ pc \in {"entering", "heats"}
    BY <1>4 DEF EnterRound, StartAttempt, disk
  <2>2. ~Settled
    BY <2>1 DEF Fair, RunsOn
  <2> QED BY <2>1, <2>2, SameFair
<1>5. CASE VoidCup \/ FinishWeek
  <2>1. \E champion : Close(champion)
    BY <1>5 DEF VoidCup, FinishWeek
  <2>2. pc' = "off" /\ pc = "entering" /\ UNCHANGED <<file, draw, journal>>
    BY <1>5 DEF VoidCup, FinishWeek, Exit
  <2> QED BY <2>1, <2>2, CloseFair
<1>6. CASE pc = "match" /\ \E world \in Worlds(Size) : EndAttempt(world)
  BY <1>6, EndAttemptFair
<1>7. CASE SettleHeat
  BY <1>7, SettleHeatFair
<1>8. CASE RecordHeat
  BY <1>8, RecordHeatFair
<1>9. CASE FinishRound
  BY <1>9, FinishRoundFair
<1>10. CASE UNCHANGED vars
  <2>1. UNCHANGED <<file, draw, week, journal, pc, round>>
    BY <1>10 DEF vars, disk, process
  <2>2. /\ DrawFair' /\ JournalFair' /\ RoundsFair' /\ Rules' = Rules
        /\ (draw' = None => ~week'.completed) /\ Settled' = Settled
    BY <2>1, SameFiles
  <2>3. SettledFair'
    BY <2>1, <2>2 DEF Fair, SettledFair, Current, RecordedHeats
  <2>4. RunsOn'
    BY <2>1, <2>2 DEF Fair, RunsOn
  <2> QED BY <2>2, <2>3, <2>4 DEF Fair
<1> QED BY <1>1, <1>2, <1>3, <1>4, <1>5, <1>6, <1>7, <1>8, <1>9, <1>10 DEF Next, Step

LEMMA FairHolds == Spec => [](Inv /\ Fair)
<1>1. Init => Inv /\ Fair
  BY InitInv, InitFair
<1>2. Inv /\ Fair /\ [Next]_vars => (Inv /\ Fair)'
  BY NextInv, NextFair
<1> QED BY <1>1, <1>2, PTL DEF Spec

-----------------------------------------------------------------------------
(* Merit.                                                                   *)

(* Whoever is drawn from a pool is offered by its provider, on a route     *)
(* without an error.                                                       *)
LEMMA PoolFacts ==
  ASSUME file \in DOMAIN Plans, Drawable, plan.pool # None, NEW id \in Ids(plan)
  PROVE  \E model \in Range(plan.pool.registry.models) :
           /\ model.id = id /\ RouteErrors(model, plan.pool.provider) = {}
           /\ Offered(model.routes[plan.pool.provider])
<1> DEFINE registry == plan.pool.registry
           provider == plan.pool.provider
           models == registry.models
           offered == OfferedBy(registry, provider)
           entry(i) == [id |-> models[i].id, adapter |-> Binding(provider),
                        model |-> models[i].routes[provider].model]
           entries == {entry(i) : i \in offered}
           order == {pair \in entries \X entries : pair[1].id < pair[2].id}
           list == [i \in offered |-> entry(i)]
<1>1. plan \in Range(Plans)
  BY DEF plan, Range
<1>2. SeasonErrors(plan) = {}
  BY DEF Drawable
<1>3. plan.fleet = None /\ PoolErrors(plan.pool) = {}
  <2>1. (IF (plan.fleet = None) = (plan.pool = None) THEN {"source"} ELSE {})
          \subseteq SeasonErrors(plan)
    BY DEF SeasonErrors
  <2>2. plan.fleet = None
    BY <1>2, <2>1
  <2>3. (IF plan.fleet = None THEN PoolErrors(plan.pool) ELSE {}) \subseteq SeasonErrors(plan)
    BY DEF SeasonErrors
  <2> QED BY <1>2, <2>2, <2>3
<1>4. models \in Seq(Range(models)) /\ \A model \in Range(models) : model.id \in Nat
  BY <1>1, SeasonIds
<1>5. /\ DOMAIN models = 1..Len(models) /\ Len(models) \in Nat
      /\ \A i \in DOMAIN models : models[i] \in Range(models)
  BY <1>4 DEF Range
<1>6. \A i \in DOMAIN models : \A p \in DOMAIN models[i].routes : RouteErrors(models[i], p) = {}
  <2>1. RegistryErrors(registry) \subseteq PoolErrors(plan.pool)
    BY DEF PoolErrors
  <2>2. UNION {UNION {RouteErrors(models[i], p) : p \in DOMAIN models[i].routes}
                 : i \in DOMAIN models} \subseteq RegistryErrors(registry)
    BY DEF RegistryErrors
  <2> QED BY <1>3, <2>1, <2>2
<1>7. \A i \in offered : /\ i \in DOMAIN models /\ provider \in DOMAIN models[i].routes
                         /\ Offered(models[i].routes[provider])
  BY DEF OfferedBy
<1>8. FleetOf(plan) = InOrder(entries, order)
  BY <1>3 DEF FleetOf, ResolveRegistry
<1> HIDE DEF registry, models, offered, provider
<1>9. IsFiniteSet(offered)
  <2>1. IsFiniteSet(1..Len(models))
    <3>1. 1 \in Int /\ Len(models) \in Int
      BY <1>5
    <3> QED BY <3>1, FS_Interval
  <2> QED BY <1>5, <1>7, <2>1, FS_Subset
<1>10. IsFiniteSet(entries)
  <2>1. list \in Surjection(offered, entries)
    BY DEF Surjection
  <2> HIDE DEF list, entries
  <2> QED BY <1>9, <2>1, FS_Surjection
<1>11. StrictOn(entries, order)
  <2>1. \A e \in entries : e.id \in Nat
    BY <1>4, <1>5, <1>7
  <2> HIDE DEF entries
  <2> QED BY <2>1 DEF StrictOn
<1>12. Range(FleetOf(plan)) = entries
  <2> HIDE DEF entries, order
  <2> QED BY <1>8, <1>10, <1>11, InOrderFacts
<1>13. PICK i \in offered : id = models[i].id
  BY <1>12 DEF Ids
<1>14. /\ models[i] \in Range(models) /\ models[i].id = id
       /\ RouteErrors(models[i], provider) = {} /\ Offered(models[i].routes[provider])
  BY <1>5, <1>6, <1>7, <1>13
<1> QED BY <1>14 DEF models, registry, provider

(* Nobody is drawn twice, whoever a pool does not offer is not drawn, and  *)
(* whoever advances does so once and without a forfeit (select_entrants,   *)
(* resolve_registry, seat_heat and run_week's entries of a round).         *)
THEOREM AdvanceOnMeritHolds == Spec => []AdvanceOnMerit
<1>1. Inv /\ Fair => AdvanceOnMerit
  <2> SUFFICES ASSUME Inv, Fair PROVE AdvanceOnMerit
    OBVIOUS
  <2>1. ASSUME draw # None PROVE IsInjective(draw.fleet)
    BY <2>1, FleetFacts DEF Fair, Distinct
  <2>2. ASSUME draw # None, plan.pool # None, NEW id \in Fleet
        PROVE  \E model \in Range(plan.pool.registry.models) :
                 /\ model.id = id /\ RouteErrors(model, plan.pool.provider) = {}
                 /\ Offered(model.routes[plan.pool.provider])
    <3>1. id \in Ids(plan)
      BY <2>2, FleetFacts DEF Fair
    <3>2. file \in DOMAIN Plans /\ Drawable
      BY <2>2 DEF Inv, DrawOK
    <3> QED BY <2>2, <3>1, <3>2, PoolFacts
  <2>3. ASSUME NEW r \in DOMAIN week.rounds
        PROVE  /\ IsInjective(Advancing(r + 1))
               /\ \A heat \in Range(week.rounds[r].heats) : \A id \in DOMAIN heat.standings :
                    heat.standings[id].outcome = "forfeit" /\ ~heat.aborted =>
                      id \notin Range(Advancing(r + 1))
    <3>1. IsSeq(week.rounds)
      BY DEF Inv, WeekOK
    <3>2. r \in 1..Len(week.rounds) /\ Len(week.rounds) \in Nat
      BY <2>3, <3>1, SeqFacts
    <3>3. draw # None
      BY <3>2, EmptySeqFacts DEF Inv, UndrawnOK
    <3>4. Distinct(Entering(r)) /\ Range(Entering(r)) \subseteq Fleet
      BY <3>2, <3>3, FieldsAre
    <3>5. Advancing(r + 1) = Entries(week.rounds[r])
      BY <3>2 DEF Advancing
    <3> QED BY <3>2, <3>3, <3>4, <3>5, RoundEntries DEF Distinct
  <2> QED BY <2>1, <2>2, <2>3 DEF AdvanceOnMerit
<1> QED BY <1>1, FairHolds, PTL

-----------------------------------------------------------------------------
(* The week is a cup: each step is one of Cup, or not seen.                 *)

(* What of a week is published. *)
Shown(heat) == [players |-> Range(heat.seats), winner |-> heat.winner]
ShownRound(x) == [h \in DOMAIN x.heats |-> Shown(x.heats[h])]

LEMMA ShownWeekFacts ==
  ASSUME NEW rounds, IsSeq(rounds)
  PROVE  LET shown == [r \in DOMAIN rounds |-> ShownRound(rounds[r])]
         IN /\ Len(rounds) \in Nat /\ DOMAIN rounds = 1..Len(rounds)
            /\ IsSeq(shown) /\ Len(shown) = Len(rounds)
            /\ \A r \in 1..Len(rounds) : shown[r] = ShownRound(rounds[r])
<1> DEFINE shown == [r \in DOMAIN rounds |-> ShownRound(rounds[r])]
<1>1. Len(rounds) \in Nat /\ DOMAIN rounds = 1..Len(rounds)
  BY SeqFacts
<1>2. shown = [r \in 1..Len(rounds) |-> ShownRound(rounds[r])]
  BY <1>1
<1>3. Len(shown) = Len(rounds)
  BY <1>1, <1>2
<1> QED BY <1>1, <1>2, <1>3 DEF IsSeq

LEMMA ShownFacts ==
  ASSUME Inv
  PROVE  /\ Len(week.rounds) \in Nat /\ DOMAIN week.rounds = 1..Len(week.rounds)
         /\ IsSeq(PublicRounds) /\ Len(PublicRounds) = Len(week.rounds)
         /\ \A r \in 1..Len(week.rounds) :
              /\ PublicRounds[r] = ShownRound(week.rounds[r])
              /\ IsSeq(week.rounds[r].heats)
<1>1. IsSeq(week.rounds) /\ \A r \in 1..Len(week.rounds) : IsSeq(week.rounds[r].heats)
  BY DEF Inv, WeekOK, RoundOK
<1>2. PublicRounds = [r \in DOMAIN week.rounds |-> ShownRound(week.rounds[r])]
  BY DEF PublicRounds, ShownRound, Shown
<1> QED BY <1>1, <1>2, ShownWeekFacts

LEMMA ShownRoundFacts ==
  ASSUME NEW x, IsSeq(x.heats)
  PROVE  /\ DOMAIN ShownRound(x) = 1..Len(x.heats) /\ IsSeq(ShownRound(x))
         /\ Len(ShownRound(x)) = Len(x.heats) /\ Len(x.heats) \in Nat
         /\ \A h \in 1..Len(x.heats) : /\ ShownRound(x)[h] = Shown(x.heats[h])
                                       /\ Shown(x.heats[h]).players = Range(x.heats[h].seats)
                                       /\ Shown(x.heats[h]).winner = x.heats[h].winner
<1>1. DOMAIN x.heats = 1..Len(x.heats) /\ Len(x.heats) \in Nat
  BY SeqFacts
<1>2. ShownRound(x) = [h \in 1..Len(x.heats) |-> Shown(x.heats[h])]
  BY <1>1 DEF ShownRound
<1>3. Len(ShownRound(x)) = Len(x.heats)
  BY <1>1, <1>2
<1> QED BY <1>1, <1>2, <1>3 DEF IsSeq, Shown

(* Who is still in: the players of the last round begun.                   *)
LEMMA FieldFacts ==
  ASSUME Inv, draw # None
  PROVE  /\ Len(week.rounds) = 0 => PublicField = Range(Entering(1))
         /\ Len(week.rounds) # 0 => PublicField = Range(Entering(Len(week.rounds)))
<1> DEFINE n == Len(week.rounds)
<1> SUFFICES /\ n = 0 => PublicField = Range(Entering(1))
             /\ n # 0 => PublicField = Range(Entering(n))
  OBVIOUS
<1>1. n \in Nat /\ Len(PublicRounds) = n
  BY ShownFacts
<1> HIDE DEF n
<1>2. PublicField = IF n <= 1 THEN Range(draw.fleet) ELSE Range(Advancing(n))
  BY <1>1 DEF PublicField, Fleet
<1>3. Entering(1) = draw.fleet /\ (n # 1 => Entering(n) = Advancing(n))
  BY DEF Entering
<1>4. CASE n = 0
  BY <1>2, <1>3, <1>4
<1>5. CASE n = 1
  BY <1>2, <1>3, <1>5
<1>6. CASE n > 1
  BY <1>1, <1>2, <1>3, <1>6
<1>7. n = 0 \/ n = 1 \/ n > 1
  BY <1>1
<1> QED BY <1>4, <1>5, <1>6, <1>7

(* A step that leaves the draw and what week.json says is not seen.        *)
LEMMA Unseen ==
  ASSUME UNCHANGED <<file, draw, week>>
  PROVE  UNCHANGED Cup!cup
BY DEF Cup!cup, PublicField, PublicRounds, Settled, Aborted, Fleet, Advancing

LEMMA InitCup == Init => Cup!Init
BY EmptySeqFacts DEF Init, NewWeek, Cup!Init, PublicField, PublicRounds, Settled, Aborted

LEMMA WriteDrawCup ==
  ASSUME Inv, Fair, WriteDraw
  PROVE  [Cup!Next]_Cup!cup
<1>1. draw = None /\ Drawable /\ week.rounds = <<>> /\ UNCHANGED <<file, week>>
      /\ draw'.fleet = SelectEntrants
  BY DEF WriteDraw, Inv, UndrawnOK
<1>2. UNCHANGED <<PublicRounds, week.champion, Settled>> /\ PublicField = {}
  BY <1>1 DEF PublicRounds, Settled, Aborted, PublicField
<1>3. CASE draw' = None
  <2>1. PublicField' = {}
    BY <1>3 DEF PublicField
  <2> QED BY <1>2, <2>1 DEF Cup!cup
<1>4. CASE draw' # None
  <2>1. PublicField' = Range(SelectEntrants)
    <3>1. Len(PublicRounds') = 0
      BY <1>1, EmptySeqFacts DEF PublicRounds
    <3> QED BY <1>1, <1>4, <3>1 DEF PublicField, Fleet
  <2>2. file \in DOMAIN Plans /\ Len(SelectEntrants) >= 1 /\ Distinct(SelectEntrants)
        /\ Range(SelectEntrants) \subseteq Ids(plan)
    <3>1. file \in DOMAIN Plans
      BY DEF Inv
    <3> QED BY <1>1, <3>1, SelectFacts, DrawableFacts
  <2>3. SelectEntrants[1] \in Range(SelectEntrants)
    BY <2>2, DistinctFacts
  <2>4. Range(SelectEntrants) \subseteq UNION {Ids(p) : p \in Range(Plans)}
    BY <2>2 DEF plan, Range
  <2>5. Cup!DrawField
    BY <1>2, <2>1, <2>3, <2>4 DEF Cup!DrawField
  <2> QED BY <2>5 DEF Cup!Next
<1> QED BY <1>3, <1>4

LEMMA CloseCup ==
  ASSUME Inv, Fair, NEW winner, Close(winner), pc = "entering", pc' = "off",
         UNCHANGED <<file, draw, journal>>,
         winner # None => LET last == PublicRounds[Len(PublicRounds)]
                          IN Len(last) = 1 /\ winner = last[1].winner
  PROVE  Cup!Next
<1>1. week'.rounds = week.rounds /\ week'.champion = winner /\ week'.completed
  BY CloseFair
<1>2. UNCHANGED <<PublicRounds, PublicField>>
  BY <1>1 DEF PublicRounds, PublicField, Fleet, Advancing
<1>3. ~Settled /\ Settled'
  BY <1>1 DEF Fair, RunsOn, Settled
<1>4. Cup!End
  BY <1>1, <1>2, <1>3 DEF Cup!End
<1> QED BY <1>4 DEF Cup!Next

LEMMA FinishWeekCup ==
  ASSUME Inv, Fair, FinishWeek
  PROVE  Cup!Next
<1> DEFINE n == Len(week.rounds)
           heat == week.rounds[LastRound].heats[1]
<1>1. /\ pc = "entering" /\ round = LastRound + 1 /\ Close(DurableHeatWinner(heat))
      /\ pc' = "off" /\ UNCHANGED <<file, draw, journal>>
  BY DEF FinishWeek, Exit
<1>2. draw # None /\ LastRound \in Nat /\ LastRound >= 1
  BY <1>1, ShapeFacts DEF Inv, UndrawnOK
<1>3. n = LastRound /\ Finished(LastRound) /\ n \in Nat
  <2>1. round <= n + 1 /\ Finished(round - 1) /\ n \in Nat
    BY <1>1, <1>2, ShownFacts DEF Inv, EnteringOK
  <2>2. LastRound <= n /\ Finished(LastRound)
    BY <1>1, <1>2, <2>1
  <2>3. n \in 1..LastRound
    <3>1. n \in 1..n
      BY <1>2, <2>1, <2>2
    <3>2. RoundOK(n)
      BY <3>1 DEF Inv, WeekOK
    <3> QED BY <3>2 DEF RoundOK, Ready
  <2> QED BY <1>2, <2>1, <2>2, <2>3
<1>4. Len(week.rounds[LastRound].heats) = 1
  <2>1. draw.shape[LastRound].heats = 1
    BY <1>2, ShapeByes DEF Round
  <2> QED BY <1>3, <2>1 DEF Finished
<1>5. /\ Len(PublicRounds) = n /\ PublicRounds[n] = ShownRound(week.rounds[n])
      /\ IsSeq(week.rounds[n].heats)
  BY <1>2, <1>3, ShownFacts
<1>6. Len(PublicRounds[n]) = 1 /\ PublicRounds[n][1].winner = heat.winner
  BY <1>3, <1>4, <1>5, ShownRoundFacts
<1>7. DurableHeatWinner(heat) \in {heat.winner, None}
  BY DEF DurableHeatWinner
<1> HIDE DEF n, heat
<1> QED BY <1>1, <1>5, <1>6, <1>7, CloseCup

LEMMA FinishRoundCup ==
  ASSUME Inv, FinishRound
  PROVE  UNCHANGED Cup!cup
<1> DEFINE n == Len(week.rounds)
           seen(x) == [h \in DOMAIN x.heats |-> Shown(x.heats[h])]
<1>1. /\ UNCHANGED draw /\ draw # None /\ n \in Nat /\ n >= 1 /\ Len(week'.rounds) = n
      /\ week'.completed = week.completed /\ week'.champion = week.champion
      /\ \A r \in 1..n : /\ week'.rounds[r].heats = week.rounds[r].heats
                         /\ r # n => week'.rounds[r] = week.rounds[r]
  BY FinishStep
<1>2. DOMAIN week.rounds = 1..n /\ DOMAIN week'.rounds = 1..n
  <2>1. IsSeq(week.rounds) /\ IsSeq(week'.rounds)
    <3>1. Inv'
      BY FinishRoundInv
    <3> QED BY <3>1 DEF Inv, WeekOK
  <2> QED BY <1>1, <2>1, SeqFacts
<1>3. PublicRounds' = PublicRounds /\ Len(PublicRounds) = n
  <2>1. /\ PublicRounds = [r \in 1..n |-> seen(week.rounds[r])]
        /\ PublicRounds' = [r \in 1..n |-> seen(week'.rounds[r])]
    BY <1>2 DEF PublicRounds, Shown
  <2>2. \A r \in 1..n : seen(week'.rounds[r]) = seen(week.rounds[r])
    BY <1>1
  <2> HIDE DEF seen
  <2>3. Len(PublicRounds) = n
    BY ShownFacts
  <2> QED BY <2>1, <2>2, <2>3
<1>4. PublicField' = PublicField
  <2>1. CASE n <= 1
    BY <1>1, <1>3, <2>1 DEF PublicField, Fleet
  <2>2. CASE n > 1
    <3>1. n - 1 \in 1..n /\ n - 1 # n
      BY <1>1, <2>2
    <3>2. week'.rounds[n - 1] = week.rounds[n - 1]
      BY <1>1, <3>1
    <3>3. Advancing(n)' = Advancing(n) /\ (n' = n)
      BY <1>1, <3>2 DEF Advancing
    <3> QED BY <1>1, <1>3, <2>2, <3>3 DEF PublicField
  <2> QED BY <1>1, <2>1, <2>2
<1>5. Settled' = Settled
  <2>1. \A r \in 1..n : Aborted(r)' = Aborted(r)
    BY <1>1 DEF Aborted
  <2>2. Aborted(Len(week.rounds))' = Aborted(Len(week.rounds))
    BY <1>1 DEF Aborted
  <2>3. week.rounds # <<>> /\ week'.rounds # <<>>
    BY <1>1, EmptySeqFacts
  <2> QED BY <1>1, <2>2, <2>3 DEF Settled
<1> QED BY <1>1, <1>3, <1>4, <1>5 DEF Cup!cup

(* A round begins with fewer players than the one before it had.           *)
LEMMA FieldShrinks ==
  ASSUME Inv, Fair, draw # None, Ready(Len(week.rounds) + 1), Len(week.rounds) # 0
  PROVE  /\ Range(Entering(Len(week.rounds) + 1)) \subseteq Range(Entering(Len(week.rounds)))
         /\ Range(Entering(Len(week.rounds) + 1)) # Range(Entering(Len(week.rounds)))
<1> DEFINE n == Len(week.rounds)
<1> SUFFICES /\ Range(Entering(n + 1)) \subseteq Range(Entering(n))
             /\ Range(Entering(n + 1)) # Range(Entering(n))
  OBVIOUS
<1>1. n \in Nat /\ n \in 1..n
  BY ShownFacts
<1>2. Ready(n)
  BY <1>1 DEF Inv, WeekOK, RoundOK
<1>3. Entering(n + 1) = Entries(week.rounds[n])
  BY <1>1 DEF Entering, Advancing
<1>4. /\ Distinct(Entering(n)) /\ Range(Entering(n)) \subseteq Fleet
      /\ Len(Entering(n)) = FieldOf(draw.shape[n], Size)
  BY <1>2, PlayersFacts
<1>5. Distinct(Entering(n + 1)) /\ Len(Entering(n + 1)) = FieldOf(draw.shape[n + 1], Size)
  BY PlayersFacts
<1>6. FieldOf(draw.shape[n + 1], Size) < FieldOf(draw.shape[n], Size)
  <2>1. n + 1 \in 2..LastRound /\ (n + 1) - 1 = n
    <3>1. n + 1 \in 1..LastRound /\ LastRound \in Nat
      BY ShapeFacts DEF Ready
    <3> HIDE DEF n
    <3> QED BY <1>1, <3>1
  <2> HIDE DEF n
  <2> QED BY <2>1, ShapeByes
<1>7. Range(Entering(n + 1)) \subseteq Range(Entering(n))
  BY <1>1, <1>3, <1>4, RoundEntries
<1> HIDE DEF n
<1>8. Len(Entering(n + 1)) # Len(Entering(n))
  <2>1. Len(Entering(n + 1)) \in Nat /\ Len(Entering(n)) \in Nat
    BY <1>4, <1>5, DistinctFacts
  <2> QED BY <1>4, <1>5, <1>6, <2>1
<1> QED BY <1>4, <1>5, <1>7, <1>8, DistinctSize

LEMMA RecordHeatCup ==
  ASSUME Inv, Fair, RecordHeat
  PROVE  Cup!Next
<1> DEFINE n == Len(week.rounds)
           m == Len(week'.rounds)
           result == journal[Current]
           before == RecordedHeats
           top == week'.rounds[round]
           d == DrawOf(round)
           players == Range(Entering(round))
<1>1. /\ UNCHANGED <<file, draw>> /\ pc = "settled" /\ draw # None /\ Ready(round)
      /\ n \in Nat /\ round \in {n, n + 1} /\ IsSeq(week'.rounds) /\ m = round
      /\ week'.champion = week.champion
      /\ IsSeq(before)
      /\ before = IF round = n THEN week.rounds[round].heats ELSE <<>>
      /\ top = [heats |-> Append(before, result), byes |-> d.byes, wildcards |-> <<>>]
      /\ \A r \in 1..m : r # round => r \in 1..n /\ week'.rounds[r] = week.rounds[r]
      /\ Current = <<round, Len(before) + 1>>
      /\ Len(before) + 1 \in 1..draw.shape[round].heats
      /\ result.seats = d.heats[Len(before) + 1]
  BY RecordStep
<1>2. /\ Partition(d, draw.shape[round].heats, Size, players)
      /\ draw.shape[round].heats \in Nat /\ round \in 1..LastRound /\ LastRound \in Nat
      /\ round \in Nat
  <2>1. LastRound \in Nat
    BY <1>1, ShapeFacts
  <2> QED BY <1>1, <2>1, PlayersFacts, DrawFacts
<1>3. result \in Results(Range(result.seats))
  BY <1>1 DEF Fair, SettledFair, HeatFair
<1> HIDE DEF result, before, d, players, top
<1>4. IsSeq(top.heats) /\ top.heats = Append(before, result)
  BY <1>1, AppendFacts
<1>5. /\ Len(top.heats) = Len(before) + 1 /\ Len(before) \in Nat
      /\ \A h \in 1..Len(before) : top.heats[h] = before[h]
      /\ top.heats[Len(before) + 1] = result
  BY <1>1, <1>4, AppendFacts, SeqFacts
<1>6. /\ Len(PublicRounds) = n /\ Len(PublicRounds)' = m
      /\ \A r \in 1..n : PublicRounds[r] = ShownRound(week.rounds[r])
      /\ \A r \in 1..m : PublicRounds'[r] = ShownRound(week'.rounds[r])
  <2>1. PublicRounds' = [r \in DOMAIN week'.rounds |-> ShownRound(week'.rounds[r])]
    BY DEF PublicRounds, ShownRound, Shown
  <2> QED BY <1>1, <2>1, ShownFacts, ShownWeekFacts
<1> DEFINE after == PublicRounds'[round]
           old == IF round = n THEN PublicRounds[round] ELSE <<>>
           k == Len(before)
<1>7. /\ IsSeq(after) /\ Len(after) = k + 1
      /\ \A h \in 1..k : after[h] = Shown(before[h])
      /\ after[k + 1] = Shown(result)
  <2>1. after = ShownRound(top)
    BY <1>1, <1>2, <1>6 DEF top
  <2> HIDE DEF after
  <2>2. /\ IsSeq(after) /\ Len(after) = Len(top.heats)
        /\ \A h \in 1..Len(top.heats) : after[h] = Shown(top.heats[h])
    BY <1>4, <2>1, ShownRoundFacts
  <2> QED BY <1>5, <2>2
<1>8. IsSeq(old) /\ Len(old) = k /\ DOMAIN old = 1..k /\ \A h \in 1..k : old[h] = Shown(before[h])
  <2>1. CASE round = n
    <3>1. old = ShownRound(week.rounds[round]) /\ before = week.rounds[round].heats
      BY <1>1, <1>2, <1>6, <2>1
    <3> HIDE DEF old
    <3> QED BY <1>1, <3>1, ShownRoundFacts
  <2>2. CASE round # n
    <3>1. old = <<>> /\ before = <<>>
      BY <1>1, <2>2
    <3> HIDE DEF old
    <3> QED BY <3>1, EmptySeqFacts
  <2> QED BY <2>1, <2>2
<1> HIDE DEF after, old
<1>9. SubSeq(after, 1, Len(old)) = old
  <2>1. /\ IsSeq(SubSeq(after, 1, k)) /\ Len(SubSeq(after, 1, k)) = k
        /\ \A i \in 1..k : SubSeq(after, 1, k)[i] = after[i]
    <3>1. k \in Nat /\ 1 \in Nat /\ k <= Len(after) /\ 1 <= k + 1 /\ k - 1 + 1 = k
          /\ \A i \in 1..k : 1 + i - 1 = i
      BY <1>5, <1>7
    <3> HIDE DEF k
    <3> QED BY <1>7, <3>1, SubSeqFacts
  <2> HIDE DEF k
  <2> QED BY <1>7, <1>8, <2>1 DEF IsSeq
<1>10. PublicField' = players
  <2>1. CASE round = 1
    BY <1>1, <1>6, <2>1 DEF PublicField, Fleet, players, Entering
  <2>2. CASE round # 1
    <3>1. round - 1 \in 1..m /\ round - 1 # round /\ ~(m <= 1)
      BY <1>1, <1>2, <2>2
    <3>2. week'.rounds[round - 1] = week.rounds[round - 1] /\ draw' # None
      BY <1>1, <3>1
    <3>3. PublicField' = Range(Entries(week'.rounds[m - 1]))
      BY <1>1, <1>6, <3>1, <3>2 DEF PublicField, Advancing, Entries, Winners
    <3>4. players = Range(Entries(week.rounds[round - 1]))
      BY <2>2 DEF players, Entering, Advancing
    <3> QED BY <1>1, <3>2, <3>3, <3>4
  <2> QED BY <2>1, <2>2
<1>11. result.winner \in Range(result.seats) \cup {None}
  BY <1>3 DEF Results
<1>12. Range(result.seats) \subseteq players \ Cup!Met(old)
  <2>1. Range(result.seats) \subseteq players
    BY <1>1, <1>2 DEF Partition
  <2>2. ASSUME NEW h \in 1..k PROVE Range(result.seats) \cap old[h].players = {}
    <3>1. round = n /\ before = week.rounds[round].heats
      BY <1>1, <1>5, <2>2, EmptySeqFacts
    <3>2. round \in 1..n
      BY <1>1, <1>2, <3>1
    <3>3. before[h].seats = d.heats[h]
      BY <3>1, <3>2, <2>2 DEF Inv, WeekOK, RoundOK, d
    <3>4. h \in 1..draw.shape[round].heats /\ h # k + 1
      <4> DEFINE heats == draw.shape[round].heats
      <4>1. k \in Nat /\ heats \in Nat /\ k + 1 \in 1..heats
        BY <1>1, <1>2, <1>5
      <4> HIDE DEF k, heats
      <4>2. h \in 1..heats /\ h # k + 1
        BY <2>2, <4>1
      <4> QED BY <4>2 DEF heats
    <3>5. Range(d.heats[k + 1]) \cap Range(d.heats[h]) = {}
      BY <1>1, <1>2, <3>4 DEF Partition
    <3>6. old[h].players = Range(before[h].seats)
      BY <1>8, <2>2 DEF Shown
    <3>7. result.seats = d.heats[k + 1]
      BY <1>1
    <3> HIDE DEF k
    <3> QED BY <3>3, <3>5, <3>6, <3>7
  <2> QED BY <1>8, <2>1, <2>2 DEF Cup!Met
<1>13. Cup!Decided(old, after)
  <2>1. after[Len(after)] = Shown(result)
    BY <1>7
  <2>2. /\ Shown(result).players = Range(result.seats)
        /\ Shown(result).winner = result.winner
    BY DEF Shown
  <2> HIDE DEF k
  <2> QED BY <1>7, <1>8, <1>9, <1>10, <1>11, <1>12, <2>1, <2>2 DEF Cup!Decided
<1>14. ~Settled /\ Settled' \in BOOLEAN
  BY <1>1 DEF Fair, RunsOn, Settled
<1>15. \A r \in 1..n : r # round => PublicRounds'[r] = PublicRounds[r]
  <2>1. ASSUME NEW r \in 1..n, r # round PROVE PublicRounds'[r] = PublicRounds[r]
    <3>1. r \in 1..m
      BY <1>1, <2>1
    <3> QED BY <1>1, <1>6, <2>1, <3>1
  <2> QED BY <2>1
<1>16. CASE round = n
  <2>1. PublicField' = PublicField
    <3>1. n # 0
      BY <1>2, <1>16
    <3> QED BY <1>1, <1>10, <1>16, <3>1, FieldFacts DEF players
  <2>2. PublicRounds # <<>>
    BY <1>2, <1>6, <1>16, EmptySeqFacts
  <2>3. \A r \in 1..n - 1 : PublicRounds'[r] = PublicRounds[r]
    BY <1>1, <1>15, <1>16
  <2>4. /\ old = PublicRounds[Len(PublicRounds)] /\ after = PublicRounds'[Len(PublicRounds)]
        /\ Len(PublicRounds') = Len(PublicRounds) /\ Len(PublicRounds) = n
    BY <1>1, <1>6, <1>16 DEF old, after
  <2>5. Cup!DecideHeat
    <3> HIDE DEF n, m, k
    <3> QED BY <1>1, <1>13, <1>14, <2>1, <2>2, <2>3, <2>4 DEF Cup!DecideHeat
  <2> QED BY <2>5 DEF Cup!Next
<1>17. CASE round = n + 1
  <2>1. \A r \in 1..n : PublicRounds'[r] = PublicRounds[r]
    BY <1>1, <1>15, <1>17
  <2>2. /\ old = <<>> /\ after = PublicRounds'[Len(PublicRounds')]
        /\ Len(PublicRounds') = Len(PublicRounds) + 1 /\ Len(PublicRounds) = n
    BY <1>1, <1>6, <1>17 DEF old, after
  <2>3. IF PublicRounds = <<>> THEN PublicField' = PublicField
        ELSE PublicField' \subseteq PublicField /\ PublicField' # PublicField
    <3>1. CASE n = 0
      <4>1. PublicRounds = <<>>
        BY <1>6, <3>1, ShownFacts DEF IsSeq
      <4>2. PublicField' = PublicField
        BY <1>1, <1>10, <1>17, <3>1, FieldFacts DEF players
      <4> QED BY <4>1, <4>2
    <3>2. CASE n # 0
      <4>1. PublicRounds # <<>>
        BY <1>6, <3>2, EmptySeqFacts
      <4>2. PublicField = Range(Entering(n)) /\ PublicField' = Range(Entering(n + 1))
        BY <1>1, <1>10, <1>17, <3>2, FieldFacts DEF players
      <4> QED BY <1>1, <1>17, <3>2, <4>1, <4>2, FieldShrinks
    <3> QED BY <3>1, <3>2
  <2>4. \A r \in 1..n - 1 : r \in 1..n
    BY <1>1
  <2>5. Cup!DecideHeat
    <3> HIDE DEF n, m, k
    <3> QED BY <1>1, <1>13, <1>14, <2>1, <2>2, <2>3, <2>4 DEF Cup!DecideHeat
  <2> QED BY <2>5 DEF Cup!Next
<1> QED BY <1>1, <1>16, <1>17

(* What week.json says through every stop and resume is a knockout cup: a  *)
(* decided heat stands, the field shrinks, nothing follows the end         *)
(* (upsert_round, void_cup, final_champion and run_week's early returns).  *)
THEOREM DecidedStandsHolds == Spec => DecidedStands
<1>1. Init => Cup!Init
  BY InitCup
<1>2. Inv /\ Fair /\ [Next]_vars => [Cup!Next]_Cup!cup
  <2> SUFFICES ASSUME Inv, Fair, [Next]_vars PROVE [Cup!Next]_Cup!cup
    OBVIOUS
  <2>1. CASE WriteDraw
    BY <2>1, WriteDrawCup
  <2>2. CASE VoidCup
    <3>1. Close(None) /\ pc = "entering" /\ pc' = "off" /\ UNCHANGED <<file, draw, journal>>
      BY <2>2 DEF VoidCup, Exit
    <3> QED BY <3>1, CloseCup
  <2>3. CASE FinishWeek
    BY <2>3, FinishWeekCup
  <2>4. CASE RecordHeat
    BY <2>4, RecordHeatCup
  <2>5. CASE FinishRound
    BY <2>5, FinishRoundCup
  <2>6. CASE \/ RefuseDraw \/ WriteSecret \/ StartWeek \/ EnterRound \/ Underfilled
             \/ StartAttempt \/ NoPorts \/ SettleHeat
             \/ pc = "match" /\ \E world \in Worlds(Size) : EndAttempt(world)
             \/ FailAttempt \/ Crash \/ UNCHANGED vars
    <3>1. UNCHANGED <<file, draw, week>>
      BY <2>6 DEF RefuseDraw, WriteSecret, StartWeek, EnterRound, Underfilled, StartAttempt,
           NoPorts, SettleHeat, EndAttempt, FailAttempt, Crash, vars, disk
    <3> QED BY <3>1, Unseen
  <2> QED BY <2>1, <2>2, <2>3, <2>4, <2>5, <2>6 DEF Next, Step
<1> QED BY <1>1, <1>2, FairHolds, PTL DEF Spec, DecidedStands, Cup!Spec

-----------------------------------------------------------------------------
(* Sums over finite sets.                                                   *)

(* Induction over the subsets of a finite set. *)
LEMMA SubsetInduction ==
  ASSUME NEW U, IsFiniteSet(U), NEW I, {} \in I,
         \A T \in SUBSET U : \A x \in U \ T : T \in I => T \cup {x} \in I
  PROVE  \A T \in SUBSET U : T \in I
<1> DEFINE N == {n \in Nat : \A T \in SUBSET U : Cardinality(T) = n => T \in I}
<1>1. \A T \in SUBSET U : IsFiniteSet(T) /\ Cardinality(T) \in Nat
  BY FS_Subset, FS_CardinalityType
<1>2. 0 \in N
  BY <1>1, FS_EmptySet
<1>3. ASSUME NEW n \in Nat, n \in N PROVE n + 1 \in N
  <2> SUFFICES ASSUME NEW T \in SUBSET U, Cardinality(T) = n + 1 PROVE T \in I
    OBVIOUS
  <2>1. T # {}
    BY FS_EmptySet
  <2>2. PICK x \in T : TRUE
    BY <2>1
  <2>3. IsFiniteSet(T) /\ Cardinality(T \ {x}) = Cardinality(T) - 1
    BY <1>1, <2>2, FS_RemoveElement
  <2>4. Cardinality(T \ {x}) = n
    BY <2>3
  <2>5. T \ {x} \in I
    BY <1>3, <2>4
  <2>6. T = (T \ {x}) \cup {x} /\ x \in U \ (T \ {x}) /\ T \ {x} \in SUBSET U
    BY <2>2
  <2> QED BY <2>5, <2>6
<1> HIDE DEF N
<1>4. \A n \in Nat : n \in N
  BY <1>2, <1>3, SetInduction
<1> QED BY <1>1, <1>4 DEF N

(* What a sum over a set unrolls to: an element, then the rest.            *)
OneOf(s) == CHOOSE x \in s : TRUE
Sums(h, f, S) ==
  h = [s \in SUBSET S |-> IF s = {} THEN 0 ELSE f[OneOf(s)] + h[s \ {OneOf(s)}]]

LEMMA SumsExist ==
  ASSUME NEW f, NEW S, IsFiniteSet(S)
  PROVE  \E h : Sums(h, f, S)
<1> DEFINE Turn1(h, s) == IF s = {} THEN 0 ELSE f[OneOf(s)] + h[s \ {OneOf(s)}]
           Upto(h, n) == \A s \in SUBSET S : Cardinality(s) <= n => h[s] = Turn1(h, s)
           N == {n \in Nat : \E h : Upto(h, n)}
<1>1. ASSUME NEW s \in SUBSET S
      PROVE  /\ Cardinality(s) \in Nat
             /\ Cardinality(s) <= Cardinality(S)
             /\ s # {} => /\ s \ {OneOf(s)} \in SUBSET S
                          /\ Cardinality(s \ {OneOf(s)}) = Cardinality(s) - 1
  <2>1. IsFiniteSet(s)
    BY FS_Subset
  <2>2. Cardinality(s) \in Nat /\ Cardinality(s) <= Cardinality(S)
    BY <2>1, FS_CardinalityType, FS_Subset
  <2>3. s # {} => OneOf(s) \in s
    BY DEF OneOf
  <2> QED BY <2>1, <2>2, <2>3, FS_RemoveElement
<1>2. Cardinality(S) \in Nat
  BY FS_CardinalityType
<1>3. 0 \in N
  <2> DEFINE h == [s \in SUBSET S |-> 0]
  <2>1. \A s \in SUBSET S : Cardinality(s) <= 0 => s = {}
    <3>1. ASSUME NEW s \in SUBSET S, Cardinality(s) <= 0 PROVE s = {}
      <4>1. IsFiniteSet(s)
        BY FS_Subset
      <4>2. Cardinality(s) \in Nat
        BY <1>1
      <4>3. Cardinality(s) = 0
        BY <3>1, <4>2
      <4> QED BY <4>1, <4>3, FS_EmptySet
    <3> QED BY <3>1
  <2>2. Upto(h, 0)
    BY <2>1
  <2> QED BY <2>2
<1>4. ASSUME NEW n \in Nat, n \in N PROVE n + 1 \in N
  <2>1. PICK g : Upto(g, n)
    BY <1>4
  <2> DEFINE h == [s \in SUBSET S |-> IF Cardinality(s) <= n THEN g[s] ELSE Turn1(g, s)]
  <2>2. ASSUME NEW s \in SUBSET S, Cardinality(s) <= n + 1 PROVE h[s] = Turn1(h, s)
    <3> DEFINE t == s \ {OneOf(s)}
    <3>1. CASE s = {}
      <4>1. Cardinality(s) <= n
        BY <3>1, FS_EmptySet
      <4> QED BY <2>1, <3>1, <4>1
    <3>2. CASE s # {}
      <4>1. t \in SUBSET S /\ Cardinality(t) = Cardinality(s) - 1 /\ Cardinality(s) \in Nat
        BY <1>1, <3>2
      <4> HIDE DEF t
      <4>2. Cardinality(t) <= n
        BY <2>2, <4>1
      <4>3. h[t] = g[t]
        BY <4>1, <4>2
      <4>4. g[s] = f[OneOf(s)] + g[t] \/ ~(Cardinality(s) <= n)
        BY <2>1, <3>2 DEF t
      <4>5. h[s] = f[OneOf(s)] + g[t]
        <5>1. CASE Cardinality(s) <= n
          BY <4>4, <5>1
        <5>2. CASE ~(Cardinality(s) <= n)
          BY <3>2, <5>2 DEF t
        <5> QED BY <5>1, <5>2
      <4> HIDE DEF h
      <4> QED BY <3>2, <4>3, <4>5 DEF t
    <3> QED BY <3>1, <3>2
  <2> HIDE DEF h, Turn1
  <2>3. Upto(h, n + 1)
    BY <2>2
  <2> QED BY <2>3
<1> HIDE DEF N
<1>5. Cardinality(S) \in N
  <2>1. \A n \in Nat : n \in N
    BY <1>3, <1>4, SetInduction
  <2> QED BY <1>2, <2>1
<1>6. PICK g : Upto(g, Cardinality(S))
  BY <1>5 DEF N
<1> DEFINE h == [s \in SUBSET S |-> g[s]]
<1>7. ASSUME NEW s \in SUBSET S
      PROVE  h[s] = IF s = {} THEN 0 ELSE f[OneOf(s)] + h[s \ {OneOf(s)}]
  <2>1. g[s] = Turn1(g, s)
    BY <1>1, <1>6
  <2> QED BY <1>1, <2>1
<1>8. Sums(h, f, S)
  BY <1>7 DEF Sums
<1> QED BY <1>8

(* Sums of the same numbers are equal. *)
LEMMA SumsAgree ==
  ASSUME NEW U, IsFiniteSet(U), NEW S \in SUBSET U, NEW f, NEW g,
         \A x \in S : f[x] = g[x], NEW h, Sums(h, f, U), NEW k, Sums(k, g, S)
  PROVE  \A T \in SUBSET S : h[T] = k[T]
<1> DEFINE N == {n \in Nat : \A T \in SUBSET S : Cardinality(T) = n => h[T] = k[T]}
<1>1. ASSUME NEW T \in SUBSET S
      PROVE  /\ Cardinality(T) \in Nat
             /\ h[T] = IF T = {} THEN 0 ELSE f[OneOf(T)] + h[T \ {OneOf(T)}]
             /\ k[T] = IF T = {} THEN 0 ELSE g[OneOf(T)] + k[T \ {OneOf(T)}]
             /\ T # {} => /\ OneOf(T) \in S /\ T \ {OneOf(T)} \in SUBSET S
                          /\ Cardinality(T \ {OneOf(T)}) = Cardinality(T) - 1
  <2>1. IsFiniteSet(T)
    BY FS_Subset
  <2>2. Cardinality(T) \in Nat
    BY <2>1, FS_CardinalityType
  <2>3. T # {} => OneOf(T) \in T
    BY DEF OneOf
  <2>4. /\ h[T] = IF T = {} THEN 0 ELSE f[OneOf(T)] + h[T \ {OneOf(T)}]
        /\ k[T] = IF T = {} THEN 0 ELSE g[OneOf(T)] + k[T \ {OneOf(T)}]
    <3>1. T \in SUBSET U
      OBVIOUS
    <3>2. h[T] = IF T = {} THEN 0 ELSE f[OneOf(T)] + h[T \ {OneOf(T)}]
      BY <3>1 DEF Sums
    <3>3. k[T] = IF T = {} THEN 0 ELSE g[OneOf(T)] + k[T \ {OneOf(T)}]
      BY DEF Sums
    <3> QED BY <3>2, <3>3
  <2> QED BY <2>1, <2>2, <2>3, <2>4, FS_RemoveElement
<1>2. 0 \in N
  <2>1. ASSUME NEW T \in SUBSET S, Cardinality(T) = 0 PROVE h[T] = k[T]
    <3>1. T = {}
      BY <2>1, FS_Subset, FS_EmptySet
    <3> QED BY <1>1, <3>1
  <2> QED BY <2>1
<1>3. ASSUME NEW n \in Nat, n \in N PROVE n + 1 \in N
  <2> SUFFICES ASSUME NEW T \in SUBSET S, Cardinality(T) = n + 1 PROVE h[T] = k[T]
    OBVIOUS
  <2>1. T # {}
    BY FS_EmptySet
  <2>2. h[T \ {OneOf(T)}] = k[T \ {OneOf(T)}]
    BY <1>1, <1>3, <2>1
  <2> QED BY <1>1, <2>1, <2>2
<1> HIDE DEF N
<1>4. \A n \in Nat : n \in N
  BY <1>2, <1>3, SetInduction
<1> QED BY <1>1, <1>4 DEF N

Total(f, S) == (CHOOSE h : Sums(h, f, S))[S]

LEMMA TotalSums ==
  ASSUME NEW f, NEW S, IsFiniteSet(S)
  PROVE  \E h : Sums(h, f, S) /\ Total(f, S) = h[S]
BY SumsExist DEF Total

LEMMA TotalIs ==
  ASSUME NEW U, IsFiniteSet(U), NEW f, NEW h, Sums(h, f, U)
  PROVE  \A S \in SUBSET U : Total(f, S) = h[S]
<1>1. ASSUME NEW S \in SUBSET U PROVE Total(f, S) = h[S]
  <2>1. IsFiniteSet(S)
    BY FS_Subset
  <2>2. PICK k : Sums(k, f, S) /\ Total(f, S) = k[S]
    BY <2>1, TotalSums
  <2>3. h[S] = k[S]
    BY <2>2, SumsAgree
  <2> QED BY <2>2, <2>3
<1> QED BY <1>1

(* Any fold that unrolls like the sum is the sum. *)
LEMMA TotalFold ==
  ASSUME NEW S, IsFiniteSet(S), NEW f, NEW g, \A x \in S : f[x] = g[x],
         NEW h, Sums(h, g, S)
  PROVE  h[S] = Total(f, S)
<1>1. PICK k : Sums(k, f, S) /\ Total(f, S) = k[S]
  BY TotalSums
<1>2. S \in SUBSET S
  OBVIOUS
<1>3. Sums(k, f, S) /\ Sums(h, g, S) /\ \A x \in S : f[x] = g[x]
  BY <1>1
<1>4. \A T \in SUBSET S : k[T] = h[T]
  BY ONLY IsFiniteSet(S), <1>2, <1>3, SumsAgree
<1> QED BY <1>1, <1>2, <1>4

LEMMA TotalSame ==
  ASSUME NEW S, IsFiniteSet(S), NEW f, NEW g, \A x \in S : f[x] = g[x]
  PROVE  Total(f, S) = Total(g, S)
<1>1. PICK h : Sums(h, g, S) /\ Total(g, S) = h[S]
  BY TotalSums
<1> QED BY <1>1, TotalFold

LEMMA TotalEmpty == \A f : Total(f, {}) = 0
<1>1. ASSUME NEW f PROVE Total(f, {}) = 0
  <2>1. PICK h : Sums(h, f, {}) /\ Total(f, {}) = h[{}]
    BY TotalSums, FS_EmptySet
  <2>2. {} \in SUBSET {}
    OBVIOUS
  <2>3. h[{}] = 0
    BY <2>1, <2>2 DEF Sums
  <2> QED BY <2>1, <2>3
<1> QED BY <1>1

(* The order in which a sum takes its elements does not matter.            *)
LEMMA TotalAdd ==
  ASSUME NEW U, IsFiniteSet(U), NEW f, \A x \in U : f[x] \in Nat
  PROVE  \A T \in SUBSET U :
           /\ Total(f, T) \in Nat
           /\ \A x \in U \ T : Total(f, T \cup {x}) = f[x] + Total(f, T)
<1>1. PICK h : Sums(h, f, U)
  BY SumsExist
<1> DEFINE Good(T) == h[T] \in Nat /\ \A x \in U \ T : h[T \cup {x}] = f[x] + h[T]
           N == {n \in Nat : \A T \in SUBSET U : Cardinality(T) = n => Good(T)}
<1>2. ASSUME NEW T \in SUBSET U
      PROVE  /\ IsFiniteSet(T) /\ Cardinality(T) \in Nat
             /\ h[T] = IF T = {} THEN 0 ELSE f[OneOf(T)] + h[T \ {OneOf(T)}]
             /\ T # {} => OneOf(T) \in T
  <2>1. IsFiniteSet(T)
    BY FS_Subset
  <2>2. Cardinality(T) \in Nat
    BY <2>1, FS_CardinalityType
  <2>3. h[T] = IF T = {} THEN 0 ELSE f[OneOf(T)] + h[T \ {OneOf(T)}]
    BY <1>1 DEF Sums
  <2> QED BY <2>1, <2>2, <2>3 DEF OneOf
<1>3. ASSUME NEW T \in SUBSET U, NEW x \in T
      PROVE  Cardinality(T \ {x}) = Cardinality(T) - 1 /\ T \ {x} \in SUBSET U
  BY <1>2, FS_RemoveElement
<1>4. h[{}] = 0
  BY <1>2
<1>5. 0 \in N
  <2>1. ASSUME NEW T \in SUBSET U, Cardinality(T) = 0 PROVE Good(T)
    <3>1. T = {}
      BY <1>2, <2>1, FS_EmptySet
    <3>2. ASSUME NEW x \in U PROVE h[{x}] = f[x] + h[{}]
      <4>1. {x} \in SUBSET U /\ {x} # {} /\ {x} \ {x} = {}
        BY <3>2
      <4>2. OneOf({x}) = x
        BY <1>2, <4>1
      <4> QED BY <1>2, <4>1, <4>2
    <3>3. ASSUME NEW x \in U \ T PROVE h[T \cup {x}] = f[x] + h[T]
      <4>1. T \cup {x} = {x}
        BY <3>1
      <4> QED BY <3>1, <3>2, <4>1
    <3>4. h[T] \in Nat
      BY <1>4, <3>1
    <3> QED BY <3>3, <3>4
  <2> QED BY <2>1
<1>6. ASSUME NEW n \in Nat, n \in N PROVE n + 1 \in N
  <2> SUFFICES ASSUME NEW T \in SUBSET U, Cardinality(T) = n + 1 PROVE Good(T)
    OBVIOUS
  <2>1. T # {}
    BY FS_EmptySet
  <2>2. ASSUME NEW c \in T
        PROVE  h[T] = f[c] + h[T \ {c}] /\ h[T \ {c}] \in Nat
    <3>1. Cardinality(T \ {c}) = n /\ T \ {c} \in SUBSET U
      BY <1>3, <2>2
    <3>2. Good(T \ {c})
      BY <1>6, <3>1
    <3>3. (T \ {c}) \cup {c} = T /\ c \in U \ (T \ {c})
      BY <2>2
    <3> QED BY <3>2, <3>3
  <2>3. h[T] \in Nat
    <3>1. PICK c \in T : TRUE
      BY <2>1
    <3>2. f[c] \in Nat /\ h[T] = f[c] + h[T \ {c}] /\ h[T \ {c}] \in Nat
      BY <2>2
    <3> QED BY <3>2
  <2>4. ASSUME NEW x \in U \ T PROVE h[T \cup {x}] = f[x] + h[T]
    <3> DEFINE s == T \cup {x}
               c == OneOf(s)
    <3>1. s \in SUBSET U /\ s # {}
      OBVIOUS
    <3>2. c \in s /\ h[s] = f[c] + h[s \ {c}]
      BY <1>2, <3>1
    <3> HIDE DEF c
    <3>3. CASE c = x
      <4>1. s \ {c} = T
        BY <3>3
      <4> QED BY <3>2, <3>3, <4>1
    <3>4. CASE c # x
      <4>1. c \in T
        BY <3>2, <3>4
      <4>2. Cardinality(T \ {c}) = n /\ T \ {c} \in SUBSET U
        BY <1>3, <4>1
      <4>3. Good(T \ {c})
        BY <1>6, <4>2
      <4>4. s \ {c} = (T \ {c}) \cup {x} /\ x \in U \ (T \ {c})
        BY <3>4, <4>1
      <4>5. h[s \ {c}] = f[x] + h[T \ {c}]
        BY <4>3, <4>4
      <4>6. h[T] = f[c] + h[T \ {c}] /\ h[T \ {c}] \in Nat /\ f[c] \in Nat /\ f[x] \in Nat
        BY <2>2, <4>1
      <4>7. h[s] = f[c] + (f[x] + h[T \ {c}])
        BY <3>2, <4>5
      <4> HIDE DEF s
      <4>8. h[s] = f[x] + h[T]
        BY <4>6, <4>7
      <4> QED BY <4>8 DEF s
    <3> QED BY <3>3, <3>4
  <2> QED BY <2>3, <2>4
<1> HIDE DEF N
<1>7. \A n \in Nat : n \in N
  BY <1>5, <1>6, SetInduction
<1>8. \A T \in SUBSET U : Good(T)
  BY <1>2, <1>7 DEF N
<1>9. \A T \in SUBSET U : Total(f, T) = h[T]
  BY <1>1, TotalIs
<1>10. \A T \in SUBSET U : \A x \in U \ T : T \cup {x} \in SUBSET U
  OBVIOUS
<1> QED BY <1>8, <1>9, <1>10

LEMMA TotalPlus ==
  ASSUME NEW U, IsFiniteSet(U), NEW f, NEW g, \A x \in U : f[x] \in Nat /\ g[x] \in Nat
  PROVE  Total([x \in U |-> f[x] + g[x]], U) = Total(f, U) + Total(g, U)
<1> DEFINE both == [x \in U |-> f[x] + g[x]]
           I == {T \in SUBSET U : Total(both, T) = Total(f, T) + Total(g, T)}
<1>1. \A x \in U : both[x] = f[x] + g[x] /\ both[x] \in Nat
  OBVIOUS
<1> HIDE DEF both
<1>2. {} \in I
  BY TotalEmpty
<1>3. ASSUME NEW T \in SUBSET U, NEW x \in U \ T, T \in I PROVE T \cup {x} \in I
  <2>1. /\ Total(both, T \cup {x}) = both[x] + Total(both, T)
        /\ Total(f, T \cup {x}) = f[x] + Total(f, T) /\ Total(f, T) \in Nat
        /\ Total(g, T \cup {x}) = g[x] + Total(g, T) /\ Total(g, T) \in Nat
    <3>1. Total(both, T \cup {x}) = both[x] + Total(both, T)
      BY <1>1, TotalAdd
    <3>2. Total(f, T \cup {x}) = f[x] + Total(f, T) /\ Total(f, T) \in Nat
      BY TotalAdd
    <3>3. Total(g, T \cup {x}) = g[x] + Total(g, T) /\ Total(g, T) \in Nat
      BY TotalAdd
    <3> QED BY <3>1, <3>2, <3>3
  <2>2. Total(both, T) = Total(f, T) + Total(g, T) /\ T \cup {x} \in SUBSET U
    BY <1>3
  <2>3. both[x] = f[x] + g[x] /\ f[x] \in Nat /\ g[x] \in Nat
    BY <1>1
  <2>4. Total(both, T \cup {x}) = Total(f, T \cup {x}) + Total(g, T \cup {x})
    BY <2>1, <2>2, <2>3
  <2> QED BY <2>2, <2>4
<1> HIDE DEF I
<1>4. U \in I
  BY <1>2, <1>3, SubsetInduction
<1> QED BY <1>4 DEF I, both

(* The sum of a number given to some and nothing to the others.            *)
LEMMA TotalShares ==
  ASSUME NEW U, IsFiniteSet(U), NEW P \in SUBSET U, NEW a \in Nat
  PROVE  Total([x \in U |-> IF x \in P THEN a ELSE 0], U) = a * Cardinality(P)
<1> DEFINE share == [x \in U |-> IF x \in P THEN a ELSE 0]
           I == {T \in SUBSET U : Total(share, T) = a * Cardinality(T \cap P)}
<1>1. \A x \in U : share[x] \in Nat /\ share[x] = IF x \in P THEN a ELSE 0
  OBVIOUS
<1> HIDE DEF share
<1>2. {} \in I
  <2>1. {} \cap P = {} /\ Cardinality({}) = 0 /\ a * 0 = 0
    BY FS_EmptySet
  <2> QED BY <2>1, TotalEmpty
<1>3. ASSUME NEW T \in SUBSET U, NEW x \in U \ T, T \in I PROVE T \cup {x} \in I
  <2>1. Total(share, T \cup {x}) = share[x] + Total(share, T)
    BY <1>1, TotalAdd
  <2>2. IsFiniteSet(T \cap P)
    BY FS_Subset
  <2> DEFINE n == Cardinality(T \cap P)
  <2>3. n \in Nat
    BY <2>2, FS_CardinalityType
  <2>4. Total(share, T) = a * n /\ T \cup {x} \in SUBSET U
    BY <1>3
  <2>5. CASE x \in P
    <3>1. (T \cup {x}) \cap P = (T \cap P) \cup {x} /\ x \notin T \cap P
      BY <2>5
    <3>2. Cardinality((T \cup {x}) \cap P) = n + 1
      BY <2>2, <3>1, FS_AddElement
    <3>3. share[x] = a
      BY <1>1, <2>5
    <3> HIDE DEF n
    <3>4. a + a * n = a * (n + 1)
      BY <2>3
    <3> QED BY <2>1, <2>4, <3>2, <3>3, <3>4
  <2>6. CASE x \notin P
    <3>1. (T \cup {x}) \cap P = T \cap P
      BY <2>6
    <3>2. share[x] = 0
      BY <1>1, <2>6
    <3>3. a * n \in Nat
      <4> HIDE DEF n
      <4> QED BY <2>3
    <3>4. Total(share, T \cup {x}) = a * n
      BY <2>1, <2>4, <3>2, <3>3
    <3> QED BY <2>4, <3>1, <3>4
  <2> QED BY <2>5, <2>6
<1> HIDE DEF I
<1>4. U \in I
  BY <1>2, <1>3, SubsetInduction
<1>5. U \cap P = P
  OBVIOUS
<1> QED BY <1>4, <1>5 DEF I, share

(* What the members of groups of k pay, each the price of every group it   *)
(* is in, is k times the price of the groups.                              *)
LEMMA TotalTwice ==
  ASSUME NEW F, IsFiniteSet(F), NEW D, IsFiniteSet(D), NEW k \in Nat, NEW group, NEW price,
         \A y \in D : /\ group[y] \in SUBSET F /\ Cardinality(group[y]) = k
                     /\ price[y] \in Nat
  PROVE  Total([x \in F |-> Total(price, {y \in D : x \in group[y]})], F) = k * Total(price, D)
<1> DEFINE paid(T) == [x \in F |-> Total(price, {y \in T : x \in group[y]})]
           I == {T \in SUBSET D : Total(paid(T), F) = k * Total(price, T)}
<1>1. \A T \in SUBSET D : /\ Total(price, T) \in Nat
                         /\ \A y \in D \ T : Total(price, T \cup {y}) = price[y] + Total(price, T)
  BY TotalAdd
<1>2. {} \in I
  <2> DEFINE nothing == [x \in F |-> IF x \in {} THEN 0 ELSE 0]
  <2>1. \A x \in F : paid({})[x] = nothing[x]
    <3>1. \A x \in F : {y \in {} : x \in group[y]} = {}
      OBVIOUS
    <3> QED BY <3>1, TotalEmpty
  <2>2. Total(nothing, F) = 0 * Cardinality({})
    BY TotalShares
  <2> HIDE DEF paid, nothing
  <2>3. Total(paid({}), F) = Total(nothing, F)
    BY <2>1, TotalSame
  <2>4. Total(price, {}) = 0 /\ k * 0 = 0 /\ 0 * Cardinality({}) = 0
    BY TotalEmpty, FS_EmptySet
  <2>5. Total(paid({}), F) = k * Total(price, {})
    BY <2>2, <2>3, <2>4
  <2> QED BY <2>5
<1>3. ASSUME NEW T \in SUBSET D, NEW y \in D \ T, T \in I PROVE T \cup {y} \in I
  <2> DEFINE old == paid(T)
             new == paid(T \cup {y})
             share == [x \in F |-> IF x \in group[y] THEN price[y] ELSE 0]
             both == [x \in F |-> old[x] + share[x]]
  <2>1. ASSUME NEW x \in F
        PROVE  old[x] \in Nat /\ share[x] \in Nat /\ new[x] = both[x]
    <3> DEFINE before == {z \in T : x \in group[z]}
               after == {z \in T \cup {y} : x \in group[z]}
    <3>1. /\ Total(price, before) \in Nat
          /\ Total(price, before \cup {y}) = price[y] + Total(price, before)
      <4>1. before \in SUBSET D /\ y \in D \ before
        OBVIOUS
      <4> HIDE DEF before
      <4> QED BY <1>1, <4>1
    <3>2. old[x] = Total(price, before) /\ new[x] = Total(price, after)
      OBVIOUS
    <3>3. CASE x \in group[y]
      <4>1. after = before \cup {y} /\ share[x] = price[y]
        BY <3>3
      <4> HIDE DEF before, after, old, new, share
      <4>2. price[y] \in Nat
        OBVIOUS
      <4> QED BY <3>1, <3>2, <4>1, <4>2
    <3>4. CASE x \notin group[y]
      <4>1. after = before /\ share[x] = 0
        BY <3>4
      <4> HIDE DEF before, after, old, new, share
      <4> QED BY <3>1, <3>2, <4>1
    <3> QED BY <3>3, <3>4
  <2>2. Total(share, F) = price[y] * k
    BY TotalShares
  <2> HIDE DEF old, new, share, paid
  <2>3. Total(both, F) = Total(old, F) + Total(share, F)
    BY <2>1, TotalPlus
  <2> HIDE DEF both
  <2>4. Total(new, F) = Total(both, F)
    BY <2>1, TotalSame
  <2>5. Total(old, F) = k * Total(price, T)
    BY <1>3 DEF old
  <2>6. Total(price, T \cup {y}) = price[y] + Total(price, T) /\ price[y] \in Nat
        /\ Total(price, T) \in Nat
    BY <1>1
  <2>7. k * Total(price, T) + price[y] * k = k * (price[y] + Total(price, T))
    BY <2>6
  <2>8. Total(new, F) = k * Total(price, T \cup {y})
    BY <2>2, <2>3, <2>4, <2>5, <2>6, <2>7
  <2> QED BY <2>8 DEF new
<1> HIDE DEF I, paid
<1>4. \A T \in SUBSET D : T \in I
  BY ONLY IsFiniteSet(D), <1>2, <1>3, SubsetInduction
<1>5. D \in I
  BY <1>4
<1> QED BY <1>5 DEF I, paid

-----------------------------------------------------------------------------
(* The standings as sums and a maximum.                                     *)

(* What a fold of the standings unrolls to. *)
Unfolds(h, op(_), S) ==
  h = [s \in SUBSET S |-> IF s = {} THEN 0 ELSE op(OneOf(s)) + h[s \ {OneOf(s)}]]

LEMMA CostsFold ==
  ASSUME NEW S, IsFiniteSet(S), NEW table
  PROVE  MapThenSumSet(LAMBDA id : table[id].cost, S) = Total([id \in S |-> table[id].cost], S)
<1> DEFINE f == [id \in S |-> table[id].cost]
           op(id) == table[id].cost
<1>1. \A s \in SUBSET S : s # {} => OneOf(s) \in S
  BY DEF OneOf
<1>2. \A h : Sums(h, f, S) <=> Unfolds(h, op, S)
  BY <1>1 DEF Sums, Unfolds
<1>3. \E h : Unfolds(h, op, S)
  BY <1>2, SumsExist
<1>4. \E h : Unfolds(h, op, S) /\ MapThenSumSet(LAMBDA id : table[id].cost, S) = h[S]
  BY <1>3 DEF MapThenSumSet, MapThenFoldSet, Unfolds, OneOf
<1>5. PICK h : Sums(h, f, S) /\ MapThenSumSet(LAMBDA id : table[id].cost, S) = h[S]
  BY <1>2, <1>4
<1>6. h[S] = Total(f, S)
  <2> HIDE DEF f, op
  <2> QED BY <1>5, TotalFold
<1> QED BY <1>5, <1>6

(* The standings in parts. *)
HeatAt(rounds, slot) == rounds[slot[1]].heats[slot[2]]

PlayedBy(rounds, id) ==
  {slot \in SlotsIn(rounds) : id \in Range(HeatAt(rounds, slot).seats)}

PlaysIn(rounds, id, r) == \E h \in DOMAIN rounds[r].heats : id \in Range(rounds[r].heats[h].seats)

AdvancesFrom(rounds, id, r) ==
  \/ \E h \in DOMAIN rounds[r].heats : rounds[r].heats[h].winner = id
  \/ id \in Range(rounds[r].byes) \cup Range(rounds[r].wildcards)

Reaches(rounds, id) ==
  {1} \cup {r \in DOMAIN rounds : PlaysIn(rounds, id, r)}
      \cup {r + 1 : r \in {r \in DOMAIN rounds : AdvancesFrom(rounds, id, r)}}

Paid(rounds, S) == MapThenSumSet(LAMBDA slot : Spent(HeatAt(rounds, slot)), S)

StandingsOf(fleet, rounds) ==
  [id \in fleet |->
     [reached |-> Max(Reaches(rounds, id)),
      wins |-> Cardinality({slot \in PlayedBy(rounds, id) : HeatAt(rounds, slot).winner = id}),
      cost |-> Paid(rounds, PlayedBy(rounds, id))]]

LEMMA StandingsAre ==
  ASSUME NEW rounds
  PROVE  WeekStandings(rounds) = StandingsOf(Fleet, rounds)
BY DEF WeekStandings, StandingsOf, HeatAt, PlayedBy, PlaysIn, AdvancesFrom, Reaches, Paid

LEMMA PaidFold ==
  ASSUME NEW rounds, NEW S, IsFiniteSet(S)
  PROVE  Paid(rounds, S) = Total([slot \in S |-> Attempts(HeatAt(rounds, slot))], S)
<1> DEFINE f == [slot \in S |-> Attempts(HeatAt(rounds, slot))]
           op(slot) == Attempts(HeatAt(rounds, slot))
<1>1. \A s \in SUBSET S : s # {} => OneOf(s) \in S
  BY DEF OneOf
<1>2. \A h : Sums(h, f, S) <=> Unfolds(h, op, S)
  BY <1>1 DEF Sums, Unfolds
<1>3. \E h : Unfolds(h, op, S)
  BY <1>2, SumsExist
<1>4. \E h : Unfolds(h, op, S) /\ Paid(rounds, S) = h[S]
  BY <1>3 DEF MapThenSumSet, MapThenFoldSet, Unfolds, OneOf, Paid, Spent
<1>5. PICK h : Sums(h, f, S) /\ Paid(rounds, S) = h[S]
  BY <1>2, <1>4
<1>6. h[S] = Total(f, S)
  <2> HIDE DEF f, op
  <2> QED BY <1>5, TotalFold
<1> QED BY <1>5, <1>6

LEMMA AttemptsFold ==
  ASSUME NEW S, IsFiniteSet(S), NEW table
  PROVE  MapThenSumSet(LAMBDA slot : Attempts(table[slot]), S)
           = Total([slot \in S |-> Attempts(table[slot])], S)
<1> DEFINE f == [slot \in S |-> Attempts(table[slot])]
           op(slot) == Attempts(table[slot])
<1>1. \A s \in SUBSET S : s # {} => OneOf(s) \in S
  BY DEF OneOf
<1>2. \A h : Sums(h, f, S) <=> Unfolds(h, op, S)
  BY <1>1 DEF Sums, Unfolds
<1>3. \E h : Unfolds(h, op, S)
  BY <1>2, SumsExist
<1>4. \E h : Unfolds(h, op, S) /\ MapThenSumSet(LAMBDA slot : Attempts(table[slot]), S) = h[S]
  BY <1>3 DEF MapThenSumSet, MapThenFoldSet, Unfolds, OneOf
<1>5. PICK h : Sums(h, f, S) /\ MapThenSumSet(LAMBDA slot : Attempts(table[slot]), S) = h[S]
  BY <1>2, <1>4
<1>6. h[S] = Total(f, S)
  <2> HIDE DEF f, op
  <2> QED BY <1>5, TotalFold
<1> QED BY <1>5, <1>6

LEMMA MaxIs ==
  ASSUME NEW n \in Nat, NEW S \in SUBSET (1..n), S # {}
  PROVE  Max(S) \in S /\ \A x \in S : x <= Max(S)
<1> DEFINE T == {n - x : x \in S}
<1>1. T \in SUBSET Nat /\ T # {}
  <2>1. \A x \in S : n - x \in Nat
    OBVIOUS
  <2> QED BY <2>1
<1>2. PICK t \in T : \A y \in T : t <= y
  BY <1>1, Least
<1>3. PICK m \in S : t = n - m
  BY <1>2
<1>4. \A x \in S : m >= x
  <2>1. ASSUME NEW x \in S PROVE m >= x
    <3>1. n - x \in T
      OBVIOUS
    <3>2. n - m <= n - x
      BY <1>2, <1>3, <3>1
    <3> QED BY <3>2
  <2> QED BY <2>1
<1>5. \E x \in S : \A y \in S : x >= y
  BY <1>4
<1>6. Max(S) \in S /\ \A y \in S : Max(S) >= y
  BY <1>5 DEF Max
<1> QED BY <1>6

-----------------------------------------------------------------------------
(* What is recorded is what the journals say.                               *)

(* A recorded heat is the one its journal has; in the final only a durable *)
(* winner.                                                                 *)
Recorded ==
  \A r \in 1..Len(week.rounds) : \A h \in 1..Len(week.rounds[r].heats) :
    LET heat == week.rounds[r].heats[h]
    IN /\ journal[<<r, h>>] = heat /\ heat # None
       /\ r = LastRound => heat.winner = DurableHeatWinner(heat)

SettledKept ==
  pc = "settled" =>
    /\ journal[Current] # None
    /\ round = LastRound => journal[Current].winner = DurableHeatWinner(journal[Current])

(* A completed week is whole: every round is finished, nothing was played  *)
(* after the last one, which is the final if there is a champion.          *)
Ended ==
  week.completed =>
    /\ week.standings = StandingsOf(Fleet, week.rounds)
    /\ \A r \in 1..Len(week.rounds) : Finished(r)
    /\ \A slot \in Slots : journal[slot] # None => slot[1] <= Len(week.rounds)
    /\ \/ week.champion = None /\ Len(week.rounds) < LastRound
       \/ /\ Len(week.rounds) = LastRound
          /\ week.champion = DurableHeatWinner(week.rounds[LastRound].heats[1])

Accounted == Recorded /\ SettledKept /\ Ended

LEMMA InitAccounted == Init => Accounted
BY EmptySeqFacts DEF Init, NewWeek, Accounted, Recorded, SettledKept, Ended

(* A step that records no heat and leaves the files of recorded ones alone. *)
LEMMA SameRecorded ==
  ASSUME Recorded, UNCHANGED draw, Len(week'.rounds) = Len(week.rounds),
         \A r \in 1..Len(week.rounds) :
           /\ week'.rounds[r].heats = week.rounds[r].heats
           /\ \A h \in 1..Len(week.rounds[r].heats) : journal'[<<r, h>>] = journal[<<r, h>>]
  PROVE  Recorded'
<1>1. LastRound' = LastRound
  BY DEF LastRound
<1>2. ASSUME NEW r \in 1..Len(week'.rounds), NEW h \in 1..Len(week'.rounds[r].heats)
      PROVE  LET heat == week'.rounds[r].heats[h]
             IN /\ journal'[<<r, h>>] = heat /\ heat # None
                /\ r = LastRound => heat.winner = DurableHeatWinner(heat)
  <2> DEFINE heat == week.rounds[r].heats[h]
  <2>1. /\ r \in 1..Len(week.rounds) /\ h \in 1..Len(week.rounds[r].heats)
        /\ week'.rounds[r].heats[h] = heat
    BY <1>2
  <2>2. /\ journal[<<r, h>>] = heat /\ heat # None
        /\ r = LastRound => heat.winner = DurableHeatWinner(heat)
    BY <2>1 DEF Recorded
  <2> HIDE DEF heat
  <2> QED BY <2>1, <2>2
<1> QED BY <1>1, <1>2 DEF Recorded

LEMMA SameAccounted ==
  ASSUME Accounted, UNCHANGED <<file, draw, week, journal>>, pc' # "settled"
  PROVE  Accounted'
<1>1. Recorded'
  BY SameRecorded DEF Accounted
<1>2. Ended'
  <2>1. /\ Fleet' = Fleet /\ LastRound' = LastRound /\ week' = week /\ journal' = journal
        /\ \A r : Finished(r)' = Finished(r)
    BY DEF Fleet, LastRound, Finished, Promotions
  <2>2. Slots' = Slots
    BY DEF Slots, Drawable, Entrants, Size, Listed, plan
  <2> QED BY <2>1, <2>2 DEF Accounted, Ended
<1>3. SettledKept'
  BY DEF SettledKept
<1> QED BY <1>1, <1>2, <1>3 DEF Accounted

LEMMA WriteDrawAccounted ==
  ASSUME Inv, Fair, WriteDraw
  PROVE  Accounted'
<1>1. week.rounds = <<>> /\ ~week.completed /\ week' = week /\ pc' = "off"
  BY DEF WriteDraw, Inv, UndrawnOK, Fair, RunsOn
<1>2. Len(week'.rounds) = 0
  BY <1>1, EmptySeqFacts
<1> QED BY <1>1, <1>2 DEF Accounted, Recorded, SettledKept, Ended

(* What is played now is not recorded yet.                                 *)
LEMMA NotYetRecorded ==
  ASSUME Inv, NEW r \in 1..Len(week.rounds), NEW h \in 1..Len(week.rounds[r].heats)
  PROVE  <<r, h>> # Current
<1>1. ASSUME <<r, h>> = Current PROVE FALSE
  <2>1. r = round /\ h = Len(RecordedHeats) + 1
    BY <1>1 DEF Current
  <2>2. Len(week.rounds) \in Nat /\ IsSeq(week.rounds[r].heats)
    BY DEF Inv, WeekOK, RoundOK, IsSeq
  <2>3. RecordedHeats = week.rounds[r].heats
    BY <2>1, <2>2 DEF RecordedHeats
  <2>4. Len(week.rounds[r].heats) \in Nat
    BY <2>2 DEF IsSeq
  <2> QED BY <2>1, <2>3, <2>4
<1> QED BY <1>1

(* A result in the journal is one between players of the season.           *)
LEMMA ResultsAre ==
  ASSUME Inv, Fair, draw # None, NEW slot \in Slots, journal[slot] # None
  PROVE  /\ journal[slot] \in Results(Range(journal[slot].seats))
         /\ Range(journal[slot].seats) \in SUBSET Ids(plan)
<1>1. HeatFair(journal[slot], Rules) /\ Ready(slot[1])
      /\ journal[slot].seats = DrawOf(slot[1]).heats[slot[2]]
  BY DEF Fair, JournalFair, Inv, JournalOK
<1>2. slot[2] \in 1..draw.shape[slot[1]].heats
  BY SlotFacts
<1>3. Range(DrawOf(slot[1]).heats[slot[2]]) \subseteq Fleet
  BY <1>1, <1>2, PlayersFacts DEF Partition
<1>4. Fleet \subseteq Ids(plan)
  BY FleetFacts DEF Fair
<1> QED BY <1>1, <1>3, <1>4 DEF HeatFair

LEMMA NoneIsNot ==
  ASSUME Inv, NEW x, NEW ids \in SUBSET Ids(plan), x \in Results(ids)
  PROVE  x # None
<1>1. plan \in Range(Plans)
  BY DEF Inv, plan, Range
<1> QED BY <1>1, NoneIsNoResult

LEMMA EndAttemptAccounted ==
  ASSUME Inv, Fair, Accounted, pc = "match", NEW world, EndAttempt(world)
  PROVE  Accounted'
<1> DEFINE new == SettleForfeit(HeatResult(Seats, Prior, world), Rules)
<1>1. /\ UNCHANGED <<file, draw, week>> /\ pc' = "heats"
      /\ journal' = [journal EXCEPT ![Current] = new]
  BY DEF EndAttempt
<1> HIDE DEF new
<1>2. ~week.completed
  BY DEF Fair, RunsOn, Settled
<1>3. journal = [slot \in Slots |-> journal[slot]]
  BY DEF Inv, JournalOK
<1>4. \A slot : slot # Current => journal'[slot] = journal[slot]
  BY <1>1, <1>3
<1>5. Recorded'
  BY <1>1, <1>4, NotYetRecorded, SameRecorded DEF Accounted
<1> QED BY <1>1, <1>2, <1>5 DEF Accounted, SettledKept, Ended

LEMMA SettleHeatAccounted ==
  ASSUME Inv, Fair, Accounted, SettleHeat
  PROVE  Accounted'
<1> DEFINE x == journal[Current]
           new == [x EXCEPT !.winner = DurableHeatWinner(x)]
<1>1. /\ UNCHANGED <<file, draw, week, round, drawn>> /\ pc = "heats" /\ pc' = "settled"
      /\ draw # None /\ Current \in Slots /\ Current' = Current /\ x # None
      /\ \A slot \in Slots : slot # Current => journal'[slot] = journal[slot]
      /\ journal'[Current] = IF round = LastRound THEN new ELSE x
  BY SettleStep
<1>2. ~week.completed
  BY <1>1 DEF Fair, RunsOn, Settled
<1>3. x \in Results(Range(x.seats)) /\ Range(x.seats) \in SUBSET Ids(plan)
  BY <1>1, ResultsAre
<1>4. HeatFair(x, Rules)
  BY <1>1 DEF Fair, JournalFair
<1> HIDE DEF x
<1>5. new \in Results(Range(x.seats)) /\ new.winner = DurableHeatWinner(new)
  <2>1. /\ x = [seats |-> x.seats, prior |-> x.prior, standings |-> x.standings,
                winner |-> x.winner, aborted |-> x.aborted]
        /\ x.winner \in Range(x.seats) \cup {None}
    BY <1>3 DEF Results
  <2>2. new = [seats |-> x.seats, prior |-> x.prior, standings |-> x.standings,
               winner |-> DurableHeatWinner(x), aborted |-> x.aborted]
    BY <2>1
  <2>3. HeatFair(new, Rules) /\ new.seats = x.seats /\ new.standings = x.standings
        /\ new.winner = DurableHeatWinner(x)
    BY <1>4, <2>2, StruckFair
  <2> HIDE DEF new
  <2>4. new \in Results(Range(x.seats))
    BY <2>3 DEF HeatFair
  <2>5. new.winner = DurableHeatWinner(new)
    BY <2>3 DEF DurableHeatWinner
  <2> QED BY <2>4, <2>5
<1> HIDE DEF new
<1>6. new # None
  BY <1>3, <1>5, NoneIsNot
<1>7. SettledKept'
  <2>1. journal[Current]' = IF round = LastRound THEN new ELSE x
    BY <1>1
  <2>2. LastRound' = LastRound
    BY <1>1 DEF LastRound
  <2> QED BY <1>1, <1>5, <1>6, <2>1, <2>2 DEF SettledKept
<1>8. Recorded'
  <2>1. ASSUME NEW r \in 1..Len(week.rounds), NEW h \in 1..Len(week.rounds[r].heats)
        PROVE  journal'[<<r, h>>] = journal[<<r, h>>]
    <3>1. <<r, h>> # Current
      BY NotYetRecorded
    <3>2. r \in 1..LastRound /\ h \in 1..draw.shape[r].heats
      <4>1. RoundOK(r)
        BY DEF Inv, WeekOK
      <4>2. Ready(r) /\ Len(week.rounds[r].heats) \in 1..draw.shape[r].heats
        BY <4>1 DEF RoundOK
      <4>3. draw.shape[r].heats \in Nat
        BY <1>1, <4>2, DrawFacts
      <4> QED BY <4>2, <4>3 DEF Ready
    <3>3. <<r, h>> \in Slots
      BY <1>1, <3>2, SlotFacts
    <3> QED BY <1>1, <3>1, <3>3
  <2>2. UNCHANGED <<draw, week>> /\ Recorded
    BY <1>1 DEF Accounted
  <2> QED BY <2>1, <2>2, SameRecorded
<1> QED BY <1>1, <1>2, <1>7, <1>8 DEF Accounted, Ended

LEMMA RecordHeatAccounted ==
  ASSUME Inv, Fair, Accounted, RecordHeat
  PROVE  Accounted'
<1> DEFINE n == Len(week.rounds)
           m == Len(week'.rounds)
           result == journal[Current]
           top == week'.rounds[round].heats
<1>1. /\ UNCHANGED <<file, draw, journal>> /\ pc = "settled" /\ pc' # "settled"
      /\ n \in Nat /\ round \in {n, n + 1} /\ m = round /\ IsSeq(RecordedHeats)
      /\ RecordedHeats = IF round = n THEN week.rounds[round].heats ELSE <<>>
      /\ top = Append(RecordedHeats, result)
      /\ \A r \in 1..m : r # round => r \in 1..n /\ week'.rounds[r] = week.rounds[r]
      /\ Current = <<round, Len(RecordedHeats) + 1>>
      /\ week'.completed = week.completed
  BY RecordStep
<1>2. ~week.completed
  BY <1>1 DEF Fair, RunsOn, Settled
<1>3. result # None /\ (round = LastRound => result.winner = DurableHeatWinner(result))
  BY <1>1 DEF Accounted, SettledKept
<1>4. LastRound' = LastRound
  BY <1>1 DEF LastRound
<1> HIDE DEF result
<1>5. ASSUME NEW r \in 1..m, NEW h \in 1..Len(week'.rounds[r].heats)
      PROVE  LET heat == week'.rounds[r].heats[h]
             IN /\ journal[<<r, h>>] = heat /\ heat # None
                /\ r = LastRound => heat.winner = DurableHeatWinner(heat)
  <2>1. CASE r # round
    <3>1. r \in 1..n /\ week'.rounds[r] = week.rounds[r]
      BY <1>1, <2>1
    <3> QED BY <1>5, <3>1 DEF Accounted, Recorded
  <2>2. CASE r = round
    <3> DEFINE k == Len(RecordedHeats)
    <3>1. /\ k \in Nat /\ h \in 1..k + 1
          /\ top[k + 1] = result /\ \A i \in 1..k : top[i] = RecordedHeats[i]
      <4>1. /\ Len(top) = k + 1 /\ k \in Nat
            /\ top[k + 1] = result /\ \A i \in 1..k : top[i] = RecordedHeats[i]
        BY <1>1, AppendFacts, SeqFacts
      <4>2. h \in 1..Len(top)
        BY <1>5, <2>2
      <4> HIDE DEF k, top
      <4> QED BY <4>1, <4>2
    <3>2. CASE h = k + 1
      <4>1. <<r, h>> = Current /\ week'.rounds[r].heats[h] = result
        BY <1>1, <2>2, <3>1, <3>2
      <4>2. journal[<<r, h>>] = result
        BY <4>1 DEF result
      <4> QED BY <1>3, <2>2, <4>1, <4>2
    <3>3. CASE h # k + 1
      <4>1. h \in 1..k
        <5> HIDE DEF k
        <5> QED BY <3>1, <3>3
      <4>2. round = n /\ RecordedHeats = week.rounds[round].heats
        BY <1>1, <4>1, EmptySeqFacts
      <4>3. round \in 1..n
        BY <1>1, <1>5, <2>2, <4>2
      <4>4. week'.rounds[r].heats[h] = week.rounds[round].heats[h]
        BY <2>2, <3>1, <4>1, <4>2
      <4> QED BY <2>2, <4>1, <4>2, <4>3, <4>4 DEF Accounted, Recorded
    <3> QED BY <3>2, <3>3
  <2> QED BY <2>1, <2>2
<1>6. Recorded'
  BY <1>1, <1>4, <1>5 DEF Recorded
<1> QED BY <1>1, <1>2, <1>6 DEF Accounted, SettledKept, Ended

LEMMA FinishRoundAccounted ==
  ASSUME Inv, Fair, Accounted, FinishRound
  PROVE  Accounted'
<1>1. /\ UNCHANGED <<draw, journal>> /\ pc = "heats" /\ pc' = "entering"
      /\ Len(week'.rounds) = Len(week.rounds) /\ week'.completed = week.completed
      /\ \A r \in 1..Len(week.rounds) : week'.rounds[r].heats = week.rounds[r].heats
  BY FinishStep
<1>2. ~week.completed
  BY <1>1 DEF Fair, RunsOn, Settled
<1>3. Recorded'
  BY <1>1, SameRecorded DEF Accounted
<1> QED BY <1>1, <1>2, <1>3 DEF Accounted, SettledKept, Ended

(* Every round of a week that is about to end is finished.                 *)
LEMMA AllFinished ==
  ASSUME Inv, pc = "entering", round = Len(week.rounds) + 1
  PROVE  \A r \in 1..Len(week.rounds) : Finished(r)
<1>1. draw # None /\ Len(week.rounds) \in Nat
  BY DEF Inv, UndrawnOK, WeekOK, IsSeq
<1>2. ASSUME NEW r \in 1..Len(week.rounds) PROVE Finished(r)
  <2>1. CASE r = Len(week.rounds)
    <3>1. round # 1 /\ round - 1 = r
      BY <1>1, <1>2, <2>1
    <3> QED BY <3>1 DEF Inv, EnteringOK
  <2>2. CASE r # Len(week.rounds)
    BY <1>1, <2>2, FinishedBefore
  <2> QED BY <2>1, <2>2
<1> QED BY <1>2

LEMMA CloseAccounted ==
  ASSUME Inv, Fair, Accounted, NEW champion, Close(champion), pc = "entering", pc' = "off",
         UNCHANGED <<file, draw, journal>>, round = Len(week.rounds) + 1,
         \A slot \in Slots : journal[slot] # None => slot[1] <= Len(week.rounds),
         \/ champion = None /\ Len(week.rounds) < LastRound
         \/ /\ Len(week.rounds) = LastRound
            /\ champion = DurableHeatWinner(week.rounds[LastRound].heats[1])
  PROVE  Accounted'
<1>1. /\ week'.rounds = week.rounds /\ week'.champion = champion /\ week'.completed
      /\ week'.standings = StandingsOf(Fleet, week.rounds)
  BY CloseFair, StandingsAre
<1>2. /\ Fleet' = Fleet /\ LastRound' = LastRound
      /\ \A r : Finished(r)' = Finished(r)
  BY <1>1 DEF Fleet, LastRound, Finished, Promotions
<1>3. Slots' = Slots
  BY DEF Slots, Drawable, Entrants, Size, Listed, plan
<1>4. Ended'
  BY <1>1, <1>2, <1>3, AllFinished DEF Ended
<1>5. Recorded'
  BY <1>1, SameRecorded DEF Accounted
<1> QED BY <1>4, <1>5 DEF Accounted, SettledKept

LEMMA VoidCupAccounted ==
  ASSUME Inv, Fair, Accounted, VoidCup
  PROVE  Accounted'
<1> DEFINE n == Len(week.rounds)
<1>1. /\ pc = "entering" /\ round <= LastRound /\ ~Fills /\ Close(None) /\ pc' = "off"
      /\ UNCHANGED <<file, draw, journal>>
  BY DEF VoidCup, Exit
<1>2. draw # None /\ n \in Nat /\ LastRound \in Nat
  BY <1>1, ShapeFacts DEF Inv, UndrawnOK, WeekOK, IsSeq
<1>3. round \in 1..LastRound /\ round <= n + 1 /\ round # 1
      /\ Len(Advancing(round)) # FieldOf(draw.shape[round], Size)
  BY <1>1, <1>2 DEF Inv, EnteringOK, Fills
<1>4. ~Ready(round)
  BY <1>3 DEF Ready
<1>5. round = n + 1
  <2>1. ASSUME round \in 1..n PROVE FALSE
    <3>1. RoundOK(round)
      BY <2>1 DEF Inv, WeekOK
    <3> QED BY <1>4, <3>1 DEF RoundOK
  <2>2. round \notin 1..n
    BY <2>1
  <2> HIDE DEF n
  <2> QED BY <1>2, <1>3, <2>2
<1>6. ASSUME NEW slot \in Slots, journal[slot] # None PROVE slot[1] <= n
  <2>1. Ready(slot[1]) /\ slot[1] # round
    BY <1>4, <1>6 DEF Inv, JournalOK
  <2>2. slot[1] \in 1..LastRound /\ (slot[1] # 1 => slot[1] - 1 \in 1..n)
    BY <2>1 DEF Ready
  <2> HIDE DEF n
  <2>3. CASE slot[1] = 1
    BY <1>2, <1>3, <1>5, <2>3
  <2>4. CASE slot[1] # 1
    BY <1>2, <1>5, <2>1, <2>2, <2>4
  <2> QED BY <2>3, <2>4
<1>7. n < LastRound
  <2> HIDE DEF n
  <2> QED BY <1>2, <1>3, <1>5
<1> QED BY <1>1, <1>5, <1>6, <1>7, CloseAccounted

LEMMA FinishWeekAccounted ==
  ASSUME Inv, Fair, Accounted, FinishWeek
  PROVE  Accounted'
<1> DEFINE n == Len(week.rounds)
<1>1. /\ pc = "entering" /\ round = LastRound + 1 /\ pc' = "off"
      /\ Close(DurableHeatWinner(week.rounds[LastRound].heats[1]))
      /\ UNCHANGED <<file, draw, journal>>
  BY DEF FinishWeek, Exit
<1>2. draw # None /\ n \in Nat /\ LastRound \in Nat /\ LastRound >= 1
  BY <1>1, ShapeFacts DEF Inv, UndrawnOK, WeekOK, IsSeq
<1>3. n = LastRound
  <2>1. round <= n + 1
    BY <1>1 DEF Inv, EnteringOK
  <2>2. n \in 1..n => n \in 1..LastRound
    BY DEF Inv, WeekOK, RoundOK, Ready
  <2> HIDE DEF n
  <2> QED BY <1>1, <1>2, <2>1, <2>2
<1>4. \A slot \in Slots : slot[1] <= n
  <2>1. \A slot \in Slots : slot[1] \in 1..LastRound
    BY <1>2, SlotFacts
  <2> QED BY <1>2, <1>3, <2>1
<1> QED BY <1>1, <1>3, <1>4, CloseAccounted

LEMMA NextAccounted == Inv /\ Fair /\ Accounted /\ [Next]_vars => Accounted'
<1> SUFFICES ASSUME Inv, Fair, Accounted, [Next]_vars PROVE Accounted'
  OBVIOUS
<1>1. CASE WriteDraw
  BY <1>1, WriteDrawAccounted
<1>2. CASE VoidCup
  BY <1>2, VoidCupAccounted
<1>3. CASE FinishWeek
  BY <1>3, FinishWeekAccounted
<1>4. CASE RecordHeat
  BY <1>4, RecordHeatAccounted
<1>5. CASE FinishRound
  BY <1>5, FinishRoundAccounted
<1>6. CASE SettleHeat
  BY <1>6, SettleHeatAccounted
<1>7. CASE pc = "match" /\ \E world \in Worlds(Size) : EndAttempt(world)
  BY <1>7, EndAttemptAccounted
<1>8. CASE \/ RefuseDraw \/ WriteSecret \/ StartWeek \/ EnterRound \/ Underfilled
           \/ StartAttempt \/ NoPorts \/ FailAttempt \/ Crash
  <2>1. UNCHANGED <<file, draw, week, journal>> /\ pc' # "settled"
    BY <1>8 DEF RefuseDraw, WriteSecret, StartWeek, EnterRound, Underfilled, StartAttempt,
         NoPorts, FailAttempt, Crash, disk, Exit
  <2> QED BY <2>1, SameAccounted
<1>9. CASE UNCHANGED vars
  <2>1. UNCHANGED <<file, draw, week, journal, pc, round>>
    BY <1>9 DEF vars, disk, process
  <2>2. SettledKept'
    BY <2>1 DEF Accounted, SettledKept, Current, RecordedHeats, LastRound
  <2>3. Recorded'
    BY <2>1, SameRecorded DEF Accounted
  <2>4. Ended'
    <3>1. /\ Fleet' = Fleet /\ LastRound' = LastRound /\ week' = week /\ journal' = journal
          /\ \A r : Finished(r)' = Finished(r)
      BY <2>1 DEF Fleet, LastRound, Finished, Promotions
    <3>2. Slots' = Slots
      BY <2>1 DEF Slots, Drawable, Entrants, Size, Listed, plan
    <3> QED BY <3>1, <3>2 DEF Accounted, Ended
  <2> QED BY <2>2, <2>3, <2>4 DEF Accounted
<1> QED BY <1>1, <1>2, <1>3, <1>4, <1>5, <1>6, <1>7, <1>8, <1>9 DEF Next, Step

LEMMA AccountedHolds == Spec => [](Inv /\ Fair /\ Accounted)
<1>1. Init => Accounted
  BY InitAccounted
<1>2. Inv /\ Fair /\ Accounted /\ [Next]_vars => Accounted'
  BY NextAccounted
<1> QED BY <1>1, <1>2, FairHolds, PTL DEF Spec

-----------------------------------------------------------------------------
(* The standings of a completed week.                                       *)

(* The heats recorded in a week, between players of the fleet.             *)
LEMMA HeatsAre ==
  ASSUME Inv, Fair, draw # None, NEW r \in 1..Len(week.rounds),
         NEW h \in 1..Len(week.rounds[r].heats)
  PROVE  LET heat == week.rounds[r].heats[h]
         IN /\ heat \in Results(Range(heat.seats)) /\ Range(heat.seats) \in SUBSET Fleet
            /\ Distinct(heat.seats) /\ Len(heat.seats) = Size
            /\ h \in 1..draw.shape[r].heats /\ <<r, h>> \in Slots
<1> DEFINE heat == week.rounds[r].heats[h]
<1>1. RoundOK(r) /\ RoundFair(r)
  BY DEF Inv, WeekOK, Fair, RoundsFair
<1>2. Ready(r) /\ IsSeq(week.rounds[r].heats)
      /\ Len(week.rounds[r].heats) \in 1..draw.shape[r].heats
      /\ heat.seats = DrawOf(r).heats[h]
  BY <1>1 DEF RoundOK
<1>3. r \in 1..LastRound /\ draw.shape[r].heats \in Nat
  BY <1>2, DrawFacts
<1>4. h \in 1..draw.shape[r].heats
  BY <1>2, <1>3
<1>5. <<r, h>> \in Slots
  BY <1>3, <1>4, SlotFacts
<1>6. Partition(DrawOf(r), draw.shape[r].heats, Size, Range(Entering(r)))
      /\ Range(Entering(r)) \subseteq Fleet
  BY <1>2, PlayersFacts
<1>7. heat \in Results(Range(heat.seats))
  BY <1>1 DEF RoundFair, HeatFair
<1>8. Range(DrawOf(r).heats[h]) \subseteq Fleet /\ Distinct(DrawOf(r).heats[h])
      /\ Len(DrawOf(r).heats[h]) = Size
  BY <1>4, <1>6 DEF Partition
<1> QED BY <1>2, <1>4, <1>5, <1>7, <1>8

(* From the final only its winner gets any further.                        *)
LEMMA FinalFacts ==
  ASSUME Inv, Fair, Accounted, draw # None, week.completed, Len(week.rounds) = LastRound
  PROVE  \A id \in Fleet :
           AdvancesFrom(week.rounds, id, LastRound) <=> id = week.champion
<1> DEFINE x == week.rounds[LastRound]
           heat == x.heats[1]
<1>1. LastRound \in Nat /\ LastRound >= 1 /\ LastRound \in 1..Len(week.rounds)
  BY ShapeFacts
<1>2. draw.shape[LastRound].heats = 1 /\ draw.shape[LastRound].byes = 0
      /\ draw.shape[LastRound].wildcards = 0
  BY ShapeByes DEF Round
<1>3. Finished(LastRound) /\ RoundOK(LastRound) /\ week.champion = DurableHeatWinner(heat)
  BY <1>1 DEF Accounted, Ended, Inv, WeekOK
<1>4. /\ IsSeq(x.heats) /\ Len(x.heats) = 1 /\ x.byes = DrawOf(LastRound).byes
      /\ x.wildcards = Promotions(LastRound) /\ Ready(LastRound)
  BY <1>2, <1>3 DEF Finished, RoundOK
<1>5. DOMAIN x.heats = {1} /\ Range(x.heats) = {heat}
  <2>1. DOMAIN x.heats = 1..1
    BY <1>4, SeqFacts
  <2> QED BY <2>1 DEF Range
<1>6. heat.winner = week.champion /\ 1 \in 1..Len(x.heats)
  <2>1. 1 \in 1..Len(x.heats)
    BY <1>4
  <2>2. heat.winner = DurableHeatWinner(heat)
    BY <1>1, <2>1 DEF Accounted, Recorded
  <2> QED BY <1>3, <2>1, <2>2
<1>7. Range(x.byes) = {}
  <2>1. Distinct(x.byes) /\ Len(x.byes) = 0
    BY <1>2, <1>4, PlayersFacts DEF Partition
  <2> HIDE DEF x
  <2> QED BY <2>1, DistinctFacts
<1>8. Range(x.wildcards) = {}
  <2>1. heat \in Results(Range(heat.seats)) /\ Range(heat.seats) \subseteq Fleet
    BY <1>1, <1>6, HeatsAre
  <2>2. IsFiniteSet(Fleet) /\ Fleet \subseteq Nat
    BY FleetFacts DEF Fair
  <2> HIDE DEF heat
  <2> DEFINE H == {heat}
  <2>3. \A y \in H : y \in Results(Range(y.seats)) /\ Range(y.seats) \subseteq Fleet
    BY <2>1
  <2>4. Promoted(H, 0, Lottery(Fleet, LastRound)) = <<>>
    <3> HIDE DEF H
    <3>1. 0 \in Nat /\ LastRound \in Nat
      BY <1>1
    <3> QED BY <2>2, <2>3, <3>1, PromotedFacts
  <2>5. x.wildcards = <<>>
    BY <1>2, <1>4, <1>5, <2>4 DEF Promotions
  <2> QED BY <2>5, EmptyDistinct
<1>9. ASSUME NEW id \in Fleet
      PROVE  AdvancesFrom(week.rounds, id, LastRound) <=> id = heat.winner
  BY <1>5, <1>7, <1>8 DEF AdvancesFrom
<1> HIDE DEF heat
<1> QED BY <1>6, <1>9

LEMMA ReachedFacts ==
  ASSUME Inv, Fair, Accounted, draw # None, week.completed, NEW id \in Fleet
  PROVE  Max(Reaches(week.rounds, id)) = LastRound + 1 <=> id = week.champion
<1> DEFINE n == Len(week.rounds)
           S == Reaches(week.rounds, id)
<1> SUFFICES Max(S) = LastRound + 1 <=> id = week.champion
  OBVIOUS
<1>1. /\ n \in Nat /\ DOMAIN week.rounds = 1..n /\ LastRound \in Nat /\ LastRound >= 1
  BY ShapeFacts, ShownFacts
<1>2. /\ \A r \in S : r = 1 \/ r \in 1..n
                      \/ \E q \in 1..n : r = q + 1 /\ AdvancesFrom(week.rounds, id, q)
      /\ \A q \in 1..n : AdvancesFrom(week.rounds, id, q) => q + 1 \in S
      /\ 1 \in S
  BY <1>1 DEF Reaches
<1> HIDE DEF n, S
<1>3. S \in SUBSET (1..n + 1) /\ S # {} /\ n + 1 \in Nat
  BY <1>1, <1>2
<1>4. Max(S) \in S /\ \A r \in S : r <= Max(S)
  BY <1>3, MaxIs
<1>5. id # None
  BY SeasonIds, FleetFacts DEF Fair
<1>6. \/ week.champion = None /\ n < LastRound
      \/ n = LastRound
  BY DEF Accounted, Ended, n
<1>7. CASE n < LastRound /\ week.champion = None
  <2>1. LastRound + 1 \notin S
    BY <1>1, <1>3, <1>7
  <2> QED BY <1>4, <1>5, <1>7, <2>1
<1>8. CASE n = LastRound
  <2>1. AdvancesFrom(week.rounds, id, LastRound) <=> id = week.champion
    BY <1>8, FinalFacts DEF n
  <2>2. LastRound + 1 \in S <=> AdvancesFrom(week.rounds, id, LastRound)
    <3>1. AdvancesFrom(week.rounds, id, LastRound) => LastRound + 1 \in S
      BY <1>1, <1>2, <1>8
    <3>2. ASSUME LastRound + 1 \in S PROVE AdvancesFrom(week.rounds, id, LastRound)
      <4>1. PICK q \in 1..n : LastRound + 1 = q + 1 /\ AdvancesFrom(week.rounds, id, q)
        BY <1>1, <1>2, <1>8, <3>2
      <4>2. q = LastRound
        BY <1>1, <4>1
      <4> QED BY <4>1, <4>2
    <3> QED BY <3>1, <3>2
  <2>3. Max(S) = LastRound + 1 <=> LastRound + 1 \in S
    <3>1. Max(S) \in 1..LastRound + 1
      BY <1>3, <1>4, <1>8
    <3>2. ASSUME LastRound + 1 \in S PROVE Max(S) = LastRound + 1
      <4>1. LastRound + 1 <= Max(S)
        BY <1>4, <3>2
      <4> QED BY <1>1, <3>1, <4>1
    <3> QED BY <1>4, <3>2
  <2> QED BY <2>1, <2>2, <2>3
<1> QED BY <1>6, <1>7, <1>8

(* The heats of a completed week are those that have a journal.            *)
LEMMA SlotsAre ==
  ASSUME Inv, Fair, Accounted, draw # None
  PROVE  /\ IsFiniteSet(SlotsIn(week.rounds))
         /\ \A slot \in SlotsIn(week.rounds) :
              LET heat == HeatAt(week.rounds, slot)
              IN /\ slot \in Slots /\ journal[slot] = heat /\ heat # None
                 /\ heat \in Results(Range(heat.seats)) /\ Range(heat.seats) \in SUBSET Fleet
                 /\ Distinct(heat.seats) /\ Len(heat.seats) = Size
         /\ week.completed =>
              \A slot \in Slots : journal[slot] # None => slot \in SlotsIn(week.rounds)
<1> DEFINE n == Len(week.rounds)
           row(r) == {<<r, h>> : h \in DOMAIN week.rounds[r].heats}
           k(r) == Len(week.rounds[r].heats)
<1>1. n \in Nat /\ DOMAIN week.rounds = 1..n /\ \A r \in 1..n : IsSeq(week.rounds[r].heats)
  BY ShownFacts
<1>2. \A r \in 1..n : DOMAIN week.rounds[r].heats = 1..k(r) /\ k(r) \in Nat
  BY <1>1, SeqFacts
<1>3. SlotsIn(week.rounds) = UNION {row(r) : r \in 1..n}
  BY <1>1 DEF SlotsIn
<1>4. \A r \in 1..n : IsFiniteSet(row(r))
  <2>1. ASSUME NEW r \in 1..n PROVE IsFiniteSet(row(r))
    <3> DEFINE f == [h \in 1..k(r) |-> <<r, h>>]
    <3>1. row(r) = {<<r, h>> : h \in 1..k(r)}
      BY <1>2
    <3>2. f \in Surjection(1..k(r), row(r))
      BY <3>1 DEF Surjection
    <3>3. IsFiniteSet(1..k(r))
      <4>1. 1 \in Int /\ k(r) \in Int
        BY <1>2
      <4> QED BY <4>1, FS_Interval
    <3> HIDE DEF f, row
    <3> QED BY <3>2, <3>3, FS_Surjection
  <2> QED BY <2>1
<1>5. IsFiniteSet(SlotsIn(week.rounds))
  <2> DEFINE rows == {row(r) : r \in 1..n}
             f == [r \in 1..n |-> row(r)]
  <2>1. f \in Surjection(1..n, rows)
    BY DEF Surjection
  <2>2. IsFiniteSet(1..n)
    <3>1. 1 \in Int /\ n \in Int
      BY <1>1
    <3> QED BY <3>1, FS_Interval
  <2>3. IsFiniteSet(rows)
    <3> HIDE DEF rows, f
    <3> QED BY <2>1, <2>2, FS_Surjection
  <2>4. \A s \in rows : IsFiniteSet(s)
    BY <1>4
  <2> HIDE DEF rows
  <2>5. IsFiniteSet(UNION rows)
    BY <2>3, <2>4, FS_UNION
  <2> QED BY <1>3, <2>5 DEF rows
<1>6. ASSUME NEW slot \in SlotsIn(week.rounds)
      PROVE  LET heat == HeatAt(week.rounds, slot)
             IN /\ slot \in Slots /\ journal[slot] = heat /\ heat # None
                /\ heat \in Results(Range(heat.seats)) /\ Range(heat.seats) \in SUBSET Fleet
                /\ Distinct(heat.seats) /\ Len(heat.seats) = Size
  <2>1. PICK r \in 1..n : slot \in row(r)
    BY <1>3
  <2>2. PICK h \in 1..k(r) : slot = <<r, h>>
    BY <1>2, <2>1
  <2>3. HeatAt(week.rounds, slot) = week.rounds[r].heats[h]
    BY <2>2 DEF HeatAt
  <2>4. journal[<<r, h>>] = week.rounds[r].heats[h] /\ week.rounds[r].heats[h] # None
    BY <2>2 DEF Accounted, Recorded
  <2> QED BY <2>2, <2>3, <2>4, HeatsAre
<1>7. ASSUME week.completed, NEW slot \in Slots, journal[slot] # None
      PROVE  slot \in SlotsIn(week.rounds)
  <2>1. slot[1] \in 1..LastRound /\ slot[2] \in 1..draw.shape[slot[1]].heats
        /\ slot = <<slot[1], slot[2]>> /\ LastRound \in Nat
    BY SlotFacts, ShapeFacts
  <2>2. slot[1] <= n
    BY <1>7 DEF Accounted, Ended
  <2>3. slot[1] \in 1..n
    BY <1>1, <2>1, <2>2
  <2>4. k(slot[1]) = draw.shape[slot[1]].heats
    BY <1>7, <2>3 DEF Accounted, Ended, Finished
  <2>5. slot \in row(slot[1])
    BY <1>2, <2>1, <2>3, <2>4
  <2> QED BY <1>3, <2>3, <2>5
<1> QED BY <1>5, <1>6, <1>7

LEMMA CostsAgree ==
  ASSUME Inv, Fair, Accounted, draw # None, week.completed
  PROVE  MapThenSumSet(LAMBDA id : week.standings[id].cost, Fleet)
           = Size * MapThenSumSet(LAMBDA slot : Attempts(journal[slot]),
                                  {slot \in HeatSlots : journal[slot] # None})
<1> DEFINE D == SlotsIn(week.rounds)
           group == [slot \in D |-> Range(HeatAt(week.rounds, slot).seats)]
           price == [slot \in D |-> Attempts(HeatAt(week.rounds, slot))]
           In(id) == {y \in D : id \in group[y]}
           owed == [id \in Fleet |-> Total(price, In(id))]
           costs == [id \in Fleet |-> week.standings[id].cost]
           files == [slot \in D |-> Attempts(journal[slot])]
<1>1. IsFiniteSet(Fleet) /\ Size \in Nat
  BY FleetFacts, ShapeFacts DEF Fair
<1>2. /\ IsFiniteSet(D)
      /\ \A slot \in D :
           LET heat == HeatAt(week.rounds, slot)
           IN /\ slot \in Slots /\ journal[slot] = heat /\ heat # None
              /\ heat \in Results(Range(heat.seats)) /\ Range(heat.seats) \in SUBSET Fleet
              /\ Distinct(heat.seats) /\ Len(heat.seats) = Size
      /\ \A slot \in Slots : journal[slot] # None => slot \in D
  BY SlotsAre
<1>3. \A y \in D : /\ group[y] \in SUBSET Fleet /\ Cardinality(group[y]) = Size
                  /\ price[y] \in Nat /\ files[y] = price[y]
  <2>1. ASSUME NEW y \in D
        PROVE  /\ group[y] \in SUBSET Fleet /\ Cardinality(group[y]) = Size
               /\ price[y] \in Nat /\ files[y] = price[y]
    <3> DEFINE heat == HeatAt(week.rounds, y)
    <3>1. /\ journal[y] = heat /\ heat \in Results(Range(heat.seats))
          /\ Range(heat.seats) \in SUBSET Fleet
          /\ Distinct(heat.seats) /\ Len(heat.seats) = Size
      BY <1>2, <2>1
    <3>2. group[y] = Range(heat.seats) /\ price[y] = Attempts(heat)
          /\ files[y] = Attempts(journal[y])
      BY <2>1
    <3> HIDE DEF heat, group, price, files
    <3>3. Cardinality(Range(heat.seats)) = Size
      BY <3>1, DistinctSize
    <3>4. Attempts(heat) \in Nat
      BY <3>1 DEF Results, Attempts
    <3> QED BY <3>1, <3>2, <3>3, <3>4
  <2> QED BY <2>1
<1>4. \A id \in Fleet : costs[id] = owed[id]
  <2>1. ASSUME NEW id \in Fleet PROVE costs[id] = owed[id]
    <3> DEFINE played == PlayedBy(week.rounds, id)
               own == [slot \in played |-> Attempts(HeatAt(week.rounds, slot))]
    <3>1. week.standings = StandingsOf(Fleet, week.rounds)
      BY DEF Accounted, Ended
    <3>2. costs[id] = Paid(week.rounds, played)
      BY <2>1, <3>1 DEF StandingsOf
    <3>3. played = In(id) /\ played \in SUBSET D
      BY DEF PlayedBy
    <3>4. \A slot \in played : own[slot] = price[slot]
      BY <3>3
    <3>5. IsFiniteSet(played)
      BY <1>2, <3>3, FS_Subset
    <3>6. Paid(week.rounds, played) = Total(own, played)
      <4> HIDE DEF played
      <4> QED BY <3>5, PaidFold
    <3>7. Total(own, played) = Total(price, played)
      <4> HIDE DEF played, own, price
      <4> QED BY <3>4, <3>5, TotalSame
    <3>8. owed[id] = Total(price, In(id))
      BY <2>1
    <3> QED BY <3>2, <3>3, <3>6, <3>7, <3>8
  <2> QED BY <2>1
<1>5. MapThenSumSet(LAMBDA id : week.standings[id].cost, Fleet) = Total(costs, Fleet)
  BY <1>1, CostsFold
<1>6. {slot \in HeatSlots : journal[slot] # None} = D
  <2>1. HeatSlots = Slots
    BY DEF Inv, JournalOK, HeatSlots
  <2>2. \A slot \in D : slot \in Slots /\ journal[slot] # None
    BY <1>2
  <2> HIDE DEF D
  <2> QED BY <1>2, <2>1, <2>2
<1>7. MapThenSumSet(LAMBDA slot : Attempts(journal[slot]), D) = Total(files, D)
  BY <1>2, AttemptsFold
<1>8. Total(owed, Fleet) = Size * Total(price, D)
  <2>1. owed = [id \in Fleet |-> Total(price, {y \in D : id \in group[y]})]
    OBVIOUS
  <2>2. \A y \in D : /\ group[y] \in SUBSET Fleet /\ Cardinality(group[y]) = Size
                    /\ price[y] \in Nat
    BY <1>3
  <2>3. IsFiniteSet(D)
    BY <1>2
  <2> HIDE DEF D, group, price, owed
  <2>4. Total([id \in Fleet |-> Total(price, {y \in D : id \in group[y]})], Fleet)
          = Size * Total(price, D)
    BY <1>1, <2>2, <2>3, TotalTwice
  <2> QED BY <2>1, <2>4
<1>9. Total(costs, Fleet) = Total(owed, Fleet)
  <2> HIDE DEF costs, owed
  <2> QED BY <1>1, <1>4, TotalSame
<1>10. Total(files, D) = Total(price, D)
  <2> HIDE DEF D, files, price
  <2> QED BY <1>2, <1>3, TotalSame
<1> QED BY <1>5, <1>6, <1>7, <1>8, <1>9, <1>10

(* In the standings of a completed week the champion alone is past the     *)
(* final round, and every attempt that has a journal is paid for once by   *)
(* each of its seats (week_standings, final_champion and the journals'     *)
(* replays).                                                               *)
THEOREM StandingsAgreeHolds == Spec => []StandingsAgree
<1>1. Inv /\ Fair /\ Accounted => StandingsAgree
  <2> SUFFICES ASSUME Inv, Fair, Accounted, week.completed
               PROVE  /\ \A id \in Fleet : week.standings[id].reached = LastRound + 1
                                            <=> id = week.champion
                      /\ MapThenSumSet(LAMBDA id : week.standings[id].cost, Fleet)
                           = Size * MapThenSumSet(LAMBDA slot : Attempts(journal[slot]),
                                                  {slot \in HeatSlots : journal[slot] # None})
    BY DEF StandingsAgree
  <2>1. draw # None
    BY DEF Fair, RunsOn
  <2>2. ASSUME NEW id \in Fleet
        PROVE  week.standings[id].reached = LastRound + 1 <=> id = week.champion
    <3>1. week.standings = StandingsOf(Fleet, week.rounds)
      BY DEF Accounted, Ended
    <3>2. week.standings[id].reached = Max(Reaches(week.rounds, id))
      BY <3>1 DEF StandingsOf
    <3> QED BY <2>1, <3>2, ReachedFacts
  <2> QED BY <2>1, <2>2, CostsAgree
<1> QED BY <1>1, AccountedHolds, PTL
=============================================================================
