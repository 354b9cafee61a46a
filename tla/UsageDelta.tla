----------------------------- MODULE UsageDelta -----------------------------
(***************************************************************************)
(* usage_delta (crates/controller/src/runner.rs): agents report cumulative *)
(* usage, the log charges increments.  units is resource_units; tokens and *)
(* cost stand for the optional counters, None when not reported.           *)
(***************************************************************************)
EXTENDS Integers

CONSTANT None

NoUsage == [units |-> 0, tokens |-> None, cost |-> None]

OptionMax(previous, current) ==
  IF previous = None THEN current
  ELSE IF current = None \/ current < previous THEN previous ELSE current

(* Mutant: the whole report is charged. *)
WholeOption(current, previous) == current

OptionDelta(current, previous) ==
  IF current = None THEN None ELSE current - (IF previous = None THEN 0 ELSE previous)

(* What usage_seen remembers after a report, and what the report charges.  *)
Seen(previous, report) ==
  [ units  |-> IF report.units > previous.units THEN report.units ELSE previous.units,
    tokens |-> OptionMax(previous.tokens, report.tokens),
    cost   |-> OptionMax(previous.cost, report.cost) ]

(* Mutant: resource units are charged in full each time. *)
WholeUnits(previous, report) ==
  LET now == Seen(previous, report) IN
  [ units  |-> report.units,
    tokens |-> OptionDelta(now.tokens, previous.tokens),
    cost   |-> OptionDelta(now.cost, previous.cost) ]

Delta(previous, report) ==
  LET now == Seen(previous, report) IN
  [ units  |-> now.units - previous.units,
    tokens |-> OptionDelta(now.tokens, previous.tokens),
    cost   |-> OptionDelta(now.cost, previous.cost) ]

(* usage_empty: such a checkpoint is not recorded. *)
IsEmpty(charge) ==
  /\ charge.units = 0
  /\ charge.tokens \in {None, 0}
  /\ charge.cost \in {None, 0}

(* apply_usage (crates/replay/src/reducer.rs): a missing counter adds      *)
(* nothing; cost_complete is left alone by a charge with neither tokens    *)
(* nor cost.                                                               *)
Known(value) == IF value = None THEN 0 ELSE value

Charged(view, charge) ==
  [view EXCEPT !.units = @ + charge.units,
               !.tokens = @ + Known(charge.tokens),
               !.cost = @ + Known(charge.cost),
               !.costComplete = IF charge.cost # None \/ Known(charge.tokens) > 0
                                THEN charge.cost # None ELSE @]
=============================================================================
