-------------------------- MODULE UsageLedgerProofs --------------------------
(***************************************************************************)
(* Usage is charged once, for counters of any size and any number of       *)
(* reports.  The account alone is not inductive: the next charge is worked *)
(* out from usage_seen, so the argument is that usage_seen holds the       *)
(* largest report of each counter and the account its value.               *)
(***************************************************************************)
EXTENDS UsageLedger, TLAPS

(* What was reported of each counter. *)
Units(rs) == {r.units : r \in rs}
Tokens(rs) == {r.tokens : r \in {x \in rs : x.tokens # None}}
Costs(rs) == {r.cost : r \in {x \in rs : x.cost # None}}

Types ==
  /\ seen \in Report
  /\ reports \subseteq Report
  /\ account \in [units : Nat, tokens : Nat, cost : Nat, costComplete : BOOLEAN \cup {None}]

(* usage_seen is the largest report, and the account its value. *)
SeenIsLargest ==
  /\ IsLargest(seen.units, Units(reports))
  /\ IsLargest(Known(seen.tokens), Tokens(reports))
  /\ IsLargest(Known(seen.cost), Costs(reports))

AccountIsSeen ==
  /\ account.units = seen.units
  /\ account.tokens = Known(seen.tokens)
  /\ account.cost = Known(seen.cost)

(* A counter once reported is remembered as a value. *)
NoneMeansNone ==
  /\ seen.tokens = None => Tokens(reports) = {}
  /\ seen.cost = None => Costs(reports) = {}

Inv == Types /\ SeenIsLargest /\ AccountIsSeen /\ NoneMeansNone

-----------------------------------------------------------------------------
(* option_max and option_delta on one optional counter: the increment is a *)
(* number that brings the old value up to the new one.                     *)
LEMMA OptionStep ==
  ASSUME NEW p \in Counter \cup {None}, NEW c \in Counter \cup {None}
  PROVE  LET n == OptionMax(p, c) IN
         /\ n \in Counter \cup {None}
         /\ Known(p) \in Nat /\ Known(n) \in Nat
         /\ Known(OptionDelta(n, p)) \in Nat
         /\ Known(p) + Known(OptionDelta(n, p)) = Known(n)
         /\ Known(p) <= Known(n)
         /\ (n = None) <=> (p = None /\ c = None)
         /\ c # None => (c <= Known(n) /\ Known(n) \in {Known(p), c})
<1>. DEFINE n == OptionMax(p, c)
<1>1. /\ \A k \in Counter : k \in Nat /\ k # None
      /\ 0 \in Nat
  BY UsageConstants DEF Counter
<1>2. CASE p = None /\ c = None
  BY <1>1, <1>2 DEF OptionMax, OptionDelta, Known
<1>3. CASE p = None /\ c # None
  <2>1. c \in Counter /\ c \in Nat /\ n = c /\ OptionDelta(n, p) = c - 0
    BY <1>1, <1>3 DEF OptionMax, OptionDelta
  <2>2. Known(p) = 0 /\ Known(n) = c /\ Known(OptionDelta(n, p)) = c
    BY <1>1, <1>3, <2>1 DEF Known
  <2>. QED  BY <1>1, <1>3, <2>1, <2>2
<1>4. CASE p # None /\ c = None
  <2>1. p \in Counter /\ p \in Nat /\ n = p /\ OptionDelta(n, p) = 0
    BY <1>1, <1>4 DEF OptionMax, OptionDelta
  <2>2. Known(p) = p /\ Known(n) = p /\ Known(OptionDelta(n, p)) = 0
    BY <1>1, <1>4, <2>1 DEF Known
  <2>. QED  BY <1>1, <1>4, <2>1, <2>2
<1>5. CASE p # None /\ c # None
  <2>1. /\ p \in Counter /\ p \in Nat /\ c \in Counter /\ c \in Nat
        /\ n = (IF c < p THEN p ELSE c) /\ n \in Counter
    BY <1>1, <1>5 DEF OptionMax
  <2>2. n \in Nat /\ p <= n /\ c <= n /\ n \in {p, c}
    BY <1>1, <2>1
  <2>3. OptionDelta(n, p) = n - p /\ n - p \in Nat
    BY <1>1, <1>5, <2>1, <2>2 DEF OptionDelta
  <2>4. Known(p) = p /\ Known(n) = n /\ Known(OptionDelta(n, p)) = n - p
    BY <1>1, <1>5, <2>1, <2>2, <2>3, UsageConstants DEF Known
  <2>. QED  BY <1>1, <1>5, <2>1, <2>2, <2>3, <2>4
<1>. QED  BY <1>2, <1>3, <1>4, <1>5

(* Adding one value to a set keeps a largest value largest. *)
LEMMA LargestStep ==
  ASSUME NEW S \in SUBSET Nat, NEW c \in Nat, NEW p \in Nat, NEW n \in Nat,
         IsLargest(p, S), p <= n, c <= n, n \in {p, c}
  PROVE  IsLargest(n, S \cup {c})
  BY DEF IsLargest

(* How a report adds to the sets of reported values. *)
LEMMA ReportedSets ==
  ASSUME NEW rs \in SUBSET Report, NEW r \in Report
  PROVE  /\ Units(rs) \in SUBSET Nat /\ Tokens(rs) \in SUBSET Nat /\ Costs(rs) \in SUBSET Nat
         /\ Units(rs \cup {r}) = Units(rs) \cup {r.units}
         /\ Tokens(rs \cup {r}) =
              IF r.tokens = None THEN Tokens(rs) ELSE Tokens(rs) \cup {r.tokens}
         /\ Costs(rs \cup {r}) =
              IF r.cost = None THEN Costs(rs) ELSE Costs(rs) \cup {r.cost}
<1>1. Units(rs) \in SUBSET Nat /\ Tokens(rs) \in SUBSET Nat /\ Costs(rs) \in SUBSET Nat
  BY UsageConstants DEF Units, Tokens, Costs, Report, Counter
<1>2. Units(rs \cup {r}) = Units(rs) \cup {r.units}
  BY DEF Units
<1>3. Tokens(rs \cup {r}) =
        IF r.tokens = None THEN Tokens(rs) ELSE Tokens(rs) \cup {r.tokens}
  BY DEF Tokens
<1>4. Costs(rs \cup {r}) =
        IF r.cost = None THEN Costs(rs) ELSE Costs(rs) \cup {r.cost}
  BY DEF Costs
<1>. QED  BY <1>1, <1>2, <1>3, <1>4

-----------------------------------------------------------------------------
LEMMA InvInit == Init => Inv
  BY UsageConstants DEF Init, Inv, Types, SeenIsLargest, AccountIsSeen, NoneMeansNone,
     Units, Tokens, Costs, IsLargest, NoUsage, Known, Report, Counter

(* Whatever is charged, usage_seen goes on holding the largest report. *)
LEMMA SeenStep ==
  ASSUME Inv, NEW r \in Report, Reported(r)
  PROVE  seen' \in Report /\ reports' \subseteq Report /\ SeenIsLargest' /\ NoneMeansNone'
<1>. DEFINE tokens == OptionMax(seen.tokens, r.tokens)
            cost == OptionMax(seen.cost, r.cost)
            units == IF r.units > seen.units THEN r.units ELSE seen.units
<1>1. /\ seen' = [units |-> units, tokens |-> tokens, cost |-> cost]
      /\ reports' = reports \cup {r}
  BY DEF Reported, Seen
<1>2. /\ seen.units \in Counter /\ r.units \in Counter
      /\ seen.tokens \in Counter \cup {None} /\ r.tokens \in Counter \cup {None}
      /\ seen.cost \in Counter \cup {None} /\ r.cost \in Counter \cup {None}
  BY DEF Inv, Types, Report
<1>3. reports \in SUBSET Report
  BY DEF Inv, Types
<1>4. /\ units \in Counter /\ units \in {seen.units, r.units}
      /\ seen.units <= units /\ r.units <= units
  BY <1>2, UsageConstants DEF Counter
<1>5. seen' \in Report /\ reports' \subseteq Report
  BY <1>1, <1>2, <1>3, <1>4, OptionStep DEF Report
<1>6. IsLargest(units, Units(reports'))
  <2>1. IsLargest(seen.units, Units(reports))
    BY DEF Inv, SeenIsLargest
  <2>2. Units(reports') = Units(reports) \cup {r.units} /\ Units(reports) \in SUBSET Nat
    BY <1>1, <1>3, ReportedSets
  <2>3. seen.units \in Nat /\ r.units \in Nat /\ units \in Nat
    BY <1>2, <1>4, UsageConstants DEF Counter
  <2>. HIDE DEF units
  <2>. QED  BY <2>1, <2>2, <2>3, <1>4, LargestStep
<1>7. /\ IsLargest(Known(tokens), Tokens(reports'))
      /\ tokens = None => Tokens(reports') = {}
  <2>1. /\ IsLargest(Known(seen.tokens), Tokens(reports))
        /\ seen.tokens = None => Tokens(reports) = {}
    BY DEF Inv, SeenIsLargest, NoneMeansNone
  <2>2. CASE r.tokens = None
    <3>1. tokens = seen.tokens
      BY <2>2 DEF OptionMax
    <3>. QED  BY <3>1, <2>1, <2>2, <1>1, <1>3, ReportedSets
  <2>3. CASE r.tokens # None
    <3>1. Tokens(reports') = Tokens(reports) \cup {r.tokens} /\ Tokens(reports) \in SUBSET Nat
      BY <2>3, <1>1, <1>3, ReportedSets
    <3>2. /\ Known(seen.tokens) \in Nat /\ Known(tokens) \in Nat /\ tokens # None
          /\ Known(seen.tokens) <= Known(tokens) /\ r.tokens <= Known(tokens)
          /\ Known(tokens) \in {Known(seen.tokens), r.tokens}
      BY <2>3, <1>2, OptionStep
    <3>3. r.tokens \in Nat
      BY <2>3, <1>2, UsageConstants DEF Counter
    <3>. QED  BY <3>1, <3>2, <3>3, <2>1, LargestStep
  <2>. QED  BY <2>2, <2>3
<1>8. /\ IsLargest(Known(cost), Costs(reports'))
      /\ cost = None => Costs(reports') = {}
  <2>1. /\ IsLargest(Known(seen.cost), Costs(reports))
        /\ seen.cost = None => Costs(reports) = {}
    BY DEF Inv, SeenIsLargest, NoneMeansNone
  <2>2. CASE r.cost = None
    <3>1. cost = seen.cost
      BY <2>2 DEF OptionMax
    <3>. QED  BY <3>1, <2>1, <2>2, <1>1, <1>3, ReportedSets
  <2>3. CASE r.cost # None
    <3>1. Costs(reports') = Costs(reports) \cup {r.cost} /\ Costs(reports) \in SUBSET Nat
      BY <2>3, <1>1, <1>3, ReportedSets
    <3>2. /\ Known(seen.cost) \in Nat /\ Known(cost) \in Nat /\ cost # None
          /\ Known(seen.cost) <= Known(cost) /\ r.cost <= Known(cost)
          /\ Known(cost) \in {Known(seen.cost), r.cost}
      BY <2>3, <1>2, OptionStep
    <3>3. r.cost \in Nat
      BY <2>3, <1>2, UsageConstants DEF Counter
    <3>. QED  BY <3>1, <3>2, <3>3, <2>1, LargestStep
  <2>. QED  BY <2>2, <2>3
<1>9. seen'.units = units /\ seen'.tokens = tokens /\ seen'.cost = cost
  BY <1>1
<1>10. SeenIsLargest'
  BY <1>6, <1>7, <1>8, <1>9 DEF SeenIsLargest
<1>11. NoneMeansNone'
  BY <1>7, <1>8, <1>9 DEF NoneMeansNone
<1>. QED  BY <1>5, <1>10, <1>11

(* Adding to the three counters of an account keeps its type. *)
LEMMA AccountStep ==
  ASSUME NEW Complete, NEW c \in Complete, NEW u \in Nat, NEW k \in Nat, NEW m \in Nat,
         NEW old \in [units : Nat, tokens : Nat, cost : Nat, costComplete : Complete],
         NEW new,
         new = [old EXCEPT !.units = @ + u, !.tokens = @ + k, !.cost = @ + m,
                           !.costComplete = c]
  PROVE  /\ new \in [units : Nat, tokens : Nat, cost : Nat, costComplete : Complete]
         /\ new.units = old.units + u /\ new.tokens = old.tokens + k
         /\ new.cost = old.cost + m
<1>1. old.units \in Nat /\ old.tokens \in Nat /\ old.cost \in Nat
  OBVIOUS
<1>2. new = [units |-> old.units + u, tokens |-> old.tokens + k,
             cost |-> old.cost + m, costComplete |-> c]
  OBVIOUS
<1>. QED  BY <1>1, <1>2

(* A charge brings the account up to usage_seen; one of nothing leaves it. *)
LEMMA ChargeStep ==
  ASSUME Inv, NEW r \in Report, Reported(r),
         \/ account' = Charged(account, Delta(seen, r))
         \/ account' = account /\ IsEmpty(Delta(seen, r))
  PROVE  /\ AccountIsSeen'
         /\ account' \in [units : Nat, tokens : Nat, cost : Nat,
                          costComplete : BOOLEAN \cup {None}]
<1>. DEFINE d == Delta(seen, r)
            now == Seen(seen, r)
<1>1. /\ seen.units \in Nat /\ r.units \in Nat
      /\ seen.tokens \in Counter \cup {None} /\ r.tokens \in Counter \cup {None}
      /\ seen.cost \in Counter \cup {None} /\ r.cost \in Counter \cup {None}
  BY UsageConstants DEF Inv, Types, Report, Counter
<1>2. seen' = now
  BY DEF Reported
<1>3. now.units \in Nat /\ d.units \in Nat /\ seen.units + d.units = now.units
  BY <1>1 DEF Seen, Delta
<1>4. /\ Known(d.tokens) \in Nat
      /\ Known(seen.tokens) + Known(d.tokens) = Known(now.tokens)
  BY <1>1, OptionStep DEF Seen, Delta
<1>5. /\ Known(d.cost) \in Nat
      /\ Known(seen.cost) + Known(d.cost) = Known(now.cost)
  BY <1>1, OptionStep DEF Seen, Delta
<1>6. /\ account \in [units : Nat, tokens : Nat, cost : Nat,
                      costComplete : BOOLEAN \cup {None}]
      /\ account.units = seen.units
      /\ account.tokens = Known(seen.tokens) /\ account.cost = Known(seen.cost)
  BY DEF Inv, Types, AccountIsSeen
<1>7. CASE account' = Charged(account, d)
  <2>. HIDE DEF d, now
  <2>1. PICK complete \in BOOLEAN \cup {None} :
          account' = [account EXCEPT !.units = @ + d.units,
                                     !.tokens = @ + Known(d.tokens),
                                     !.cost = @ + Known(d.cost),
                                     !.costComplete = complete]
    <3>. DEFINE complete == IF d.cost # None \/ Known(d.tokens) > 0
                            THEN d.cost # None ELSE account.costComplete
    <3>1. complete \in BOOLEAN \cup {None}
      BY <1>6
    <3>2. account' = [account EXCEPT !.units = @ + d.units,
                                     !.tokens = @ + Known(d.tokens),
                                     !.cost = @ + Known(d.cost),
                                     !.costComplete = complete]
      BY <1>7 DEF Charged
    <3>. QED  BY <3>1, <3>2
  <2>2. /\ account'.units = account.units + d.units
        /\ account'.tokens = account.tokens + Known(d.tokens)
        /\ account'.cost = account.cost + Known(d.cost)
        /\ account' \in [units : Nat, tokens : Nat, cost : Nat,
                         costComplete : BOOLEAN \cup {None}]
    BY <1>3, <1>4, <1>5, <1>6, <2>1, AccountStep
  <2>. QED  BY <2>2, <1>2, <1>3, <1>4, <1>5, <1>6 DEF AccountIsSeen
<1>8. CASE account' = account /\ IsEmpty(d)
  <2>1. d.units = 0 /\ Known(d.tokens) = 0 /\ Known(d.cost) = 0
    BY <1>8 DEF IsEmpty, Known
  <2>2. Known(seen.tokens) \in Nat /\ Known(seen.cost) \in Nat
    BY <1>6
  <2>. QED  BY <2>1, <2>2, <1>1, <1>2, <1>3, <1>4, <1>5, <1>6, <1>8 DEF AccountIsSeen
<1>. QED  BY <1>7, <1>8

LEMMA InvNext == Inv /\ [Next]_vars => Inv'
<1>. SUFFICES ASSUME Inv, [Next]_vars PROVE Inv'
  OBVIOUS
<1>1. ASSUME NEW r \in Report, Checkpoint(r) PROVE Inv'
  BY <1>1, SeenStep, ChargeStep DEF Checkpoint, Inv, Types
<1>2. ASSUME NEW r \in Report, Result(r) PROVE Inv'
  BY <1>2, SeenStep, ChargeStep DEF Result, Inv, Types
<1>3. CASE UNCHANGED vars
  BY <1>3 DEF vars, Inv, Types, SeenIsLargest, AccountIsSeen, NoneMeansNone
<1>. QED  BY <1>1, <1>2, <1>3 DEF Next

(* The charges add up to the largest value ever reported of each counter:  *)
(* record_build_agent_results and record_build_usage_checkpoints charge no *)
(* usage twice and lose none, however reports overlap, lag or repeat.      *)
THEOREM UsageChargedExactly == Spec => []ChargesAreLargest
<1>1. Inv => ChargesAreLargest
  BY DEF Inv, SeenIsLargest, AccountIsSeen, ChargesAreLargest, Units, Tokens, Costs
<1>. QED  BY <1>1, InvInit, InvNext, PTL DEF Spec
=============================================================================
