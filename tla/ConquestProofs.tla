--------------------------- MODULE ConquestProofs ---------------------------
(***************************************************************************)
(* What holds of a match without a build contract for every set of         *)
(* territories, any thresholds, windows, budgets and duration, and rounds  *)
(* whose probes take as long as they like.                                 *)
(*                                                                         *)
(*  1. One record and one moment: every method changes records only as     *)
(*     Changes allows.                                                     *)
(*  2. The calls of the referee, out of those changes; a tick goes through *)
(*     the territories in order, so that its lemma is an induction.        *)
(*  3. The ranking: SortsBefore is a strict total order, so every set of   *)
(*     territories has a leader.                                           *)
(*  4. Inv, inductive over the runner's steps. A record and its history    *)
(*     agree (Tracked), whoever has been probed in this round and is still *)
(*     down has time left (WindowOK): hence no tick eliminates, and who is *)
(*     powered stays in step with who is in the match (PoweredOK).         *)
(***************************************************************************)
EXTENDS ConquestMatch, FiniteSetTheorems, WellFoundedInduction, TLAPS

States == {"provisioning", "healthy", "degraded", "recovering", "eliminated"}

Records ==
  [ state : States, failures : Nat, recoveries : Nat, deadline : Nat \cup {None},
    accounted : Nat, degraded : Nat, uptime : Nat, resources : Nat ]

(* The downtime of a record as it stands at a moment.                      *)
Accrued(record, time) ==
  record.degraded + IF Down(record) THEN time - record.accounted ELSE 0

(* What one call at a moment may make of a record: it accounts for its     *)
(* downtime, and the window that a failure opens is neither moved nor      *)
(* ended before its time.                                                  *)
Changes(b, a, time) ==
  /\ a \in Records
  /\ a.accounted <= time
  /\ Accrued(a, time) = Accrued(b, time)
  /\ a.state = "provisioning" => b.state = "provisioning" /\ a.deadline = None
  /\ a.state = "healthy" => b.state # "eliminated" /\ a.deadline = None
  /\ Down(a) => /\ b.state # "eliminated" /\ b.state # "provisioning"
                /\ a.deadline = IF Down(b) THEN b.deadline ELSE time + Window
  /\ a.state = "eliminated" =>
       /\ a.deadline = None
       /\ b.state = "eliminated" \/ (Down(b) /\ time >= b.deadline)

Timely(b, time) ==
  /\ b \in Records /\ b.accounted <= time
  /\ ~Down(b) => b.deadline = None
  /\ Down(b) => b.deadline \in Nat

-----------------------------------------------------------------------------
LEMMA AccountIs ==
  ASSUME NEW b \in Records, NEW time \in Nat
  PROVE  Account(b, time) = [b EXCEPT !.degraded = Accrued(b, time), !.accounted = time]
<1>1. CASE Down(b)
  BY <1>1 DEF Account, Accrued, Records
<1>2. CASE ~Down(b)
  <2>1. Accrued(b, time) = b.degraded
    BY <1>2 DEF Accrued, Records
  <2> QED BY <1>2, <2>1 DEF Account, Records
<1> QED BY <1>1, <1>2

LEMMA AccountFacts ==
  ASSUME NEW b, NEW time \in Nat, Timely(b, time)
  PROVE  LET a == Account(b, time) IN
         /\ a = [ state |-> b.state, failures |-> b.failures, recoveries |-> b.recoveries,
                  deadline |-> b.deadline, accounted |-> time,
                  degraded |-> Accrued(b, time), uptime |-> b.uptime,
                  resources |-> b.resources ]
         /\ Accrued(b, time) \in Nat
<1>1. Accrued(b, time) \in Nat
  BY DEF Accrued, Timely, Records
<1>2. b = [ state |-> b.state, failures |-> b.failures, recoveries |-> b.recoveries,
            deadline |-> b.deadline, accounted |-> b.accounted,
            degraded |-> b.degraded, uptime |-> b.uptime, resources |-> b.resources ]
  BY DEF Timely, Records
<1>3. Account(b, time) = [ state |-> b.state, failures |-> b.failures,
                           recoveries |-> b.recoveries, deadline |-> b.deadline,
                           accounted |-> time, degraded |-> Accrued(b, time),
                           uptime |-> b.uptime, resources |-> b.resources ]
  <2> DEFINE v == Accrued(b, time)
  <2>1. Account(b, time) = [b EXCEPT !.degraded = v, !.accounted = time]
    BY AccountIs DEF Timely
  <2> HIDE DEF v
  <2>2. Account(b, time) = [ state |-> b.state, failures |-> b.failures,
                             recoveries |-> b.recoveries, deadline |-> b.deadline,
                             accounted |-> time, degraded |-> v,
                             uptime |-> b.uptime, resources |-> b.resources ]
    BY <1>2, <2>1
  <2> QED BY <2>2 DEF v
<1> QED BY <1>1, <1>3

(* What is made of an accounted record without touching its downtime.      *)
LEMMA AfterAccount ==
  ASSUME NEW b, NEW a, NEW time \in Nat, Timely(b, time), a \in Records,
         a.degraded = Accrued(b, time), a.accounted = time
  PROVE  Accrued(a, time) = Accrued(b, time)
BY DEF Accrued, Records

LEMMA AccountChanges ==
  ASSUME NEW b, NEW time \in Nat, Timely(b, time)
  PROVE  LET a == Account(b, time) IN
         /\ Changes(b, a, time) /\ a.state = b.state /\ a.deadline = b.deadline
         /\ Timely(a, time) /\ a.accounted = time /\ a.degraded = Accrued(b, time)
         /\ a.uptime = b.uptime /\ a.resources = b.resources
<1> DEFINE a == Account(b, time)
<1>1. /\ a = [ state |-> b.state, failures |-> b.failures, recoveries |-> b.recoveries,
                  deadline |-> b.deadline, accounted |-> time,
                  degraded |-> Accrued(b, time), uptime |-> b.uptime,
                  resources |-> b.resources ]
      /\ Accrued(b, time) \in Nat
  BY AccountFacts
<1> HIDE DEF a
<1>2. a \in Records
  BY <1>1 DEF Timely, Records
<1>3. Accrued(a, time) = Accrued(b, time)
  BY <1>1, <1>2, AfterAccount
<1>4. Timely(a, time)
  BY <1>1, <1>2 DEF Timely, Down
<1>5. Changes(b, a, time)
  BY <1>1, <1>2, <1>3 DEF Timely, Changes, Down
<1> QED BY <1>1, <1>4, <1>5 DEF a

(* A record whose every field is known.                                    *)
LEMMA Fields ==
  ASSUME NEW b \in Records
  PROVE  b = [ state |-> b.state, failures |-> b.failures, recoveries |-> b.recoveries,
               deadline |-> b.deadline, accounted |-> b.accounted,
               degraded |-> b.degraded, uptime |-> b.uptime, resources |-> b.resources ]
BY DEF Records

LEMMA WellIs ==
  ASSUME NEW b \in Records
  PROVE  LET a == Well(b) IN
         /\ a \in Records
         /\ a.accounted = b.accounted /\ a.degraded = b.degraded
         /\ \/ ~Down(b) /\ a.state = b.state /\ a.deadline = b.deadline
            \/ Down(b) /\ a.state = "healthy" /\ a.deadline = None
            \/ Down(b) /\ Down(a) /\ a.deadline = b.deadline
<1>1. Threshold \in Nat
  BY ConquestConstants
<1>2. CASE ~Down(b)
  BY <1>1, <1>2, Fields DEF Well, Records
<1>3. CASE Down(b) /\ b.recoveries + 1 >= Threshold
  BY <1>1, <1>3, Fields DEF Well, Records, States
<1>4. CASE Down(b) /\ ~(b.recoveries + 1 >= Threshold)
  <2> DEFINE a == [ state |-> "recovering", failures |-> 0,
                    recoveries |-> b.recoveries + 1, deadline |-> b.deadline,
                    accounted |-> b.accounted, degraded |-> b.degraded,
                    uptime |-> b.uptime, resources |-> b.resources ]
  <2>1. Well(b) = [b EXCEPT !.failures = 0, !.recoveries = b.recoveries + 1,
                            !.state = "recovering"]
    BY <1>4 DEF Well
  <2>2. Well(b) = a
    BY <2>1, Fields, ZenonT(30)
  <2>3. a \in Records
    BY DEF Records, States
  <2> QED BY <1>4, <2>2, <2>3 DEF Down
<1> QED BY <1>2, <1>3, <1>4

(* A record after a payment.                                               *)
LEMMA Richer ==
  ASSUME NEW b \in Records, NEW u, NEW r, NEW c,
         c = [b EXCEPT !.uptime = u, !.resources = r]
  PROVE  c = [ state |-> b.state, failures |-> b.failures, recoveries |-> b.recoveries,
               deadline |-> b.deadline, accounted |-> b.accounted,
               degraded |-> b.degraded, uptime |-> u, resources |-> r ]
<1>1. b = [ state |-> b.state, failures |-> b.failures, recoveries |-> b.recoveries,
            deadline |-> b.deadline, accounted |-> b.accounted,
            degraded |-> b.degraded, uptime |-> b.uptime, resources |-> b.resources ]
  BY Fields
<1> QED BY <1>1

LEMMA SickIs ==
  ASSUME NEW b \in Records, NEW time \in Nat
  PROVE  LET a == Sick(b, time) IN
         /\ a \in Records
         /\ a.accounted = b.accounted /\ a.degraded = b.degraded
         /\ \/ ~Down(b) /\ a.state = b.state /\ a.deadline = b.deadline
            \/ b.state = "healthy" /\ a.state = "degraded" /\ a.deadline = time + Window
            \/ Down(b) /\ Down(a) /\ a.deadline = b.deadline
<1> DEFINE failures == IF b.state = "healthy" THEN b.failures + 1 ELSE b.failures
           falls == b.state = "healthy" /\ failures >= Threshold
           state == IF falls \/ b.state = "recovering" THEN "degraded" ELSE b.state
           deadline == IF falls THEN time + Window ELSE b.deadline
           a == Sick(b, time)
<1>1. a = [b EXCEPT !.recoveries = 0, !.failures = failures, !.state = state,
                    !.deadline = deadline]
  BY DEF Sick
<1>2. Threshold \in Nat /\ Window \in Nat
  BY ConquestConstants
<1>3. failures \in Nat /\ state \in States /\ deadline \in Nat \cup {None}
  BY <1>2 DEF Records, States
<1>4. \/ ~Down(b) /\ state = b.state /\ deadline = b.deadline
      \/ b.state = "healthy" /\ state = "degraded" /\ deadline = time + Window
      \/ Down(b) /\ state \in {"degraded", "recovering"} /\ deadline = b.deadline
  BY DEF Records, States, Down
<1> HIDE DEF failures, falls, state, deadline, a
<1>5. a = [ state |-> state, failures |-> failures, recoveries |-> 0,
            deadline |-> deadline, accounted |-> b.accounted,
            degraded |-> b.degraded, uptime |-> b.uptime, resources |-> b.resources ]
  <2>1. b = [ state |-> b.state, failures |-> b.failures, recoveries |-> b.recoveries,
              deadline |-> b.deadline, accounted |-> b.accounted,
              degraded |-> b.degraded, uptime |-> b.uptime, resources |-> b.resources ]
    BY Fields
  <2> QED BY <1>1, <2>1
<1>6. a \in Records
  BY <1>3, <1>5 DEF Records
<1> QED BY <1>4, <1>5, <1>6 DEF Down, a

LEMMA PaidIs ==
  ASSUME NEW b \in Records
  PROVE  LET a == Paid(b) IN
         /\ a \in Records
         /\ a.accounted = b.accounted /\ a.degraded = b.degraded
         /\ a.state = b.state /\ a.deadline = b.deadline
<1> DEFINE a == [ state |-> b.state, failures |-> b.failures,
                  recoveries |-> b.recoveries, deadline |-> b.deadline,
                  accounted |-> b.accounted, degraded |-> b.degraded,
                  uptime |-> b.uptime + 1, resources |-> b.resources + Bonus ]
<1>1. Bonus \in Nat
  BY ConquestConstants
<1>2. CASE b.state = "healthy"
  <2>1. Paid(b) = [b EXCEPT !.uptime = b.uptime + 1, !.resources = b.resources + Bonus]
    BY <1>2 DEF Paid
  <2>2. Paid(b) = a
    BY <2>1, Richer
  <2>3. a \in Records
    BY <1>1 DEF Records
  <2> QED BY <2>2, <2>3
<1>3. CASE b.state # "healthy"
  BY <1>3 DEF Paid
<1> QED BY <1>2, <1>3

LEMMA FallenIs ==
  ASSUME NEW b, NEW time \in Nat, Timely(b, time)
  PROVE  LET a == Fallen(b, time) IN
         /\ a \in Records
         /\ a.accounted = time /\ a.degraded = Accrued(b, time)
         /\ a.state = "eliminated" /\ a.deadline = None
<1> DEFINE c == Account(b, time)
<1>1. c \in Records /\ c.accounted = time /\ c.degraded = Accrued(b, time)
  BY AccountChanges DEF Timely
<1>2. Fallen(b, time) = [c EXCEPT !.state = "eliminated", !.deadline = None]
  BY DEF Fallen
<1> HIDE DEF c
<1> QED BY <1>1, <1>2, Fields DEF Records, States

-----------------------------------------------------------------------------
(* The same as changes of the record that the call found.                  *)
LEMMA WellChanges ==
  ASSUME NEW b, NEW time \in Nat, Timely(b, time), b.state # "eliminated"
  PROVE  LET a == Well(Account(b, time)) IN
         Changes(b, a, time) /\ a.state # "eliminated" /\ (Down(a) => Down(b))
<1> DEFINE c == Account(b, time)
           a == Well(c)
<1>1. /\ c \in Records /\ c.accounted = time /\ c.degraded = Accrued(b, time)
      /\ c.state = b.state /\ c.deadline = b.deadline
  BY AccountChanges DEF Timely
<1> HIDE DEF c
<1>2. /\ a \in Records
      /\ a.accounted = c.accounted /\ a.degraded = c.degraded
      /\ \/ ~Down(c) /\ a.state = c.state /\ a.deadline = c.deadline
         \/ Down(c) /\ a.state = "healthy" /\ a.deadline = None
         \/ Down(c) /\ Down(a) /\ a.deadline = c.deadline
  BY <1>1, WellIs
<1> HIDE DEF a
<1>3. Accrued(a, time) = Accrued(b, time)
  BY <1>1, <1>2, AfterAccount
<1> QED BY <1>1, <1>2, <1>3 DEF Changes, Timely, Down, c, a

LEMMA SickChanges ==
  ASSUME NEW b, NEW time \in Nat, Timely(b, time), b.state # "eliminated"
  PROVE  LET a == Sick(Account(b, time), time) IN
         /\ Changes(b, a, time) /\ a.state # "eliminated"
         /\ Down(a) => Down(b) \/ a.deadline = time + Window
<1> DEFINE c == Account(b, time)
           a == Sick(c, time)
<1>1. /\ c \in Records /\ c.accounted = time /\ c.degraded = Accrued(b, time)
      /\ c.state = b.state /\ c.deadline = b.deadline
  BY AccountChanges DEF Timely
<1> HIDE DEF c
<1>2. /\ a \in Records
      /\ a.accounted = c.accounted /\ a.degraded = c.degraded
      /\ \/ ~Down(c) /\ a.state = c.state /\ a.deadline = c.deadline
         \/ c.state = "healthy" /\ a.state = "degraded" /\ a.deadline = time + Window
         \/ Down(c) /\ Down(a) /\ a.deadline = c.deadline
  BY <1>1, SickIs
<1> HIDE DEF a
<1>3. Accrued(a, time) = Accrued(b, time)
  BY <1>1, <1>2, AfterAccount
<1> QED BY <1>1, <1>2, <1>3 DEF Changes, Timely, Down, c, a

LEMMA PaidChanges ==
  ASSUME NEW b, NEW time \in Nat, Timely(b, time)
  PROVE  LET a == Paid(Account(b, time)) IN
         /\ Changes(b, a, time) /\ a.state = b.state
         /\ a.deadline = b.deadline /\ a.accounted = time
<1> DEFINE c == Account(b, time)
           a == Paid(c)
<1>1. /\ c \in Records /\ c.accounted = time /\ c.degraded = Accrued(b, time)
      /\ c.state = b.state /\ c.deadline = b.deadline
  BY AccountChanges DEF Timely
<1> HIDE DEF c
<1>2. /\ a \in Records
      /\ a.accounted = c.accounted /\ a.degraded = c.degraded
      /\ a.state = c.state /\ a.deadline = c.deadline
  BY <1>1, PaidIs
<1> HIDE DEF a
<1>3. Accrued(a, time) = Accrued(b, time)
  BY <1>1, <1>2, AfterAccount
<1> QED BY <1>1, <1>2, <1>3 DEF Changes, Timely, Down, c, a

LEMMA FallenChanges ==
  ASSUME NEW b, NEW time \in Nat, Timely(b, time), Down(b), time >= b.deadline
  PROVE  LET a == Fallen(b, time) IN
         Changes(b, a, time) /\ a.state = "eliminated"
<1> DEFINE a == Fallen(b, time)
<1>1. /\ a \in Records
      /\ a.accounted = time /\ a.degraded = Accrued(b, time)
      /\ a.state = "eliminated" /\ a.deadline = None
  BY FallenIs
<1> HIDE DEF a
<1>2. Accrued(a, time) = Accrued(b, time)
  BY <1>1, AfterAccount
<1> QED BY <1>1, <1>2 DEF Changes, Timely, Down, a

(* Accounting once more in the same call, as finish does, changes nothing  *)
(* that matters.                                                           *)
LEMMA ChangedIsTimely ==
  ASSUME NEW b, NEW a, NEW time \in Nat, Timely(b, time), Changes(b, a, time)
  PROVE  Timely(a, time)
<1>1. Window \in Nat
  BY ConquestConstants
<1>2. CASE Down(a)
  BY <1>1, <1>2 DEF Changes, Timely
<1>3. CASE a.state = "healthy" \/ a.state = "eliminated"
  BY <1>3 DEF Changes, Timely, Down
<1>4. CASE a.state = "provisioning"
  BY <1>4 DEF Changes, Timely, Down
<1> QED BY <1>2, <1>3, <1>4 DEF Changes, Records, States, Down

LEMMA ThenAccount ==
  ASSUME NEW b, NEW a, NEW time \in Nat, Timely(b, time), Changes(b, a, time)
  PROVE  LET c == Account(a, time) IN
         Changes(b, c, time) /\ c.state = a.state /\ c.accounted = time
<1> DEFINE c == Account(a, time)
<1>1. Timely(a, time)
  BY ChangedIsTimely
<1>2. /\ Changes(a, c, time) /\ c.state = a.state /\ c.deadline = a.deadline
      /\ c.accounted = time
  BY <1>1, AccountChanges
<1> HIDE DEF c
<1>3. Changes(b, c, time)
  BY <1>2 DEF Changes, Down
<1> QED BY <1>2, <1>3 DEF c

-----------------------------------------------------------------------------
(* The referee and all its records.                                        *)
IsReferee(r) ==
  /\ r = [ match |-> r.match, territories |-> r.territories, lastTime |-> r.lastTime,
           outcome |-> r.outcome, emitted |-> r.emitted, reply |-> r.reply ]
  /\ r.territories \in [Territory -> Records]
  /\ r.lastTime \in Nat

AllTimely(b, time) == b \in [Territory -> Records] /\ \A t \in Territory : Timely(b[t], time)

Follows(b, a, time) ==
  /\ a \in [Territory -> Records]
  /\ \A t \in Territory : Changes(b[t], a[t], time)

Lives(r, t) == r.territories[t].state # "eliminated"

LEMMA FinishFacts ==
  ASSUME NEW r, NEW b, NEW time \in Nat, IsReferee(r), AllTimely(b, time),
         Follows(b, r.territories, time)
  PROVE  LET a == Finish(r, time) IN
         /\ IsReferee(a) /\ Follows(b, a.territories, time)
         /\ a.match = "finished" /\ a.lastTime = r.lastTime /\ a.reply = r.reply
         /\ a.outcome = [winner |-> Winner(a.territories)]
         /\ \A t \in Territory : a.territories[t].state = r.territories[t].state
         /\ a.emitted = r.emitted \o <<[kind |-> "match_state_changed"],
                                       MatchFinished(Winner(a.territories))>>
<1> DEFINE c == [t \in Territory |-> Account(r.territories[t], time)]
           a == Finish(r, time)
           out == r.emitted \o <<[kind |-> "match_state_changed"],
                                 MatchFinished(Winner(c))>>
           won == [winner |-> Winner(c)]
<1>1. \A t \in Territory : /\ Changes(b[t], c[t], time)
                           /\ c[t].state = r.territories[t].state
  <2>1. ASSUME NEW t \in Territory
        PROVE  /\ Changes(b[t], c[t], time)
               /\ c[t].state = r.territories[t].state
    <3>1. Timely(b[t], time) /\ Changes(b[t], r.territories[t], time)
      BY DEF AllTimely, Follows
    <3>2. c[t] = Account(r.territories[t], time)
      OBVIOUS
    <3> QED BY <3>1, <3>2, ThenAccount
  <2> QED BY <2>1
<1>2. c = [t \in Territory |-> c[t]]
  OBVIOUS
<1>3. a = [r EXCEPT !.territories = c, !.match = "finished", !.outcome = won,
                    !.emitted = out]
  BY DEF Finish
<1> HIDE DEF c
<1>4. c \in [Territory -> Records]
  BY <1>1, <1>2 DEF Changes
<1>5. Follows(b, c, time)
  BY <1>1, <1>4 DEF Follows
<1> HIDE DEF a, out, won
<1>6. a = [ match |-> "finished", territories |-> c, lastTime |-> r.lastTime,
            outcome |-> won, emitted |-> out, reply |-> r.reply ]
  BY <1>3 DEF IsReferee
<1>7. IsReferee(a)
  BY <1>4, <1>6 DEF IsReferee
<1> QED BY <1>1, <1>5, <1>6, <1>7 DEF a, out, won

(* One more elimination: the match ends unless two are left.               *)
Eliminates(r, b, t, time) ==
  /\ IsReferee(r) /\ AllTimely(b, time) /\ Follows(b, r.territories, time)
  /\ r.territories[t] = Account(b[t], time) /\ Down(b[t]) /\ time >= b[t].deadline

Eliminated(a, r, b, t, time) ==
  /\ IsReferee(a) /\ Follows(b, a.territories, time)
  /\ a.lastTime = r.lastTime /\ a.reply = r.reply
  /\ \A u \in Territory \ {t} : a.territories[u].state = r.territories[u].state
  /\ a.territories[t].state = "eliminated"
  /\ \/ a.match = r.match /\ a.outcome = r.outcome /\ ~LastStanding(a.territories)
     \/ a.match = "finished" /\ a.outcome = [winner |-> Winner(a.territories)]
  /\ \E rest \in {<<>>, <<[kind |-> "match_state_changed"],
                         MatchFinished(Winner(a.territories))>>} :
       a.emitted = r.emitted
         \o <<TerritoryStateChanged(t, r.territories[t].state, "eliminated"),
              TerritoryEliminated(t)>> \o rest

LEMMA EliminateFacts ==
  ASSUME NEW r, NEW b, NEW t \in Territory, NEW time \in Nat, Eliminates(r, b, t, time)
  PROVE  Eliminated(Eliminate(r, t, time), r, b, t, time)
<1> DEFINE fallen == Fallen(r.territories[t], time)
           c == [r.territories EXCEPT ![t] = fallen]
           more == r.emitted
                     \o <<TerritoryStateChanged(t, r.territories[t].state, "eliminated"),
                          TerritoryEliminated(t)>>
           out == [r EXCEPT !.territories = c, !.emitted = more]
           a == Eliminate(r, t, time)
<1>0. /\ IsReferee(r) /\ AllTimely(b, time) /\ Follows(b, r.territories, time)
      /\ r.territories[t] = Account(b[t], time) /\ Down(b[t]) /\ time >= b[t].deadline
  BY DEF Eliminates
<1>1. a = IF LastStanding(c) THEN Finish(out, time) ELSE out
  BY DEF Eliminate
<1>2. Changes(b[t], fallen, time) /\ fallen.state = "eliminated"
  <2>1. /\ Changes(b[t], r.territories[t], time)
        /\ r.territories[t].state = b[t].state
        /\ r.territories[t].deadline = b[t].deadline
    BY <1>0, AccountChanges DEF AllTimely
  <2>2. Timely(r.territories[t], time)
    BY <1>0, <2>1, ChangedIsTimely DEF AllTimely
  <2>3. Down(r.territories[t])
    BY <1>0, <2>1 DEF Down
  <2>4. Changes(r.territories[t], fallen, time) /\ fallen.state = "eliminated"
    BY <1>0, <2>1, <2>2, <2>3, FallenChanges
  <2> HIDE DEF fallen
  <2> QED BY <1>0, <2>1, <2>3, <2>4 DEF Changes, Down
<1>3. fallen \in Records
  BY <1>2 DEF Changes
<1> HIDE DEF fallen
<1>4. /\ c \in [Territory -> Records] /\ c[t] = fallen
      /\ \A u \in Territory \ {t} : c[u] = r.territories[u]
  BY <1>0, <1>3 DEF IsReferee
<1>5. Follows(b, c, time)
  BY <1>0, <1>2, <1>4 DEF Follows
<1> HIDE DEF c, more
<1>6. out = [ match |-> r.match, territories |-> c, lastTime |-> r.lastTime,
              outcome |-> r.outcome, emitted |-> more, reply |-> r.reply ]
  <2>1. r = [ match |-> r.match, territories |-> r.territories, lastTime |-> r.lastTime,
              outcome |-> r.outcome, emitted |-> r.emitted, reply |-> r.reply ]
    BY <1>0 DEF IsReferee
  <2> DEFINE o == out
  <2>2. o = [r EXCEPT !.territories = c, !.emitted = more]
    OBVIOUS
  <2> HIDE DEF o
  <2>3. o = [ match |-> r.match, territories |-> c, lastTime |-> r.lastTime,
              outcome |-> r.outcome, emitted |-> more, reply |-> r.reply ]
    BY <2>1, <2>2
  <2> QED BY <2>3 DEF o
<1> HIDE DEF out
<1>7. IsReferee(out)
  BY <1>0, <1>4, <1>6 DEF IsReferee
<1> HIDE DEF a
<1> SUFFICES Eliminated(a, r, b, t, time)
  BY DEF a
<1>8. CASE LastStanding(c)
  <2> DEFINE f == Finish(out, time)
  <2>1. /\ IsReferee(f) /\ Follows(b, f.territories, time)
        /\ f.match = "finished" /\ f.lastTime = out.lastTime /\ f.reply = out.reply
        /\ f.outcome = [winner |-> Winner(f.territories)]
        /\ \A u \in Territory : f.territories[u].state = out.territories[u].state
        /\ f.emitted = out.emitted \o <<[kind |-> "match_state_changed"],
                                        MatchFinished(Winner(f.territories))>>
    BY <1>0, <1>5, <1>6, <1>7, FinishFacts
  <2>2. a = f
    BY <1>1, <1>8
  <2> HIDE DEF f
  <2> QED BY <1>2, <1>4, <1>6, <2>1, <2>2 DEF more, Eliminated
<1>9. CASE ~LastStanding(c)
  <2>1. a = out
    BY <1>1, <1>9
  <2> QED BY <1>2, <1>4, <1>5, <1>6, <1>7, <1>9, <2>1 DEF more, Eliminated
<1> QED BY <1>8, <1>9

-----------------------------------------------------------------------------
(* Calls that the referee accepts.                                         *)
Accepting(r, time) ==
  IsReferee(r) /\ r.match = "running" /\ r.lastTime <= time /\ AllTimely(r.territories, time)

LEMMA AcceptedIs ==
  ASSUME NEW r, NEW time \in Nat, Accepting(r, time), NEW after
  PROVE  Checked(r, time, after) = after
BY DEF Accepting, IsReferee, Checked, Timed

LEMMA EnterIs ==
  ASSUME NEW r, NEW time \in Nat, IsReferee(r)
  PROVE  Enter(r, time) = [ match |-> r.match, territories |-> r.territories,
                            lastTime |-> time, outcome |-> r.outcome,
                            emitted |-> <<>>, reply |-> "ok" ]
<1> DEFINE e == Enter(r, time)
<1>1. e = [r EXCEPT !.lastTime = time, !.emitted = <<>>, !.reply = "ok"]
  BY DEF Enter
<1> HIDE DEF e
<1>2. e = [ match |-> r.match, territories |-> r.territories, lastTime |-> time,
            outcome |-> r.outcome, emitted |-> <<>>, reply |-> "ok" ]
  BY <1>1 DEF IsReferee
<1> QED BY <1>2 DEF e

(* What eliminate adds to an observation.                                  *)
LEMMA ThirdIn ==
  ASSUME NEW S, NEW a \in S, NEW b \in S, NEW c \in S, NEW d \in S, NEW e \in S,
         NEW rest \in {<<>>, <<d, e>>}
  PROVE  LET s == <<a>> \o <<b, c>> \o rest IN 3 \in 1..Len(s) /\ s[3] = c
<1>1. <<a>> \in Seq(S) /\ <<b, c>> \in Seq(S) /\ rest \in Seq(S)
  <2>1. \A x, y \in S : <<x>> \in Seq(S) /\ <<x, y>> \in Seq(S)
    OBVIOUS
  <2>2. <<>> \in Seq(S)
    OBVIOUS
  <2> QED BY <2>1, <2>2
<1>2. Len(<<a>>) = 1 /\ Len(<<b, c>>) = 2 /\ <<b, c>>[2] = c
  OBVIOUS
<1> DEFINE u == <<a>>
           v == <<b, c>>
<1> HIDE DEF u, v
<1>3. u \o v \in Seq(S) /\ Len(u \o v) = 3 /\ (u \o v)[3] = c
  BY <1>1, <1>2 DEF u, v
<1> DEFINE w == u \o v
<1> HIDE DEF w
<1>4. 3 \in 1..Len(w \o rest) /\ (w \o rest)[3] = c
  BY <1>1, <1>3 DEF w
<1> QED BY <1>4 DEF u, v, w

LEMMA ThirdOf ==
  ASSUME NEW a, NEW b, NEW c, NEW d, NEW e, NEW rest \in {<<>>, <<d, e>>}
  PROVE  LET s == <<a>> \o <<b, c>> \o rest IN 3 \in 1..Len(s) /\ s[3] = c
<1> DEFINE S == {a, b, c, d, e}
<1>1. a \in S /\ b \in S /\ c \in S /\ d \in S /\ e \in S
  OBVIOUS
<1> HIDE DEF S
<1> QED BY <1>1, ThirdIn

LEMMA OneOrTwo ==
  ASSUME NEW a, NEW b, NEW rest \in {<<>>, <<b>>}, NEW kind, a.kind # kind, b.kind # kind
  PROVE  \A i \in 1..Len(<<a>> \o rest) : (<<a>> \o rest)[i].kind # kind
<1> DEFINE S == {x \in {a, b} : x.kind # kind}
<1>1. a \in S /\ b \in S
  OBVIOUS
<1>2. \A x \in S : x.kind # kind
  OBVIOUS
<1> HIDE DEF S
<1>3. <<a>> \in Seq(S) /\ rest \in Seq(S)
  <2>1. \A x \in S : <<x>> \in Seq(S)
    OBVIOUS
  <2>2. <<>> \in Seq(S)
    OBVIOUS
  <2> QED BY <1>1, <2>1, <2>2
<1> DEFINE s == <<a>> \o rest
<1>4. s \in Seq(S)
  BY <1>3
<1> HIDE DEF s
<1>5. \A i \in 1..Len(s) : s[i] \in S
  BY <1>4
<1> QED BY <1>2, <1>5 DEF s

(* Whether an observation announces an elimination.                        *)
Announces(after, t) ==
  \E i \in 1..Len(after.emitted) : after.emitted[i] = TerritoryEliminated(t)

(* What an observation makes of the referee: it changes one record, or     *)
(* several when it ends the match, and leaves the territory that it is of  *)
(* no longer down or with time left.                                       *)
Observed(a, r, t, time) ==
  /\ IsReferee(a) /\ a.lastTime = time /\ a.reply = "ok"
  /\ Follows(r.territories, a.territories, time)
  /\ \A u \in Territory \ {t} : a.territories[u].state = r.territories[u].state
  /\ \/ /\ ~Announces(a, t)
        /\ a.match = "running" /\ a.outcome = r.outcome
        /\ \A u \in Territory \ {t} : a.territories[u] = r.territories[u]
        /\ Lives(a, t) <=> Lives(r, t)
        /\ Down(a.territories[t]) => a.territories[t].deadline > time
     \/ /\ Announces(a, t)
        /\ Lives(r, t) /\ ~Lives(a, t)
        /\ \/ a.match = r.match /\ a.outcome = r.outcome
              /\ ~LastStanding(a.territories)
           \/ a.match = "finished" /\ a.outcome = [winner |-> Winner(a.territories)]

LEMMA ObserveFacts ==
  ASSUME NEW r, NEW t \in Territory, NEW healthy \in BOOLEAN, NEW time \in Nat,
         Accepting(r, time)
  PROVE  Observed(Observe(r, t, healthy, time), r, t, time)
<1> DEFINE b == r.territories
           account == Account(b[t], time)
           c == [b EXCEPT ![t] = account]
           first == <<[kind |-> "health_observed"]>>
           seen == [Enter(r, time) EXCEPT !.territories = c, !.emitted = first]
           next == IF healthy THEN Well(c[t]) ELSE Sick(c[t], time)
           a == Observe(r, t, healthy, time)
<1>0. SUFFICES Observed(a, r, t, time)
  OBVIOUS
<1>1. a = IF c[t].state = "eliminated" THEN seen
          ELSE IF Expired(c[t], time) THEN Eliminate(seen, t, time)
          ELSE [seen EXCEPT !.territories[t] = next,
                  !.emitted = @ \o IF next.state = c[t].state THEN <<>>
                                   ELSE <<TerritoryStateChanged(t, c[t].state, next.state)>>]
  BY AcceptedIs DEF Observe
<1>2. /\ Changes(b[t], account, time) /\ account.state = b[t].state
      /\ account.deadline = b[t].deadline /\ Timely(b[t], time)
  BY AccountChanges DEF Accepting, AllTimely
<1>3. account \in Records
  BY <1>2 DEF Changes
<1>4. /\ c \in [Territory -> Records] /\ c[t] = account
      /\ \A u \in Territory \ {t} : c[u] = b[u]
  BY <1>3 DEF Accepting, IsReferee
<1>5. seen = [ match |-> "running", territories |-> c, lastTime |-> time,
               outcome |-> r.outcome, emitted |-> first, reply |-> "ok" ]
  <2> HIDE DEF c, first
  <2> DEFINE s == seen
  <2>1. s = [Enter(r, time) EXCEPT !.territories = c, !.emitted = first]
    OBVIOUS
  <2> DEFINE e == Enter(r, time)
  <2>2. /\ e = [ match |-> e.match, territories |-> e.territories, lastTime |-> e.lastTime,
                 outcome |-> e.outcome, emitted |-> e.emitted, reply |-> e.reply ]
        /\ e.match = "running" /\ e.lastTime = time /\ e.outcome = r.outcome
        /\ e.reply = "ok"
    BY EnterIs DEF Accepting
  <2> HIDE DEF e
  <2>3. s = [e EXCEPT !.territories = c, !.emitted = first]
    BY <2>1 DEF e
  <2> HIDE DEF s
  <2>4. s = [ match |-> e.match, territories |-> c, lastTime |-> e.lastTime,
              outcome |-> e.outcome, emitted |-> first, reply |-> e.reply ]
    BY <2>2, <2>3
  <2> QED BY <2>2, <2>4 DEF s
<1> HIDE DEF a, seen, next, account
<1>6. \A u \in Territory : Changes(b[u], b[u], time)
  BY DEF Accepting, AllTimely, Timely, Changes, Down
<1>7. Follows(b, c, time)
  BY <1>2, <1>4, <1>6 DEF Follows
<1>8. IsReferee(seen)
  BY <1>4, <1>5 DEF IsReferee
<1>9. first[1].kind = "health_observed" /\ Len(first) = 1
  OBVIOUS
<1> HIDE DEF c, first
<1>10. CASE c[t].state = "eliminated"
  <2>1. a = seen
    BY <1>1, <1>10
  <2>2. ~Announces(a, t)
    <3>1. TerritoryEliminated(t).kind = "territory_eliminated"
      BY DEF TerritoryEliminated
    <3>2. a.emitted = first
      BY <1>5, <2>1
    <3>3. ASSUME NEW i \in 1..Len(a.emitted) PROVE a.emitted[i] # TerritoryEliminated(t)
      <4>1. i = 1
        <5>1. Len(a.emitted) = 1
          BY <1>9, <3>2
        <5> QED BY <3>3, <5>1
      <4> QED BY <1>9, <3>1, <3>2, <4>1
    <3> QED BY <3>1, <3>3 DEF Announces
  <2> QED BY <1>2, <1>4, <1>5, <1>7, <1>8, <1>10, <2>1, <2>2 DEF Lives, Down, Observed, b
<1>11. CASE c[t].state # "eliminated" /\ Expired(c[t], time)
  <2>1. a = Eliminate(seen, t, time)
    BY <1>1, <1>11
  <2>2. Down(b[t]) /\ time >= b[t].deadline
    <3>1. b[t].state # "provisioning"
      BY <1>2, <1>4, <1>11 DEF Expired, Timely, Down
    <3>2. b[t].state \in States
      BY <1>2 DEF Timely, Records
    <3> QED BY <1>2, <1>4, <1>11, <3>1, <3>2 DEF Expired, Timely, Down, States
  <2>3. seen.territories[t] = Account(b[t], time)
    BY <1>4, <1>5 DEF account
  <2> DEFINE e == Eliminate(seen, t, time)
             fallen == <<TerritoryStateChanged(t, seen.territories[t].state, "eliminated"),
                         TerritoryEliminated(t)>>
             finish(w) == <<[kind |-> "match_state_changed"], MatchFinished(w)>>
  <2>4. /\ IsReferee(e) /\ Follows(b, e.territories, time)
        /\ e.lastTime = seen.lastTime /\ e.reply = seen.reply
        /\ \A u \in Territory \ {t} : e.territories[u].state = seen.territories[u].state
        /\ e.territories[t].state = "eliminated"
        /\ \/ e.match = seen.match /\ e.outcome = seen.outcome /\ ~LastStanding(e.territories)
           \/ e.match = "finished" /\ e.outcome = [winner |-> Winner(e.territories)]
        /\ \E rest \in {<<>>, finish(Winner(e.territories))} :
             e.emitted = seen.emitted \o fallen \o rest
    <3>1. Eliminates(seen, b, t, time)
      BY <1>5, <1>7, <1>8, <2>2, <2>3 DEF Accepting, Eliminates
    <3>2. Eliminated(e, seen, b, t, time)
      BY <3>1, EliminateFacts
    <3> QED BY <3>2 DEF Eliminated
  <2>5. Announces(e, t)
    <3>1. PICK rest \in {<<>>, finish(Winner(e.territories))} :
            e.emitted = seen.emitted \o fallen \o rest
      BY <2>4
    <3>2. e.emitted = <<[kind |-> "health_observed"]>> \o fallen \o rest
      BY <1>5, <3>1 DEF first
    <3>3. 3 \in 1..Len(e.emitted) /\ e.emitted[3] = TerritoryEliminated(t)
      BY <3>2, ThirdOf
    <3> QED BY <3>3 DEF Announces
  <2> HIDE DEF e
  <2>6. Lives(r, t)
    BY <1>2, <1>4, <1>11 DEF Lives
  <2>7. seen.match = r.match /\ seen.outcome = r.outcome
    BY <1>5 DEF Accepting
  <2>8. \A u \in Territory \ {t} : seen.territories[u].state = b[u].state
    BY <1>4, <1>5
  <2> QED BY <1>5, <2>1, <2>4, <2>5, <2>6, <2>7, <2>8 DEF e, Lives, Observed
<1>12. CASE c[t].state # "eliminated" /\ ~Expired(c[t], time)
  <2> DEFINE more == IF next.state = c[t].state THEN <<>>
                     ELSE <<TerritoryStateChanged(t, c[t].state, next.state)>>
             out == first \o more
             after == [c EXCEPT ![t] = next]
  <2>1. a = [seen EXCEPT !.territories[t] = next, !.emitted = @ \o more]
    BY <1>1, <1>12
  <2>2. c[t] = Account(b[t], time) /\ b[t].state # "eliminated"
    BY <1>2, <1>4, <1>12 DEF account
  <2>3. /\ Changes(b[t], next, time) /\ next.state # "eliminated"
        /\ Down(next) => Down(b[t]) \/ next.deadline = time + Window
    <3>1. CASE healthy
      <4>1. next = Well(Account(b[t], time))
        BY <2>2, <3>1 DEF next
      <4> QED BY <1>2, <2>2, <4>1, WellChanges
    <3>2. CASE ~healthy
      <4>1. next = Sick(Account(b[t], time), time)
        BY <2>2, <3>2 DEF next
      <4> QED BY <1>2, <2>2, <4>1, SickChanges
    <3> QED BY <3>1, <3>2
  <2>4. Down(next) => next.deadline > time
    <3>1. Window \in Nat \ {0}
      BY ConquestConstants
    <3>2. CASE Down(b[t])
      <4>1. b[t].deadline \in Nat /\ b[t].deadline > time
        BY <1>2, <1>4, <1>12, <3>2, NoneIsNothing DEF Expired, Timely, Down
      <4> QED BY <2>3, <3>2, <4>1 DEF Changes
    <3>3. CASE ~Down(b[t])
      BY <2>3, <3>1, <3>3
    <3> QED BY <3>2, <3>3
  <2>5. next \in Records
    BY <2>3 DEF Changes
  <2>6. /\ after \in [Territory -> Records] /\ after[t] = next
        /\ \A u \in Territory \ {t} : after[u] = b[u]
    BY <1>4, <2>5
  <2>7. Follows(b, after, time)
    BY <1>6, <2>3, <2>6 DEF Follows
  <2>8. a = [ match |-> "running", territories |-> after, lastTime |-> time,
              outcome |-> r.outcome, emitted |-> out, reply |-> "ok" ]
    <3> HIDE DEF more
    <3>1. a = [seen EXCEPT !.territories = after, !.emitted = out]
      BY <1>5, <2>1
    <3> HIDE DEF after, out
    <3> QED BY <1>5, <3>1
  <2> HIDE DEF after
  <2>9. IsReferee(a)
    BY <2>6, <2>8 DEF IsReferee
  <2>10. ~Announces(a, t)
    <3>1. TerritoryEliminated(t).kind = "territory_eliminated"
      BY DEF TerritoryEliminated
    <3>2. \A i \in 1..Len(out) : out[i].kind # "territory_eliminated"
      <4> DEFINE change == TerritoryStateChanged(t, c[t].state, next.state)
      <4>1. change.kind # "territory_eliminated"
        BY DEF TerritoryStateChanged
      <4>2. more \in {<<>>, <<change>>}
        OBVIOUS
      <4>3. [kind |-> "health_observed"].kind # "territory_eliminated"
        OBVIOUS
      <4> HIDE DEF more, change
      <4> QED BY <4>1, <4>2, <4>3, OneOrTwo DEF first
    <3>3. a.emitted = out
      BY <2>8
    <3> HIDE DEF out
    <3>4. ASSUME NEW i \in 1..Len(a.emitted) PROVE a.emitted[i] # TerritoryEliminated(t)
      BY <3>1, <3>2, <3>3
    <3> QED BY <3>4 DEF Announces
  <2>11. Lives(a, t) /\ Lives(r, t)
    BY <2>2, <2>3, <2>6, <2>8 DEF Lives
  <2>12. a.match = "running" /\ a.outcome = r.outcome /\ a.lastTime = time /\ a.reply = "ok"
    BY <2>8
  <2>13. \A u \in Territory \ {t} : a.territories[u] = b[u]
    BY <2>6, <2>8
  <2>14. Down(a.territories[t]) => a.territories[t].deadline > time
    BY <2>4, <2>6, <2>8
  <2>15. Follows(b, a.territories, time)
    BY <2>7, <2>8
  <2> QED BY <2>9, <2>10, <2>11, <2>12, <2>13, <2>14, <2>15 DEF Observed
<1> QED BY <1>10, <1>11, <1>12

-----------------------------------------------------------------------------
(* Induction: there is no least number outside of a set that has 0 and,    *)
(* with a number, the one after it.                                        *)
LEMMA Least ==
  ASSUME NEW T \in SUBSET Nat, T # {}
  PROVE  \E x \in T : \A y \in T : x <= y
<1>1. PICK x \in T : \A y \in T : ~(<<y, x>> \in OpToRel(<, Nat))
  BY NatLessThanWellFounded, WFMin
<1>2. ASSUME NEW y \in T, ~(x <= y) PROVE FALSE
  <2>1. y < x /\ y \in Nat /\ x \in Nat
    BY <1>2
  <2>2. <<y, x>> \in OpToRel(<, Nat)
    BY <2>1 DEF OpToRel
  <2> QED BY <1>1, <2>2
<1> QED BY <1>2

LEMMA SetInduction ==
  ASSUME NEW S, 0 \in S, \A n \in Nat : n \in S => n + 1 \in S
  PROVE  \A n \in Nat : n \in S
<1> SUFFICES ASSUME NEW n \in Nat, n \notin S PROVE FALSE
  OBVIOUS
<1> DEFINE T == {k \in Nat : k \notin S}
<1>1. PICK x \in T : \A y \in T : x <= y
  BY Least
<1>2. x \in Nat /\ x # 0 /\ x \notin S
  BY <1>1
<1>3. x - 1 \in Nat /\ x - 1 \notin T
  BY <1>1, <1>2
<1> QED BY <1>2, <1>3

-----------------------------------------------------------------------------
(* A tick of a round in which everybody still down has time left pays the  *)
(* healthy ones and eliminates nobody.                                     *)
NobodyLate(b, time) == \A t \in Territory : Down(b[t]) => b[t].deadline > time

(* The records after the first i turns of such a tick.                     *)
PaidUpTo(b, time, i) ==
  [t \in Territory |-> IF \E j \in 1..i : Ids[j] = t THEN Paid(Account(b[t], time)) ELSE b[t]]

(* The first n turns, as the recursive function that Ticked defines.       *)
TurnsUpTo(after, r, time, n) ==
  after = [i \in 0..n |->
             IF i = 0 THEN Enter(r, time) ELSE TickOne(after[i - 1], Ids[i], time)]

LEMMA TurnsExist ==
  ASSUME NEW r, NEW time
  PROVE  \A n \in Nat : \E after : TurnsUpTo(after, r, time, n)
<1> DEFINE S == {n \in Nat : \E after : TurnsUpTo(after, r, time, n)}
<1>1. 0 \in S
  <2>1. TurnsUpTo([i \in 0..0 |-> Enter(r, time)], r, time, 0)
    BY DEF TurnsUpTo
  <2> QED BY <2>1
<1>2. ASSUME NEW n \in Nat, n \in S PROVE n + 1 \in S
  <2>1. PICK after : TurnsUpTo(after, r, time, n)
    BY <1>2
  <2> DEFINE Value(i) == IF i = 0 THEN Enter(r, time) ELSE TickOne(after[i - 1], Ids[i], time)
             next == [i \in 0..n + 1 |-> Value(i)]
  <2>2. ASSUME NEW i \in 0..n PROVE next[i] = after[i]
    <3>1. after[i] = Value(i)
      BY <2>1 DEF TurnsUpTo
    <3>2. i \in 0..n + 1
      OBVIOUS
    <3> HIDE DEF Value
    <3> QED BY <3>1, <3>2
  <2>3. ASSUME NEW i \in 0..n + 1
        PROVE  next[i] = IF i = 0 THEN Enter(r, time) ELSE TickOne(next[i - 1], Ids[i], time)
    <3>1. next[i] = Value(i)
      OBVIOUS
    <3>2. i # 0 => i - 1 \in 0..n
      OBVIOUS
    <3>3. i # 0 => next[i - 1] = after[i - 1]
      BY <2>2, <3>2
    <3> HIDE DEF next
    <3> QED BY <3>1, <3>3
  <2>4. next = [i \in 0..n + 1 |-> next[i]]
    OBVIOUS
  <2> HIDE DEF next
  <2>5. TurnsUpTo(next, r, time, n + 1)
    BY <2>3, <2>4 DEF TurnsUpTo
  <2> QED BY <2>5
<1> HIDE DEF S
<1>3. \A n \in Nat : n \in S
  BY <1>1, <1>2, SetInduction
<1> QED BY <1>3 DEF S

LEMMA TickedIs ==
  ASSUME NEW r, NEW time
  PROVE  \E after :
           /\ after[0] = Enter(r, time)
           /\ \A i \in 1..Len(Ids) : after[i] = TickOne(after[i - 1], Ids[i], time)
           /\ Ticked(r, time) = after[Len(Ids)]
<1>1. Len(Ids) \in Nat
  BY ConquestConstants
<1>2. \E after : TurnsUpTo(after, r, time, Len(Ids))
  BY <1>1, TurnsExist
<1> DEFINE after == CHOOSE after : TurnsUpTo(after, r, time, Len(Ids))
<1>3. TurnsUpTo(after, r, time, Len(Ids))
  BY <1>2
<1>4. Ticked(r, time) = after[Len(Ids)]
  BY DEF Ticked, TurnsUpTo
<1> HIDE DEF after
<1>5. \A i \in 0..Len(Ids) :
        after[i] = IF i = 0 THEN Enter(r, time) ELSE TickOne(after[i - 1], Ids[i], time)
  BY <1>3 DEF TurnsUpTo
<1>6. after[0] = Enter(r, time)
  BY <1>1, <1>5
<1>7. \A i \in 1..Len(Ids) : after[i] = TickOne(after[i - 1], Ids[i], time)
  BY <1>1, <1>5
<1> QED BY <1>4, <1>6, <1>7

(* The referee in the middle of such a tick.                               *)
PaidSoFar(a, r, time, i) ==
  /\ IsReferee(a) /\ a.match = "running" /\ a.lastTime = time
  /\ a.outcome = r.outcome /\ a.reply = "ok"
  /\ a.territories = PaidUpTo(r.territories, time, i)

LEMMA IdsAre ==
  /\ Len(Ids) \in Nat /\ Len(Ids) >= 2
  /\ \A i \in 1..Len(Ids) : Ids[i] \in Territory /\ Ids[i] \in Nat
  /\ \A i, j \in 1..Len(Ids) : Ids[i] = Ids[j] => i = j
  /\ \A t \in Territory : \E i \in 1..Len(Ids) : t = Ids[i]
<1>1. Ids \in Seq(Nat) /\ Len(Ids) >= 2
  BY ConquestConstants
<1>2. \A i \in 1..Len(Ids) : Ids[i] \in Nat
  BY <1>1
<1>3. ASSUME NEW i \in 1..Len(Ids), NEW j \in 1..Len(Ids), Ids[i] = Ids[j] PROVE i = j
  <2>1. ~(i < j) /\ ~(j < i)
    BY <1>2, <1>3, ConquestConstants
  <2> QED BY <2>1
<1> QED BY <1>1, <1>2, <1>3 DEF Territory

LEMMA TickOnePays ==
  ASSUME NEW r, NEW a, NEW time \in Nat, NEW i \in 1..Len(Ids),
         AllTimely(r.territories, time), NobodyLate(r.territories, time),
         PaidSoFar(a, r, time, i - 1)
  PROVE  PaidSoFar(TickOne(a, Ids[i], time), r, time, i)
<1> DEFINE b == r.territories
           t == Ids[i]
           record == Account(a.territories[t], time)
           pay == Paid(record)
           more == IF record.state = "healthy" /\ Bonus > 0
                   THEN Append(a.emitted, ResourcesChanged(t)) ELSE a.emitted
           paid == [a EXCEPT !.territories[t] = pay, !.emitted = more]
           c == [a.territories EXCEPT ![t] = pay]
<1>1. t \in Territory
  BY IdsAre
<1>2. ~\E j \in 1..i - 1 : Ids[j] = t
  BY IdsAre
<1>3. a.territories[t] = b[t]
  BY <1>1, <1>2 DEF PaidSoFar, PaidUpTo
<1>4. Timely(b[t], time) /\ (Down(b[t]) => b[t].deadline > time)
  BY <1>1 DEF AllTimely, NobodyLate
<1>5. record.state = b[t].state /\ record.deadline = b[t].deadline
  BY <1>3, <1>4, AccountChanges
<1>6. ~Late(record, time)
  BY <1>4, <1>5 DEF Late, Down, Timely
<1>7. TickOne(a, t, time) = paid
  BY <1>6 DEF TickOne
<1>8. Changes(b[t], pay, time)
  BY <1>3, <1>4, PaidChanges
<1>9. pay \in Records
  BY <1>8 DEF Changes
<1>10. pay = Paid(Account(b[t], time))
  BY <1>3
<1> HIDE DEF record, pay, more
<1>11. /\ c \in [Territory -> Records] /\ c[t] = pay
       /\ \A u \in Territory \ {t} : c[u] = a.territories[u]
  BY <1>1, <1>9 DEF PaidSoFar, IsReferee
<1>12. paid = [ match |-> a.match, territories |-> c, lastTime |-> a.lastTime,
                outcome |-> a.outcome, emitted |-> more, reply |-> a.reply ]
  <2> DEFINE p == paid
  <2>1. p = [a EXCEPT !.territories = c, !.emitted = more]
    OBVIOUS
  <2> HIDE DEF p, c
  <2>2. p = [ match |-> a.match, territories |-> c, lastTime |-> a.lastTime,
              outcome |-> a.outcome, emitted |-> more, reply |-> a.reply ]
    BY <2>1 DEF PaidSoFar, IsReferee
  <2> QED BY <2>2 DEF p
<1>13. c = PaidUpTo(b, time, i)
  <2>1. ASSUME NEW u \in Territory PROVE c[u] = PaidUpTo(b, time, i)[u]
    <3>1. CASE u = t
      BY <1>10, <1>11, <3>1 DEF PaidUpTo
    <3>2. CASE u # t
      <4>1. (\E j \in 1..i : Ids[j] = u) <=> (\E j \in 1..i - 1 : Ids[j] = u)
        BY <3>2
      <4> QED BY <1>11, <3>2, <4>1 DEF PaidSoFar, PaidUpTo
    <3> QED BY <3>1, <3>2
  <2>2. c = [u \in Territory |-> c[u]]
    BY <1>11
  <2> HIDE DEF c
  <2> QED BY <2>1, <2>2 DEF PaidUpTo
<1> HIDE DEF c, paid
<1>14. IsReferee(paid)
  BY <1>11, <1>12 DEF IsReferee, PaidSoFar
<1> QED BY <1>7, <1>12, <1>13, <1>14 DEF PaidSoFar

LEMMA TickPays ==
  ASSUME NEW r, NEW time \in Nat, Accepting(r, time), NobodyLate(r.territories, time)
  PROVE  PaidSoFar(Ticked(r, time), r, time, Len(Ids))
<1>1. PICK after :
           /\ after[0] = Enter(r, time)
           /\ \A i \in 1..Len(Ids) : after[i] = TickOne(after[i - 1], Ids[i], time)
           /\ Ticked(r, time) = after[Len(Ids)]
  BY TickedIs
<1> DEFINE S == {n \in Nat : n <= Len(Ids) => PaidSoFar(after[n], r, time, n)}
<1>2. 0 \in S
  <2> DEFINE e == Enter(r, time)
  <2>1. e = [ match |-> r.match, territories |-> r.territories, lastTime |-> time,
              outcome |-> r.outcome, emitted |-> <<>>, reply |-> "ok" ]
    BY EnterIs DEF Accepting
  <2>2. r.territories \in [Territory -> Records] /\ r.match = "running"
    BY DEF Accepting, IsReferee
  <2> HIDE DEF e
  <2>3. IsReferee(e)
    BY <2>1, <2>2 DEF IsReferee
  <2>4. PaidUpTo(r.territories, time, 0) = r.territories
    <3>1. 1..0 = {}
      OBVIOUS
    <3> QED BY <2>2, <3>1 DEF PaidUpTo
  <2>5. PaidSoFar(e, r, time, 0)
    BY <2>1, <2>2, <2>3, <2>4 DEF PaidSoFar
  <2> QED BY <1>1, <2>5 DEF e
<1>3. ASSUME NEW n \in Nat, n \in S PROVE n + 1 \in S
  <2> SUFFICES ASSUME n + 1 <= Len(Ids) PROVE PaidSoFar(after[n + 1], r, time, n + 1)
    OBVIOUS
  <2>1. n + 1 \in 1..Len(Ids) /\ (n + 1) - 1 = n
    BY IdsAre
  <2>2. PaidSoFar(after[n], r, time, n)
    BY <1>3, <2>1
  <2>3. after[n + 1] = TickOne(after[n], Ids[n + 1], time)
    BY <1>1, <2>1
  <2> QED BY <2>1, <2>2, <2>3, TickOnePays DEF Accepting
<1> HIDE DEF S
<1>4. \A n \in Nat : n \in S
  BY <1>2, <1>3, SetInduction
<1> QED BY <1>1, <1>4, IdsAre DEF S

LEMMA TickFacts ==
  ASSUME NEW r, NEW time \in Nat, Accepting(r, time), NobodyLate(r.territories, time)
  PROVE  LET a == Tick(r, time) IN
         /\ IsReferee(a) /\ a.lastTime = time /\ a.reply = "ok"
         /\ Follows(r.territories, a.territories, time)
         /\ \A t \in Territory : a.territories[t].state = r.territories[t].state
         /\ \/ /\ a.match = "running" /\ a.outcome = r.outcome
               /\ NobodyLate(a.territories, time)
            \/ a.match = "finished" /\ a.outcome = [winner |-> Winner(a.territories)]
<1> DEFINE b == r.territories
           k == Ticked(r, time)
           a == Tick(r, time)
<1>1. PaidSoFar(k, r, time, Len(Ids))
  BY TickPays
<1>2. a = IF time >= Duration /\ k.match = "running" THEN Finish(k, time) ELSE k
  BY AcceptedIs DEF Tick
<1> HIDE DEF k, a
<1>3. ASSUME NEW t \in Territory
      PROVE  /\ Changes(b[t], k.territories[t], time)
             /\ k.territories[t].state = b[t].state
             /\ k.territories[t].deadline = b[t].deadline
  <2>1. k.territories[t] = Paid(Account(b[t], time))
    BY <1>1, IdsAre DEF PaidSoFar, PaidUpTo
  <2>2. Timely(b[t], time)
    BY DEF Accepting, AllTimely
  <2> QED BY <2>1, <2>2, PaidChanges
<1>4. IsReferee(k) /\ k.match = "running" /\ k.lastTime = time
      /\ k.outcome = r.outcome /\ k.reply = "ok"
  BY <1>1 DEF PaidSoFar
<1>5. Follows(b, k.territories, time)
  BY <1>3, <1>4 DEF Follows, IsReferee
<1>6. AllTimely(b, time)
  BY DEF Accepting
<1>7. CASE time >= Duration
  <2>1. a = Finish(k, time)
    BY <1>2, <1>4, <1>7
  <2>2. /\ IsReferee(a) /\ Follows(b, a.territories, time)
        /\ a.match = "finished" /\ a.lastTime = k.lastTime /\ a.reply = k.reply
        /\ a.outcome = [winner |-> Winner(a.territories)]
        /\ \A t \in Territory : a.territories[t].state = k.territories[t].state
    BY <1>4, <1>5, <1>6, <2>1, FinishFacts
  <2> QED BY <1>3, <1>4, <2>2 DEF a
<1>8. CASE ~(time >= Duration)
  <2>1. a = k
    BY <1>2, <1>8
  <2>2. NobodyLate(k.territories, time)
    BY <1>3 DEF NobodyLate, Down
  <2> QED BY <1>3, <1>4, <1>5, <2>1, <2>2 DEF a
<1> QED BY <1>7, <1>8

-----------------------------------------------------------------------------
(* The other calls.                                                        *)
LEMMA RecordFacts ==
  ASSUME NEW r, NEW event, NEW time \in Nat, IsReferee(r), r.lastTime <= time
  PROVE  LET a == Record(r, event, time) IN
         /\ IsReferee(a) /\ a.lastTime = time /\ a.reply = "ok" /\ a.match = r.match
         /\ a.territories = r.territories /\ a.outcome = r.outcome
<1> DEFINE e == Enter(r, time)
           a == Record(r, event, time)
           one == <<event>>
<1>1. a = [e EXCEPT !.emitted = one]
  BY DEF Record, Timed, IsReferee
<1>2. e = [ match |-> r.match, territories |-> r.territories, lastTime |-> time,
            outcome |-> r.outcome, emitted |-> <<>>, reply |-> "ok" ]
  BY EnterIs
<1> HIDE DEF e, a, one
<1>3. a = [ match |-> r.match, territories |-> r.territories, lastTime |-> time,
            outcome |-> r.outcome, emitted |-> one, reply |-> "ok" ]
  BY <1>1, <1>2
<1> QED BY <1>3 DEF a, IsReferee

Charged(a, r, time) ==
  /\ IsReferee(a) /\ a.lastTime = time /\ a.reply = "ok" /\ a.match = r.match
  /\ Follows(r.territories, a.territories, time) /\ a.outcome = r.outcome
  /\ \A u \in Territory : a.territories[u].state = r.territories[u].state

LEMMA ChargeFacts ==
  ASSUME NEW r, NEW t \in Territory, NEW units \in Nat, NEW time \in Nat,
         Accepting(r, time)
  PROVE  Charged(Charge(r, t, units, time), r, time)
<1> DEFINE b == r.territories
           e == Enter(r, time)
           left == Spent(units, b[t].resources)
           c == [b EXCEPT ![t] = [b[t] EXCEPT !.resources = left]]
           a == Charge(r, t, units, time)
           one == <<ResourcesChanged(t)>>
<1> SUFFICES Charged(a, r, time)
  OBVIOUS
<1>1. e = [ match |-> r.match, territories |-> b, lastTime |-> time,
            outcome |-> r.outcome, emitted |-> <<>>, reply |-> "ok" ]
  BY EnterIs DEF Accepting
<1>2. a = [e EXCEPT !.territories[t].resources = Spent(units, @), !.emitted = one]
  BY AcceptedIs DEF Charge
<1>3. b \in [Territory -> Records]
  BY DEF Accepting, IsReferee
<1>4. left \in Nat
  BY <1>3 DEF Spent, Records
<1> HIDE DEF e, a, one
<1>5. a = [ match |-> r.match, territories |-> c, lastTime |-> time,
            outcome |-> r.outcome, emitted |-> one, reply |-> "ok" ]
  <2>1. a = [e EXCEPT !.territories = c, !.emitted = one]
    BY <1>1, <1>2
  <2> HIDE DEF c
  <2> QED BY <1>1, <2>1
<1> HIDE DEF left
<1> DEFINE poorer == [b[t] EXCEPT !.resources = left]
<1>6. /\ poorer \in Records /\ poorer.state = b[t].state
      /\ poorer.deadline = b[t].deadline /\ poorer.accounted = b[t].accounted
      /\ poorer.degraded = b[t].degraded
  BY <1>3, <1>4 DEF Records
<1>7. c = [b EXCEPT ![t] = poorer]
  OBVIOUS
<1> HIDE DEF poorer, c
<1>8. /\ c \in [Territory -> Records] /\ c[t] = poorer
      /\ \A u \in Territory \ {t} : c[u] = b[u]
  BY <1>3, <1>6, <1>7
<1>9. \A u \in Territory : Changes(b[u], b[u], time)
  BY DEF Accepting, AllTimely, Timely, Changes, Down
<1>10. Changes(b[t], poorer, time)
  <2>1. Timely(b[t], time)
    BY DEF Accepting, AllTimely
  <2>2. Accrued(poorer, time) = Accrued(b[t], time)
    BY <1>6 DEF Accrued, Down
  <2> QED BY <1>6, <2>1, <2>2 DEF Changes, Timely, Down
<1>11. Follows(b, c, time)
  BY <1>8, <1>9, <1>10 DEF Follows
<1>12. IsReferee(a)
  BY <1>5, <1>8 DEF IsReferee
<1> QED BY <1>5, <1>6, <1>8, <1>11, <1>12 DEF Charged

LEMMA AbortFacts ==
  ASSUME NEW r, NEW time \in Nat, Accepting(r, time)
  PROVE  LET a == Abort(r, time) IN
         /\ IsReferee(a) /\ a.lastTime = time /\ a.reply = "ok" /\ a.match = "aborted"
         /\ a.territories = r.territories /\ a.outcome = r.outcome
<1> DEFINE e == Enter(r, time)
           a == Abort(r, time)
           out == <<[kind |-> "match_state_changed"], MatchFinished(None)>>
<1>1. a = [e EXCEPT !.match = "aborted", !.emitted = out]
  BY AcceptedIs DEF Abort
<1>2. e = [ match |-> r.match, territories |-> r.territories, lastTime |-> time,
            outcome |-> r.outcome, emitted |-> <<>>, reply |-> "ok" ]
  BY EnterIs DEF Accepting
<1> HIDE DEF e, a, out
<1>3. a = [ match |-> "aborted", territories |-> r.territories, lastTime |-> time,
            outcome |-> r.outcome, emitted |-> out, reply |-> "ok" ]
  BY <1>1, <1>2
<1> QED BY <1>3 DEF a, IsReferee, Accepting

LEMMA StartFacts ==
  ASSUME NEW r, IsReferee(r), r.match = "preparing", r.lastTime = 0,
         \A t \in Territory : /\ r.territories[t].state = "provisioning"
                              /\ r.territories[t].deadline = None
                              /\ r.territories[t].accounted = 0
  PROVE  LET a == Start(r) IN
         /\ IsReferee(a) /\ a.lastTime = 0 /\ a.reply = "ok" /\ a.match = "running"
         /\ a.outcome = r.outcome
         /\ Follows(r.territories, a.territories, 0)
         /\ \A t \in Territory : a.territories[t].state = "healthy"
<1> DEFINE c == [t \in Territory |-> [r.territories[t] EXCEPT !.state = "healthy"]]
           a == Start(r)
           out == <<[kind |-> "match_state_changed"]>> \o
             [i \in 1..Len(Ids) |-> TerritoryStateChanged(Ids[i], "provisioning", "healthy")]
<1>1. a = [r EXCEPT !.match = "running", !.territories = c, !.emitted = out, !.reply = "ok"]
  BY DEF Start
<1>2. \A t \in Territory :
         /\ c[t] \in Records /\ c[t].state = "healthy" /\ c[t].deadline = None
         /\ c[t].accounted = 0 /\ c[t].degraded = r.territories[t].degraded
  BY DEF IsReferee, Records, States
<1>3. c \in [Territory -> Records]
  BY <1>2
<1> HIDE DEF c, out, a
<1>4. a = [ match |-> "running", territories |-> c, lastTime |-> r.lastTime,
            outcome |-> r.outcome, emitted |-> out, reply |-> "ok" ]
  BY <1>1 DEF IsReferee
<1>5. ASSUME NEW t \in Territory PROVE Changes(r.territories[t], c[t], 0)
  BY <1>2 DEF Changes, Accrued, Down
<1>6. IsReferee(a)
  BY <1>3, <1>4 DEF IsReferee
<1> QED BY <1>2, <1>3, <1>4, <1>5, <1>6 DEF a, Follows

-----------------------------------------------------------------------------
(* The ranking.  Its key, compared from the first field to the last.       *)
Precedes(a, t, b, u) ==
  \/ a.state # "eliminated" /\ b.state = "eliminated"
  \/ /\ a.state = "eliminated" <=> b.state = "eliminated"
     /\ \/ a.uptime > b.uptime
        \/ a.uptime = b.uptime /\ a.resources > b.resources
        \/ /\ a.uptime = b.uptime /\ a.resources = b.resources
           /\ a.degraded < b.degraded \/ (a.degraded = b.degraded /\ t < u)

LEMMA SortsBeforeIs ==
  ASSUME NEW c \in [Territory -> Records], NEW t \in Territory, NEW u \in Territory
  PROVE  SortsBefore(c, t, u) <=> Precedes(c[t], t, c[u], u)
<1> DEFINE k == Key(c, t)
           l == Key(c, u)
<1>1. SortsBefore(c, t, u) <=>
        \/ k[1] < l[1]
        \/ k[1] = l[1] /\ k[2] < l[2]
        \/ k[1] = l[1] /\ k[2] = l[2] /\ k[3] < l[3]
        \/ k[1] = l[1] /\ k[2] = l[2] /\ k[3] = l[3] /\ k[4] < l[4]
        \/ k[1] = l[1] /\ k[2] = l[2] /\ k[3] = l[3] /\ k[4] = l[4] /\ k[5] < l[5]
  <2> DEFINE First(i) == k[i] < l[i] /\ \A j \in 1..i - 1 : k[j] = l[j]
  <2>1. SortsBefore(c, t, u) <=> \E i \in 1..5 : First(i)
    BY DEF SortsBefore
  <2>2. 1..5 = {1, 2, 3, 4, 5}
    OBVIOUS
  <2> HIDE DEF k, l
  <2>3. First(1) <=> k[1] < l[1]
    OBVIOUS
  <2>4. First(2) <=> k[1] = l[1] /\ k[2] < l[2]
    OBVIOUS
  <2>5. First(3) <=> k[1] = l[1] /\ k[2] = l[2] /\ k[3] < l[3]
    OBVIOUS
  <2>6. First(4) <=> k[1] = l[1] /\ k[2] = l[2] /\ k[3] = l[3] /\ k[4] < l[4]
    OBVIOUS
  <2>7. First(5) <=> k[1] = l[1] /\ k[2] = l[2] /\ k[3] = l[3] /\ k[4] = l[4] /\ k[5] < l[5]
    OBVIOUS
  <2> HIDE DEF First
  <2> QED BY <2>1, <2>2, <2>3, <2>4, <2>5, <2>6, <2>7
<1>2. /\ k[1] = IF c[t].state = "eliminated" THEN 1 ELSE 0
      /\ k[2] = -c[t].uptime /\ k[3] = -c[t].resources /\ k[4] = c[t].degraded /\ k[5] = t
  BY DEF Key
<1>3. /\ l[1] = IF c[u].state = "eliminated" THEN 1 ELSE 0
      /\ l[2] = -c[u].uptime /\ l[3] = -c[u].resources /\ l[4] = c[u].degraded /\ l[5] = u
  BY DEF Key
<1>4. /\ c[t].uptime \in Nat /\ c[t].resources \in Nat /\ c[t].degraded \in Nat
      /\ c[u].uptime \in Nat /\ c[u].resources \in Nat /\ c[u].degraded \in Nat
  BY DEF Records
<1> HIDE DEF k, l
<1> QED BY <1>1, <1>2, <1>3, <1>4 DEF Precedes

LEMMA OneSortsBefore ==
  ASSUME NEW c \in [Territory -> Records], NEW t \in Territory, NEW u \in Territory, t # u
  PROVE  SortsBefore(c, t, u) \/ SortsBefore(c, u, t)
<1>1. t \in Nat /\ u \in Nat
  BY IdsAre
<1>2. /\ c[t].uptime \in Nat /\ c[t].resources \in Nat /\ c[t].degraded \in Nat
      /\ c[u].uptime \in Nat /\ c[u].resources \in Nat /\ c[u].degraded \in Nat
  BY DEF Records
<1>3. Precedes(c[t], t, c[u], u) \/ Precedes(c[u], u, c[t], t)
  BY <1>1, <1>2 DEF Precedes
<1> QED BY <1>3, SortsBeforeIs

LEMMA SortsBeforeThrough ==
  ASSUME NEW c \in [Territory -> Records], NEW t \in Territory, NEW u \in Territory,
         NEW v \in Territory, SortsBefore(c, t, u), SortsBefore(c, u, v)
  PROVE  SortsBefore(c, t, v)
<1>1. t \in Nat /\ u \in Nat /\ v \in Nat
  BY IdsAre
<1>2. /\ c[t].uptime \in Nat /\ c[t].resources \in Nat /\ c[t].degraded \in Nat
      /\ c[u].uptime \in Nat /\ c[u].resources \in Nat /\ c[u].degraded \in Nat
      /\ c[v].uptime \in Nat /\ c[v].resources \in Nat /\ c[v].degraded \in Nat
  BY DEF Records
<1>3. Precedes(c[t], t, c[u], u) /\ Precedes(c[u], u, c[v], v)
  BY SortsBeforeIs
<1>4. Precedes(c[t], t, c[v], v)
  BY <1>1, <1>2, <1>3 DEF Precedes
<1> QED BY <1>4, SortsBeforeIs

(* Among the territories of any set one sorts before all others.           *)
Leads(c, P, m) == m \in P /\ \A u \in P \ {m} : SortsBefore(c, m, u)

LEMMA LeaderOf ==
  ASSUME NEW c \in [Territory -> Records], NEW P \in SUBSET Territory, P # {}
  PROVE  Leads(c, P, FirstOf(c, P))
<1> DEFINE Among(n) == {Ids[i] : i \in {j \in 1..Len(Ids) : j <= n}}
           S == {n \in Nat : \A Q \in SUBSET Territory :
                   Q # {} /\ Q \subseteq Among(n) => \E m : Leads(c, Q, m)}
<1>1. 0 \in S
  <2>1. Among(0) = {}
    OBVIOUS
  <2> QED BY <2>1
<1>2. ASSUME NEW n \in Nat, n \in S PROVE n + 1 \in S
  <2>1. SUFFICES ASSUME NEW Q \in SUBSET Territory, Q # {}, Q \subseteq Among(n + 1)
                 PROVE  \E m : Leads(c, Q, m)
    OBVIOUS
  <2>2. \A R \in SUBSET Territory :
          R # {} /\ R \subseteq Among(n) => \E m : Leads(c, R, m)
    BY <1>2
  <2> DEFINE last == Ids[n + 1]
             R == Q \ {last}
  <2>3. R \in SUBSET Territory /\ R \subseteq Among(n)
    <3>1. ASSUME NEW t \in R PROVE t \in Among(n)
      <4>1. PICK i \in 1..Len(Ids) : i <= n + 1 /\ t = Ids[i]
        BY <2>1
      <4>2. i # n + 1
        BY <4>1
      <4> QED BY <4>1, <4>2, IdsAre
    <3> QED BY <3>1
  <2> HIDE DEF Among, last
  <2>4. CASE R = {}
    <3>1. Q = {last}
      BY <2>1, <2>4
    <3> QED BY <3>1 DEF Leads
  <2>5. CASE R # {}
    <3>1. PICK m : Leads(c, R, m)
      BY <2>2, <2>3, <2>5
    <3>2. m \in R /\ m \in Territory
      BY <3>1 DEF Leads
    <3>3. CASE last \notin Q
      <4>1. R = Q
        BY <3>3
      <4> QED BY <3>1, <4>1
    <3>4. CASE last \in Q /\ SortsBefore(c, m, last)
      BY <3>1, <3>4 DEF Leads
    <3>5. CASE last \in Q /\ ~SortsBefore(c, m, last)
      <4>1. last \in Territory /\ m # last
        BY <2>1, <3>2, <3>5
      <4>2. SortsBefore(c, last, m)
        BY <3>2, <3>5, <4>1, OneSortsBefore
      <4>3. ASSUME NEW u \in Q, u # last PROVE SortsBefore(c, last, u)
        BY <2>1, <3>1, <3>2, <4>1, <4>2, <4>3, SortsBeforeThrough DEF Leads
      <4>4. Leads(c, Q, last)
        BY <3>5, <4>3 DEF Leads
      <4> QED BY <4>4
    <3> QED BY <3>3, <3>4, <3>5
  <2> QED BY <2>4, <2>5
<1>3. P \subseteq Among(Len(Ids))
  BY IdsAre
<1> HIDE DEF S, Among
<1>4. \A n \in Nat : n \in S
  BY <1>1, <1>2, SetInduction
<1>5. Len(Ids) \in S
  BY <1>4, IdsAre
<1>6. \E m \in P : \A u \in P \ {m} : SortsBefore(c, m, u)
  BY <1>3, <1>5 DEF S, Leads
<1> QED BY <1>6 DEF FirstOf, Leads

LEMMA WinnerType ==
  ASSUME NEW c \in [Territory -> Records]
  PROVE  Winner(c) \in Territory \cup {None} /\ [winner |-> Winner(c)] # None
<1>1. Territory # {}
  BY IdsAre
<1>2. FirstOf(c, Territory) \in Territory
  BY <1>1, LeaderOf DEF Leads
<1>3. Winner(c) \in Territory \cup {None}
  BY <1>2 DEF Winner
<1> QED BY <1>3, NoneIsNothing

-----------------------------------------------------------------------------
(* The invariant.  A record and the history of its territory: when it went *)
(* down and for how long it has been down in all.                          *)
Tracked(c, d, now) ==
  /\ Timely(c, now)
  /\ d.total = Accrued(c, now)
  /\ Down(c) => d.since \in Nat /\ c.deadline = d.since + Window
  /\ c.state = "eliminated" => d.since \in Nat /\ now - d.since >= Window
  /\ c.state \in {"provisioning", "healthy"} => d.since = None

Phases == {"boot", "loop", "probe", "power_off", "record", "done", "failed"}
Playing == {"loop", "probe", "power_off", "record"}

TypeOK ==
  /\ IsReferee(referee)
  /\ pc \in Phases
  /\ clock \in Nat /\ elapsed \in Nat /\ elapsed <= clock
  /\ turn \in 1..Len(Ids) + 1
  /\ powered \subseteq Territory
  /\ DOMAIN downtime = Territory

(* The referee accepts what the runner asks, and has an outcome exactly    *)
(* when at most one territory is left or the timer has ended the match.    *)
MatchOK ==
  /\ pc = "boot" =>
       /\ referee.match = "preparing" /\ referee.lastTime = 0 /\ ~Over
       /\ \A t \in Territory : /\ referee.territories[t].state = "provisioning"
                               /\ referee.territories[t].deadline = None
                               /\ referee.territories[t].accounted = 0
  /\ pc \in Playing =>
       /\ referee.match = IF Over THEN "finished" ELSE "running"
       /\ referee.lastTime <= elapsed
  /\ ~Over => ~LastStanding(referee.territories)
  /\ Over => referee.outcome = [winner |-> Winner(referee.territories)]

DowntimeOK == \A t \in Territory : Tracked(referee.territories[t], downtime[t], referee.lastTime)

PoweredOK ==
  /\ pc \in {"boot", "loop", "probe", "record"} => powered = Active(referee.territories)
  /\ pc = "power_off" => /\ turn <= Len(Ids)
                         /\ powered \ {Ids[turn]} = Active(referee.territories)

(* Whoever has been looked at in this round and is still down has time.    *)
InTime(t) == Down(referee.territories[t]) => referee.territories[t].deadline > elapsed

WindowOK ==
  ~Over =>
    /\ pc \in {"loop", "record"} => \A t \in Territory : InTime(t)
    /\ pc \in {"probe", "power_off"} =>
         \A i \in 1..Len(Ids) : i < turn \/ (pc = "power_off" /\ i = turn) => InTime(Ids[i])

Inv == TypeOK /\ MatchOK /\ DowntimeOK /\ PoweredOK /\ WindowOK

-----------------------------------------------------------------------------
LEMMA TerritoryCount == IsFiniteSet(Territory) /\ Cardinality(Territory) = Len(Ids)
<1> DEFINE f == [i \in 1..Len(Ids) |-> Ids[i]]
<1>1. IsFiniteSet(1..Len(Ids)) /\ Cardinality(1..Len(Ids)) = Len(Ids)
  BY IdsAre, FS_Interval
<1>2. f \in [1..Len(Ids) -> Territory]
  BY IdsAre
<1>3. f \in Injection(1..Len(Ids), Territory)
  BY <1>2, IdsAre DEF Injection, IsInjective
<1>4. f \in Surjection(1..Len(Ids), Territory)
  BY <1>2, IdsAre DEF Surjection
<1>5. f \in Bijection(1..Len(Ids), Territory)
  BY <1>3, <1>4 DEF Bijection
<1> HIDE DEF f
<1> QED BY <1>1, <1>5, FS_Bijection DEF ExistsBijection

LEMMA ActiveFacts ==
  ASSUME NEW territories
  PROVE  /\ IsFiniteSet(Active(territories))
         /\ Cardinality(Active(territories)) \in Nat
<1>1. IsFiniteSet(Active(territories))
  BY TerritoryCount, FS_Subset DEF Active
<1> QED BY <1>1, FS_CardinalityType

LEMMA TrackedStep ==
  ASSUME NEW b, NEW a, NEW d, NEW d2, NEW last \in Nat, NEW time \in Nat, last <= time,
         Tracked(b, d, last), Changes(b, a, time),
         d2.total = d.total + IF Down(b) THEN time - last ELSE 0,
         d2.since = IF ~Down(a) /\ a.state # "eliminated" THEN None
                    ELSE IF d.since = None THEN time ELSE d.since
  PROVE  Tracked(a, d2, time)
<1>1. Timely(b, time)
  BY DEF Tracked, Timely, Records
<1>2. Timely(a, time)
  BY <1>1, ChangedIsTimely
<1>3. d2.total = Accrued(a, time)
  <2>1. Accrued(a, time) = Accrued(b, time)
    BY DEF Changes
  <2>2. CASE Down(b)
    BY <2>1, <2>2 DEF Tracked, Accrued, Timely, Records
  <2>3. CASE ~Down(b)
    BY <2>1, <2>3 DEF Tracked, Accrued, Timely, Records
  <2> QED BY <2>2, <2>3
<1>4. b.state \in States /\ a.state \in States
  BY <1>1, <1>2 DEF Timely, Records
<1>5. Down(a) => d2.since \in Nat /\ a.deadline = d2.since + Window
  <2> SUFFICES ASSUME Down(a) PROVE d2.since \in Nat /\ a.deadline = d2.since + Window
    OBVIOUS
  <2>1. CASE Down(b)
    BY <2>1, NoneIsNothing DEF Tracked, Changes
  <2>2. CASE ~Down(b)
    BY <1>4, <2>2 DEF Tracked, Changes, States, Down
  <2> QED BY <2>1, <2>2
<1>6. a.state = "eliminated" => d2.since \in Nat /\ time - d2.since >= Window
  <2> SUFFICES ASSUME a.state = "eliminated"
               PROVE  d2.since \in Nat /\ time - d2.since >= Window
    OBVIOUS
  <2>1. Window \in Nat
    BY ConquestConstants
  <2>2. d.since \in Nat /\ d2.since = d.since
    BY NoneIsNothing DEF Tracked, Changes
  <2>3. CASE Down(b)
    BY <2>1, <2>2, <2>3 DEF Tracked, Changes, Down
  <2>4. CASE b.state = "eliminated"
    BY <2>1, <2>2, <2>4 DEF Tracked
  <2> QED BY <2>3, <2>4 DEF Changes
<1>7. a.state \in {"provisioning", "healthy"} => d2.since = None
  BY DEF Down
<1> QED BY <1>2, <1>3, <1>5, <1>6, <1>7 DEF Tracked

(* Every accepted call keeps the history in step with the records.         *)
LEMMA CallTracks ==
  ASSUME Inv, IsReferee(referee'), referee.lastTime <= referee'.lastTime, Track,
         Follows(referee.territories, referee'.territories, referee'.lastTime)
  PROVE  DowntimeOK' /\ DOMAIN downtime' = Territory
<1> DEFINE last == referee.lastTime
           time == referee'.lastTime
<1>1. last \in Nat /\ time \in Nat /\ last <= time
  BY DEF Inv, TypeOK, IsReferee
<1>2. ASSUME NEW t \in Territory
      PROVE  Tracked(referee'.territories[t], downtime'[t], time)
  <2> DEFINE b == referee.territories[t]
             a == referee'.territories[t]
             d == downtime[t]
             d2 == downtime'[t]
  <2>1. /\ d2.total = d.total + IF Down(b) THEN time - last ELSE 0
        /\ d2.since = IF ~Down(a) /\ a.state # "eliminated" THEN None
                      ELSE IF d.since = None THEN time ELSE d.since
    BY DEF Track
  <2>2. Tracked(b, d, last) /\ Changes(b, a, time)
    BY DEF Inv, DowntimeOK, Follows
  <2> HIDE DEF a, b, d, d2, last, time
  <2>3. Tracked(a, d2, time)
    BY <1>1, <2>1, <2>2, TrackedStep
  <2> QED BY <2>3 DEF a, d2, time
<1>3. DOMAIN downtime' = Territory
  BY DEF Track
<1> QED BY <1>2, <1>3 DEF DowntimeOK

LEMMA InitInv == Init => Inv
<1> SUFFICES ASSUME Init PROVE Inv
  OBVIOUS
<1> DEFINE fresh == [ state |-> "provisioning", failures |-> 0, recoveries |-> 0,
                      deadline |-> None, accounted |-> 0, degraded |-> 0, uptime |-> 0,
                      resources |-> Budget ]
<1>1. fresh \in Records
  BY ConquestConstants DEF Records, States
<1>2. /\ referee = [ match |-> "preparing", territories |-> [t \in Territory |-> fresh],
                     lastTime |-> 0, outcome |-> None, emitted |-> <<>>, reply |-> "ok" ]
      /\ downtime = [t \in Territory |-> [since |-> None, total |-> 0]]
      /\ pc = "boot" /\ clock = 0 /\ elapsed = 0 /\ turn = 1 /\ powered = Territory
  BY DEF Init, Fresh
<1>3. /\ fresh.state = "provisioning" /\ fresh.deadline = None
      /\ fresh.accounted = 0 /\ fresh.degraded = 0
  OBVIOUS
<1> HIDE DEF fresh
<1>4. \A t \in Territory : referee.territories[t] = fresh
  BY <1>2
<1>5. IsReferee(referee)
  BY <1>1, <1>2 DEF IsReferee
<1>6. TypeOK
  BY <1>2, <1>5, IdsAre DEF TypeOK, Phases
<1>7. DowntimeOK
  BY <1>1, <1>2, <1>3, <1>4 DEF DowntimeOK, Tracked, Timely, Accrued, Down
<1>8. Active(referee.territories) = Territory
  BY <1>3, <1>4 DEF Active
<1>9. ~LastStanding(referee.territories)
  BY <1>8, IdsAre, TerritoryCount DEF LastStanding
<1>10. MatchOK
  BY <1>2, <1>3, <1>4, <1>9 DEF MatchOK, Over, Playing
<1>11. PoweredOK /\ WindowOK
  BY <1>2, <1>8 DEF PoweredOK, WindowOK
<1> QED BY <1>6, <1>7, <1>10, <1>11 DEF Inv

LEMMA BootInv ==
  ASSUME Inv, Boot
  PROVE  Inv'
<1> DEFINE a == Start(referee)
<1>1. /\ IsReferee(a) /\ a.lastTime = 0 /\ a.reply = "ok" /\ a.match = "running"
      /\ a.outcome = referee.outcome
      /\ Follows(referee.territories, a.territories, 0)
      /\ \A t \in Territory : a.territories[t].state = "healthy"
  BY StartFacts DEF Inv, TypeOK, MatchOK, Boot
<1>2. referee' = a /\ Track /\ UNCHANGED <<clock, elapsed, turn, results, powered>>
  BY DEF Boot, Call
<1>3. pc' = "loop"
  BY <1>1 DEF Boot, Call
<1> HIDE DEF a
<1>4. referee.lastTime = 0 /\ ~Over /\ ~Over'
  BY <1>1, <1>2 DEF Inv, MatchOK, Boot, Over
<1>5. DowntimeOK' /\ DOMAIN downtime' = Territory
  BY <1>1, <1>2, <1>4, CallTracks
<1>6. TypeOK'
  BY <1>1, <1>2, <1>3, <1>5 DEF Inv, TypeOK, Phases
<1>7. Active(referee.territories) = Territory /\ Active(referee'.territories) = Territory
  BY <1>1, <1>2 DEF Active, Inv, MatchOK, Boot
<1>8. MatchOK'
  BY <1>1, <1>2, <1>3, <1>4, <1>7 DEF Inv, TypeOK, MatchOK, LastStanding, Playing
<1>9. PoweredOK'
  BY <1>2, <1>3, <1>7 DEF Inv, PoweredOK, Boot
<1>10. WindowOK'
  BY <1>1, <1>2, <1>3 DEF WindowOK, InTime, Down
<1> QED BY <1>5, <1>6, <1>8, <1>9, <1>10 DEF Inv

(* Steps that call nothing leave the referee and the history alone.        *)
LEMMA QuietInv ==
  ASSUME Inv, UNCHANGED <<referee, downtime>>, TypeOK', PoweredOK', WindowOK',
         pc' # "boot", pc' \in Playing => pc \in Playing /\ elapsed <= elapsed'
  PROVE  Inv'
<1>1. Over' = Over
  BY DEF Over
<1>2. DowntimeOK'
  BY DEF Inv, DowntimeOK
<1>3. MatchOK'
  <2>1. pc' \in Playing => referee.lastTime <= elapsed'
    BY DEF Inv, TypeOK, IsReferee, MatchOK
  <2> QED BY <1>1, <2>1 DEF Inv, MatchOK, Playing
<1> QED BY <1>2, <1>3 DEF Inv

LEMMA RoundInv ==
  ASSUME Inv, Round
  PROVE  Inv'
<1>1. UNCHANGED <<referee, downtime, powered>> /\ pc = "loop" /\ pc' = "probe" /\ turn' = 1
  BY DEF Round, NoCall
<1>2. clock' = clock + 1 /\ elapsed' = clock'
  BY DEF Round
<1>3. TypeOK' /\ elapsed <= elapsed'
  BY <1>1, <1>2, IdsAre DEF Inv, TypeOK, Phases
<1>4. PoweredOK' /\ WindowOK'
  BY <1>1, IdsAre DEF Inv, PoweredOK, WindowOK
<1> QED BY <1>1, <1>3, <1>4, QuietInv DEF Playing

(* Between the first call and the outcome the referee accepts whatever     *)
(* comes no earlier than its last call.                                    *)
LEMMA Accepts ==
  ASSUME Inv, pc \in Playing, ~Over, NEW time \in Nat, elapsed <= time
  PROVE  Accepting(referee, time)
<1>1. referee.match = "running" /\ referee.lastTime <= elapsed
  BY DEF Inv, MatchOK
<1>2. IsReferee(referee) /\ referee.lastTime \in Nat /\ elapsed \in Nat
  BY DEF Inv, TypeOK, IsReferee
<1>3. ASSUME NEW t \in Territory PROVE Timely(referee.territories[t], time)
  <2>1. Timely(referee.territories[t], referee.lastTime)
    BY DEF Inv, DowntimeOK, Tracked
  <2> QED BY <1>1, <1>2, <2>1 DEF Timely, Records
<1> QED BY <1>1, <1>2, <1>3 DEF Accepting, AllTimely, IsReferee

LEMMA InterruptInv ==
  ASSUME Inv, Interrupt
  PROVE  Inv'
<1> DEFINE a == Abort(referee, clock)
<1>1. Accepting(referee, clock)
  BY Accepts DEF Inv, TypeOK, Interrupt, Playing
<1>2. /\ IsReferee(a) /\ a.lastTime = clock /\ a.reply = "ok" /\ a.match = "aborted"
      /\ a.territories = referee.territories /\ a.outcome = referee.outcome
  BY <1>1, AbortFacts DEF Inv, TypeOK
<1>3. referee' = a /\ Track /\ UNCHANGED <<clock, elapsed, turn, results, powered>>
  BY DEF Interrupt, Call
<1>4. pc' = "done"
  BY <1>2 DEF Interrupt, Call
<1> HIDE DEF a
<1>5. Over' = Over
  BY <1>2, <1>3 DEF Over
<1>6. Follows(referee.territories, referee'.territories, referee'.lastTime)
  BY <1>1, <1>2, <1>3 DEF Accepting, IsReferee, AllTimely, Timely, Follows, Changes, Down
<1>7. DowntimeOK' /\ DOMAIN downtime' = Territory
  BY <1>1, <1>2, <1>3, <1>6, CallTracks DEF Accepting
<1>8. TypeOK'
  BY <1>2, <1>3, <1>4, <1>7 DEF Inv, TypeOK, Phases
<1>9. MatchOK'
  BY <1>2, <1>3, <1>4, <1>5 DEF Inv, MatchOK, Playing
<1>10. PoweredOK' /\ WindowOK'
  BY <1>4 DEF PoweredOK, WindowOK
<1> QED BY <1>7, <1>8, <1>9, <1>10 DEF Inv

LEMMA OverIs ==
  ASSUME IsReferee(referee'),
         referee'.outcome = [winner |-> Winner(referee'.territories)]
  PROVE  Over'
BY WinnerType DEF Over, IsReferee

(* The window of who is still down after a call is the one it had before.  *)
LEMMA StaysInTime ==
  ASSUME NEW t \in Territory, InTime(t), referee'.territories[t].state = referee.territories[t].state,
         Changes(referee.territories[t], referee'.territories[t], referee'.lastTime),
         UNCHANGED elapsed
  PROVE  InTime(t)'
BY DEF InTime, Changes, Down

LEMMA ProbeInv ==
  ASSUME Inv, NEW healthy \in BOOLEAN, Probe(healthy)
  PROVE  Inv'
<1>0. PICK t : t = Ids[turn]
  OBVIOUS
<1> DEFINE a == Observe(referee, t, healthy, elapsed)
<1>1. t \in Territory /\ turn \in 1..Len(Ids) /\ pc = "probe" /\ ~Over
  BY <1>0, IdsAre DEF Inv, TypeOK, Probe
<1>2. elapsed \in Nat /\ Accepting(referee, elapsed)
  BY <1>1, Accepts DEF Inv, TypeOK, Playing
<1>3. Observed(a, referee, t, elapsed)
  BY <1>1, <1>2, ObserveFacts
<1>4. /\ IsReferee(a) /\ a.lastTime = elapsed /\ a.reply = "ok"
      /\ Follows(referee.territories, a.territories, elapsed)
      /\ \A u \in Territory \ {t} : a.territories[u].state = referee.territories[u].state
  BY <1>3 DEF Observed
<1>5. /\ referee' = a /\ Track /\ UNCHANGED <<clock, elapsed, powered>>
      /\ pc' = IF Announces(a, t) THEN "power_off" ELSE "probe"
      /\ turn' = IF Announces(a, t) THEN turn ELSE turn + 1
  BY <1>0, <1>4 DEF Probe, Call, Announces
<1> HIDE DEF a
<1>6. DowntimeOK' /\ DOMAIN downtime' = Territory
  BY <1>2, <1>4, <1>5, CallTracks DEF Accepting
<1>7. TypeOK'
  BY <1>1, <1>4, <1>5, <1>6, IdsAre DEF Inv, TypeOK, Phases
<1>8. powered = Active(referee.territories)
  BY <1>1 DEF Inv, PoweredOK
<1>9. ASSUME NEW u \in Territory \ {t}, InTime(u) PROVE InTime(u)'
  BY <1>4, <1>5, <1>9, StaysInTime DEF Follows
<1>10. \A i \in 1..Len(Ids) : i < turn => Ids[i] \in Territory \ {t} /\ InTime(Ids[i])
  BY <1>0, <1>1, IdsAre DEF Inv, WindowOK
<1>11. CASE ~Announces(a, t)
  <2>1. /\ a.match = "running" /\ a.outcome = referee.outcome
        /\ Lives(a, t) <=> Lives(referee, t)
        /\ Down(a.territories[t]) => a.territories[t].deadline > elapsed
    BY <1>3, <1>11 DEF Observed
  <2>2. Over' = Over
    BY <1>5, <2>1 DEF Over
  <2>3. Active(referee'.territories) = Active(referee.territories)
    BY <1>1, <1>4, <1>5, <2>1 DEF Active, Lives
  <2>4. MatchOK'
    BY <1>1, <1>2, <1>4, <1>5, <1>11, <2>1, <2>2, <2>3
       DEF Inv, MatchOK, Playing, LastStanding
  <2>5. PoweredOK'
    BY <1>5, <1>8, <1>11, <2>3 DEF PoweredOK
  <2>6. InTime(t)'
    BY <1>5, <2>1 DEF InTime
  <2>7. ASSUME NEW i \in 1..Len(Ids), i < turn + 1 PROVE InTime(Ids[i])'
    <3>1. CASE i = turn
      BY <1>0, <2>6, <3>1
    <3>2. CASE i # turn
      BY <1>1, <1>9, <1>10, <2>7, <3>2
    <3> QED BY <3>1, <3>2
  <2>8. WindowOK'
    BY <1>5, <1>11, <2>7 DEF WindowOK
  <2> QED BY <1>6, <1>7, <2>4, <2>5, <2>8 DEF Inv
<1>12. CASE Announces(a, t)
  <2>1. /\ Lives(referee, t) /\ ~Lives(a, t)
        /\ \/ a.match = referee.match /\ a.outcome = referee.outcome
              /\ ~LastStanding(a.territories)
           \/ a.match = "finished" /\ a.outcome = [winner |-> Winner(a.territories)]
    BY <1>3, <1>12 DEF Observed
  <2>2. Active(referee'.territories) = Active(referee.territories) \ {t}
    BY <1>1, <1>4, <1>5, <2>1 DEF Active, Lives
  <2>3. PoweredOK'
    BY <1>0, <1>1, <1>5, <1>8, <1>12, <2>2 DEF PoweredOK
  <2>4. MatchOK'
    <3>1. pc' = "power_off" /\ referee'.lastTime <= elapsed'
      BY <1>2, <1>4, <1>5, <1>12
    <3>2. CASE a.match = referee.match /\ a.outcome = referee.outcome
               /\ ~LastStanding(a.territories)
      <4>1. referee.match = "running" /\ ~Over'
        BY <1>1, <1>5, <3>2 DEF Inv, MatchOK, Playing, Over
      <4> QED BY <1>5, <3>1, <3>2, <4>1 DEF MatchOK
    <3>3. CASE a.match = "finished" /\ a.outcome = [winner |-> Winner(a.territories)]
      <4>1. Over'
        BY <1>4, <1>5, <3>3, OverIs
      <4> QED BY <1>5, <3>1, <3>3, <4>1 DEF MatchOK
    <3> QED BY <2>1, <3>2, <3>3
  <2>5. InTime(t)'
    BY <1>5, <2>1 DEF InTime, Lives, Down
  <2>6. ASSUME NEW i \in 1..Len(Ids), i < turn \/ i = turn PROVE InTime(Ids[i])'
    BY <1>0, <1>9, <1>10, <2>5, <2>6
  <2>7. WindowOK'
    BY <1>5, <1>12, <2>6 DEF WindowOK
  <2> QED BY <1>6, <1>7, <2>3, <2>4, <2>7 DEF Inv
<1> QED BY <1>11, <1>12

LEMMA PowerOffInv ==
  ASSUME Inv, PowerOff
  PROVE  Inv'
<1>1. /\ UNCHANGED <<referee, downtime, clock, elapsed, results>>
      /\ pc = "power_off" /\ pc' \in {"probe", "failed"}
      /\ powered' = powered \ {Ids[turn]} /\ turn' = turn + 1
  BY DEF PowerOff, NoCall
<1>2. turn \in 1..Len(Ids) /\ turn' \in 1..Len(Ids) + 1
  BY <1>1, IdsAre DEF Inv, TypeOK, PoweredOK
<1>3. TypeOK'
  BY <1>1, <1>2 DEF Inv, TypeOK, Phases
<1>4. PoweredOK'
  BY <1>1, <1>2 DEF Inv, PoweredOK
<1>5. WindowOK'
  <2>1. Over' = Over
    BY <1>1 DEF Over
  <2>2. ASSUME NEW i \in 1..Len(Ids), i < turn + 1, ~Over PROVE InTime(Ids[i])'
    <3>1. InTime(Ids[i])
      BY <1>1, <1>2, <2>2 DEF Inv, WindowOK
    <3> QED BY <1>1, <3>1 DEF InTime
  <2> QED BY <1>1, <2>1, <2>2 DEF WindowOK
<1>6. elapsed \in Nat /\ elapsed' = elapsed
  BY <1>1 DEF Inv, TypeOK
<1> QED BY <1>1, <1>3, <1>4, <1>5, <1>6, QuietInv DEF Playing

(* After a call that leaves everybody in the state they were in.           *)
LEMMA SameStates ==
  ASSUME NEW b, NEW a, \A t \in Territory : a[t].state = b[t].state
  PROVE  Active(a) = Active(b)
BY DEF Active

LEMMA ProbesDoneInv ==
  ASSUME Inv, ProbesDone
  PROVE  Inv'
<1> DEFINE a == Tick(referee, elapsed)
           next == IF results = "finished" THEN "record" ELSE "loop"
<1>1. /\ pc = "probe" /\ clock' \in clock..elapsed + Overrun /\ turn' = 1
      /\ UNCHANGED <<elapsed, results, powered>>
      /\ IF Over THEN NoCall(next) ELSE Call(a, next)
      /\ next \in {"record", "loop"}
  BY DEF ProbesDone
<1>2. clock' \in Nat /\ elapsed \in Nat /\ elapsed <= clock' /\ turn' \in 1..Len(Ids) + 1
  BY <1>1, IdsAre, RunnerConstants DEF Inv, TypeOK
<1>3. powered = Active(referee.territories)
  BY <1>1 DEF Inv, PoweredOK
<1> HIDE DEF a, next
<1>4. CASE Over
  <2>1. UNCHANGED <<referee, downtime>> /\ pc' \in {"record", "loop"}
    BY <1>1, <1>4 DEF NoCall
  <2>2. TypeOK'
    BY <1>1, <1>2, <2>1 DEF Inv, TypeOK, Phases
  <2>3. PoweredOK' /\ WindowOK'
    BY <1>1, <1>3, <1>4, <2>1 DEF PoweredOK, WindowOK, Over
  <2> QED BY <1>1, <1>2, <2>1, <2>2, <2>3, QuietInv DEF Playing
<1>5. CASE ~Over
  <2>1. Accepting(referee, elapsed)
    BY <1>1, <1>2, <1>5, Accepts DEF Playing
  <2>2. NobodyLate(referee.territories, elapsed)
    <3>1. turn > Len(Ids)
      BY <1>5 DEF ProbesDone
    <3>2. \A i \in 1..Len(Ids) : InTime(Ids[i])
      BY <1>1, <1>5, <3>1, IdsAre DEF Inv, TypeOK, WindowOK
    <3> QED BY <3>2, IdsAre DEF NobodyLate, InTime
  <2>3. /\ IsReferee(a) /\ a.lastTime = elapsed /\ a.reply = "ok"
        /\ Follows(referee.territories, a.territories, elapsed)
        /\ \A t \in Territory : a.territories[t].state = referee.territories[t].state
        /\ \/ /\ a.match = "running" /\ a.outcome = referee.outcome
              /\ NobodyLate(a.territories, elapsed)
           \/ a.match = "finished" /\ a.outcome = [winner |-> Winner(a.territories)]
    BY <1>2, <2>1, <2>2, TickFacts DEF a
  <2>4. referee' = a /\ Track /\ pc' \in {"record", "loop"}
    BY <1>1, <1>5, <2>3 DEF Call
  <2>5. DowntimeOK' /\ DOMAIN downtime' = Territory
    BY <2>1, <2>3, <2>4, CallTracks DEF Accepting
  <2>6. TypeOK'
    BY <1>1, <1>2, <2>3, <2>4, <2>5 DEF Inv, TypeOK, Phases
  <2>7. Active(referee'.territories) = Active(referee.territories)
    BY <2>3, <2>4, SameStates
  <2>8. PoweredOK'
    BY <1>1, <1>3, <2>4, <2>7 DEF PoweredOK
  <2>9. CASE a.match = "running" /\ a.outcome = referee.outcome
             /\ NobodyLate(a.territories, elapsed)
    <3>1. Over' = Over
      BY <2>4, <2>9 DEF Over
    <3>2. MatchOK'
      BY <1>1, <1>2, <1>5, <2>3, <2>4, <2>7, <2>9, <3>1
         DEF Inv, MatchOK, LastStanding, Playing
    <3>3. WindowOK'
      BY <1>1, <2>4, <2>9 DEF WindowOK, NobodyLate, InTime
    <3> QED BY <2>5, <2>6, <2>8, <3>2, <3>3 DEF Inv
  <2>10. CASE a.match = "finished" /\ a.outcome = [winner |-> Winner(a.territories)]
    <3>1. Over'
      BY <2>3, <2>4, <2>10, OverIs
    <3>2. MatchOK'
      BY <1>1, <1>2, <2>3, <2>4, <2>10, <3>1 DEF MatchOK
    <3>3. WindowOK'
      BY <3>1 DEF WindowOK
    <3> QED BY <2>5, <2>6, <2>8, <3>2, <3>3 DEF Inv
  <2> QED BY <2>3, <2>9, <2>10
<1> QED BY <1>4, <1>5

LEMMA RecordResultInv ==
  ASSUME Inv, RecordResult
  PROVE  Inv'
<1> DEFINE event == [kind |-> "agent_finished"]
           r == Record(referee, event, elapsed)
           t == Ids[turn]
           a == IF Over THEN r ELSE Charge(r, t, Units[t], elapsed)
<1>1. pc = "record" /\ t \in Territory /\ turn \in 1..Len(Ids)
  BY IdsAre DEF Inv, TypeOK, RecordResult
<1>2. elapsed \in Nat /\ IsReferee(referee) /\ referee.lastTime <= elapsed
  BY <1>1 DEF Inv, TypeOK, MatchOK, Playing
<1>3. /\ IsReferee(r) /\ r.lastTime = elapsed /\ r.reply = "ok" /\ r.match = referee.match
      /\ r.territories = referee.territories /\ r.outcome = referee.outcome
  BY <1>2, RecordFacts
<1> HIDE DEF r, event
<1>4. ASSUME NEW u \in Territory PROVE Timely(referee.territories[u], elapsed)
  <2>1. Timely(referee.territories[u], referee.lastTime) /\ referee.lastTime \in Nat
    BY <1>2 DEF Inv, DowntimeOK, Tracked, IsReferee
  <2> QED BY <1>2, <2>1 DEF Timely, Records
<1>5. /\ IsReferee(a) /\ a.lastTime = elapsed /\ a.reply = "ok" /\ a.match = referee.match
      /\ Follows(referee.territories, a.territories, elapsed)
      /\ a.outcome = referee.outcome
      /\ \A u \in Territory : a.territories[u].state = referee.territories[u].state
      /\ Over => a.territories = referee.territories
  <2>1. CASE Over
    <3>1. Follows(referee.territories, r.territories, elapsed)
      BY <1>2, <1>3, <1>4 DEF Follows, Changes, Timely, Down, IsReferee
    <3>2. a = r
      BY <2>1
    <3> QED BY <1>3, <3>1, <3>2
  <2>2. CASE ~Over
    <3> DEFINE c == Charge(r, t, Units[t], elapsed)
    <3>1. Units[t] \in Nat
      BY <1>1, RunnerConstants
    <3>2. referee.match = "running"
      BY <1>1, <2>2 DEF Inv, MatchOK, Playing
    <3>3. Accepting(r, elapsed)
      BY <1>2, <1>3, <1>4, <3>2 DEF Accepting, AllTimely, IsReferee
    <3>4. Charged(c, r, elapsed)
      BY <1>1, <1>2, <3>1, <3>3, ChargeFacts
    <3>5. a = c
      BY <2>2
    <3> HIDE DEF c, a
    <3> QED BY <1>3, <2>2, <3>4, <3>5 DEF Charged
  <2> QED BY <2>1, <2>2
<1>6. /\ referee' = a /\ Track /\ turn' = turn + 1
      /\ UNCHANGED <<clock, elapsed, results, powered>> /\ pc' = "record"
  BY <1>5 DEF RecordResult, Call, r, event
<1>7. Over' = Over
  BY <1>5, <1>6 DEF Over
<1> HIDE DEF a
<1>8. Follows(referee.territories, referee'.territories, referee'.lastTime)
  BY <1>5, <1>6
<1>9. DowntimeOK' /\ DOMAIN downtime' = Territory
  BY <1>2, <1>5, <1>6, <1>8, CallTracks
<1>10. TypeOK'
  BY <1>1, <1>5, <1>6, <1>9, IdsAre DEF Inv, TypeOK, Phases
<1>11. Active(referee'.territories) = Active(referee.territories)
  BY <1>5, <1>6, SameStates
<1>12. MatchOK'
  <2>1. ~Over' => ~LastStanding(referee'.territories)
    BY <1>7, <1>11 DEF Inv, MatchOK, LastStanding
  <2>2. Over' => referee'.outcome = [winner |-> Winner(referee'.territories)]
    BY <1>5, <1>6, <1>7 DEF Inv, MatchOK
  <2> QED BY <1>1, <1>2, <1>5, <1>6, <1>7, <2>1, <2>2 DEF Inv, MatchOK, Playing
<1>13. PoweredOK'
  BY <1>1, <1>6, <1>11 DEF Inv, PoweredOK
<1>14. WindowOK'
  <2>1. ASSUME NEW u \in Territory, ~Over PROVE InTime(u)'
    <3>1. InTime(u)
      BY <1>1, <2>1 DEF Inv, WindowOK
    <3> QED BY <1>5, <1>6, <1>8, <3>1, StaysInTime DEF Follows
  <2> QED BY <1>6, <1>7, <2>1 DEF WindowOK
<1> QED BY <1>9, <1>10, <1>12, <1>13, <1>14 DEF Inv

LEMMA QuietStepsInv ==
  ASSUME Inv, ResultsRecorded \/ Done \/ AgentsEnd \/ UNCHANGED vars
  PROVE  Inv'
<1>1. UNCHANGED <<referee, downtime, clock, elapsed, turn, powered>>
  BY DEF ResultsRecorded, Done, AgentsEnd, NoCall, vars
<1>2. \/ pc' = pc
      \/ pc = "record" /\ pc' = "loop"
      \/ pc = "loop" /\ pc' = "done"
  BY DEF ResultsRecorded, Done, AgentsEnd, NoCall, vars
<1>3. TypeOK'
  BY <1>1, <1>2 DEF Inv, TypeOK, Phases
<1>4. PoweredOK'
  BY <1>1, <1>2 DEF Inv, PoweredOK
<1>5. WindowOK'
  BY <1>1, <1>2 DEF Inv, WindowOK, InTime, Over
<1>6. DowntimeOK'
  BY <1>1 DEF Inv, DowntimeOK
<1>7. MatchOK'
  BY <1>1, <1>2 DEF Inv, MatchOK, Over, Playing
<1> QED BY <1>3, <1>4, <1>5, <1>6, <1>7 DEF Inv

LEMMA NextInv == Inv /\ [Next]_vars => Inv'
<1> SUFFICES ASSUME Inv, [Next]_vars PROVE Inv'
  OBVIOUS
<1>1. CASE Boot
  BY <1>1, BootInv
<1>2. CASE Round
  BY <1>2, RoundInv
<1>3. CASE Interrupt
  BY <1>3, InterruptInv
<1>4. ASSUME NEW healthy \in BOOLEAN, Probe(healthy) PROVE Inv'
  BY <1>4, ProbeInv
<1>5. CASE PowerOff
  BY <1>5, PowerOffInv
<1>6. CASE ProbesDone
  BY <1>6, ProbesDoneInv
<1>7. CASE RecordResult
  BY <1>7, RecordResultInv
<1>8. CASE ResultsRecorded \/ Done \/ AgentsEnd \/ Stopped \/ UNCHANGED vars
  BY <1>8, QuietStepsInv DEF Stopped
<1> QED BY <1>1, <1>2, <1>3, <1>4, <1>5, <1>6, <1>7, <1>8 DEF Next, Runner

(* The strengthening that all the properties follow from.                  *)
THEOREM InvHolds == Spec => []Inv
BY InitInv, NextInv, PTL DEF Spec

(* Whatever the agents, the probes and the clock do, the downtime that the *)
(* referee ranks by is the time that the territory really was down.        *)
THEOREM DowntimeIsAccountedHolds == Spec => []DowntimeIsAccounted
<1>1. Inv => DowntimeIsAccounted
  BY DEF Inv, DowntimeOK, Tracked, DowntimeIsAccounted, Accrued
<1> QED BY <1>1, InvHolds, PTL

(* Between two rounds exactly the territories that are in the match are    *)
(* powered: nothing that a tick eliminates stays up, since a tick          *)
(* eliminates nobody.                                                      *)
THEOREM EliminatedArePoweredOffHolds == Spec => []EliminatedArePoweredOff
<1>1. Inv => EliminatedArePoweredOff
  BY DEF Inv, PoweredOK, EliminatedArePoweredOff
<1> QED BY <1>1, InvHolds, PTL

(* A territory is eliminated after a whole recovery window of downtime and *)
(* not before, and then no later than the end of the round.                *)
THEOREM WindowDecidesHolds == Spec => []WindowDecides
<1>1. Inv => WindowDecides
  <2> SUFFICES ASSUME Inv, NEW t \in Territory
               PROVE  LET since == downtime[t].since
                          down == since # None /\ referee.lastTime - since >= Window
                      IN /\ referee.territories[t].state = "eliminated" => down
                         /\ pc = "loop" /\ ~Over /\ down
                              => referee.territories[t].state = "eliminated"
    BY DEF WindowDecides
  <2> DEFINE c == referee.territories[t]
             d == downtime[t]
  <2>1. Tracked(c, d, referee.lastTime) /\ referee.lastTime \in Nat
    BY DEF Inv, DowntimeOK, TypeOK, IsReferee
  <2>2. c.state = "eliminated" => d.since # None /\ referee.lastTime - d.since >= Window
    BY <2>1, NoneIsNothing DEF Tracked
  <2>3. ASSUME pc = "loop", ~Over, d.since # None, referee.lastTime - d.since >= Window
        PROVE  c.state = "eliminated"
    <3>1. Down(c) => c.deadline > elapsed /\ d.since \in Nat /\ c.deadline = d.since + Window
      BY <2>1, <2>3 DEF Inv, WindowOK, InTime, Tracked
    <3>2. referee.lastTime <= elapsed /\ elapsed \in Nat
      BY <2>3 DEF Inv, MatchOK, TypeOK, Playing
    <3>3. Window \in Nat
      BY ConquestConstants
    <3>4. ~Down(c)
      BY <2>1, <2>3, <3>1, <3>2, <3>3
    <3>5. c.state \in States /\ c.state \notin {"provisioning", "healthy"}
      BY <2>1, <2>3 DEF Tracked, Timely, Records
    <3> QED BY <3>4, <3>5 DEF States, Down
  <2> QED BY <2>2, <2>3
<1> QED BY <1>1, InvHolds, PTL

LEMMA WinnerFacts ==
  ASSUME NEW c \in [Territory -> Records]
  PROVE  /\ Winner(c) # None =>
              /\ Leads(c, Territory, Winner(c)) /\ c[Winner(c)].state # "eliminated"
         /\ \A x \in Territory : Active(c) = {x} => Winner(c) = x
<1> DEFINE leader == FirstOf(c, Territory)
           runnerUp == FirstOf(c, Territory \ {leader})
<1>1. Winner(c) = IF c[leader].state = "eliminated" \/ Tied(c, leader, runnerUp)
                  THEN None ELSE leader
  BY DEF Winner
<1>2. Territory # {} /\ \A t \in Territory : Territory \ {t} # {}
  <2>1. /\ Ids[1] \in Territory /\ Ids[2] \in Territory /\ Ids[1] # Ids[2]
    BY IdsAre
  <2> QED BY <2>1
<1>3. Leads(c, Territory, leader) /\ leader \in Territory
  BY <1>2, LeaderOf DEF Leads
<1>4. Leads(c, Territory \ {leader}, runnerUp)
  <2>1. Territory \ {leader} \in SUBSET Territory /\ Territory \ {leader} # {}
    BY <1>2, <1>3
  <2> QED BY <2>1, LeaderOf
<1> HIDE DEF leader, runnerUp
<1>5. ASSUME NEW x \in Territory, Active(c) = {x} PROVE Winner(c) = x
  <2>1. \A t \in Territory : c[t].state = "eliminated" <=> t # x
    BY <1>5 DEF Active
  <2>2. leader = x
    <3>1. SUFFICES ASSUME leader # x PROVE FALSE
      OBVIOUS
    <3>2. SortsBefore(c, leader, x)
      BY <1>3, <3>1 DEF Leads
    <3>3. Precedes(c[leader], leader, c[x], x)
      BY <1>3, <3>2, SortsBeforeIs
    <3> QED BY <1>3, <2>1, <3>1, <3>3 DEF Precedes
  <2>3. runnerUp \in Territory /\ runnerUp # leader
    BY <1>4 DEF Leads
  <2>4. ~Tied(c, leader, runnerUp)
    BY <2>1, <2>2, <2>3 DEF Tied
  <2> QED BY <1>1, <2>1, <2>2, <2>4
<1> QED BY <1>1, <1>3, <1>5

(* The winner of the match is still in it and nobody in it did better, and *)
(* when one territory is left the match is over and that one has won.      *)
THEOREM WinnerIsUnbeatenHolds == Spec => []WinnerIsUnbeaten
<1>1. Inv => WinnerIsUnbeaten
  <2> SUFFICES ASSUME Inv PROVE WinnerIsUnbeaten
    OBVIOUS
  <2> DEFINE c == referee.territories
             active == Active(c)
             w == IF Over THEN referee.outcome.winner ELSE None
  <2>1. c \in [Territory -> Records]
    BY DEF Inv, TypeOK, IsReferee
  <2>2. Over => w = Winner(c)
    BY DEF Inv, MatchOK
  <2>3. ASSUME w # None PROVE w \in active /\ ~\E u \in active : Better(u, w)
    <3>1. w = Winner(c)
      BY <2>2, <2>3
    <3>2. Leads(c, Territory, w) /\ c[w].state # "eliminated" /\ w \in Territory
      BY <2>1, <2>3, <3>1, WinnerFacts DEF Leads
    <3> HIDE DEF w
    <3>3. ASSUME NEW u \in active, Better(u, w) PROVE FALSE
      <4>1. u \in Territory /\ c[u].state # "eliminated"
        BY DEF Active
      <4>2. /\ c[w].uptime \in Nat /\ c[w].resources \in Nat /\ c[w].degraded \in Nat
            /\ c[u].uptime \in Nat /\ c[u].resources \in Nat /\ c[u].degraded \in Nat
        BY <2>1, <3>2, <4>1 DEF Records
      <4>3. u # w
        BY <3>3, <4>2 DEF Better
      <4>4. Precedes(c[w], w, c[u], u)
        BY <2>1, <3>2, <4>1, <4>3, SortsBeforeIs DEF Leads
      <4> QED BY <3>2, <3>3, <4>1, <4>2, <4>4 DEF Precedes, Better
    <3> QED BY <3>2, <3>3 DEF Active
  <2>4. ASSUME Cardinality(active) = 1 PROVE active = {w}
    <3>1. Over
      BY <2>4 DEF Inv, MatchOK, LastStanding
    <3>2. PICK x : active = {x}
      BY <2>4, ActiveFacts, FS_Singleton
    <3>3. x \in Territory
      BY <3>2 DEF Active
    <3>4. Winner(c) = x
      BY <2>1, <3>2, <3>3, WinnerFacts
    <3> QED BY <2>2, <3>1, <3>2, <3>4
  <2> QED BY <2>3, <2>4 DEF WinnerIsUnbeaten
<1> QED BY <1>1, InvHolds, PTL
=============================================================================
