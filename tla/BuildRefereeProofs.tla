------------------------- MODULE BuildRefereeProofs -------------------------
(***************************************************************************)
(* What holds of the build referee for every set of competitors, every     *)
(* contract and every order of calls.  The inductive invariant is TypeOK,  *)
(* the agreement of the durable fields, and that nothing has been earned   *)
(* before start: without the last conjunct, start (which sets every state  *)
(* to building) could hide a durable competitor.                           *)
(***************************************************************************)
EXTENDS BuildReferee, FiniteSetTheorems, WellFoundedInduction, TLAPS

(* Nothing is earned while the match is being prepared. *)
Fresh ==
  matchState = "preparing" => \A t \in Territory : competitors[t].passed = {}

Inv == TypeOK /\ Fresh /\ DurableAgrees /\ FirstDurableWins

-----------------------------------------------------------------------------
(* A record that earns a milestone is still a competitor record. *)
LEMMA CreditType ==
  ASSUME NEW record \in CompetitorRecord, NEW m \in Milestone,
         NEW points \in 0..MaxPoints, NEW time \in Nat
  PROVE  Credit(record, m, points, time) \in CompetitorRecord
BY RefereeConstants, SMT DEF Credit, CompetitorRecord, SaturatingAdd

(* finish_inner names a competitor or nobody. *)
LEMMA WinnerType ==
  ASSUME NEW c
  PROVE  Winner(c) \in Territory \cup {None}
<1> DEFINE clear == {t \in Territory :
                       /\ FirstOf(c, t, Territory)
                       /\ \A u \in Territory \ {t} :
                            FirstOf(c, u, Territory \ {t}) => ~Tied(c, t, u)}
<1>1. clear \subseteq Territory
  OBVIOUS
<1>2. Winner(c) = IF clear = {} THEN None ELSE CHOOSE t \in clear : TRUE
  BY DEF Winner
<1> HIDE DEF clear
<1>3. clear # {} => (CHOOSE t \in clear : TRUE) \in clear
  OBVIOUS
<1> QED
  BY <1>1, <1>2, <1>3

(* The only durable competitor sorts first, ties with nobody, and wins. *)
LEMMA OnlyDurableWins ==
  ASSUME NEW c \in [Territory -> CompetitorRecord],
         NEW t \in Territory,
         c[t].durableAt # None,
         \A u \in Territory \ {t} : c[u].durableAt = None
  PROVE  Winner(c) = t
<1> DEFINE clear == {x \in Territory :
                       /\ FirstOf(c, x, Territory)
                       /\ \A u \in Territory \ {x} :
                            FirstOf(c, u, Territory \ {x}) => ~Tied(c, x, u)}
<1>1. FirstOf(c, t, Territory)
  BY DEF FirstOf, SortsBefore
<1>2. \A u \in Territory \ {t} : ~Tied(c, t, u)
  BY DEF Tied
<1>3. \A x \in Territory \ {t} : ~SortsBefore(c, x, t)
  BY DEF SortsBefore, Tied
<1>4. \A x \in Territory \ {t} : ~FirstOf(c, x, Territory)
  BY <1>3 DEF FirstOf
<1>5. clear = {t}
  BY <1>1, <1>2, <1>4
<1>6. Winner(c) = IF clear = {} THEN None ELSE CHOOSE x \in clear : TRUE
  BY DEF Winner
<1> HIDE DEF clear
<1> QED
  BY <1>5, <1>6

-----------------------------------------------------------------------------
(* The invariant holds at from_manifest. *)
LEMMA InvInit == Init => Inv
<1> SUFFICES ASSUME Init PROVE Inv
  OBVIOUS
<1>1. TypeOK
  BY RefereeConstants DEF Init, TypeOK, MatchStates, Replies, CompetitorRecord
<1>2. \A t \in Territory : /\ competitors[t].passed = {}
                           /\ competitors[t].state = "preparing"
                           /\ competitors[t].durableAt = None
  BY DEF Init
<1> QED
  BY <1>1, <1>2 DEF Inv, Fresh, DurableAgrees, FirstDurableWins

(* A call that changes neither match nor competitors nor outcome keeps the *)
(* invariant, wherever it moves the clock.                                 *)
LEMMA InvQuiet ==
  ASSUME Inv, UNCHANGED <<matchState, competitors, outcome>>,
         sequence' \in Nat, lastTime' \in Nat, lastTime' >= lastTime,
         reply' \in Replies
  PROVE  Inv'
<1>1. TypeOK'
  BY DEF Inv, TypeOK
<1>2. DurableAgrees'
  BY RefereeConstants DEF Inv, TypeOK, DurableAgrees, CompetitorRecord
<1> QED
  BY <1>1, <1>2 DEF Inv, Fresh, FirstDurableWins

LEMMA InvRefused ==
  ASSUME Inv, NEW time \in Nat, Refused(time)
  PROVE  Inv'
BY InvQuiet DEF Inv, TypeOK, Refused, Replies

LEMMA InvUnknown ==
  ASSUME Inv, NEW t, NEW time \in Nat, UnknownTerritory(t, time)
  PROVE  Inv'
BY InvQuiet DEF Inv, TypeOK, UnknownTerritory, Accepts, Replies

(* The lengths of the event lists pass_milestone puts together. *)
LEMMA TwoMoreEvents ==
  ASSUME NEW s, s = <<>> \/ \E x, y : s = <<x, y>>
  PROVE  \E S : s \in Seq(S)
<1>1. CASE s = <<>>
  BY <1>1
<1>2. ASSUME NEW x, NEW y, s = <<x, y>> PROVE s \in Seq({x, y})
  BY <1>2
<1> QED
  BY <1>1, <1>2

LEMMA ThreeParts ==
  ASSUME NEW a, NEW s1, NEW s2, \E S : s1 \in Seq(S), \E S : s2 \in Seq(S)
  PROVE  Len(<<a>> \o s1 \o s2) \in Nat
<1>1. PICK S1 : s1 \in Seq(S1)
  OBVIOUS
<1>2. PICK S2 : s2 \in Seq(S2)
  OBVIOUS
<1> DEFINE S == {a} \cup S1 \cup S2
<1>3. <<a>> \in Seq(S) /\ s1 \in Seq(S) /\ s2 \in Seq(S)
  BY <1>1, <1>2
<1> HIDE DEF S
<1> QED
  BY <1>3

LEMMA InvStart ==
  ASSUME Inv, Start
  PROVE  Inv'
<1>1. CASE matchState # "preparing"
  BY <1>1, InvQuiet DEF Start, Inv, TypeOK, Replies
<1>2. CASE matchState = "preparing"
  <2>1. /\ matchState' = "running"
        /\ competitors' = [t \in Territory |-> [competitors[t] EXCEPT !.state = "building"]]
        /\ outcome' = outcome
        /\ lastTime' = lastTime
        /\ reply' = "ok"
    BY <1>2 DEF Start, Emit
  <2>2. sequence' \in Nat
    <3> DEFINE evs == <<MatchStateChanged("preparing", "running")>> \o
                        [i \in 1..Len(Ids) |->
                           CompetitorStateChanged(Ids[i], "preparing", "building")]
    <3>1. sequence' = sequence + Len(evs)
      BY <1>2 DEF Start, Emit
    <3>2. Len(evs) = 1 + Len(Ids)
      BY RefereeConstants
    <3> QED
      BY <3>1, <3>2, RefereeConstants DEF Inv, TypeOK
  <2>3. \A t \in Territory : /\ competitors'[t] \in CompetitorRecord
                             /\ competitors'[t].passed = {}
                             /\ competitors'[t].state = "building"
                             /\ competitors'[t].durableAt = None
    BY <1>2, <2>1, RefereeConstants
       DEF Inv, TypeOK, Fresh, DurableAgrees, CompetitorRecord
  <2>4. TypeOK'
    BY <2>1, <2>2, <2>3 DEF Inv, TypeOK, MatchStates, Replies
  <2> QED
    BY <2>1, <2>3, <2>4 DEF Inv, Fresh, DurableAgrees, FirstDurableWins
<1> QED
  BY <1>1, <1>2

LEMMA InvBegin ==
  ASSUME Inv, NEW t, NEW m \in Milestone, NEW time \in Nat,
         BeginMilestone(t, m, time)
  PROVE  Inv'
<1>1. CASE Refused(time)
  BY <1>1, InvRefused
<1>2. CASE UnknownTerritory(t, time)
  BY <1>2, InvUnknown
<1>3. CASE Accepts(time) /\ t \in Territory /\ ~Refused(time) /\ ~UnknownTerritory(t, time)
  <2>1. /\ matchState' = matchState /\ outcome' = outcome
        /\ matchState = "running"
        /\ lastTime' = time /\ time >= lastTime /\ reply' = "ok"
        /\ competitors' = IF competitors[t].state = "building"
                          THEN [competitors EXCEPT ![t].state = "verifying"]
                          ELSE competitors
    BY <1>3 DEF BeginMilestone, Emit, Accepts
  <2>2. sequence' \in Nat
    BY <1>3 DEF BeginMilestone, Emit, Inv, TypeOK, EvaluationStarted,
                CompetitorStateChanged
  <2>3. \A u \in Territory :
          /\ competitors'[u] \in CompetitorRecord
          /\ competitors'[u].passed = competitors[u].passed
          /\ competitors'[u].durableAt = competitors[u].durableAt
          /\ (competitors'[u].state = "durable") <=> (competitors[u].state = "durable")
    BY <1>3, <2>1 DEF Inv, TypeOK, CompetitorRecord
  <2>4. competitors' \in [Territory -> CompetitorRecord]
    BY <2>1, <2>3 DEF Inv, TypeOK
  <2>5. TypeOK'
    BY <2>1, <2>2, <2>4 DEF Inv, TypeOK, MatchStates, Replies
  <2>6. DurableAgrees'
    BY <2>1, <2>3, RefereeConstants DEF Inv, TypeOK, DurableAgrees, CompetitorRecord
  <2> QED
    BY <2>1, <2>3, <2>5, <2>6 DEF Inv, Fresh, FirstDurableWins
<1> QED
  BY <1>1, <1>2, <1>3 DEF BeginMilestone

LEMMA InvPass ==
  ASSUME Inv, NEW t, NEW m \in Milestone, NEW points \in 0..MaxPoints,
         NEW time \in Nat, PassMilestone(t, m, points, time)
  PROVE  Inv'
<1>1. CASE Refused(time)
  BY <1>1, InvRefused
<1>2. CASE UnknownTerritory(t, time)
  BY <1>2, InvUnknown
<1>3. CASE /\ Accepts(time) /\ t \in Territory /\ m \in competitors[t].passed
           /\ Emit(<<>>, time) /\ UNCHANGED <<matchState, competitors, outcome>>
  BY <1>3, InvQuiet DEF Emit, Accepts, Inv, TypeOK, Replies
<1>4. CASE /\ Accepts(time) /\ t \in Territory /\ m \notin competitors[t].passed
           /\ ~Refused(time) /\ ~UnknownTerritory(t, time)
  <2> DEFINE after   == [competitors EXCEPT ![t] = Credit(competitors[t], m, points, time)]
             ends    == m = Completion /\ StopOnFirstDurable
             durable == IF m = Completion
                        THEN <<CompetitorStateChanged(t, "verifying", "durable"),
                               DurableCompleted(t, time)>>
                        ELSE <<>>
             tail    == IF ends THEN FinishEvents(Winner(after)) ELSE <<>>
  <2>1. /\ competitors' = after
        /\ matchState' = IF ends THEN "finished" ELSE matchState
        /\ outcome' = IF ends THEN [winner |-> Winner(after)] ELSE outcome
        /\ matchState = "running"
        /\ lastTime' = time /\ time >= lastTime /\ reply' = "ok"
        /\ sequence' = sequence +
             Len(<<MilestonePassed(t, m, points)>> \o durable \o tail)
    BY <1>4 DEF PassMilestone, Emit, Accepts
  <2>2. sequence' \in Nat
    <3>1. /\ durable = <<>> \/ \E x, y : durable = <<x, y>>
          /\ tail = <<>> \/ \E x, y : tail = <<x, y>>
      BY DEF FinishEvents
    <3> HIDE DEF durable, tail
    <3> QED
      BY <2>1, <3>1, TwoMoreEvents, ThreeParts DEF Inv, TypeOK
  <2>3. competitors' \in [Territory -> CompetitorRecord]
    <3>1. Credit(competitors[t], m, points, time) \in CompetitorRecord
      BY <1>4, CreditType DEF Inv, TypeOK
    <3> QED
      BY <2>1, <3>1 DEF Inv, TypeOK
  <2>4. TypeOK'
    BY <2>1, <2>2, <2>3, WinnerType DEF Inv, TypeOK, MatchStates, Replies, Outcome
  <2>5. /\ \A u \in Territory \ {t} : competitors'[u] = competitors[u]
        /\ competitors'[t] = Credit(competitors[t], m, points, time)
    BY <1>4, <2>1 DEF Inv, TypeOK
  <2>6. /\ competitors'[t].passed = competitors[t].passed \cup {m}
        /\ competitors'[t].state = IF m = Completion THEN "durable"
                                   ELSE competitors[t].state
        /\ competitors'[t].durableAt = IF m = Completion THEN time
                                       ELSE competitors[t].durableAt
    BY <2>5 DEF Credit
  <2>7. \A u \in Territory :
          competitors[u].durableAt # None => competitors[u].durableAt <= time
    BY <2>1, RefereeConstants DEF Inv, TypeOK, DurableAgrees, CompetitorRecord
  <2>8. DurableAgrees'
    BY <1>4, <2>1, <2>5, <2>6, <2>7, RefereeConstants DEF Inv, DurableAgrees
  <2>9. FirstDurableWins'
    <3> SUFFICES ASSUME StopOnFirstDurable, NEW u \in Territory,
                        competitors'[u].state = "durable"
                 PROVE  /\ matchState' = "finished" /\ outcome' = [winner |-> u]
                        /\ \A v \in Territory : competitors'[v].state = "durable" => v = u
      BY DEF FirstDurableWins
    <3>1. \A v \in Territory : competitors[v].state # "durable"
      BY <2>1 DEF Inv, FirstDurableWins
    <3>2. u = t /\ m = Completion
      BY <2>5, <2>6, <3>1
    <3>3. \A v \in Territory : competitors'[v].state = "durable" => v = t
      BY <2>5, <3>1
    <3>4. \A v \in Territory \ {t} : competitors'[v].durableAt = None
      BY <2>5, <3>1 DEF Inv, DurableAgrees
    <3>5. competitors'[t].durableAt # None
      BY <2>6, <3>2, RefereeConstants
    <3>6. Winner(competitors') = t
      BY <1>4, <2>3, <3>4, <3>5, OnlyDurableWins
    <3> QED
      BY <2>1, <3>2, <3>3, <3>6
  <2>10. Fresh'
    BY <2>1 DEF Fresh
  <2> QED
    BY <2>4, <2>8, <2>9, <2>10 DEF Inv
<1> QED
  BY <1>1, <1>2, <1>3, <1>4 DEF PassMilestone

LEMMA InvFail ==
  ASSUME Inv, NEW t, NEW m \in Milestone, NEW time \in Nat,
         FailMilestone(t, m, time)
  PROVE  Inv'
<1>1. CASE Refused(time)
  BY <1>1, InvRefused
<1>2. CASE UnknownTerritory(t, time)
  BY <1>2, InvUnknown
<1>3. CASE Accepts(time) /\ Emit(<<MilestoneFailed(t, m)>>, time)
           /\ UNCHANGED <<matchState, competitors, outcome>>
  BY <1>3, InvQuiet DEF Emit, Accepts, Inv, TypeOK, Replies
<1> QED
  BY <1>1, <1>2, <1>3 DEF FailMilestone

LEMMA InvRecord ==
  ASSUME Inv, NEW event, NEW time \in Nat, Record(<<event>>, time)
  PROVE  Inv'
<1>1. CASE time < lastTime
  BY <1>1, InvQuiet DEF Record, Inv, TypeOK, Replies
<1>2. CASE time >= lastTime
  BY <1>2, InvQuiet DEF Record, Emit, Inv, TypeOK, Replies
<1> QED
  BY <1>1, <1>2 DEF Inv, TypeOK

LEMMA InvFinish ==
  ASSUME Inv, NEW time \in Nat, Finish(time)
  PROVE  Inv'
<1>1. CASE Refused(time)
  BY <1>1, InvRefused
<1>2. CASE ~Refused(time)
  <2>1. /\ matchState = "running" /\ matchState' = "finished"
        /\ outcome' = [winner |-> Winner(competitors)]
        /\ competitors' = competitors
        /\ lastTime' = time /\ time >= lastTime /\ reply' = "ok"
        /\ sequence' = sequence + 2
    BY <1>2 DEF Finish, Emit, Accepts, FinishEvents
  <2>2. TypeOK'
    BY <2>1, WinnerType DEF Inv, TypeOK, MatchStates, Replies, Outcome
  <2>3. DurableAgrees'
    BY <2>1, RefereeConstants DEF Inv, TypeOK, DurableAgrees, CompetitorRecord
  <2>4. StopOnFirstDurable => \A t \in Territory : competitors[t].state # "durable"
    BY <2>1 DEF Inv, FirstDurableWins
  <2> QED
    BY <2>1, <2>2, <2>3, <2>4 DEF Inv, Fresh, FirstDurableWins
<1> QED
  BY <1>1, <1>2

LEMMA InvAbort ==
  ASSUME Inv, NEW time \in Nat, Abort(time)
  PROVE  Inv'
<1>1. CASE Refused(time)
  BY <1>1, InvRefused
<1>2. CASE ~Refused(time)
  <2>1. /\ matchState = "running" /\ matchState' = "aborted"
        /\ outcome' = outcome
        /\ competitors' = competitors
        /\ lastTime' = time /\ time >= lastTime /\ reply' = "ok"
        /\ sequence' = sequence + 2
    BY <1>2 DEF Abort, Emit, Accepts
  <2>2. TypeOK'
    BY <2>1 DEF Inv, TypeOK, MatchStates, Replies
  <2>3. DurableAgrees'
    BY <2>1, RefereeConstants DEF Inv, TypeOK, DurableAgrees, CompetitorRecord
  <2>4. StopOnFirstDurable => \A t \in Territory : competitors[t].state # "durable"
    BY <2>1 DEF Inv, FirstDurableWins
  <2> QED
    BY <2>1, <2>2, <2>3, <2>4 DEF Inv, Fresh, FirstDurableWins
<1> QED
  BY <1>1, <1>2

-----------------------------------------------------------------------------
(* Every call keeps the invariant. *)
LEMMA InvNext == Inv /\ [Next]_vars => Inv'
<1> SUFFICES ASSUME Inv, [Next]_vars PROVE Inv'
  OBVIOUS
<1>1. CASE UNCHANGED vars
  BY <1>1, InvQuiet DEF vars, Inv, TypeOK
<1>2. CASE Start
  BY <1>2, InvStart
<1>3. ASSUME NEW time \in 0..MaxTime,
             Record(<<[kind |-> "recorded"]>>, time) \/ Finish(time) \/ Abort(time)
      PROVE  Inv'
  BY <1>3, InvRecord, InvFinish, InvAbort, RefereeConstants
<1>4. ASSUME NEW time \in 0..MaxTime, NEW t \in Named, NEW m \in Milestone,
             BeginMilestone(t, m, time) \/ PassMilestone(t, m, Points[m], time)
               \/ FailMilestone(t, m, time)
      PROVE  Inv'
  <2>1. time \in Nat /\ Points[m] \in 0..MaxPoints
    BY <1>4, RefereeConstants
  <2> QED
    BY <1>4, <2>1, InvBegin, InvPass, InvFail
<1> QED
  BY <1>1, <1>2, <1>3, <1>4 DEF Next

LEMMA Invariance == Spec => []Inv
<1> QED
  BY InvInit, InvNext, PTL DEF Spec

(* The fields of BuildReferee keep their types: in particular the points   *)
(* stay within u64 and a durable time is a time of the match.              *)
THEOREM TypeCorrect == Spec => []TypeOK
BY Invariance, PTL DEF Inv

(* State, durable time and passed set of a competitor always agree on      *)
(* whether it is durable (pass_milestone).                                 *)
THEOREM DurableAgreement == Spec => []DurableAgrees
BY Invariance, PTL DEF Inv

(* With stop_on_first_durable the first durable competitor wins, alone,    *)
(* and no later finish or abort can take the win away.                     *)
THEOREM FirstDurableIsWinner == Spec => []FirstDurableWins
BY Invariance, PTL DEF Inv

-----------------------------------------------------------------------------
(* What one call may do to match, competitors and outcome together.        *)
LEMMA ResultStep ==
  ASSUME [Next]_vars
  PROVE  \/ UNCHANGED <<matchState, competitors, outcome>>
         \/ /\ matchState = "preparing" /\ matchState' = "running"
            /\ outcome' = outcome
         \/ /\ matchState = "running" /\ matchState' = "running"
            /\ outcome' = outcome
         \/ /\ matchState = "running" /\ matchState' = "finished"
            /\ outcome' = [winner |-> Winner(competitors')]
         \/ /\ matchState = "running" /\ matchState' = "aborted"
            /\ UNCHANGED <<competitors, outcome>>
<1> DEFINE Goal == \/ UNCHANGED <<matchState, competitors, outcome>>
                   \/ /\ matchState = "preparing" /\ matchState' = "running"
                      /\ outcome' = outcome
                   \/ /\ matchState = "running" /\ matchState' = "running"
                      /\ outcome' = outcome
                   \/ /\ matchState = "running" /\ matchState' = "finished"
                      /\ outcome' = [winner |-> Winner(competitors')]
                   \/ /\ matchState = "running" /\ matchState' = "aborted"
                      /\ UNCHANGED <<competitors, outcome>>
<1>1. CASE UNCHANGED vars
  BY <1>1 DEF vars
<1>2. CASE Start
  BY <1>2 DEF Start
<1>3. ASSUME NEW time, Record(<<[kind |-> "recorded"]>>, time) PROVE Goal
  BY <1>3 DEF Record
<1>4. ASSUME NEW time, Finish(time) PROVE Goal
  BY <1>4 DEF Finish, Refused, Accepts
<1>5. ASSUME NEW time, Abort(time) PROVE Goal
  BY <1>5 DEF Abort, Refused, Accepts
<1>6. ASSUME NEW t, NEW m, NEW time, BeginMilestone(t, m, time) PROVE Goal
  BY <1>6 DEF BeginMilestone, Refused, UnknownTerritory, Accepts
<1>7. ASSUME NEW t, NEW m, NEW time, FailMilestone(t, m, time) PROVE Goal
  BY <1>7 DEF FailMilestone, Refused, UnknownTerritory, Accepts
<1>8. ASSUME NEW t, NEW m, NEW time, PassMilestone(t, m, Points[m], time) PROVE Goal
  BY <1>8 DEF PassMilestone, Refused, UnknownTerritory, Accepts
<1> QED
  BY <1>1, <1>2, <1>3, <1>4, <1>5, <1>6, <1>7, <1>8 DEF Next

(* After the end nothing of the result moves, whatever the runner still    *)
(* calls or records.                                                       *)
THEOREM ResultFrozen == Spec => FrozenAfterEnd
<1>1. [Next]_vars => [(matchState \in {"finished", "aborted"}) =>
                        UNCHANGED <<matchState, competitors, outcome>>]_vars
  BY ResultStep
<1> QED
  BY <1>1, PTL DEF Spec, FrozenAfterEnd

-----------------------------------------------------------------------------
(* The sort of finish_inner has a first element: every nonempty set of     *)
(* numbers has a least one, taken key by key.                              *)
LEMMA LeastNat ==
  ASSUME NEW T, T \subseteq Nat, T # {}
  PROVE  \E n \in T : \A k \in T : n <= k
<1> DEFINE R == OpToRel(<, Nat)
<1>1. IsWellFoundedOn(R, Nat)
  BY NatLessThanWellFounded
<1>2. \A x, y \in Nat : x < y => <<x, y>> \in R
  BY DEF OpToRel
<1> HIDE DEF R
<1>3. PICK n \in T : \A k \in T : ~(<<k, n>> \in R)
  BY <1>1, WFMin
<1>4. \A k \in T : ~(k < n)
  BY <1>2, <1>3
<1> QED
  BY <1>4

LEMMA PassedCount ==
  ASSUME NEW c \in [Territory -> CompetitorRecord], NEW t \in Territory
  PROVE  Passed(c, t) \in 0..Cardinality(Milestone)
<1>1. c[t].passed \in SUBSET Milestone
  BY DEF CompetitorRecord
<1> QED
  BY <1>1, RefereeConstants, FS_Subset, FS_CardinalityType DEF Passed

(* Narrow a set of competitors key by key; whoever is left sorts first. *)
LEMMA FirstExists ==
  ASSUME NEW c \in [Territory -> CompetitorRecord],
         NEW S \in SUBSET Territory, S # {}
  PROVE  \E t \in S : FirstOf(c, t, S)
<1> DEFINE N    == Cardinality(Milestone)
           D    == {c[x].durableAt : x \in S} \ {None}
<1>1. N \in Nat /\ S \subseteq Nat
  BY RefereeConstants, FS_CardinalityType DEF Territory
<1>2. \A x \in S : /\ c[x].durableAt \in Nat \cup {None}
                   /\ c[x].points \in 0..MaxPoints
                   /\ Passed(c, x) \in 0..N
  BY PassedCount DEF CompetitorRecord
<1>3. \E S1 \in SUBSET S :
         /\ S1 # {}
         /\ \A x, y \in S1 : c[x].durableAt = c[y].durableAt
         /\ \A x \in S1, u \in S \ S1 :
              /\ c[x].durableAt # None
              /\ c[u].durableAt # None => c[x].durableAt < c[u].durableAt
  <2>1. CASE D = {}
    <3>1. \A x \in S : c[x].durableAt = None
      BY <2>1
    <3> QED
      BY <3>1
  <2>2. CASE D # {}
    <3>1. D \subseteq Nat
      BY <1>2
    <3>2. PICK d \in D : \A e \in D : d <= e
      BY <2>2, <3>1, LeastNat
    <3> DEFINE S1 == {x \in S : c[x].durableAt = d}
    <3>3. S1 # {} /\ S1 \in SUBSET S
      OBVIOUS
    <3>4. \A u \in S \ S1 : c[u].durableAt # None => d < c[u].durableAt
      <4> SUFFICES ASSUME NEW u \in S \ S1, c[u].durableAt # None
                   PROVE  d < c[u].durableAt
        OBVIOUS
      <4>1. u \in S /\ c[u].durableAt # d
        OBVIOUS
      <4>2. c[u].durableAt \in D
        BY <4>1
      <4> QED
        BY <3>1, <3>2, <4>1, <4>2
    <3>5. d # None
      OBVIOUS
    <3>6. \A x \in S1 : c[x].durableAt = d
      OBVIOUS
    <3> HIDE DEF S1
    <3> QED
      BY <3>3, <3>4, <3>5, <3>6
  <2> QED
    BY <2>1, <2>2
<1>4. PICK S1 \in SUBSET S :
         /\ S1 # {}
         /\ \A x, y \in S1 : c[x].durableAt = c[y].durableAt
         /\ \A x \in S1, u \in S \ S1 :
              /\ c[x].durableAt # None
              /\ c[u].durableAt # None => c[x].durableAt < c[u].durableAt
  BY <1>3
<1>5. PICK p \in S1 : \A x \in S1 : c[p].points >= c[x].points
  <2> DEFINE P == {MaxPoints - c[x].points : x \in S1}
  <2>1. P \subseteq Nat /\ P # {}
    BY <1>2, <1>4, RefereeConstants
  <2>2. PICK n \in P : \A k \in P : n <= k
    BY <2>1, LeastNat
  <2>3. PICK p \in S1 : n = MaxPoints - c[p].points
    OBVIOUS
  <2>4. \A x \in S1 : MaxPoints - c[p].points <= MaxPoints - c[x].points
    BY <2>2, <2>3
  <2>5. \A x \in S1 : c[x].points \in 0..MaxPoints
    BY <1>2, <1>4
  <2>6. MaxPoints \in Nat
    BY RefereeConstants
  <2>7. \A x \in S1 : c[p].points >= c[x].points
    <3> SUFFICES ASSUME NEW x \in S1 PROVE c[p].points >= c[x].points
      OBVIOUS
    <3>1. c[x].points \in Int /\ c[p].points \in Int
      BY <2>5, <2>6
    <3>2. MaxPoints - c[p].points <= MaxPoints - c[x].points
      BY <2>4
    <3> QED
      BY <2>6, <3>1, <3>2
  <2> QED
    BY <2>7
<1> DEFINE S2 == {x \in S1 : c[x].points = c[p].points}
<1>6. PICK q \in S2 : \A x \in S2 : Passed(c, q) >= Passed(c, x)
  <2> DEFINE P == {N - Passed(c, x) : x \in S2}
  <2>1. P \subseteq Nat /\ P # {}
    BY <1>1, <1>2, <1>4
  <2> HIDE DEF N
  <2>2. PICK n \in P : \A k \in P : n <= k
    BY <2>1, LeastNat
  <2>3. PICK q \in S2 : n = N - Passed(c, q)
    OBVIOUS
  <2>4. \A x \in S2 : N - Passed(c, q) <= N - Passed(c, x)
    BY <2>2, <2>3
  <2>5. \A x \in S2 : Passed(c, x) \in 0..N
    BY <1>2
  <2> QED
    BY <1>1, <2>4, <2>5
<1> DEFINE S3 == {x \in S2 : Passed(c, x) = Passed(c, q)}
<1>7. PICK t \in S3 : \A x \in S3 : t <= x
  <2>1. S3 \subseteq Nat /\ S3 # {}
    BY <1>1
  <2> QED
    BY <2>1, LeastNat
<1>8. ASSUME NEW u \in S \ {t} PROVE SortsBefore(c, t, u)
  <2>1. t \in S1 /\ c[t].points = c[p].points /\ Passed(c, t) = Passed(c, q)
    OBVIOUS
  <2>2. CASE u \notin S1
    BY <1>4, <2>1, <2>2 DEF SortsBefore
  <2>3. CASE u \in S1 /\ u \notin S2
    <3>1. c[t].points > c[u].points
      BY <1>2, <1>5, <2>1, <2>3
    <3> QED
      BY <1>4, <2>1, <2>3, <3>1 DEF SortsBefore
  <2>4. CASE u \in S2 /\ u \notin S3
    <3>1. Passed(c, t) > Passed(c, u)
      BY <1>1, <1>2, <1>6, <2>1, <2>4
    <3> QED
      BY <1>4, <2>1, <2>4, <3>1 DEF SortsBefore
  <2>5. CASE u \in S3
    <3>1. t < u
      BY <1>1, <1>7, <2>5
    <3> QED
      BY <1>4, <2>1, <2>5, <3>1 DEF SortsBefore, Tied
  <2> QED
    BY <2>2, <2>3, <2>4, <2>5
<1> QED
  BY <1>8 DEF FirstOf

(* Of two competitors at most one is better than the other. *)
LEMMA BetterOneWay ==
  ASSUME NEW c \in [Territory -> CompetitorRecord],
         NEW t \in Territory, NEW u \in Territory, Better(c, t, u)
  PROVE  ~Better(c, u, t)
<1>1. \A x \in Territory : /\ c[x].durableAt \in Nat \cup {None}
                           /\ c[x].points \in Nat
  BY RefereeConstants DEF CompetitorRecord
<1>2. \A x \in Territory : Passed(c, x) \in Nat
  BY PassedCount, RefereeConstants, FS_CardinalityType
<1>3. None \notin Nat
  BY RefereeConstants
<1> QED
  BY <1>1, <1>2, <1>3 DEF Better

(* Comparing the leader with the runner-up alone is comparing it with      *)
(* every rival.                                                            *)
LEMMA WinnerIsBest ==
  ASSUME NEW c \in [Territory -> CompetitorRecord], NEW t \in Territory
  PROVE  Winner(c) = t <=> \A u \in Territory \ {t} : Better(c, t, u)
<1> DEFINE clear == {x \in Territory :
                       /\ FirstOf(c, x, Territory)
                       /\ \A u \in Territory \ {x} :
                            FirstOf(c, u, Territory \ {x}) => ~Tied(c, x, u)}
<1>1. \A x \in Territory : /\ c[x].durableAt \in Nat \cup {None}
                           /\ c[x].points \in Nat
                           /\ Passed(c, x) \in Nat
                           /\ x \in Nat
  <2>1. \A x \in Territory : x \in Nat
    BY RefereeConstants DEF Territory
  <2>2. \A x \in Territory : c[x].durableAt \in Nat \cup {None} /\ c[x].points \in Nat
    BY RefereeConstants DEF CompetitorRecord
  <2>3. Cardinality(Milestone) \in Nat
    BY RefereeConstants, FS_CardinalityType
  <2>4. \A x \in Territory : Passed(c, x) \in Nat
    BY <2>3, PassedCount
  <2> QED
    BY <2>1, <2>2, <2>4
<1>2. None \notin Nat
  BY RefereeConstants
<1>3. \A x, y \in Territory : x # y =>
        /\ Better(c, x, y) => SortsBefore(c, x, y) /\ ~Tied(c, x, y)
        /\ SortsBefore(c, x, y) /\ ~Tied(c, x, y) => Better(c, x, y)
        /\ SortsBefore(c, x, y) => ~SortsBefore(c, y, x)
  BY <1>1, <1>2 DEF Better, SortsBefore, Tied
<1>4. \A x, y, z \in Territory :
        SortsBefore(c, x, y) /\ SortsBefore(c, y, z) /\ Tied(c, x, z) => Tied(c, x, y)
  BY <1>1, <1>2 DEF SortsBefore, Tied
<1>5. Winner(c) = IF clear = {} THEN None ELSE CHOOSE x \in clear : TRUE
  BY DEF Winner
<1>6. ASSUME \A u \in Territory \ {t} : Better(c, t, u)
      PROVE  Winner(c) = t
  <2>1. t \in clear
    BY <1>3, <1>6 DEF FirstOf
  <2>2. \A x \in clear : x = t
    <3>1. \A x \in Territory \ {t} : ~SortsBefore(c, x, t)
      BY <1>3, <1>6
    <3> QED
      BY <3>1 DEF FirstOf
  <2>3. clear = {t}
    BY <2>1, <2>2
  <2> HIDE DEF clear
  <2> QED
    BY <1>5, <2>3
<1>7. ASSUME Winner(c) = t, NEW u \in Territory \ {t}
      PROVE  Better(c, t, u)
  <2>1. t \in clear
    <3>1. t # None
      BY <1>1, <1>2
    <3> HIDE DEF clear
    <3> QED
      BY <1>5, <1>7, <3>1
  <2>2. PICK r \in Territory \ {t} : FirstOf(c, r, Territory \ {t})
    BY FirstExists
  <2>3. ~Tied(c, t, r) /\ SortsBefore(c, t, r) /\ SortsBefore(c, t, u)
    BY <2>1, <2>2 DEF FirstOf
  <2>4. ~Tied(c, t, u)
    <3>1. CASE u = r
      BY <2>3, <3>1
    <3>2. CASE u # r
      BY <1>4, <2>2, <2>3, <3>2 DEF FirstOf
    <3> QED
      BY <3>1, <3>2
  <2> QED
    BY <1>3, <2>3, <2>4
<1>8. Winner(c) = t => \A u \in Territory \ {t} : Better(c, t, u)
  BY <1>7
<1> HIDE DEF clear
<1> QED
  BY <1>6, <1>8

(* Whoever is better than every rival wins, nobody wins whom a rival beats, *)
(* and no finisher wins beside an equal.                                   *)
THEOREM WinnerRule == Spec => []WinnerBeatsEveryRival
<1> DEFINE Ended == outcome # None => matchState = "finished"
           J     == Ended /\ WinnerBeatsEveryRival
<1>1. Init => J
  BY DEF Init, WinnerBeatsEveryRival
<1>2. TypeOK /\ TypeOK' /\ J /\ [Next]_vars => J'
  <2> SUFFICES ASSUME TypeOK, TypeOK', J, [Next]_vars PROVE J'
    OBVIOUS
  <2>1. CASE UNCHANGED <<matchState, competitors, outcome>>
    BY <2>1 DEF WinnerBeatsEveryRival, Better, Passed
  <2>2. CASE outcome' = outcome /\ matchState # "finished"
    BY <2>2 DEF WinnerBeatsEveryRival
  <2>3. CASE matchState' = "finished" /\ outcome' = [winner |-> Winner(competitors')]
    <3>1. \A t \in Territory :
            outcome'.winner = t <=> \A u \in Territory \ {t} : Better(competitors', t, u)
      BY <2>3, WinnerIsBest DEF TypeOK
    <3>2. \A t \in Territory :
            outcome'.winner = t => \A u \in Territory \ {t} : ~Better(competitors', u, t)
      BY <3>1, BetterOneWay DEF TypeOK
    <3> QED
      BY <2>3, <3>1, <3>2 DEF WinnerBeatsEveryRival
  <2> QED
    BY <2>1, <2>2, <2>3, ResultStep
<1>3. Spec => []TypeOK
  BY TypeCorrect
<1> QED
  BY <1>1, <1>2, <1>3, PTL DEF Spec
=============================================================================
